---------------------------- MODULE MCRecordRead ----------------------------
(***************************************************************************)
(* RecordRead for TLC: one element of each kind, of the sizes the meter    *)
(* uses and of some it should not use.                                     *)
(***************************************************************************)
EXTENDS RecordRead

E(a, n) == [addr |-> a, size |-> n]

\* A temperature, a volume and a mass (signed, 2, 4 and 8 bytes), a flow the
\* archives do not have, a float of the wrong size, a letter, a text too long
\* for a chunk, counters, a float and an address the program does not know.
MCMaster ==
  << E(0, 2), E(3, 4), E(11, 8), E(19, 4), E(41, 2), E(77, 1),
     E(78, 12), E(79, 10), E(81, 4), E(90, 1) >>

\* One UTF-8 character of two bytes: the highest lead, the lowest continuation.
MCMultibyte == { <<Radix - 1, Radix \div 2>> }

\* Two chunks of different length.
MCTwoChunks == << E(0, 2), E(3, 4), E(77, 1) >>
=============================================================================
