----------------------------- MODULE ArchiveLog -----------------------------
(***************************************************************************)
(* What an archive table promises about the periods of a meter's archive:  *)
(* it grows at its end, and a period that it has passed over is one the    *)
(* meter declared empty when it was asked for that very period.  (README:  *)
(* "For a non-empty table, it starts after the maximum stored timestamp".) *)
(***************************************************************************)
EXTENDS Integers

VARIABLES
  log,      \* the periods that have a row
  skipped   \* the periods the meter said it has no record of

Between(a, b) == (a + 1)..(b - 1)

Init == log = {} /\ skipped = {}

\* The meter has no record of period p.
Skip(p) ==
  /\ skipped' = skipped \cup {p}
  /\ log' = log

\* A row for p, which follows everything stored without leaving a gap.
Append(p) ==
  /\ \A q \in log : q < p
  /\ \A q \in log : Between(q, p) \subseteq log \cup skipped
  /\ log' = log \cup {p}
  /\ skipped' = skipped

\* The period is named by the state after the step, which leaves Next free of
\* a quantifier over all integers.
Next ==
  \/ \E p \in skipped' : Skip(p)
  \/ \E p \in log' : Append(p)

Spec == Init /\ [][Next]_<<log, skipped>>

TypeOK == log \subseteq Int /\ skipped \subseteq Int

\* Between two stored periods every period is stored or was declared empty.
NoGap == \A a, b \in log : Between(a, b) \subseteq log \cup skipped
=============================================================================
