---------------------------- MODULE Vkt7Exchange ----------------------------
(***************************************************************************)
(* What one request/response transaction with the meter promises to the    *)
(* layers above it.  The meter executes a request up to twice.  An         *)
(* answer means that it did and that it will not do so again; a failure    *)
(* means nothing: the meter may have executed the request, may not have,   *)
(* or may do so a little later.                                            *)
(***************************************************************************)
EXTENDS Naturals, Sequences

CONSTANT MaxRuns   \* executions of one request

VARIABLES
  busy,      \* is a transaction under way?
  runs,      \* how often each request was executed, the current one last
  verdict    \* the finished transactions: TRUE for an answer

exchange == <<busy, runs, verdict>>

Init == busy = FALSE /\ runs = <<>> /\ verdict = <<>>

Request == ~busy /\ busy' = TRUE /\ runs' = Append(runs, 0) /\ verdict' = verdict

\* Of a transaction that has ended, only a failed one may be executed late.
Execute ==
  \E r \in DOMAIN runs :
    /\ runs[r] < MaxRuns
    /\ r \in DOMAIN verdict => ~verdict[r]
    /\ runs' = [runs EXCEPT ![r] = @ + 1]
    /\ UNCHANGED <<busy, verdict>>

Answer ==
  /\ busy /\ runs[Len(runs)] > 0
  /\ busy' = FALSE /\ verdict' = Append(verdict, TRUE) /\ runs' = runs

Fail == busy /\ busy' = FALSE /\ verdict' = Append(verdict, FALSE) /\ runs' = runs

Next == Request \/ Execute \/ Answer \/ Fail

Spec == Init /\ [][Next]_exchange
=============================================================================
