------------------------------ MODULE DiagLoop ------------------------------
(***************************************************************************)
(* What the iteration loop of `dcgmi diag` promises (Diag::RunStartDiag,   *)
(* src/dcgmi/Diag.cpp, and spec 4.4), without threads, signals or the      *)
(* engine: iterations run one after the other, each ends with a return     *)
(* code, the loop stops at the first code that is not OK or after the     *)
(* last iteration and then returns the last code; a signal with the        *)
(* default disposition may end the process at any point before.           *)
(***************************************************************************)
EXTENDS Integers, Sequences, DiagCodes

CONSTANT NumIterations   \* iterations asked for (at least one run)

VARIABLES
    outcomes,  \* the code each finished iteration ended with
    status,    \* "running", "done" (the loop returned) or "terminated"
    ret        \* the code the loop returned

vars == <<outcomes, status, ret>>

TypeOK ==
    /\ outcomes \in Seq(RetCodes)
    /\ status \in {"running", "done", "terminated"}
    /\ ret \in RetCodes

Init == outcomes = << >> /\ status = "running" /\ ret = OK

\* One more iteration ends with code r.
Iterate(r) ==
    /\ status = "running"
    /\ Len(outcomes) < NumIterations
    /\ outcomes' = Append(outcomes, r)
    /\ IF r = OK /\ Len(outcomes) + 1 < NumIterations
       THEN UNCHANGED <<status, ret>>
       ELSE status' = "done" /\ ret' = r

\* The process is ended by a signal.
Terminate ==
    /\ status = "running"
    /\ status' = "terminated"
    /\ UNCHANGED <<outcomes, ret>>

Next == (\E r \in RetCodes : Iterate(r)) \/ Terminate

Spec == Init /\ [][Next]_vars

=============================================================================
