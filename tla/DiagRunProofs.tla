--------------------------- MODULE DiagRunProofs ---------------------------
(***************************************************************************)
(* Proofs about the run supervisor of DiagRun, for every value of the      *)
(* constants that satisfies the module's assumptions.                      *)
(***************************************************************************)
EXTENDS DiagRun, TLAPS

USE IterationsAssumption, EngineCodesAssumption, JsonModesAssumption,
    MaxSignalsAssumption

(* RunDiagOnce returns one of the codes RunStartDiag can return, and OK only *)
(* when the RPC itself returned OK.                                         *)
LEMMA RunOnceResultType ==
    ASSUME NEW rc \in RpcCodes, NEW resp \in Responses,
           NEW json \in BOOLEAN
    PROVE  /\ RunOnceResult(rc, resp, json) \in RetCodes
           /\ RunOnceResult(rc, resp, json) = OK => rc = OK
BY DEF RunOnceResult, Responses, Verdicts, RetCodes, RpcCodes, OK, NvvsError,
       IsolateError, Killed, GroupIncompat, NotSupported, Paused, Timeout, ConnLost

(* The runs RunStartDiag makes are numbered from 0, and there is at least one. *)
LEMMA RunsNonEmpty == NumRuns \in Nat \ {0} /\ 0 \in Runs
BY DEF NumRuns, Runs

LEMMA ZeroResponseType == ZeroResponse \in Responses
BY DEF ZeroResponse, Responses, Verdicts

LEMMA TypeOKInit == Init => TypeOK
<1> SUFFICES ASSUME Init PROVE TypeOK
  OBVIOUS
<1>1. exec \in [phase : Phases, rc : RpcCodes, resp : Responses]
  BY ZeroResponseType DEF Init, Phases, RpcCodes
<1>2. diagResult \in Responses /\ result \in RpcCodes
      /\ ret \in RetCodes
  BY ZeroResponseType DEF Init, RpcCodes, RetCodes
<1>3. iter \in Runs /\ execIter \in Runs /\ remote \subseteq Runs
      /\ jsonTmp \in Runs \cup {None} /\ flagIter \in Runs \cup {None}
  BY RunsNonEmpty DEF Init, None
<1>4. reports \in Seq(Runs \cup {None}) /\ outcomes \in Seq(RetCodes)
  BY DEF Init
<1>5. pc \in PCs /\ installed \in BOOLEAN /\ armed \in BOOLEAN
      /\ signalExit \in BOOLEAN /\ jsonOutput \in BOOLEAN
  BY Zenon DEF Init, PCs
<1>6. sigs \in 0 .. MaxSignals /\ aborts \in Nat
  BY DEF Init
<1>7. QED
  BY <1>1, <1>2, <1>3, <1>4, <1>5, <1>6 DEF TypeOK

LEMMA TypeOKStep == TypeOK /\ [Next]_vars => TypeOK'
<1> SUFFICES ASSUME TypeOK, [Next]_vars PROVE TypeOK'
  OBVIOUS
<1>1. CASE IterStart
  BY <1>1 DEF IterStart, TypeOK, ZeroResponse, Responses, Verdicts, PCs
<1>2. CASE Arm
  BY <1>2 DEF Arm, TypeOK, ZeroResponse, Responses, Verdicts, PCs, Phases,
              RpcCodes
<1>3. CASE PollKill
  BY <1>3 DEF PollKill, StopOnEngine, TypeOK, PCs, RpcCodes
<1>4. CASE PollExited
  BY <1>4 DEF PollExited, TypeOK, PCs
<1>5. CASE Finish
  <2> DEFINE r == RunOnceResult(result, diagResult, jsonOutput)
  <2>1. r \in RetCodes
    <3>1. result \in RpcCodes /\ diagResult \in Responses
          /\ jsonOutput \in BOOLEAN
      BY DEF TypeOK
    <3>2. QED
      BY <3>1, RunOnceResultType
  <2>2. remote' \subseteq Runs
    BY <1>5 DEF Finish, EndRunOnce, StopOnEngine, TypeOK
  <2>3. jsonTmp' \in Runs \cup {None}
    BY <1>5 DEF Finish, EndRunOnce, TypeOK
  <2>4. /\ armed' \in BOOLEAN /\ installed' \in BOOLEAN
        /\ signalExit' \in BOOLEAN /\ jsonOutput' \in BOOLEAN
    BY <1>5, Zenon DEF Finish, EndRunOnce, TypeOK
  <2>5. outcomes' \in Seq(RetCodes) /\ reports' \in Seq(Runs \cup {None})
    BY <1>5, <2>1, <2>3 DEF Finish, TypeOK
  <2>6. /\ exec' \in [phase : Phases, rc : RpcCodes, resp : Responses]
        /\ execIter' \in Runs /\ result' \in RpcCodes
        /\ diagResult' \in Responses /\ flagIter' \in Runs \cup {None}
        /\ sigs' \in 0 .. MaxSignals /\ aborts' \in Nat
    BY <1>5 DEF Finish, TypeOK
  <2>7. pc' \in PCs /\ iter' \in Runs /\ ret' \in RetCodes
    <3>1. CASE ContinueIterating(r)
      BY <3>1, RunsNonEmpty DEF ContinueIterating, TypeOK, PCs, Runs
    <3>2. CASE StopIterating(r)
      BY <2>1, <3>2 DEF StopIterating, TypeOK, PCs
    <3>3. QED
      BY <1>5, <3>1, <3>2 DEF Finish
  <2>8. QED
    BY <2>2, <2>3, <2>4, <2>5, <2>6, <2>7 DEF TypeOK
<1>6. CASE ExecSend
  BY <1>6 DEF ExecSend, TypeOK, Phases
<1>7. CASE EngineReply
  BY <1>7 DEF EngineReply, TypeOK, Phases
<1>8. CASE EngineComplete
  BY <1>8 DEF EngineComplete, TypeOK
<1>9. CASE Signal
  <2>1. sigs' \in 0 .. MaxSignals
    BY <1>9 DEF Signal, TypeOK
  <2>2. pc' \in PCs /\ signalExit' \in BOOLEAN /\ flagIter' \in Runs \cup {None}
    BY <1>9, Zenon DEF Signal, TypeOK, PCs
  <2>3. QED
    BY <1>9, <2>1, <2>2 DEF Signal, TypeOK
<1>10. CASE UNCHANGED vars
  BY <1>10 DEF vars, TypeOK
<1>11. QED
  BY <1>1, <1>2, <1>3, <1>4, <1>5, <1>6, <1>7, <1>8, <1>9, <1>10
     DEF Next, MainThread

(* Every variable keeps its type: in particular the iteration index stays   *)
(* below the number of runs RunStartDiag makes, and the executor only ever  *)
(* carries return codes of the run RPC.                                     *)
THEOREM TypeCorrect == Spec => []TypeOK
BY TypeOKInit, TypeOKStep, PTL DEF Spec

-----------------------------------------------------------------------------
(* The inductive strengthening of EngineExclusive. A diagnostic on the      *)
(* engine always belongs to the executor's iteration; the executor has not  *)
(* put it there before it sends, nor left it there after an answer that     *)
(* ends the run; when the main thread is between iterations nothing runs    *)
(* and no executor is about to send; and a run that ended in the poll loop  *)
(* other than by a signal carries the executor's own return code.           *)
IInv ==
    /\ TypeOK
    /\ remote \subseteq {execIter}
    /\ exec.phase \in {"none", "started"} => execIter \notin remote
    /\ (exec.phase = "exited" /\ exec.rc \notin RunMayContinue)
          => execIter \notin remote
    /\ pc \in {"begin", "arm"} =>
          /\ remote = {}
          /\ exec.phase \in {"none", "exited"}
    /\ (pc = "disarm" /\ result # Killed) =>
          /\ exec.phase = "exited"
          /\ exec.rc = result

LEMMA IInvInit == Init => IInv
BY TypeOKInit DEF Init, IInv

LEMMA IInvNext == IInv /\ [Next]_vars => IInv'
<1> SUFFICES ASSUME IInv, [Next]_vars PROVE IInv'
  OBVIOUS
<1>0. TypeOK'
  BY TypeOKStep DEF IInv
<1>1. CASE IterStart
  BY <1>1, <1>0 DEF IterStart, IInv
<1>2. CASE Arm
  BY <1>2, <1>0 DEF Arm, IInv
<1>3. CASE PollKill
  BY <1>3, <1>0 DEF PollKill, StopOnEngine, IInv
<1>4. CASE PollExited
  BY <1>4, <1>0 DEF PollExited, IInv
<1>5. CASE Finish
  <2> DEFINE r == RunOnceResult(result, diagResult, jsonOutput)
  <2>1. remote' \subseteq remote
    BY <1>5 DEF Finish, EndRunOnce, StopOnEngine
  <2>2. CASE ContinueIterating(r)
    <3>1. result = OK
      BY <2>2, RunOnceResultType DEF ContinueIterating, IInv, TypeOK
    <3>2. exec.phase = "exited" /\ exec.rc = OK
      BY <1>5, <3>1 DEF Finish, IInv, Killed, OK
    <3>3. remote = {}
      BY <3>2 DEF IInv, RunMayContinue, OK, Timeout, ConnLost
    <3>4. remote' = {}
      BY <2>1, <3>3
    <3>5. QED
      BY <1>0, <1>5, <2>2, <3>2, <3>4 DEF Finish, ContinueIterating, IInv
  <2>3. CASE StopIterating(r)
    BY <1>0, <1>5, <2>1, <2>3 DEF Finish, StopIterating, IInv
  <2>4. QED
    BY <1>5, <2>2, <2>3 DEF Finish
<1>6. CASE ExecSend
  BY <1>6, <1>0 DEF ExecSend, IInv
<1>7. CASE EngineReply
  BY <1>7, <1>0 DEF EngineReply, IInv
<1>8. CASE EngineComplete
  BY <1>8, <1>0 DEF EngineComplete, IInv
<1>9. CASE Signal
  BY <1>9, <1>0 DEF Signal, IInv
<1>10. CASE UNCHANGED vars
  BY <1>10, <1>0 DEF vars, IInv
<1>11. QED
  BY <1>1, <1>2, <1>3, <1>4, <1>5, <1>6, <1>7, <1>8, <1>9, <1>10
     DEF Next, MainThread

(* At most one diagnostic of this process runs on the host engine at a time *)
(* (the property EngineExclusive of the runs), for any number of iterations *)
(* and signals and any set of RPC return codes.                             *)
THEOREM EngineExclusiveHolds == Spec => []EngineExclusive
<1>1. IInv => EngineExclusive
  BY DEF IInv, EngineExclusive
<1>2. QED
  BY <1>1, IInvInit, IInvNext, PTL DEF Spec

-----------------------------------------------------------------------------
(* The inductive strengthening of IterationOutcome: while the main thread   *)
(* is inside the loop, one outcome has been recorded per finished iteration *)
(* and every one of them was OK (the loop would have left otherwise).       *)
OInv ==
    /\ TypeOK
    /\ pc \in {"begin", "arm", "poll", "disarm"} =>
          /\ Len(outcomes) = iter
          /\ \A k \in 1 .. Len(outcomes) : outcomes[k] = OK
    /\ IterationOutcome

LEMMA OInvInit == Init => OInv
BY TypeOKInit DEF Init, OInv, IterationOutcome

(* The main-thread steps before Finish, the executor, the engine and the    *)
(* signals touch neither the loop counter, the outcomes nor overallRet, and *)
(* never move the main thread into "done".                                  *)
LEMMA LoopVarsKept ==
    ASSUME TypeOK, [Next]_vars, ~Finish
    PROVE  /\ UNCHANGED <<iter, outcomes, ret>>
           /\ pc' = "done" => pc = "done"
           /\ pc \in {"done", "terminated"} => pc' = pc
           /\ pc' \in {"begin", "arm", "poll", "disarm"} =>
                 pc \in {"begin", "arm", "poll", "disarm"}
<1>1. CASE IterStart \/ Arm \/ PollKill \/ PollExited
  BY <1>1 DEF IterStart, Arm, PollKill, PollExited
<1>2. CASE ExecSend \/ EngineReply \/ EngineComplete \/ UNCHANGED vars
  BY <1>2 DEF ExecSend, EngineReply, EngineComplete, vars
<1>3. CASE Signal
  BY <1>3 DEF Signal
<1>4. QED
  BY <1>1, <1>2, <1>3 DEF Next, MainThread

(* The step of RunStartDiag's loop body, in the two ways it can go.         *)
LEMMA FinishCases ==
    ASSUME TypeOK, Finish, pc = "disarm", Len(outcomes) = iter
    PROVE  LET r == RunOnceResult(result, diagResult, jsonOutput)
           IN  /\ r \in RetCodes
               /\ outcomes' = Append(outcomes, r)
               /\ Len(outcomes') = iter + 1
               /\ outcomes'[iter + 1] = r
               /\ \A k \in 1 .. iter : outcomes'[k] = outcomes[k]
               /\ iter + 1 <= NumRuns
               /\ \/ r = OK /\ iter + 1 < NumRuns /\ pc' = "begin"
                     /\ iter' = iter + 1 /\ ret' = ret
                  \/ ~(r = OK /\ iter + 1 < NumRuns) /\ pc' = "done"
                     /\ iter' = iter /\ ret' = r
<1> DEFINE r == RunOnceResult(result, diagResult, jsonOutput)
<1>1. r \in RetCodes
  BY RunOnceResultType DEF TypeOK
<1>2. outcomes' = Append(outcomes, r) /\ outcomes \in Seq(RetCodes)
  BY DEF Finish, TypeOK
<1>3. iter + 1 <= NumRuns
  BY RunsNonEmpty DEF TypeOK, Runs
<1>4. \/ r = OK /\ iter + 1 < NumRuns /\ pc' = "begin" /\ iter' = iter + 1
         /\ ret' = ret
      \/ ~(r = OK /\ iter + 1 < NumRuns) /\ pc' = "done" /\ iter' = iter
         /\ ret' = r
  BY RunsNonEmpty DEF Finish, ContinueIterating, StopIterating, TypeOK, Runs
<1>5. QED
  BY <1>1, <1>2, <1>3, <1>4

LEMMA OInvNext == OInv /\ [Next]_vars => OInv'
<1> SUFFICES ASSUME OInv, [Next]_vars PROVE OInv'
  OBVIOUS
<1>0. TypeOK'
  BY TypeOKStep DEF OInv
<1>1. CASE Finish
  <2> DEFINE r == RunOnceResult(result, diagResult, jsonOutput)
  <2>1. pc = "disarm" /\ Len(outcomes) = iter
        /\ \A k \in 1 .. iter : outcomes[k] = OK
    BY <1>1 DEF Finish, OInv
  <2>2. /\ r \in RetCodes
        /\ Len(outcomes') = iter + 1
        /\ outcomes'[iter + 1] = r
        /\ \A k \in 1 .. iter : outcomes'[k] = OK
        /\ iter + 1 <= NumRuns
        /\ \/ r = OK /\ iter + 1 < NumRuns /\ pc' = "begin"
              /\ iter' = iter + 1 /\ ret' = ret
           \/ ~(r = OK /\ iter + 1 < NumRuns) /\ pc' = "done"
              /\ iter' = iter /\ ret' = r
    BY <1>1, <2>1, FinishCases DEF OInv
  <2>3. iter \in Nat
    BY RunsNonEmpty DEF OInv, TypeOK, Runs
  <2>4. CASE r = OK /\ iter + 1 < NumRuns /\ pc' = "begin"
             /\ iter' = iter + 1 /\ ret' = ret
    <3>1. \A k \in 1 .. Len(outcomes') : outcomes'[k] = OK
      BY <2>2, <2>3, <2>4
    <3>2. QED
      BY <1>0, <2>2, <2>4, <3>1 DEF OInv, IterationOutcome
  <2>5. CASE ~(r = OK /\ iter + 1 < NumRuns) /\ pc' = "done"
             /\ iter' = iter /\ ret' = r
    <3>1. Len(outcomes') \in 1 .. NumRuns
      BY <2>2, <2>3, RunsNonEmpty
    <3>2. \A k \in 1 .. (Len(outcomes') - 1) : outcomes'[k] = OK
      BY <2>2, <2>3
    <3>3. ret' = outcomes'[Len(outcomes')]
      BY <2>2, <2>5
    <3>4. ret' = OK => Len(outcomes') = NumRuns
      BY <2>2, <2>3, <2>5, RunsNonEmpty
    <3>5. QED
      BY <1>0, <2>5, <3>1, <3>2, <3>3, <3>4 DEF OInv, IterationOutcome
  <2>6. QED
    BY <2>2, <2>4, <2>5
<1>2. CASE ~Finish
  <2>1. /\ UNCHANGED <<iter, outcomes, ret>>
        /\ pc' = "done" => pc = "done"
        /\ pc' \in {"begin", "arm", "poll", "disarm"} =>
              pc \in {"begin", "arm", "poll", "disarm"}
    BY <1>2, LoopVarsKept DEF OInv
  <2>2. QED
    BY <1>0, <2>1 DEF OInv, IterationOutcome
<1>3. QED
  BY <1>1, <1>2

(* RunStartDiag stops at the first iteration that does not return OK,       *)
(* returns the last iteration's code, and returns OK only after every       *)
(* iteration asked for (the property IterationOutcome of the runs), for any *)
(* number of iterations, signals and RPC return codes.                      *)
THEOREM IterationOutcomeHolds == Spec => []IterationOutcome
<1>1. OInv => IterationOutcome
  BY DEF OInv
<1>2. QED
  BY <1>1, OInvInit, OInvNext, PTL DEF Spec


-----------------------------------------------------------------------------
(* The inductive strengthening of SuccessLeavesEngineIdle: once             *)
(* RunStartDiag has returned OK, the executor of the last iteration has     *)
(* exited, so it can send no further run request.                          *)
SInv ==
    /\ IInv
    /\ (pc = "done" /\ ret = OK) => remote = {} /\ exec.phase = "exited"

LEMMA SInvInit == Init => SInv
BY IInvInit DEF Init, SInv

LEMMA SInvNext == SInv /\ [Next]_vars => SInv'
<1> SUFFICES ASSUME SInv, [Next]_vars PROVE SInv'
  OBVIOUS
<1>0. IInv'
  BY IInvNext DEF SInv
<1>1. CASE Finish
  <2> DEFINE r == RunOnceResult(result, diagResult, jsonOutput)
  <2>1. CASE ContinueIterating(r)
    BY <1>0, <2>1 DEF ContinueIterating, SInv
  <2>2. CASE StopIterating(r)
    <3>1. SUFFICES ASSUME r = OK PROVE remote' = {} /\ exec'.phase = "exited"
      BY <1>0, <2>2 DEF StopIterating, SInv
    <3>2. result = OK
      BY <3>1, RunOnceResultType DEF SInv, IInv, TypeOK
    <3>3. exec.phase = "exited" /\ exec.rc = OK
      BY <1>1, <3>2 DEF Finish, SInv, IInv, Killed, OK
    <3>4. remote = {}
      BY <3>3 DEF SInv, IInv, RunMayContinue, OK, Timeout, ConnLost
    <3>5. QED
      BY <1>1, <3>3, <3>4 DEF Finish, EndRunOnce, StopOnEngine
  <2>3. QED
    BY <1>1, <2>1, <2>2 DEF Finish
<1>2. CASE ~Finish
  <2>1. SUFFICES ASSUME pc' = "done", ret' = OK
                 PROVE  remote' = {} /\ exec'.phase = "exited"
    BY <1>0 DEF SInv
  <2>2. pc = "done" /\ ret = OK
    BY <1>2, <2>1, LoopVarsKept DEF SInv, IInv
  <2>3. remote = {} /\ exec.phase = "exited"
    BY <2>2 DEF SInv
  <2>4. ~(IterStart \/ Arm \/ PollKill \/ PollExited \/ Finish \/ Signal)
    BY <2>2 DEF IterStart, Arm, PollKill, PollExited, Finish, Signal
  <2>5. ~ExecSend /\ ~EngineReply
    BY <2>3 DEF ExecSend, EngineReply
  <2>6. CASE EngineComplete
    BY <2>3, <2>6 DEF EngineComplete
  <2>7. CASE UNCHANGED vars
    BY <2>3, <2>7 DEF vars
  <2>8. QED
    BY <2>4, <2>5, <2>6, <2>7 DEF Next, MainThread
<1>3. QED
  BY <1>1, <1>2

(* A dcgmi diag that returns success leaves none of its diagnostics running *)
(* on the host engine (the property SuccessLeavesEngineIdle of the runs),   *)
(* for any number of iterations and signals and any RPC return codes.      *)
THEOREM SuccessLeavesEngineIdleHolds == Spec => []SuccessLeavesEngineIdle
<1>1. SInv => SuccessLeavesEngineIdle
  BY DEF SInv, SuccessLeavesEngineIdle
<1>2. QED
  BY <1>1, SInvInit, SInvNext, PTL DEF Spec

-----------------------------------------------------------------------------
(* The invariant behind DispatchesCurrentIteration: an executor that has    *)
(* not yet answered carries the request of the iteration the loop is in (a  *)
(* new iteration starts only after the executor exited with OK).            *)
DInv ==
    /\ IInv
    /\ exec.phase \in {"started", "inflight"} => execIter = iter

LEMMA DInvInit == Init => DInv
BY IInvInit DEF Init, DInv

LEMMA DInvNext == DInv /\ [Next]_vars => DInv'
<1> SUFFICES ASSUME DInv, [Next]_vars PROVE DInv'
  OBVIOUS
<1>0. IInv'
  BY IInvNext DEF DInv
<1>1. CASE Finish
  <2> DEFINE r == RunOnceResult(result, diagResult, jsonOutput)
  <2>1. exec' = exec /\ execIter' = execIter
    BY <1>1 DEF Finish
  <2>2. CASE ContinueIterating(r)
    <3>1. result = OK
      BY <2>2, RunOnceResultType DEF ContinueIterating, DInv, IInv, TypeOK
    <3>2. exec.phase = "exited"
      BY <1>1, <3>1 DEF Finish, DInv, IInv, Killed, OK
    <3>3. QED
      BY <1>0, <2>1, <3>2 DEF DInv
  <2>3. CASE StopIterating(r)
    BY <1>0, <2>1, <2>3 DEF StopIterating, DInv
  <2>4. QED
    BY <1>1, <2>2, <2>3 DEF Finish
<1>2. CASE Arm
  BY <1>0, <1>2 DEF Arm, DInv
<1>3. CASE EngineReply
  BY <1>0, <1>3 DEF EngineReply, DInv
<1>4. CASE IterStart \/ PollKill \/ PollExited \/ ExecSend \/ EngineComplete
             \/ Signal \/ UNCHANGED vars
  BY <1>0, <1>4 DEF IterStart, PollKill, PollExited, ExecSend, EngineComplete,
                    Signal, vars, DInv
<1>5. QED
  BY <1>1, <1>2, <1>3, <1>4 DEF Next, MainThread

(* A step adds to the engine's diagnostics at most the current iteration's. *)
LEMMA DispatchStep ==
    DInv /\ [Next]_vars => [\A i \in remote' \ remote : i = iter]_vars
<1> SUFFICES ASSUME DInv, [Next]_vars
             PROVE  \A i \in remote' \ remote : i = iter
  OBVIOUS
<1>1. CASE ExecSend
  BY <1>1 DEF ExecSend, DInv
<1>2. CASE PollKill \/ Finish
  <2>1. remote' \subseteq remote
    BY <1>2 DEF PollKill, Finish, EndRunOnce, StopOnEngine
  <2>2. QED
    BY <2>1
<1>3. CASE EngineReply \/ EngineComplete
  <2>1. remote' \subseteq remote
    BY <1>3 DEF EngineReply, EngineComplete
  <2>2. QED
    BY <2>1
<1>4. CASE IterStart \/ Arm \/ PollExited \/ Signal \/ UNCHANGED vars
  BY <1>4 DEF IterStart, Arm, PollExited, Signal, vars
<1>5. QED
  BY <1>1, <1>2, <1>3, <1>4 DEF Next, MainThread

(* The engine is only ever asked to run the current iteration's request    *)
(* (the action property DispatchesCurrentIteration of the runs), for any    *)
(* number of iterations and signals and any RPC return codes.              *)
THEOREM DispatchesCurrentIterationHolds == Spec => DispatchesCurrentIteration
<1>1. Spec => []DInv
  BY DInvInit, DInvNext, PTL DEF Spec
<1>2. QED
  BY <1>1, DispatchStep, PTL DEF Spec, DispatchesCurrentIteration

-----------------------------------------------------------------------------
(* The inductive strengthening of SingleAbort: once AbortDiag was sent the *)
(* main thread is past the poll loop of that iteration, with KILLED as the  *)
(* poll loop's result, or RunStartDiag returned KILLED, or a signal's       *)
(* default action ended the process.                                        *)
AInv ==
    /\ TypeOK
    /\ aborts \in {0, 1}
    /\ aborts = 1 => pc \in {"disarm", "done", "terminated"}
    /\ (aborts = 1 /\ pc = "disarm") => result = Killed
    /\ (aborts = 1 /\ pc = "done") => ret = Killed

(* RunDiagOnce passes a KILLED from ExecuteDiagOnServer on unchanged.       *)
LEMMA KilledPassedOn ==
    ASSUME NEW resp, NEW json
    PROVE  RunOnceResult(Killed, resp, json) = Killed
BY DEF RunOnceResult, Killed, OK

LEMMA AInvInit == Init => AInv
BY TypeOKInit DEF Init, AInv

(* The steps of the executor, the engine and stuttering leave the main      *)
(* thread's place, the abort count and the results alone.                   *)
LEMMA AVarsKept ==
    ASSUME [Next]_vars, ~MainThread, ~Signal
    PROVE  UNCHANGED <<pc, aborts, result, ret>>
BY DEF Next, ExecSend, EngineReply, EngineComplete, vars

LEMMA AInvNext == AInv /\ [Next]_vars => AInv'
<1> SUFFICES ASSUME AInv, [Next]_vars PROVE AInv'
  OBVIOUS
<1>0. TypeOK'
  BY TypeOKStep DEF AInv
<1>1. CASE IterStart \/ Arm \/ PollExited
  <2>1. aborts = 0 /\ aborts' = 0
    BY <1>1 DEF IterStart, Arm, PollExited, AInv
  <2>2. QED
    BY <1>0, <2>1 DEF AInv
<1>2. CASE PollKill
  <2>1. aborts = 0
    BY <1>2 DEF PollKill, AInv
  <2>2. aborts' = 1 /\ pc' = "disarm" /\ result' = Killed
    BY <1>2, <2>1 DEF PollKill
  <2>3. QED
    BY <1>0, <2>2 DEF AInv
<1>3. CASE Finish
  <2> DEFINE r == RunOnceResult(result, diagResult, jsonOutput)
  <2>1. pc = "disarm" /\ aborts' = aborts
    BY <1>3 DEF Finish
  <2>2. CASE aborts = 0
    BY <1>0, <2>1, <2>2 DEF AInv
  <2>3. CASE aborts = 1
    <3>1. r = Killed
      BY <2>1, <2>3, KilledPassedOn DEF AInv
    <3>2. ~ContinueIterating(r)
      BY <3>1 DEF ContinueIterating, Killed, OK
    <3>3. pc' = "done" /\ ret' = Killed
      BY <1>3, <3>1, <3>2 DEF Finish, StopIterating
    <3>4. QED
      BY <1>0, <2>1, <2>3, <3>3 DEF AInv
  <2>4. QED
    BY <2>2, <2>3 DEF AInv
<1>4. CASE Signal
  <2>1. UNCHANGED <<aborts, result, ret>>
    BY <1>4 DEF Signal
  <2>2. pc' \in {pc, "terminated"}
    BY <1>4 DEF Signal
  <2>3. QED
    BY <1>0, <2>1, <2>2 DEF AInv
<1>5. CASE ~MainThread /\ ~Signal
  BY <1>0, <1>5, AVarsKept DEF AInv
<1>6. QED
  BY <1>1, <1>2, <1>3, <1>4, <1>5 DEF MainThread

(* AbortDiag is sent at most once per command and a command that sent it   *)
(* returns NVVS_KILLED (the property SingleAbort of the runs), for any      *)
(* number of iterations and signals and any RPC return codes, although     *)
(* g_signalExit is never cleared.                                           *)
THEOREM SingleAbortHolds == Spec => []SingleAbort
<1>1. AInv => SingleAbort
  BY DEF AInv, SingleAbort
<1>2. QED
  BY <1>1, AInvInit, AInvNext, PTL DEF Spec

-----------------------------------------------------------------------------
(* Refinement of the abstract loop DiagLoop.                                *)

LEMMA LoopInitMapped == Init => Loop!Init
BY DEF Init, Loop!Init, LoopStatus, Loop!OK, OK

LEMMA LoopStepMapped == OInv /\ [Next]_vars => [Loop!Next]_Loop!vars
<1> SUFFICES ASSUME OInv, [Next]_vars PROVE [Loop!Next]_Loop!vars
  OBVIOUS
<1>1. CASE Finish
  <2> DEFINE r == RunOnceResult(result, diagResult, jsonOutput)
  <2>1. pc = "disarm" /\ Len(outcomes) = iter
    BY <1>1 DEF Finish, OInv
  <2>2. /\ r \in RetCodes
        /\ outcomes' = Append(outcomes, r)
        /\ iter + 1 <= NumRuns
        /\ \/ r = OK /\ iter + 1 < NumRuns /\ pc' = "begin" /\ ret' = ret
           \/ ~(r = OK /\ iter + 1 < NumRuns) /\ pc' = "done" /\ ret' = r
    BY <1>1, <2>1, FinishCases DEF OInv
  <2>3. LoopStatus = "running"
    BY <2>1 DEF LoopStatus
  <2>4. Loop!OK = OK /\ Loop!RetCodes = RetCodes
    BY DEF Loop!OK, OK, Loop!RetCodes, RetCodes, Loop!RpcCodes, RpcCodes,
           Loop!GroupIncompat, GroupIncompat, Loop!NotSupported, NotSupported,
           Loop!Paused, Paused, Loop!Timeout, Timeout, Loop!ConnLost, ConnLost,
           Loop!NvvsError, NvvsError, Loop!IsolateError, IsolateError,
           Loop!Killed, Killed
  <2>5. ASSUME r = OK /\ iter + 1 < NumRuns /\ pc' = "begin" /\ ret' = ret
        PROVE  Loop!Iterate(r)
    <3>1. LoopStatus' = "running"
      BY <2>5 DEF LoopStatus
    <3>2. QED
      BY <2>1, <2>2, <2>3, <2>4, <2>5, <3>1, RunsNonEmpty
         DEF Loop!Iterate, LoopStatus
  <2>6. ASSUME ~(r = OK /\ iter + 1 < NumRuns) /\ pc' = "done" /\ ret' = r
        PROVE  Loop!Iterate(r)
    <3>1. LoopStatus' = "done"
      BY <2>6 DEF LoopStatus
    <3>2. QED
      BY <2>1, <2>2, <2>3, <2>4, <2>6, <3>1, RunsNonEmpty
         DEF Loop!Iterate, LoopStatus
  <2>7. Loop!Iterate(r)
    BY <2>2, <2>5, <2>6
  <2>8. QED
    BY <2>2, <2>4, <2>7 DEF Loop!Next
<1>2. CASE Signal /\ pc' = "terminated"
  <2>1. pc \notin {"done", "terminated"} /\ UNCHANGED <<outcomes, ret>>
    BY <1>2 DEF Signal
  <2>2. Loop!Terminate
    BY <1>2, <2>1 DEF Loop!Terminate, LoopStatus
  <2>3. QED
    BY <2>2 DEF Loop!Next
<1>3. CASE ~Finish /\ ~(Signal /\ pc' = "terminated")
  <2>1. UNCHANGED <<outcomes, ret>>
    BY <1>3, LoopVarsKept DEF OInv
  <2>2. LoopStatus' = LoopStatus
    <3>1. CASE IterStart \/ Arm \/ PollKill \/ PollExited
      BY <3>1 DEF IterStart, Arm, PollKill, PollExited, LoopStatus
    <3>2. CASE ExecSend \/ EngineReply \/ EngineComplete \/ UNCHANGED vars
      BY <3>2 DEF ExecSend, EngineReply, EngineComplete, vars, LoopStatus
    <3>3. CASE Signal
      BY <1>3, <3>3 DEF Signal, LoopStatus
    <3>4. QED
      BY <1>3, <3>1, <3>2, <3>3 DEF Next, MainThread
  <2>3. QED
    BY <2>1, <2>2 DEF Loop!vars
<1>4. QED
  BY <1>1, <1>2, <1>3

(* RunStartDiag, with its executor thread, poll loop, signal handler and    *)
(* host engine, implements the loop DiagLoop describes (the property        *)
(* LoopRefinement of the runs): each step ends one iteration, ends the      *)
(* process on a signal, or leaves the loop's state alone.                   *)
THEOREM RefinesLoop == Spec => LoopRefinement
<1>1. Spec => []OInv
  BY OInvInit, OInvNext, PTL DEF Spec
<1>2. Spec => [][Loop!Next]_Loop!vars
  BY <1>1, LoopStepMapped, PTL DEF Spec
<1>3. QED
  BY <1>2, LoopInitMapped, PTL DEF Spec, LoopRefinement, Loop!Spec

=============================================================================
