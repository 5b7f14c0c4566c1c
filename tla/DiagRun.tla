------------------------------ MODULE DiagRun ------------------------------
(***************************************************************************)
(* The run supervisor of `dcgmi diag` (src/dcgmi/Diag.cpp): the iteration  *)
(* loop of Diag::RunStartDiag, one Diag::RunDiagOnce per iteration, the    *)
(* poll loop of Diag::ExecuteDiagOnServer, the RemoteDiagExecutor thread   *)
(* that performs the blocking run RPC, the signal handler that turns a     *)
(* SIGHUP/SIGINT/SIGQUIT/SIGTERM into the flag g_signalExit, and the stop  *)
(* requests (AbortDiag, dcgmStopDiagnostic) sent to the host engine.       *)
(*                                                                         *)
(* Actors: the main thread (IterStart, Arm, PollKill, PollExited, Finish), *)
(* the executor thread (ExecSend), the host engine (EngineReply,           *)
(* EngineComplete) and the operating system delivering signals (Signal).   *)
(* A diagnostic response is abstracted to what RunDiagOnce tells apart:    *)
(* whether systemError.msg is non-empty, and the verdict that              *)
(* Diag::GetFailureResult computes from its result matrix.                 *)
(***************************************************************************)
EXTENDS Integers, Sequences, DiagCodes

CONSTANTS
    Iterations,   \* m_iterations, the -r/--iterations argument
    EngineCodes,  \* return codes the run RPC dcgmActionValidate_v2 may give
    JsonModes,    \* the output modes a run may use (TRUE = -j, JSON output)
    MaxSignals    \* bound on the number of signals delivered to the process

\* Codes after which the run may still be executing on the host engine: a
\* client-side timeout, or a transport failure while the request was out.
RunMayContinue == {Timeout, ConnLost}

ASSUME IterationsAssumption == Iterations \in Nat
ASSUME EngineCodesAssumption == EngineCodes \subseteq RpcCodes /\ OK \in EngineCodes
ASSUME JsonModesAssumption == JsonModes \subseteq BOOLEAN /\ JsonModes # {}
ASSUME MaxSignalsAssumption == MaxSignals \in Nat

\* RunStartDiag runs RunDiagOnce once when m_iterations <= 1.
NumRuns == IF Iterations <= 1 THEN 1 ELSE Iterations
Runs == 0 .. (NumRuns - 1)

\* "No iteration" / the null JSON value.
None == -1

\* dcgmDiagResponse_t, abstracted.
Responses == [sysErr : BOOLEAN, verdict : Verdicts]
\* InitializeDiagResponse: zero-filled (memset 0), so no system error and no
\* failing cell.
ZeroResponse == [sysErr |-> FALSE, verdict |-> OK]

Phases == {"none", "started", "inflight", "exited"}
PCs == {"begin", "arm", "poll", "disarm", "done", "terminated"}

VARIABLES
    pc,          \* where the main thread is
    iter,        \* m_drd.currentIteration
    installed,   \* diag_installed_sig_handlers
    armed,       \* diag_stopDiagOnSignal
    signalExit,  \* g_signalExit
    exec,        \* the RemoteDiagExecutor: thread phase, m_result, m_diagResult
    execIter,    \* the iteration whose request the executor carries
    remote,      \* iterations whose diagnostic is executing on the host engine
    result,      \* the value ExecuteDiagOnServer returns
    diagResult,  \* RunDiagOnce's diagResult
    ret,         \* RunStartDiag's overallRet
    jsonOutput,  \* m_jsonOutput
    jsonTmp,     \* m_jsonTmpValue: the iteration whose JSON report it holds
    reports,     \* output[NVVS_ITERATIONS]: the entry stored for each iteration
    outcomes,    \* history: the value RunDiagOnce returned in each iteration
    flagIter,    \* history: the iteration in whose armed window g_signalExit was set
    sigs,        \* signals delivered so far
    aborts       \* history: AbortDiag requests sent to the host engine

vars == <<pc, iter, installed, armed, signalExit, exec, execIter, remote, result,
          diagResult, ret, jsonOutput, jsonTmp, reports, outcomes, flagIter, sigs, aborts>>

TypeOK ==
    /\ pc \in PCs
    /\ iter \in Runs
    /\ installed \in BOOLEAN
    /\ armed \in BOOLEAN
    /\ signalExit \in BOOLEAN
    /\ exec \in [phase : Phases, rc : RpcCodes, resp : Responses]
    /\ execIter \in Runs
    /\ remote \subseteq Runs
    /\ result \in RpcCodes
    /\ diagResult \in Responses
    /\ ret \in RetCodes
    /\ jsonOutput \in BOOLEAN
    /\ jsonTmp \in Runs \cup {None}
    /\ reports \in Seq(Runs \cup {None})
    /\ outcomes \in Seq(RetCodes)
    /\ flagIter \in Runs \cup {None}
    /\ sigs \in 0 .. MaxSignals
    /\ aborts \in Nat

-----------------------------------------------------------------------------
(* The host engine side of dcgmStopDiagnostic: a best-effort request that,  *)
(* when it gets through, stops the diagnostic running on the engine.        *)
StopOnEngine ==
    \E delivered \in BOOLEAN :
        remote' = IF delivered THEN {} ELSE remote

(* What RunDiagOnce returns once ExecuteDiagOnServer returned `rc` with     *)
(* response `resp`: a failed RPC is returned as it is; in text mode a       *)
(* non-empty systemError.msg turns a successful RPC into NVVS_ERROR; else   *)
(* the report is rendered and GetFailureResult decides.                     *)
RunOnceResult(rc, resp, json) ==
    IF rc # OK THEN rc
    ELSE IF ~json /\ resp.sysErr THEN NvvsError
    ELSE resp.verdict

(* Whether RunDiagOnce reaches HelperDisplayAsJson, which stores the report *)
(* in m_jsonTmpValue when more than one iteration is run.                   *)
StoresJsonReport(rc, json) ==
    json /\ rc = OK /\ Iterations > 1

-----------------------------------------------------------------------------
(* Main thread. *)

(* Head of an iteration and entry of RunDiagOnce: the response is reset to  *)
(* zero with every gpuId at the sentinel, and the handlers are installed    *)
(* (only the first time).                                                   *)
IterStart ==
    /\ pc = "begin"
    /\ pc' = "arm"
    /\ installed' = TRUE
    /\ diagResult' = ZeroResponse
    /\ UNCHANGED <<iter, armed, signalExit, exec, execIter, remote, result, ret,
                   jsonOutput, jsonTmp, reports, outcomes, flagIter, sigs, aborts>>

(* Mutation of Arm: the executor keeps the request of an earlier           *)
(* iteration (a RemoteDiagExecutor made once, outside the loop).            *)
ArmStaleRequest ==
    /\ pc = "arm"
    /\ armed' = TRUE
    /\ exec' = [phase |-> "started", rc |-> OK, resp |-> ZeroResponse]
    /\ pc' = "poll"
    /\ UNCHANGED <<iter, installed, signalExit, execIter, remote, result,
                   diagResult, ret, jsonOutput, jsonTmp, reports, outcomes,
                   flagIter, sigs, aborts>>

(* ExecuteDiagOnServer: arm the handler, create the executor and start it.  *)
Arm ==
    /\ pc = "arm"
    /\ armed' = TRUE
    /\ exec' = [phase |-> "started", rc |-> OK, resp |-> ZeroResponse]
    /\ execIter' = iter
    /\ pc' = "poll"
    /\ UNCHANGED <<iter, installed, signalExit, remote, result, diagResult, ret,
                   jsonOutput, jsonTmp, reports, outcomes, flagIter, sigs, aborts>>

(* Mutation of PollKill: the flag is only looked at once the executor has *)
(* exited, as if the loop waited for the RPC before checking for a signal.  *)
PollKillAfterExit ==
    /\ pc = "poll"
    /\ signalExit
    /\ exec.phase = "exited"
    /\ StopOnEngine
    /\ aborts' = aborts + 1
    /\ result' = Killed
    /\ pc' = "disarm"
    /\ UNCHANGED <<iter, installed, armed, signalExit, exec, execIter, diagResult,
                   ret, jsonOutput, jsonTmp, reports, outcomes, flagIter, sigs>>

(* Poll loop, first test: a signal was caught. AbortDiag sends a stop to    *)
(* the engine over its own connection, rde->Stop() asks the executor to     *)
(* stop (it cannot leave a blocking RPC), and the loop ends with KILLED.    *)
PollKill ==
    /\ pc = "poll"
    /\ signalExit
    /\ StopOnEngine
    /\ aborts' = aborts + 1
    /\ result' = Killed
    /\ pc' = "disarm"
    /\ UNCHANGED <<iter, installed, armed, signalExit, exec, execIter, diagResult,
                   ret, jsonOutput, jsonTmp, reports, outcomes, flagIter, sigs>>

(* Poll loop, second test: the executor has exited; take its result.       *)
PollExited ==
    /\ pc = "poll"
    /\ ~signalExit
    /\ exec.phase = "exited"
    /\ result' = exec.rc
    /\ diagResult' = exec.resp
    /\ pc' = "disarm"
    /\ UNCHANGED <<iter, installed, armed, signalExit, exec, execIter, remote,
                   ret, jsonOutput, jsonTmp, reports, outcomes, flagIter, sigs, aborts>>

(* The rest of ExecuteDiagOnServer and of RunDiagOnce: disarm the handler,  *)
(* on a timeout send a best-effort stop, and render the report.             *)
EndRunOnce ==
    /\ armed' = FALSE
    /\ IF result = Timeout THEN StopOnEngine ELSE UNCHANGED remote
    /\ jsonTmp' = IF StoresJsonReport(result, jsonOutput) THEN iter ELSE jsonTmp

(* Mutations of the loop: no `break` after a failure, and a loop bound one *)
(* too far (i <= m_iterations).                                             *)
ContinueAfterFailure(r) ==
    /\ iter + 1 < NumRuns
    /\ iter' = iter + 1
    /\ pc' = "begin"
    /\ UNCHANGED ret

ContinuePastLast(r) ==
    /\ r = OK
    /\ iter < NumRuns
    /\ iter' = iter + 1
    /\ pc' = "begin"
    /\ UNCHANGED ret

(* Mutation of the loop exit: overallRet is not set from the failing ret.  *)
StopWithoutRet(r) ==
    /\ r # OK \/ iter + 1 >= NumRuns
    /\ UNCHANGED ret
    /\ pc' = "done"
    /\ UNCHANGED iter

(* RunStartDiag's loop body after RunDiagOnce returned r: record the JSON   *)
(* entry of the iteration, and go on while r is OK and iterations remain.   *)
ContinueIterating(r) ==
    /\ r = OK
    /\ iter + 1 < NumRuns
    /\ iter' = iter + 1
    /\ pc' = "begin"
    /\ UNCHANGED ret

StopIterating(r) ==
    /\ r # OK \/ iter + 1 >= NumRuns
    /\ ret' = r
    /\ pc' = "done"
    /\ UNCHANGED iter

Finish ==
    /\ pc = "disarm"
    /\ EndRunOnce
    /\ LET r == RunOnceResult(result, diagResult, jsonOutput)
       IN /\ outcomes' = Append(outcomes, r)
          /\ reports' = IF Iterations > 1 THEN Append(reports, jsonTmp') ELSE reports
          /\ ContinueIterating(r) \/ StopIterating(r)
    /\ UNCHANGED <<installed, signalExit, exec, execIter, result, diagResult,
                   jsonOutput, flagIter, sigs, aborts>>

-----------------------------------------------------------------------------
(* Executor thread and host engine. *)

(* RemoteDiagExecutor::run sends the run request; the engine starts it.    *)
ExecSend ==
    /\ exec.phase = "started"
    /\ exec' = [exec EXCEPT !.phase = "inflight"]
    /\ remote' = remote \cup {execIter}
    /\ UNCHANGED <<pc, iter, installed, armed, signalExit, execIter, result,
                   diagResult, ret, jsonOutput, jsonTmp, reports, outcomes,
                   flagIter, sigs, aborts>>

(* The run RPC returns: the executor thread exits with the return code and  *)
(* the response. After a timeout or a lost connection the diagnostic may go *)
(* on running on the engine (EngineComplete ends it later); otherwise it is *)
(* over.                                                                    *)
EngineReply ==
    /\ exec.phase = "inflight"
    /\ \E rc \in EngineCodes, resp \in Responses :
          /\ exec' = [phase |-> "exited", rc |-> rc, resp |-> resp]
          /\ remote' = IF rc \in RunMayContinue THEN remote
                        ELSE remote \ {execIter}
    /\ UNCHANGED <<pc, iter, installed, armed, signalExit, execIter, result,
                   diagResult, ret, jsonOutput, jsonTmp, reports, outcomes,
                   flagIter, sigs, aborts>>

(* A diagnostic nobody waits for any more finishes on the engine.           *)
EngineComplete ==
    /\ \E r \in remote :
          /\ ~(exec.phase = "inflight" /\ execIter = r)
          /\ remote' = remote \ {r}
    /\ UNCHANGED <<pc, iter, installed, armed, signalExit, exec, execIter, result,
                   diagResult, ret, jsonOutput, jsonTmp, reports, outcomes,
                   flagIter, sigs, aborts>>

-----------------------------------------------------------------------------
(* A termination-class signal reaches the process. Before InstallSigHandlers*)
(* the default action ends it; afterwards handle_signal_during_diag runs,   *)
(* which sets g_signalExit if diag_stopDiagOnSignal is set and else does    *)
(* nothing.                                                                 *)
Signal ==
    /\ sigs < MaxSignals
    /\ pc \notin {"done", "terminated"}
    /\ sigs' = sigs + 1
    /\ \/ /\ ~installed
          /\ pc' = "terminated"
          /\ UNCHANGED <<signalExit, flagIter>>
       \/ /\ installed /\ armed
          /\ signalExit' = TRUE
          /\ flagIter' = IF signalExit THEN flagIter ELSE iter
          /\ UNCHANGED pc
       \/ /\ installed /\ ~armed
          /\ UNCHANGED <<pc, signalExit, flagIter>>
    /\ UNCHANGED <<iter, installed, armed, exec, execIter, remote, result,
                   diagResult, ret, jsonOutput, jsonTmp, reports, outcomes, aborts>>

-----------------------------------------------------------------------------
Init ==
    /\ pc = "begin"
    /\ iter = 0
    /\ installed = FALSE
    /\ armed = FALSE
    /\ signalExit = FALSE
    /\ exec = [phase |-> "none", rc |-> OK, resp |-> ZeroResponse]
    /\ execIter = 0
    /\ remote = {}
    /\ result = OK
    /\ diagResult = ZeroResponse
    /\ ret = OK
    /\ jsonOutput \in JsonModes
    /\ jsonTmp = None
    /\ reports = <<>>
    /\ outcomes = <<>>
    /\ flagIter = None
    /\ sigs = 0
    /\ aborts = 0

MainThread == IterStart \/ Arm \/ PollKill \/ PollExited \/ Finish

Next ==
    \/ MainThread
    \/ ExecSend
    \/ EngineReply
    \/ EngineComplete
    \/ Signal

(* The main thread is always scheduled again (the poll loop wakes every     *)
(* 100 ms). Nothing is assumed of the engine, the executor or the signals.  *)
Spec == Init /\ [][Next]_vars /\ WF_vars(MainThread)

-----------------------------------------------------------------------------
(* Properties. *)

(* At most one diagnostic of this process executes on the host engine at a  *)
(* time: RunStartDiag never dispatches iteration k+1 while the diagnostic   *)
(* of an earlier iteration still runs there, although a timed-out run keeps *)
(* running and the stop sent by RunDiagOnce or AbortDiag may not get        *)
(* through.                                                                 *)
EngineExclusive ==
    \A a, b \in remote : a = b

(* When RunStartDiag returns, every iteration before the last one returned  *)
(* OK, the value returned is the last iteration's, and OK is returned only  *)
(* after all the iterations asked for (stop at the first failure).          *)
IterationOutcome ==
    pc = "done" =>
        /\ Len(outcomes) \in 1 .. NumRuns
        /\ \A k \in 1 .. (Len(outcomes) - 1) : outcomes[k] = OK
        /\ ret = outcomes[Len(outcomes)]
        /\ ret = OK => Len(outcomes) = NumRuns

(* Once a signal has been caught (g_signalExit), RunStartDiag returns: the  *)
(* poll loop checks the flag before it waits for the executor, so a run     *)
(* whose RPC never returns is still abandoned.                              *)
CancellationTerminates ==
    signalExit ~> (pc \in {"done", "terminated"})

(* Spec section 8: a signal that sets the cancellation flag while a run is  *)
(* armed makes that run return NVVS_KILLED.                                 *)
CancellationHonoured ==
    (flagIter # None /\ flagIter < Len(outcomes)) =>
        outcomes[flagIter + 1] = Killed

(* Spec sections 4.5 and 5: a signal that arrives while no diagnostic is    *)
(* armed gets its default disposition, i.e. it ends the process.            *)
SignalsKeepDefault ==
    [][(sigs' = sigs + 1 /\ ~armed) => pc' = "terminated"]_vars

(* Spec section 4.4: the JSON document of a multi-iteration run holds, at   *)
(* position k, the report of iteration k (or nothing for an iteration that  *)
(* produced none), never the report of another iteration.                   *)
ReportsOwnIteration ==
    \A k \in 1 .. Len(reports) : reports[k] \in {k - 1, None}

(* When dcgmi diag reports success (RunStartDiag returns OK), none of the   *)
(* diagnostics it started is still executing on the host engine: a run     *)
(* left on the engine by a timeout, a lost connection or an AbortDiag that *)
(* overtook the run request always ends the loop with a failure code.      *)
SuccessLeavesEngineIdle ==
    (pc = "done" /\ ret = OK) => remote = {}

(* g_signalExit is never cleared, so once a signal was caught every later  *)
(* poll would send AbortDiag again and kill its iteration at once. The      *)
(* command stays single-shot (spec 5, 6) only because the iteration ended   *)
(* by the poll loop returns NVVS_KILLED and RunStartDiag breaks on it:      *)
(* AbortDiag is sent at most once per command, and a command that sent it  *)
(* returns NVVS_KILLED whether or not the abort got through (spec 4.1).     *)
SingleAbort ==
    /\ aborts <= 1
    /\ (pc = "done" /\ aborts = 1) => ret = Killed

(* The host engine is only ever asked to run the current iteration's        *)
(* request: RemoteDiagExecutor copies m_drd when ExecuteDiagOnServer        *)
(* creates it, after RunStartDiag set currentIteration, and the executor of *)
(* an abandoned iteration never sends once a later iteration has begun.     *)
DispatchesCurrentIteration ==
    [][\A i \in remote' \ remote : i = iter]_vars

-----------------------------------------------------------------------------
(* The loop as DiagLoop describes it: the main thread is in the loop until  *)
(* RunStartDiag returns or a signal's default action ends the process.      *)
LoopStatus ==
    IF pc \in {"done", "terminated"} THEN pc ELSE "running"

Loop == INSTANCE DiagLoop WITH NumIterations <- NumRuns, status <- LoopStatus

(* RunStartDiag with its threads, signals and engine implements the loop of *)
(* DiagLoop: every step is one iteration ending, the process terminated by  *)
(* a signal, or invisible to the loop.                                      *)
LoopRefinement == Loop!Spec

=============================================================================
