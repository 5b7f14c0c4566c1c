----------------------------- MODULE DiagReport -----------------------------
(***************************************************************************)
(* What Diag::RunDiagOnce (src/dcgmi/Diag.cpp) does with a response after  *)
(* the run RPC returned OK: the text-mode system-error check, the GPU      *)
(* working set (the -i list parsed, or Diag::PopulateGpuList), one of the  *)
(* two reports (text: HelperDisplayDeployment and HelperDisplayGpuResults  *)
(* per test; JSON: HelperJsonBuildOutput), and the return code that        *)
(* Diag::GetFailureResult computes.                                        *)
(*                                                                         *)
(* A response keeps what these functions read: the system-error flag,      *)
(* gpuCount, the per-GPU slot ids, the                                     *)
(* status of every cell and, for every error slot of a cell, whether       *)
(* dcgmErrorGetPriorityByCode puts its code in the isolate tier. A report  *)
(* is abstracted to the facts a reader takes from it: for a test and a GPU *)
(* (NoGpu for a level-one test), the word it is shown with. Layout,        *)
(* version strings, serials, messages and JSON array indices are left out. *)
(***************************************************************************)
EXTENDS Integers, Sequences, FiniteSets, DiagCodes

CONSTANTS
    NumDevices,       \* DCGM_MAX_NUM_DEVICES
    GpuTests,         \* per-GPU test names in plugin-index order
    LevelOneTests,    \* levelOneTests[], the software (deployment) tests
    CudaRuntimeTest,  \* DCGM_SWTEST_CUDA_RUNTIME_LIBRARY, the deprecated one
    ErrSlots,         \* DCGM_MAX_ERRORS
    ZeroStatus,       \* the status a zero-filled cell reads as
    FilterChoices,    \* parsed -i lists the request may carry (<<>>: none)
    JsonModes         \* output modes (TRUE = -j)

\* dcgmDiagResult_t.
Pass   == "pass"
Skip   == "skip"
Warn   == "warn"
Fail   == "fail"
NotRun == "notrun"
Statuses == {Pass, Skip, Warn, Fail, NotRun}

ASSUME DevicesAssumption == NumDevices \in Nat \ {0}
ASSUME TestsAssumption ==
    /\ GpuTests \in Seq(STRING) /\ LevelOneTests \in Seq(STRING)
    /\ CudaRuntimeTest \in STRING
ASSUME ErrSlotsAssumption == ErrSlots \in Nat \ {0}
ASSUME ZeroStatusAssumption == ZeroStatus \in Statuses /\ ZeroStatus # Fail
\* gpuVec is a std::vector<unsigned int>; m_jsonOutput is a bool.
ASSUME ChoicesAssumption ==
    FilterChoices \subseteq Seq(Nat) /\ JsonModes \subseteq BOOLEAN

Slots == 0 .. (NumDevices - 1)
Sentinel == NumDevices        \* DCGM_MAX_NUM_DEVICES, the "unused" gpuId
NoGpu == -1                   \* the "gpu" of a level-one (deployment) fact
PluginIdx == 1 .. Len(GpuTests)
LevelOneIdx == 1 .. Len(LevelOneTests)
ErrIdx == 1 .. ErrSlots

\* A result cell: its status and, per error slot, whether the error code's
\* priority is DCGM_ERROR_ISOLATE. The priorities are only read for failing
\* cells, so the other cells carry no isolate error.
Cells ==
    {[status |-> s, isolate |-> [j \in ErrIdx |-> FALSE]] : s \in Statuses \ {Fail}}
    \cup {[status |-> Fail, isolate |-> iso] : iso \in [ErrIdx -> BOOLEAN]}
ZeroCell == [status |-> ZeroStatus, isolate |-> [j \in ErrIdx |-> FALSE]]

\* The responses the run RPC returns with DCGM_ST_OK when the engine fills
\* the slots P. InitializeDiagResponse marks every slot of RunDiagOnce's
\* diagResult with the sentinel, but ExecuteDiagOnServer then overwrites the
\* whole struct with the executor's m_diagResult, which the executor's
\* constructor zero-filled: the engine writes gpuId = i and the cells of
\* exactly gpuCount slots over that buffer, and the other slots read as
\* gpuId 0 with zero cells, or as the sentinel if the engine marks them
\* itself (the engine is not part of this source).
ResponsesFor(P) ==
    {[sysErr   |-> e,
      gpuCount |-> Cardinality(P),
      gpuId    |-> [i \in Slots |-> IF i \in P THEN i ELSE u],
      results  |-> rs,
      levelOne |-> l1] :
        e \in BOOLEAN,
        u \in {0, Sentinel},
        rs \in {f \in [Slots -> [PluginIdx -> Cells]] :
                   \A i \in Slots \ P : f[i] = [t \in PluginIdx |-> ZeroCell]},
        l1 \in [LevelOneIdx -> Cells]}
EngineResponses == UNION {ResponsesFor(P) : P \in SUBSET Slots}

SlotsOf(v) == {v[k] : k \in DOMAIN v}

(***************************************************************************)
(* Diag::GetFailureResult: level-one cells, then every slot's cells in     *)
(* plugin order (all DCGM_MAX_NUM_DEVICES slots, used or not). In a        *)
(* failing cell every error slot is looked at: an isolate-tier code        *)
(* returns at once, any other sets ret = DCGM_ST_NVVS_ERROR.               *)
(***************************************************************************)
ScanCells(r) ==
    [k \in LevelOneIdx |-> r.levelOne[k]]
    \o [k \in 1 .. (NumDevices * Len(GpuTests)) |->
          r.results[(k - 1) \div Len(GpuTests)][((k - 1) % Len(GpuTests)) + 1]]

\* The inner loop over the error slots of one failing cell.
ScanErrors(c, ret) ==
    LET s[j \in 0 .. ErrSlots] ==
          IF j = 0 THEN ret
          ELSE IF s[j - 1] = IsolateError THEN IsolateError
          ELSE IF c.isolate[j] THEN IsolateError
          ELSE NvvsError
    IN s[ErrSlots]

\* Mutant: the scan returns at the first failing cell.
GetFailureResultFirstFail(r) ==
    LET cs == ScanCells(r)
        scan[k \in 0 .. Len(cs)] ==
          IF k = 0 THEN OK
          ELSE IF scan[k - 1] # OK THEN scan[k - 1]
          ELSE IF cs[k].status = Fail THEN ScanErrors(cs[k], scan[k - 1])
          ELSE scan[k - 1]
    IN scan[Len(cs)]

GetFailureResult(r) ==
    LET cs == ScanCells(r)
        scan[k \in 0 .. Len(cs)] ==
          IF k = 0 THEN OK
          ELSE IF scan[k - 1] = IsolateError THEN IsolateError
          ELSE IF cs[k].status = Fail THEN ScanErrors(cs[k], scan[k - 1])
          ELSE scan[k - 1]
    IN scan[Len(cs)]

\* Diag::PopulateGpuList: slots in index order while fewer than gpuCount are
\* taken, keeping those whose gpuId was written and that ran some test.
SomeTestRan(r, i) == \E t \in PluginIdx : r.results[i][t].status # NotRun

\* Mutant: the sentinel gpuId is not checked.
PopulateGpuListNoSentinel(r) ==
    LET vec[i \in 0 .. NumDevices] ==
          IF i = 0 THEN << >>
          ELSE IF Len(vec[i - 1]) < r.gpuCount /\ SomeTestRan(r, i - 1)
               THEN Append(vec[i - 1], i - 1)
               ELSE vec[i - 1]
    IN vec[NumDevices]

PopulateGpuList(r) ==
    LET vec[i \in 0 .. NumDevices] ==
          IF i = 0 THEN << >>
          ELSE IF /\ Len(vec[i - 1]) < r.gpuCount
                  /\ r.gpuId[i - 1] # Sentinel
                  /\ SomeTestRan(r, i - 1)
               THEN Append(vec[i - 1], i - 1)
               ELSE vec[i - 1]
    IN vec[NumDevices]

\* Diag::HelperDisplayDiagResult: the word of a status in the deployment
\* section and in every JSON result.
HelperDisplayDiagResult(s) ==
    CASE s = Pass -> "Pass"
      [] s = Skip -> "Skip"
      [] OTHER    -> "Fail"

\* The bucket of HelperDisplayGpuResults a status falls in, by its line's
\* word; NOT_RUN (or any other value) falls in none.
BucketWord == [s \in {Pass, Skip, Warn, Fail} |->
                 CASE s = Pass -> "Pass" [] s = Skip -> "Skip"
                   [] s = Warn -> "Warn" [] s = Fail -> "Fail"]

Fact(test, gpu, word) == [test |-> test, gpu |-> gpu, word |-> word]

\* HelperDisplayDeployment / HelperDisplayDeploymentResult: every level-one
\* test that ran.
TextDeployment(r) ==
    {Fact(LevelOneTests[l], NoGpu, HelperDisplayDiagResult(r.levelOne[l].status)) :
        l \in {l \in LevelOneIdx : r.levelOne[l].status # NotRun}}

\* HelperDisplayHardware hides the Diagnostic test when it skipped on every
\* GPU of the list.
TextShown(r, vec, t) ==
    \/ GpuTests[t] # "diagnostic"
    \/ \E k \in DOMAIN vec : r.results[vec[k]][t].status # Skip

\* HelperDisplayGpuResults for test t: each GPU of the list under the
\* bucket of its status (the "- All" lines say the same of every GPU). The
\* line shows diagResults[gpuIndex].gpuId.
TextGpuResults(r, vec, t) ==
    {Fact(GpuTests[t], r.gpuId[vec[k]], BucketWord[r.results[vec[k]][t].status]) :
        k \in {k \in DOMAIN vec : r.results[vec[k]][t].status \in DOMAIN BucketWord}}

\* The text report: deployment, then, when the GPU list is not empty, the
\* integration, hardware and stress sections.
TextReport(r, vec) ==
    TextDeployment(r)
    \cup IF vec = << >> THEN {}
         ELSE UNION {TextGpuResults(r, vec, t) : t \in {t \in PluginIdx : TextShown(r, vec, t)}}

\* HelperJsonAddBasicTests: every level-one test but the deprecated CUDA
\* runtime test when it did not run.
JsonBasicTests(r) ==
    {Fact(LevelOneTests[l], NoGpu, HelperDisplayDiagResult(r.levelOne[l].status)) :
        l \in {l \in LevelOneIdx :
                 ~(LevelOneTests[l] = CudaRuntimeTest /\ r.levelOne[l].status = NotRun)}}

\* HelperJsonAddResult: no entry for a test that did not run on the GPU,
\* otherwise its status word under the GPU index.
JsonAddResult(r, t, i) ==
    IF r.results[i][t].status = NotRun THEN {}
    ELSE {Fact(GpuTests[t], i, HelperDisplayDiagResult(r.results[i][t].status))}

\* HelperJsonBuildOutput: the basic tests, then every plugin's result for
\* every GPU of the list.
JsonReport(r, vec) ==
    JsonBasicTests(r)
    \cup UNION {JsonAddResult(r, t, vec[k]) : t \in PluginIdx, k \in DOMAIN vec}

-----------------------------------------------------------------------------
VARIABLES
    resp,        \* the dcgmDiagResponse_t the run RPC filled
    filter,      \* m_drd.gpuList, parsed (<<>> when empty)
    jsonOutput,  \* m_jsonOutput
    gpuVec,      \* gpuVec, the GPU working set
    report,      \* what the printed report says
    result,      \* what RunDiagOnce returns
    pc,          \* "exited": the RPC returned OK; "done": RunDiagOnce returned
    filled       \* ghost: the slots the engine filled (the code cannot see it)

vars == <<resp, filter, jsonOutput, gpuVec, report, result, pc, filled>>

Words == {"Pass", "Skip", "Warn", "Fail", "Error"}
\* A line names a plugin or level-one test of the response, or the system
\* error.
TestNames == {GpuTests[t] : t \in PluginIdx} \cup {LevelOneTests[l] : l \in LevelOneIdx}
             \cup {"systemError"}
Facts == [test : TestNames, gpu : Slots \cup {NoGpu}, word : Words]

\* The line "Error: <systemError.msg>" of HelperDisplayFailureMessage.
SystemErrorFact == Fact("systemError", NoGpu, "Error")

TypeOK ==
    /\ resp \in EngineResponses
    /\ filter \in FilterChoices
    /\ jsonOutput \in JsonModes
    /\ gpuVec \in Seq(Slots)
    /\ report \subseteq Facts
    /\ result \in Verdicts
    /\ pc \in {"exited", "done"}
    /\ filled \in SUBSET Slots

\* The run RPC returned DCGM_ST_OK; the request's -i list names GPUs the
\* engine filled (an empty list: the engine chose them).
Init ==
    /\ filled \in SUBSET Slots
    /\ resp \in ResponsesFor(filled)
    /\ filter \in {f \in FilterChoices : f # << >> => SlotsOf(f) = filled}
    /\ jsonOutput \in JsonModes
    /\ gpuVec = << >>
    /\ report = {}
    /\ result = OK
    /\ pc = "exited"

\* Text mode, non-empty systemError.msg: the message is printed and the run
\* returns DCGM_ST_NVVS_ERROR.
SystemErrorText ==
    /\ pc = "exited"
    /\ ~jsonOutput /\ resp.sysErr
    /\ report' = {SystemErrorFact}
    /\ result' = NvvsError
    /\ pc' = "done"
    /\ UNCHANGED <<resp, filter, jsonOutput, gpuVec, filled>>

\* The rest of RunDiagOnce: the GPU list, one report, GetFailureResult.
Render ==
    /\ pc = "exited"
    /\ ~(~jsonOutput /\ resp.sysErr)
    /\ gpuVec' = IF filter # << >> THEN filter ELSE PopulateGpuList(resp)
    /\ report' = IF jsonOutput THEN JsonReport(resp, gpuVec')
                 ELSE TextReport(resp, gpuVec')
    /\ result' = GetFailureResult(resp)
    /\ pc' = "done"
    /\ UNCHANGED <<resp, filter, jsonOutput, filled>>

Next == SystemErrorText \/ Render

Spec == Init /\ [][Next]_vars

-----------------------------------------------------------------------------
(* Properties. "Rendered": RunDiagOnce reached the reports.                *)
Rendered == pc = "done" /\ ~(~jsonOutput /\ resp.sysErr)

AllCells(r) == {r.levelOne[l] : l \in LevelOneIdx}
               \cup {r.results[i][t] : i \in Slots, t \in PluginIdx}

\* Spec 4.2: isolate-tier errors win over ordinary failures whatever the
\* order of the cells and error slots; any failing cell is an error.
ReferenceVerdict(r) ==
    IF \E c \in AllCells(r) : c.status = Fail /\ \E j \in ErrIdx : c.isolate[j]
    THEN IsolateError
    ELSE IF \E c \in AllCells(r) : c.status = Fail THEN NvvsError
    ELSE OK

\* GetFailureResult's nested loops with early return compute the verdict of
\* spec 4.2: an isolate-tier error in any failing cell, in any error slot,
\* found before or after ordinary failures, gives NVVS_ISOLATE_ERROR.
IsolatePrecedence == Rendered => result = ReferenceVerdict(resp)

FailureIsReported ==
    (pc = "done" /\ result # OK) =>
        \E f \in report : f.word \in {"Fail", "Error"}

\* The two formats give the same pass/fail classification of every test and
\* GPU for the same response and GPU list (spec 4.3: "must never disagree
\* on which GPUs passed/failed a given test").
FormatsAgree ==
    pc = "done" =>
        LET PF(S) == {f \in S : f.word \in {"Pass", "Fail"}}
        IN  PF(TextReport(resp, gpuVec)) = PF(JsonReport(resp, gpuVec))

\* HelperDisplayGpuResults partitions the GPU list into the four buckets:
\* a test the text report shows lists every GPU of the list (spec 4.2).
GpuListedEveryTest ==
    (Rendered /\ ~jsonOutput) =>
        \A t \in PluginIdx, k \in DOMAIN gpuVec :
            (\E f \in report : f.test = GpuTests[t]) =>
                \E f \in report : f.test = GpuTests[t] /\ f.gpu = resp.gpuId[gpuVec[k]]

=============================================================================
