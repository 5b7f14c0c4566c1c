-------------------------- MODULE DiagReportProofs --------------------------
(***************************************************************************)
(* Proofs about the result classifier of Diag::RunDiagOnce as DiagReport   *)
(* models it, for every number of device slots, tests and error slots.     *)
(*                                                                         *)
(* The loops of GetFailureResult and PopulateGpuList are recursive         *)
(* functions over 0 .. n in the model. For each of them the proofs name    *)
(* the function (a CHOOSE, which is what the LET definition stands for),   *)
(* show that a function satisfying its equation exists, and derive what   *)
(* it computes by induction in the form of a least counterexample          *)
(* (NatSetHasMin): the set of indices where a claim fails has no least     *)
(* element, so it is empty.                                                *)
(***************************************************************************)
EXTENDS DiagReport, NatSetLemmas, FiniteSetTheorems, SequenceTheorems, TLAPS

USE DevicesAssumption, TestsAssumption, ErrSlotsAssumption, ZeroStatusAssumption

-----------------------------------------------------------------------------
(* A result cell has a status and one isolate flag per error slot. *)
LEMMA CellType ==
    ASSUME NEW c \in Cells
    PROVE  c.status \in Statuses /\ c.isolate \in [ErrIdx -> BOOLEAN]
<1>1. CASE \E s \in Statuses \ {Fail} : c = [status |-> s, isolate |-> [j \in ErrIdx |-> FALSE]]
  BY <1>1
<1>2. CASE \E iso \in [ErrIdx -> BOOLEAN] : c = [status |-> Fail, isolate |-> iso]
  BY <1>2 DEF Statuses
<1>3. QED
  BY <1>1, <1>2 DEF Cells

-----------------------------------------------------------------------------
(* The inner loop of GetFailureResult over the error slots of one failing  *)
(* cell.                                                                   *)

ErrStep(s, c, ret, j) ==
    IF j = 0 THEN ret
    ELSE IF s[j - 1] = IsolateError THEN IsolateError
    ELSE IF c.isolate[j] THEN IsolateError
    ELSE NvvsError

ErrScan(c, ret) == CHOOSE s : s = [j \in 0 .. ErrSlots |-> ErrStep(s, c, ret, j)]

\* What the loop has computed after error slot j.
ErrValue(c, ret, j) ==
    IF ret = IsolateError \/ \E i \in 1 .. j : c.isolate[i] THEN IsolateError
    ELSE IF j = 0 THEN ret
    ELSE NvvsError

LEMMA ScanErrorsIsErrScan ==
    ASSUME NEW c, NEW ret
    PROVE  ScanErrors(c, ret) = ErrScan(c, ret)[ErrSlots]
BY DEF ScanErrors, ErrScan, ErrStep

(* The closed form satisfies the loop's equation, so ErrScan does too. *)
LEMMA ErrScanDef ==
    ASSUME NEW c \in Cells, NEW ret
    PROVE  ErrScan(c, ret) = [j \in 0 .. ErrSlots |-> ErrStep(ErrScan(c, ret), c, ret, j)]
<1> DEFINE g == [j \in 0 .. ErrSlots |-> ErrValue(c, ret, j)]
<1>1. c.isolate \in [ErrIdx -> BOOLEAN]
  BY CellType
<1>2. \A j \in 0 .. ErrSlots : g[j] = ErrStep(g, c, ret, j)
  <2> SUFFICES ASSUME NEW j \in 0 .. ErrSlots PROVE g[j] = ErrStep(g, c, ret, j)
    OBVIOUS
  <2>1. CASE j = 0
    BY <2>1 DEF ErrValue, ErrStep
  <2>2. CASE j # 0 /\ g[j - 1] = IsolateError
    <3>1. ret = IsolateError \/ \E i \in 1 .. (j - 1) : c.isolate[i]
      BY <2>2 DEF ErrValue, IsolateError, NvvsError
    <3>2. QED
      BY <2>2, <3>1 DEF ErrValue, ErrStep
  <2>3. CASE j # 0 /\ g[j - 1] # IsolateError
    <3>1. ret # IsolateError /\ \A i \in 1 .. (j - 1) : ~c.isolate[i]
      BY <2>3 DEF ErrValue
    <3>2. (\E i \in 1 .. j : c.isolate[i]) <=> c.isolate[j]
      BY <2>3, <3>1
    <3>3. QED
      BY <2>3, <3>1, <3>2 DEF ErrValue, ErrStep
  <2>4. QED
    BY <2>1, <2>2, <2>3
<1>3. g = [j \in 0 .. ErrSlots |-> ErrStep(g, c, ret, j)]
  BY <1>2
<1>4. QED
  BY <1>3 DEF ErrScan

(* Two functions that satisfy the loop's equation agree: the loop has one  *)
(* outcome, the closed form.                                               *)
LEMMA ErrScanValue ==
    ASSUME NEW c \in Cells, NEW ret, NEW j \in 0 .. ErrSlots
    PROVE  ErrScan(c, ret)[j] = ErrValue(c, ret, j)
<1> DEFINE f == ErrScan(c, ret)
           Bad == {k \in 0 .. ErrSlots : f[k] # ErrValue(c, ret, k)}
<1>1. f = [k \in 0 .. ErrSlots |-> ErrStep(f, c, ret, k)]
  BY ErrScanDef
<1>2. c.isolate \in [ErrIdx -> BOOLEAN]
  BY CellType
<1>3. SUFFICES Bad = {}
  OBVIOUS
<1> HIDE DEF f
<1>4. SUFFICES ASSUME Bad # {} PROVE FALSE
  OBVIOUS
<1>5. PICK m \in Bad : \A q \in Bad : m <= q
  <2>1. Bad \in SUBSET Nat
    OBVIOUS
  <2>2. QED
    BY <1>4, <2>1, NatSetHasMin
<1>6. CASE m = 0
  BY <1>1, <1>5, <1>6 DEF ErrStep, ErrValue
<1>7. CASE m # 0
  <2>1. f[m - 1] = ErrValue(c, ret, m - 1)
    BY <1>5, <1>7
  <2>2. f[m] = ErrStep(f, c, ret, m)
    BY <1>1, <1>5
  <2>3. CASE ErrValue(c, ret, m - 1) = IsolateError
    <3>1. ret = IsolateError \/ \E i \in 1 .. (m - 1) : c.isolate[i]
      BY <2>3 DEF ErrValue, IsolateError, NvvsError
    <3>2. QED
      BY <1>5, <1>7, <2>1, <2>2, <2>3, <3>1 DEF ErrValue, ErrStep
  <2>4. CASE ErrValue(c, ret, m - 1) # IsolateError
    <3>1. ret # IsolateError /\ \A i \in 1 .. (m - 1) : ~c.isolate[i]
      BY <2>4 DEF ErrValue
    <3>2. (\E i \in 1 .. m : c.isolate[i]) <=> c.isolate[m]
      BY <1>2, <1>5, <1>7, <3>1
    <3>3. QED
      BY <1>5, <1>7, <2>1, <2>2, <2>4, <3>1, <3>2 DEF ErrValue, ErrStep
  <2>5. QED
    BY <2>3, <2>4
<1>8. QED
  BY <1>6, <1>7

(* ScanErrors returns NVVS_ISOLATE_ERROR when it was already the verdict  *)
(* or any error slot of the cell is in the isolate tier, and NVVS_ERROR    *)
(* otherwise: no slot is skipped and an ordinary error never overrides.   *)
LEMMA ScanErrorsValue ==
    ASSUME NEW c \in Cells, NEW ret
    PROVE  ScanErrors(c, ret) =
             IF ret = IsolateError \/ \E i \in ErrIdx : c.isolate[i]
             THEN IsolateError ELSE NvvsError
<1>1. ScanErrors(c, ret) = ErrValue(c, ret, ErrSlots)
  BY ScanErrorsIsErrScan, ErrScanValue
<1>2. QED
  BY <1>1 DEF ErrValue, ErrIdx

-----------------------------------------------------------------------------
(* The outer loop of GetFailureResult, over any sequence of cells: it stops *)
(* at the first isolate-tier verdict and otherwise lets ScanErrors update   *)
(* the verdict at every failing cell.                                       *)

FailStep(s, cs, k) ==
    IF k = 0 THEN OK
    ELSE IF s[k - 1] = IsolateError THEN IsolateError
    ELSE IF cs[k].status = Fail THEN ScanErrors(cs[k], s[k - 1])
    ELSE s[k - 1]

FailScan(cs) == CHOOSE s : s = [k \in 0 .. Len(cs) |-> FailStep(s, cs, k)]

IsolatedCell(c) == c.status = Fail /\ \E j \in ErrIdx : c.isolate[j]

\* The verdict after the first k cells.
FailValue(cs, k) ==
    IF \E i \in 1 .. k : IsolatedCell(cs[i]) THEN IsolateError
    ELSE IF \E i \in 1 .. k : cs[i].status = Fail THEN NvvsError
    ELSE OK

LEMMA GetFailureResultIsFailScan ==
    ASSUME NEW r
    PROVE  GetFailureResult(r) = FailScan(ScanCells(r))[Len(ScanCells(r))]
BY DEF GetFailureResult, FailScan, FailStep

(* One step of the outer loop, from the verdict of the cells before k. *)
LEMMA FailStepValue ==
    ASSUME NEW cs \in Seq(Cells), NEW k \in 1 .. Len(cs), NEW s,
           s[k - 1] = FailValue(cs, k - 1)
    PROVE  FailStep(s, cs, k) = FailValue(cs, k)
<1>1. cs[k] \in Cells
  OBVIOUS
<1>2. CASE FailValue(cs, k - 1) = IsolateError
  <2>1. \E i \in 1 .. (k - 1) : IsolatedCell(cs[i])
    BY <1>2 DEF FailValue, IsolateError, NvvsError, OK
  <2>2. QED
    BY <1>2, <2>1 DEF FailStep, FailValue
<1>3. CASE FailValue(cs, k - 1) # IsolateError
  <2>1. \A i \in 1 .. (k - 1) : ~IsolatedCell(cs[i])
    BY <1>3 DEF FailValue
  <2>2. (\E i \in 1 .. k : IsolatedCell(cs[i])) <=> IsolatedCell(cs[k])
    BY <2>1
  <2>3. CASE cs[k].status = Fail
    <3>1. ScanErrors(cs[k], s[k - 1]) =
            IF \E j \in ErrIdx : cs[k].isolate[j] THEN IsolateError ELSE NvvsError
      BY <1>1, <1>3, ScanErrorsValue
    <3>2. QED
      BY <1>3, <2>2, <2>3, <3>1 DEF FailStep, FailValue, IsolatedCell
  <2>4. CASE cs[k].status # Fail
    <3>1. (\E i \in 1 .. k : cs[i].status = Fail) <=> \E i \in 1 .. (k - 1) : cs[i].status = Fail
      BY <2>4
    <3>2. QED
      BY <1>3, <2>2, <2>4, <3>1 DEF FailStep, FailValue, IsolatedCell
  <2>5. QED
    BY <2>3, <2>4
<1>4. QED
  BY <1>2, <1>3

LEMMA FailScanDef ==
    ASSUME NEW cs \in Seq(Cells)
    PROVE  FailScan(cs) = [k \in 0 .. Len(cs) |-> FailStep(FailScan(cs), cs, k)]
<1> DEFINE g == [k \in 0 .. Len(cs) |-> FailValue(cs, k)]
<1>1. \A k \in 0 .. Len(cs) : g[k] = FailStep(g, cs, k)
  <2> SUFFICES ASSUME NEW k \in 0 .. Len(cs) PROVE g[k] = FailStep(g, cs, k)
    OBVIOUS
  <2>1. CASE k = 0
    BY <2>1 DEF FailStep, FailValue
  <2>2. CASE k # 0
    <3>1. k \in 1 .. Len(cs) /\ k - 1 \in 0 .. Len(cs)
      BY <2>2
    <3>2. g[k] = FailValue(cs, k) /\ g[k - 1] = FailValue(cs, k - 1)
      BY <3>1
    <3> HIDE DEF g
    <3>3. FailStep(g, cs, k) = FailValue(cs, k)
      BY <3>1, <3>2, FailStepValue
    <3>4. QED
      BY <3>2, <3>3
  <2>3. QED
    BY <2>1, <2>2
<1>2. g = [k \in 0 .. Len(cs) |-> FailStep(g, cs, k)]
  BY <1>1
<1>3. QED
  BY <1>2 DEF FailScan

LEMMA FailScanValue ==
    ASSUME NEW cs \in Seq(Cells), NEW k \in 0 .. Len(cs)
    PROVE  FailScan(cs)[k] = FailValue(cs, k)
<1> DEFINE f == FailScan(cs)
           Bad == {i \in 0 .. Len(cs) : f[i] # FailValue(cs, i)}
<1>1. f = [i \in 0 .. Len(cs) |-> FailStep(f, cs, i)]
  BY FailScanDef
<1>2. SUFFICES Bad = {}
  OBVIOUS
<1> HIDE DEF f
<1>3. SUFFICES ASSUME Bad # {} PROVE FALSE
  OBVIOUS
<1>4. PICK m \in Bad : \A q \in Bad : m <= q
  <2>1. Bad \in SUBSET Nat
    OBVIOUS
  <2>2. QED
    BY <1>3, <2>1, NatSetHasMin
<1>5. CASE m = 0
  BY <1>1, <1>4, <1>5 DEF FailStep, FailValue
<1>6. CASE m # 0
  <2>1. f[m - 1] = FailValue(cs, m - 1)
    BY <1>4, <1>6
  <2>2. f[m] = FailStep(f, cs, m)
    BY <1>1, <1>4, SMTT(30)
  <2>3. QED
    BY <1>4, <1>6, <2>1, <2>2, FailStepValue
<1>7. QED
  BY <1>5, <1>6

-----------------------------------------------------------------------------
(* ScanCells: the level-one cells, then slot after slot the plugin cells.  *)
(* The index arithmetic visits every (slot, plugin) pair and no other.     *)

LEMMA SlotOfIndex ==
    ASSUME NEW G \in Nat \ {0}, NEW N \in Nat, NEW k \in 1 .. (N * G)
    PROVE  /\ (k - 1) \div G \in 0 .. (N - 1)
           /\ ((k - 1) % G) + 1 \in 1 .. G
OBVIOUS

LEMMA IndexOfSlot ==
    ASSUME NEW G \in Nat \ {0}, NEW N \in Nat, NEW i \in 0 .. (N - 1), NEW t \in 1 .. G
    PROVE  /\ i * G + t \in 1 .. (N * G)
           /\ (i * G + t - 1) \div G = i
           /\ ((i * G + t - 1) % G) + 1 = t
OBVIOUS

\* The fields of a response GetFailureResult reads.
CellsTyped(r) ==
    /\ r.levelOne \in [LevelOneIdx -> Cells]
    /\ r.results \in [Slots -> [PluginIdx -> Cells]]

LEMMA ScanCellsType ==
    ASSUME NEW r, CellsTyped(r)
    PROVE  LET cs == ScanCells(r)
               L1 == Len(LevelOneTests)
               G  == Len(GpuTests)
           IN  /\ cs \in Seq(Cells)
               /\ Len(cs) = L1 + NumDevices * G
               /\ \A k \in 1 .. L1 : cs[k] = r.levelOne[k]
               /\ \A k \in (L1 + 1) .. (L1 + NumDevices * G) :
                     cs[k] = r.results[(k - L1 - 1) \div G][((k - L1 - 1) % G) + 1]
<1> DEFINE L1 == Len(LevelOneTests)
           G  == Len(GpuTests)
           A  == [k \in LevelOneIdx |-> r.levelOne[k]]
           B  == [k \in 1 .. (NumDevices * G) |->
                    r.results[(k - 1) \div G][((k - 1) % G) + 1]]
<1>1. L1 \in Nat /\ G \in Nat
  OBVIOUS
<1>2. A \in Seq(Cells) /\ Len(A) = L1
  BY <1>1 DEF CellsTyped, LevelOneIdx
<1>3. \A k \in 1 .. (NumDevices * G) :
        r.results[(k - 1) \div G][((k - 1) % G) + 1] \in Cells
  <2> SUFFICES ASSUME NEW k \in 1 .. (NumDevices * G)
               PROVE  r.results[(k - 1) \div G][((k - 1) % G) + 1] \in Cells
    OBVIOUS
  <2>1. G # 0
    OBVIOUS
  <2>2. (k - 1) \div G \in Slots /\ ((k - 1) % G) + 1 \in PluginIdx
    BY <1>1, <2>1, SlotOfIndex DEF Slots, PluginIdx
  <2>3. QED
    BY <2>2 DEF CellsTyped
<1>4. B \in Seq(Cells) /\ Len(B) = NumDevices * G
  BY <1>1, <1>3
<1>5. ScanCells(r) = A \o B
  BY DEF ScanCells
<1> HIDE DEF A, B
<1>6. /\ A \o B \in Seq(Cells)
      /\ Len(A \o B) = Len(A) + Len(B)
      /\ \A i \in 1 .. Len(A) + Len(B) :
            (A \o B)[i] = IF i <= Len(A) THEN A[i] ELSE B[i - Len(A)]
  BY <1>2, <1>4, ConcatProperties
<1>7. \A k \in 1 .. L1 : (A \o B)[k] = r.levelOne[k]
  BY <1>1, <1>2, <1>4, <1>6 DEF A, LevelOneIdx
<1>8. ASSUME NEW k \in (L1 + 1) .. (L1 + NumDevices * G)
      PROVE  (A \o B)[k] = r.results[(k - L1 - 1) \div G][((k - L1 - 1) % G) + 1]
  <2>1. (A \o B)[k] = B[k - L1]
    BY <1>1, <1>2, <1>4, <1>6
  <2>2. k - L1 \in 1 .. (NumDevices * G) /\ k - L1 - 1 = (k - L1) - 1
    BY <1>1
  <2>3. QED
    BY <2>1, <2>2 DEF B
<1>9. QED
  BY <1>2, <1>4, <1>5, <1>6, <1>7, <1>8

(* The cells GetFailureResult scans are exactly the response's cells. *)
LEMMA ScanCellsRange ==
    ASSUME NEW r, CellsTyped(r)
    PROVE  {ScanCells(r)[k] : k \in 1 .. Len(ScanCells(r))} = AllCells(r)
<1> DEFINE cs == ScanCells(r)
           L1 == Len(LevelOneTests)
           G  == Len(GpuTests)
<1>1. /\ cs \in Seq(Cells)
      /\ Len(cs) = L1 + NumDevices * G
      /\ \A k \in 1 .. L1 : cs[k] = r.levelOne[k]
      /\ \A k \in (L1 + 1) .. (L1 + NumDevices * G) :
            cs[k] = r.results[(k - L1 - 1) \div G][((k - L1 - 1) % G) + 1]
  BY ScanCellsType
<1> HIDE DEF cs
<1>2. L1 \in Nat /\ G \in Nat
  OBVIOUS
<1>3. ASSUME NEW k \in 1 .. Len(cs) PROVE cs[k] \in AllCells(r)
  <2>1. CASE k <= L1
    BY <1>1, <2>1, SMTT(30) DEF AllCells, LevelOneIdx
  <2>2. CASE k > L1
    <3>1. k - L1 \in 1 .. (NumDevices * G) /\ G # 0
      BY <1>1, <1>2, <2>2
    <3>5. k \in (L1 + 1) .. (L1 + NumDevices * G)
      BY <1>1, <1>2, <2>2
    <3>2. cs[k] = r.results[(k - L1 - 1) \div G][((k - L1 - 1) % G) + 1]
      BY <1>1, <3>5
    <3>3. (k - L1 - 1) \div G \in Slots /\ ((k - L1 - 1) % G) + 1 \in PluginIdx
      BY <1>2, <3>1, SlotOfIndex DEF Slots, PluginIdx
    <3>4. QED
      BY <3>2, <3>3 DEF AllCells
  <2>3. QED
    BY <2>1, <2>2, <1>2
<1>4. ASSUME NEW l \in LevelOneIdx PROVE \E k \in 1 .. Len(cs) : cs[k] = r.levelOne[l]
  BY <1>1, <1>2 DEF LevelOneIdx
<1>5. ASSUME NEW i \in Slots, NEW t \in PluginIdx
      PROVE  \E k \in 1 .. Len(cs) : cs[k] = r.results[i][t]
  <2> DEFINE K == L1 + (i * G + t)
  <2>1. G \in Nat \ {0} /\ i \in 0 .. (NumDevices - 1) /\ t \in 1 .. G
    BY <1>2 DEF Slots, PluginIdx
  <2>2. /\ i * G + t \in 1 .. (NumDevices * G)
        /\ (i * G + t - 1) \div G = i
        /\ ((i * G + t - 1) % G) + 1 = t
    BY <2>1, IndexOfSlot, SMTT(30)
  <2>3. K \in (L1 + 1) .. (L1 + NumDevices * G) /\ K - L1 - 1 = i * G + t - 1
    BY <1>2, <2>1, <2>2
  <2>4. cs[K] = r.results[(K - L1 - 1) \div G][((K - L1 - 1) % G) + 1]
    BY <1>1, <2>3
  <2>5. cs[K] = r.results[i][t]
    BY <2>2, <2>3, <2>4
  <2>6. K \in 1 .. Len(cs)
    BY <1>1, <1>2, <2>3
  <2>7. QED
    BY <2>5, <2>6
<1>6. \A c \in AllCells(r) : \E k \in 1 .. Len(cs) : cs[k] = c
  BY <1>4, <1>5 DEF AllCells
<1>7. QED
  BY <1>3, <1>6 DEF cs

-----------------------------------------------------------------------------
(* Diag::GetFailureResult computes the order-free verdict of spec 4.2 for  *)
(* every response: the nested loops with their early return never let an   *)
(* ordinary failure hide an isolate-tier error, in whichever cell or error *)
(* slot it is, and any failing cell makes the run fail.                    *)
LEMMA GetFailureCorrect ==
    ASSUME NEW r, CellsTyped(r)
    PROVE  GetFailureResult(r) = ReferenceVerdict(r)
<1> DEFINE cs == ScanCells(r)
           n  == Len(cs)
<1>1. cs \in Seq(Cells)
  BY ScanCellsType
<1>2. {cs[k] : k \in 1 .. n} = AllCells(r)
  BY ScanCellsRange
<1> HIDE DEF cs, n
<1>3. GetFailureResult(r) = FailValue(cs, n)
  <2>1. n \in 0 .. Len(cs)
    BY <1>1 DEF n
  <2>2. QED
    BY <1>1, <2>1, GetFailureResultIsFailScan, FailScanValue DEF cs, n
<1>4. (\E i \in 1 .. n : IsolatedCell(cs[i])) <=> \E c \in AllCells(r) : IsolatedCell(c)
  BY <1>2
<1>5. (\E i \in 1 .. n : cs[i].status = Fail) <=> \E c \in AllCells(r) : c.status = Fail
  BY <1>2
<1>6. QED
  BY <1>3, <1>4, <1>5 DEF FailValue, ReferenceVerdict, IsolatedCell

-----------------------------------------------------------------------------
(* What a response returned with DCGM_ST_OK looks like: the engine filled  *)
(* a set P of slots, gpuCount is its size, the other slots read as gpuId 0 *)
(* or as the sentinel, with zero-filled cells.                             *)
ResponseOf(r, P) ==
    /\ r.gpuCount = Cardinality(P)
    /\ \E u \in {0, Sentinel} : r.gpuId = [i \in Slots |-> IF i \in P THEN i ELSE u]
    /\ r.results \in [Slots -> [PluginIdx -> Cells]]
    /\ \A i \in Slots \ P : r.results[i] = [t \in PluginIdx |-> ZeroCell]
    /\ r.levelOne \in [LevelOneIdx -> Cells]
    /\ r.sysErr \in BOOLEAN

LEMMA ResponseShape ==
    ASSUME NEW P \in SUBSET Slots, NEW r \in ResponsesFor(P)
    PROVE  ResponseOf(r, P)
<1>1. PICK e \in BOOLEAN, u \in {0, Sentinel},
           rs \in [Slots -> [PluginIdx -> Cells]], l1 \in [LevelOneIdx -> Cells] :
        /\ \A i \in Slots \ P : rs[i] = [t \in PluginIdx |-> ZeroCell]
        /\ r = [sysErr   |-> e,
                gpuCount |-> Cardinality(P),
                gpuId    |-> [i \in Slots |-> IF i \in P THEN i ELSE u],
                results  |-> rs,
                levelOne |-> l1]
  BY SMTT(30) DEF ResponsesFor
<1>2. QED
  BY <1>1 DEF ResponseOf

(* A slot's gpuId is the slot itself when the engine filled it, and 0 or   *)
(* the sentinel otherwise: every gpuId that is not the sentinel is a slot. *)
LEMMA ResponseFacts ==
    ASSUME NEW r, NEW P \in SUBSET Slots, ResponseOf(r, P)
    PROVE  /\ CellsTyped(r)
           /\ \A i \in P : r.gpuId[i] = i
           /\ \A i \in Slots : r.gpuId[i] # Sentinel => r.gpuId[i] \in Slots
<1>1. CellsTyped(r)
  BY DEF ResponseOf, CellsTyped
<1>2. PICK u \in {0, Sentinel} : r.gpuId = [i \in Slots |-> IF i \in P THEN i ELSE u]
  BY DEF ResponseOf
<1>3. 0 \in Slots
  BY DEF Slots
<1>4. QED
  BY <1>1, <1>2, <1>3

-----------------------------------------------------------------------------
(* Diag::PopulateGpuList's loop over the slots. Its function has no closed  *)
(* form, so its existence is shown by extending a solution on 0 .. n - 1    *)
(* to one on 0 .. n.                                                        *)

PopStep(v, r, i) ==
    IF i = 0 THEN << >>
    ELSE IF /\ Len(v[i - 1]) < r.gpuCount
            /\ r.gpuId[i - 1] # Sentinel
            /\ SomeTestRan(r, i - 1)
         THEN Append(v[i - 1], i - 1)
         ELSE v[i - 1]

PopScan(r) == CHOOSE v : v = [i \in 0 .. NumDevices |-> PopStep(v, r, i)]

LEMMA PopulateIsPopScan ==
    ASSUME NEW r
    PROVE  PopulateGpuList(r) = PopScan(r)[NumDevices]
BY DEF PopulateGpuList, PopScan, PopStep

(* A step reads only the previous entry. *)
LEMMA PopStepLocal ==
    ASSUME NEW v, NEW w, NEW r, NEW i \in Nat, i = 0 \/ v[i - 1] = w[i - 1]
    PROVE  PopStep(v, r, i) = PopStep(w, r, i)
BY DEF PopStep

LEMMA PopScanDef ==
    ASSUME NEW r
    PROVE  PopScan(r) = [i \in 0 .. NumDevices |-> PopStep(PopScan(r), r, i)]
<1> DEFINE Solved(n) == \E h : h = [i \in 0 .. n |-> PopStep(h, r, i)]
           Bad == {n \in 0 .. NumDevices : ~Solved(n)}
<1>1. SUFFICES Bad = {}
  <2>1. Solved(NumDevices)
    BY <1>1
  <2>2. QED
    BY <2>1 DEF PopScan
<1>2. SUFFICES ASSUME Bad # {} PROVE FALSE
  OBVIOUS
<1>3. PICK m \in Bad : \A q \in Bad : m <= q
  <2>1. Bad \in SUBSET Nat
    OBVIOUS
  <2>2. QED
    BY <1>2, <2>1, NatSetHasMin
<1>4. CASE m = 0
  <2> DEFINE h == [i \in 0 .. 0 |-> << >>]
  <2>1. h = [i \in 0 .. 0 |-> PopStep(h, r, i)]
    BY DEF PopStep
  <2>2. QED
    BY <1>3, <1>4, <2>1
<1>5. CASE m # 0
  <2>1. PICK h : h = [i \in 0 .. (m - 1) |-> PopStep(h, r, i)]
    BY <1>3, <1>5
  <2> DEFINE h2 == [i \in 0 .. m |-> IF i < m THEN h[i] ELSE PopStep(h, r, m)]
  <2>2. \A i \in 0 .. m : h2[i] = PopStep(h2, r, i)
    <3> SUFFICES ASSUME NEW i \in 0 .. m PROVE h2[i] = PopStep(h2, r, i)
      OBVIOUS
    <3>1. i = 0 \/ h[i - 1] = h2[i - 1]
      BY <1>3
    <3>2. PopStep(h, r, i) = PopStep(h2, r, i)
      BY <3>1, PopStepLocal
    <3>3. CASE i < m
      BY <2>1, <3>2, <3>3, SMTT(30)
    <3>4. CASE i = m
      <4>1. h2[i] = PopStep(h, r, m)
        BY <1>3, <3>4
      <4>2. QED
        BY <3>2, <3>4, <4>1
    <3>5. QED
      BY <3>3, <3>4
  <2>3. h2 = [i \in 0 .. m |-> PopStep(h2, r, i)]
    BY <2>2
  <2>4. QED
    BY <1>3, <2>3
<1>6. QED
  BY <1>4, <1>5

\* The list PopulateGpuList builds holds slots whose gpuId is not the
\* sentinel.
PopInv(r, v) ==
    /\ v \in Seq(Slots)
    /\ \A k \in 1 .. Len(v) : r.gpuId[v[k]] # Sentinel

(* One slot of the loop: a slot is appended only when its gpuId is not the *)
(* sentinel.                                                               *)
LEMMA PopStepInv ==
    ASSUME NEW r, NEW i \in 1 .. NumDevices, NEW v, PopInv(r, v[i - 1])
    PROVE  PopInv(r, PopStep(v, r, i))
<1> DEFINE u == v[i - 1]
           j == i - 1
<1>1. u \in Seq(Slots) /\ j \in Slots
  BY DEF PopInv, Slots
<1>2. CASE /\ Len(u) < r.gpuCount
           /\ r.gpuId[j] # Sentinel
           /\ SomeTestRan(r, j)
  <2>1. PopStep(v, r, i) = Append(u, j)
    BY <1>2 DEF PopStep
  <2>2. /\ Append(u, j) \in Seq(Slots)
        /\ Len(Append(u, j)) = Len(u) + 1
        /\ \A k \in 1 .. Len(u) : Append(u, j)[k] = u[k]
        /\ Append(u, j)[Len(u) + 1] = j
    BY <1>1
  <2>3. \A k \in 1 .. Len(Append(u, j)) : r.gpuId[Append(u, j)[k]] # Sentinel
    BY <1>1, <1>2, <2>2 DEF PopInv
  <2>4. QED
    BY <2>1, <2>2, <2>3 DEF PopInv
<1>3. CASE ~(/\ Len(u) < r.gpuCount
             /\ r.gpuId[j] # Sentinel
             /\ SomeTestRan(r, j))
  <2>1. PopStep(v, r, i) = u
    BY <1>3 DEF PopStep
  <2>2. QED
    BY <2>1
<1>4. QED
  BY <1>2, <1>3

LEMMA PopScanValue ==
    ASSUME NEW r, NEW i \in 0 .. NumDevices
    PROVE  PopInv(r, PopScan(r)[i])
<1> DEFINE f == PopScan(r)
           Bad == {n \in 0 .. NumDevices : ~PopInv(r, f[n])}
<1>1. f = [n \in 0 .. NumDevices |-> PopStep(f, r, n)]
  BY PopScanDef
<1>2. SUFFICES Bad = {}
  OBVIOUS
<1> HIDE DEF f
<1>3. SUFFICES ASSUME Bad # {} PROVE FALSE
  OBVIOUS
<1>4. PICK m \in Bad : \A q \in Bad : m <= q
  <2>1. Bad \in SUBSET Nat
    OBVIOUS
  <2>2. QED
    BY <1>3, <2>1, NatSetHasMin
<1>5. CASE m = 0
  <2>1. f[0] = << >>
    BY <1>1 DEF PopStep
  <2>2. PopInv(r, << >>)
    BY DEF PopInv
  <2>3. QED
    BY <1>4, <1>5, <2>1, <2>2
<1>6. CASE m # 0
  <2>1. PopInv(r, f[m - 1])
    BY <1>4, <1>6
  <2>2. f[m] = PopStep(f, r, m)
    BY <1>1, <1>4
  <2>3. PopInv(r, PopStep(f, r, m))
    BY <1>4, <1>6, <2>1, PopStepInv
  <2>4. QED
    BY <1>4, <2>2, <2>3
<1>7. QED
  BY <1>5, <1>6

-----------------------------------------------------------------------------
(* The state of RunDiagOnce after the RPC is determined by the response,   *)
(* the request and the path taken: none of the invariants is inductive on *)
(* its own, since each needs the report and the verdict to be the ones     *)
(* the path computed.                                                      *)
RInv ==
    /\ filled \in SUBSET Slots
    /\ resp \in ResponsesFor(filled)
    /\ filter \in FilterChoices
    /\ filter # << >> => SlotsOf(filter) = filled
    /\ jsonOutput \in JsonModes
    /\ pc \in {"exited", "done"}
    /\ pc = "exited" => gpuVec = << >> /\ report = {} /\ result = OK
    /\ Rendered =>
          /\ gpuVec = IF filter # << >> THEN filter ELSE PopulateGpuList(resp)
          /\ report = IF jsonOutput THEN JsonReport(resp, gpuVec)
                      ELSE TextReport(resp, gpuVec)
          /\ result = GetFailureResult(resp)
    /\ (pc = "done" /\ ~Rendered) =>
          /\ gpuVec = << >>
          /\ report = {SystemErrorFact}
          /\ result = NvvsError

LEMMA RInvInit == Init => RInv
BY DEF Init, RInv, Rendered

LEMMA RInvNext == RInv /\ [Next]_vars => RInv'
<1> SUFFICES ASSUME RInv, [Next]_vars PROVE RInv'
  OBVIOUS
<1>1. CASE SystemErrorText
  BY <1>1 DEF SystemErrorText, RInv, Rendered
<1>2. CASE Render
  BY <1>2 DEF Render, RInv, Rendered
<1>3. CASE UNCHANGED vars
  BY <1>3 DEF vars, RInv, Rendered
<1>4. QED
  BY <1>1, <1>2, <1>3 DEF Next

LEMMA RInvHolds == Spec => []RInv
BY RInvInit, RInvNext, PTL DEF Spec

(* A rendered state's GPU list holds slots, and the gpuId the text report  *)
(* prints for each of them is a slot: with -i the listed slots are the     *)
(* filled ones, without it PopulateGpuList skips the sentinel.             *)
LEMMA RenderedGpuList ==
    ASSUME RInv, Rendered
    PROVE  /\ gpuVec \in Seq(Slots)
           /\ \A k \in DOMAIN gpuVec : resp.gpuId[gpuVec[k]] \in Slots
<1>1. ResponseOf(resp, filled)
  BY ResponseShape DEF RInv
<1>2. CASE filter # << >>
  <2>1. gpuVec = filter /\ SlotsOf(filter) = filled
    BY <1>2 DEF RInv
  <2>2. filter \in Seq(Nat)
    BY ChoicesAssumption DEF RInv
  <2>3. \A k \in 1 .. Len(filter) : filter[k] \in filled
    BY <2>1, <2>2 DEF SlotsOf
  <2>4. filter \in Seq(Slots)
    BY <2>2, <2>3, SMTT(30) DEF RInv
  <2>5. \A k \in 1 .. Len(filter) : resp.gpuId[filter[k]] = filter[k]
    BY <1>1, <2>3, ResponseFacts DEF RInv
  <2>6. QED
    BY <2>1, <2>3, <2>4, <2>5 DEF RInv
<1>3. CASE filter = << >>
  <2>1. gpuVec = PopScan(resp)[NumDevices]
    BY <1>3, PopulateIsPopScan DEF RInv
  <2>2. PopInv(resp, gpuVec)
    BY <2>1, PopScanValue
  <2>3. /\ gpuVec \in Seq(Slots)
        /\ \A k \in DOMAIN gpuVec : gpuVec[k] \in Slots /\ resp.gpuId[gpuVec[k]] # Sentinel
    BY <2>2, ElementOfSeq DEF PopInv
  <2>4. \A i \in Slots : resp.gpuId[i] # Sentinel => resp.gpuId[i] \in Slots
    BY <1>1, ResponseFacts DEF RInv
  <2>5. QED
    BY <2>3, <2>4
<1>4. QED
  BY <1>2, <1>3

(* GetFailureResult's nested loops with early return compute the verdict of *)
(* spec 4.2 for every number of slots, tests and error slots: the property  *)
(* IsolatePrecedence of the report run, proved for all constants.           *)
THEOREM IsolatePrecedenceHolds == Spec => []IsolatePrecedence
<1>1. RInv => IsolatePrecedence
  <2> SUFFICES ASSUME RInv, Rendered PROVE result = ReferenceVerdict(resp)
    BY DEF IsolatePrecedence
  <2>1. ResponseOf(resp, filled)
    BY ResponseShape DEF RInv
  <2>2. CellsTyped(resp)
    BY <2>1, ResponseFacts DEF RInv
  <2>3. QED
    BY <2>2, GetFailureCorrect DEF RInv
<1>2. QED
  BY <1>1, RInvHolds, PTL

-----------------------------------------------------------------------------
(* The words the reports use. *)
LEMMA ResultWords ==
    /\ \A st : HelperDisplayDiagResult(st) \in Words
    /\ \A st \in DOMAIN BucketWord : BucketWord[st] \in Words
<1>1. \A st : HelperDisplayDiagResult(st) \in Words
  BY Zenon DEF HelperDisplayDiagResult, Words
<1>2. \A st \in DOMAIN BucketWord : BucketWord[st] \in Words
  BY Zenon DEF BucketWord, Words
<1>3. QED
  BY <1>1, <1>2

(* Every line of either report is a fact about a known test, a slot's GPU  *)
(* (or none) and one of the report's words.                                *)
LEMMA ReportsTyped ==
    ASSUME NEW r, NEW vec \in Seq(Slots),
           \A k \in DOMAIN vec : r.gpuId[vec[k]] \in Slots
    PROVE  JsonReport(r, vec) \subseteq Facts /\ TextReport(r, vec) \subseteq Facts
<1>1. \A l \in LevelOneIdx, w \in Words : Fact(LevelOneTests[l], NoGpu, w) \in Facts
  BY DEF LevelOneIdx, Fact, Facts, TestNames
<1>2. \A t \in PluginIdx, g \in Slots, w \in Words : Fact(GpuTests[t], g, w) \in Facts
  BY DEF PluginIdx, Fact, Facts, TestNames
<1>3. \A k \in DOMAIN vec : vec[k] \in Slots
  BY ElementOfSeq
<1>4. JsonBasicTests(r) \subseteq Facts /\ TextDeployment(r) \subseteq Facts
  BY <1>1, ResultWords DEF JsonBasicTests, TextDeployment
<1>5. \A t \in PluginIdx, k \in DOMAIN vec : JsonAddResult(r, t, vec[k]) \subseteq Facts
  BY <1>2, <1>3, ResultWords DEF JsonAddResult
<1>6. \A t \in PluginIdx : TextGpuResults(r, vec, t) \subseteq Facts
  BY <1>2, ResultWords DEF TextGpuResults
<1>7. QED
  BY <1>4, <1>5, <1>6 DEF JsonReport, TextReport

(* The classifier's state keeps its types for all constants: TypeOK of the *)
(* report run.                                                              *)
THEOREM TypeCorrect == Spec => []TypeOK
<1>1. RInv => TypeOK
  <2> SUFFICES ASSUME RInv
               PROVE  /\ resp \in EngineResponses
                      /\ gpuVec \in Seq(Slots)
                      /\ report \subseteq Facts
                      /\ result \in Verdicts
    BY DEF RInv, TypeOK
  <2>0. resp \in EngineResponses
    BY DEF RInv, EngineResponses
  <2>1. CASE pc = "exited"
    BY <2>0, <2>1 DEF RInv, Verdicts
  <2>2. CASE pc = "done" /\ ~Rendered
    <3>1. SystemErrorFact \in Facts
      <4>1. "systemError" \in TestNames /\ NoGpu \in Slots \cup {NoGpu} /\ "Error" \in Words
        BY DEF Words, TestNames
      <4>2. QED
        BY <4>1, Zenon DEF SystemErrorFact, Fact, Facts
    <3>2. QED
      BY <2>0, <2>2, <3>1 DEF RInv, Verdicts
  <2>3. CASE Rendered
    <3>1. ResponseOf(resp, filled)
      BY ResponseShape DEF RInv
    <3>2. CellsTyped(resp)
      BY <3>1, ResponseFacts DEF RInv
    <3>3. gpuVec \in Seq(Slots) /\ \A k \in DOMAIN gpuVec : resp.gpuId[gpuVec[k]] \in Slots
      BY <2>3, RenderedGpuList
    <3>4. report \subseteq Facts
      BY <2>3, <3>3, ReportsTyped DEF RInv
    <3>5. result = ReferenceVerdict(resp)
      BY <2>3, <3>2, GetFailureCorrect DEF RInv
    <3>6. ReferenceVerdict(resp) \in Verdicts
      BY DEF ReferenceVerdict, Verdicts
    <3>7. QED
      BY <2>0, <3>3, <3>4, <3>5, <3>6
  <2>4. QED
    BY <2>1, <2>2, <2>3 DEF RInv, Rendered
<1>2. QED
  BY <1>1, RInvHolds, PTL

=============================================================================
