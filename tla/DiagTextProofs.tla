--------------------------- MODULE DiagTextProofs ---------------------------
(***************************************************************************)
(* Proofs about Diag::Sanitize and Diag::DisplayVerboseInfo as DiagText    *)
(* models them, for every alphabet, message length and column width.       *)
(***************************************************************************)
EXTENDS DiagText, NatSetLemmas, SequenceTheorems, TLAPS

USE TextAssumption

-----------------------------------------------------------------------------
(* Sanitize keeps the message a string over the same characters, and never *)
(* makes it longer.                                                         *)

LEMMA FindStarsRange ==
    ASSUME NEW s \in Seq(Chars)
    PROVE  \/ FindStars(s) = 0
           \/ FindStars(s) \in 1 .. (Len(s) - 2)
<1> DEFINE At == {p \in 1 .. (Len(s) - 2) : s[p] = "*" /\ s[p + 1] = "*" /\ s[p + 2] = "*"}
<1>1. CASE At = {}
  BY <1>1 DEF FindStars
<1>2. CASE At # {}
  <2>1. \E p \in At : \A q \in At : p <= q
    <3>1. At \in SUBSET Nat
      OBVIOUS
    <3>2. QED
      BY <1>2, <3>1, NatSetHasMin
  <2>2. QED
    BY <1>2, <2>1 DEF FindStars
<1>3. QED
  BY <1>1, <1>2

LEMMA TrimTrailingType ==
    ASSUME NEW t \in Seq(Chars)
    PROVE  TrimTrailing(t) \in Seq(Chars) /\ Len(TrimTrailing(t)) <= Len(t)
<1> DEFINE Keep == {i \in 1 .. Len(t) : t[i] \notin Whitespace}
<1>1. CASE Keep = {}
  BY <1>1 DEF TrimTrailing
<1>2. CASE Keep # {}
  <2>1. \E m \in Keep : \A q \in Keep : q <= m
    <3>1. Len(t) \in Nat /\ Keep \in SUBSET (0 .. Len(t))
      OBVIOUS
    <3>2. QED
      BY <1>2, <3>1, NatSetHasMax
  <2> DEFINE m == CHOOSE i \in Keep : \A j \in Keep : j <= i
  <2>2. m \in 1 .. Len(t) /\ TrimTrailing(t) = SubSeq(t, 1, m)
    BY <1>2, <2>1 DEF TrimTrailing
  <2>3. \A i \in 1 .. m : t[i] \in Chars
    BY <2>2
  <2>4. /\ SubSeq(t, 1, m) \in Seq(Chars)
        /\ Len(SubSeq(t, 1, m)) = IF 1 <= m THEN m - 1 + 1 ELSE 0
    BY <2>2, <2>3, SubSeqProperties
  <2>5. Len(SubSeq(t, 1, m)) <= Len(t)
    BY <2>2, <2>4
  <2>6. QED
    BY <2>2, <2>4, <2>5, Zenon
<1>3. QED
  BY <1>1, <1>2

LEMMA TrimLeadingType ==
    ASSUME NEW t \in Seq(Chars)
    PROVE  TrimLeading(t) \in Seq(Chars) /\ Len(TrimLeading(t)) <= Len(t)
<1> DEFINE Keep == {i \in 1 .. Len(t) : t[i] \notin Whitespace}
<1>1. CASE Keep = {}
  BY <1>1 DEF TrimLeading
<1>2. CASE Keep # {}
  <2>1. \E m \in Keep : \A q \in Keep : m <= q
    <3>1. Keep \in SUBSET Nat
      OBVIOUS
    <3>2. QED
      BY <1>2, <3>1, NatSetHasMin
  <2> DEFINE m == CHOOSE i \in Keep : \A j \in Keep : i <= j
  <2>2. m \in 1 .. Len(t) /\ TrimLeading(t) = SubSeq(t, m, Len(t))
    BY <1>2, <2>1 DEF TrimLeading
  <2>3. \A i \in m .. Len(t) : t[i] \in Chars
    BY <2>2
  <2>4. /\ SubSeq(t, m, Len(t)) \in Seq(Chars)
        /\ Len(SubSeq(t, m, Len(t))) = IF m <= Len(t) THEN Len(t) - m + 1 ELSE 0
    BY <2>2, <2>3, SubSeqProperties
  <2>5. Len(SubSeq(t, m, Len(t))) <= Len(t)
    BY <2>2, <2>4
  <2>6. QED
    BY <2>2, <2>4, <2>5, Zenon
<1>3. QED
  BY <1>1, <1>2

LEMMA SanitizeType ==
    ASSUME NEW s \in Seq(Chars)
    PROVE  Sanitize(s) \in Seq(Chars) /\ Len(Sanitize(s)) <= Len(s)
<1> DEFINE p == FindStars(s)
           cut == IF p = 0 THEN s ELSE SubSeq(s, p + 3, Len(s))
<1>1. cut \in Seq(Chars) /\ Len(cut) <= Len(s)
  <2>1. CASE p = 0
    BY <2>1
  <2>2. CASE p \in 1 .. (Len(s) - 2)
    <3>1. \A i \in (p + 3) .. Len(s) : s[i] \in Chars
      BY <2>2
    <3>2. /\ SubSeq(s, p + 3, Len(s)) \in Seq(Chars)
          /\ Len(SubSeq(s, p + 3, Len(s)))
               = IF p + 3 <= Len(s) THEN Len(s) - (p + 3) + 1 ELSE 0
      BY <2>2, <3>1, SubSeqProperties
    <3>3. QED
      BY <2>2, <3>2
  <2>3. QED
    BY <2>1, <2>2, FindStarsRange
<1>2. TrimTrailing(cut) \in Seq(Chars) /\ Len(TrimTrailing(cut)) <= Len(cut)
  BY <1>1, TrimTrailingType
<1>3. QED
  BY <1>1, <1>2, TrimLeadingType DEF Sanitize

-----------------------------------------------------------------------------
(* DisplayVerboseInfo cuts a message into (L + W - 1) \div W rows: none    *)
(* for an empty message, otherwise the least N with L <= N * W.            *)
LEMMA RowCount ==
    ASSUME NEW L \in Nat, NEW W \in Nat \ {0}
    PROVE  LET N == (L + W - 1) \div W
           IN  /\ N \in Nat
               /\ L = 0 => N = 0
               /\ L > 0 => N >= 1 /\ (N - 1) * W < L /\ L <= N * W
<1> DEFINE N == (L + W - 1) \div W
           r == (L + W - 1) % W
<1>1. L + W - 1 = N * W + r /\ r \in 0 .. (W - 1) /\ N \in Nat
  OBVIOUS
<1>2. L = 0 => N = 0
  BY <1>1
<1>3. L > 0 => N >= 1
  BY <1>1
<1>4. (N - 1) * W = N * W - W /\ L <= N * W /\ N * W - W < L
  BY <1>1
<1>5. QED
  BY <1>1, <1>2, <1>3, <1>4

(* The number of rows DisplayVerboseInfo prints for txt (its LET Rows).    *)
NRows(txt) == (Len(txt) + DataInfoTagLen - 1) \div DataInfoTagLen

(* Row k of the display holds txt.substr((k-1)*W, W): W characters of the *)
(* message, fewer only on the last row, and never none.                    *)
LEMMA VerboseInfoRow ==
    ASSUME NEW lbl, NEW txt \in Seq(Chars),
           NEW k \in 1 .. NRows(txt)
    PROVE  LET W == DataInfoTagLen
               L == Len(txt)
               N == NRows(txt)
               r == DisplayVerboseInfo(lbl, txt)[k]
           IN  /\ r.info \in Seq(Chars)
               /\ Len(r.info) \in 1 .. W
               /\ k < N => Len(r.info) = W
               /\ k = N => (N - 1) * W + Len(r.info) = L
               /\ \A j \in 1 .. Len(r.info) : r.info[j] = txt[(k - 1) * W + j]
<1> USE DEF NRows
<1> DEFINE W == DataInfoTagLen
           L == Len(txt)
           N == (L + W - 1) \div W
           pos == (k - 1) * W
           last == IF pos + W < L THEN pos + W ELSE L
<1>1. N \in Nat /\ N >= 1 /\ (N - 1) * W < L /\ L <= N * W
  <2>1. L = 0 => N = 0
    BY RowCount
  <2>2. L > 0
    BY <2>1
  <2>3. QED
    BY <2>2, RowCount
<1> DEFINE R == [name |-> IF k = 1 THEN lbl ELSE "", info |-> SubSeq(txt, pos + 1, last)]
<1>2. DisplayVerboseInfo(lbl, txt)[k] = R
  BY DEF DisplayVerboseInfo, R
<1>3. pos \in Nat /\ pos <= (N - 1) * W /\ pos + W = k * W
  <2>1. k - 1 \in 0 .. (N - 1)
    BY <1>1
  <2>2. (k - 1) * W <= (N - 1) * W
    BY <2>1
  <2>3. QED
    BY <2>1, <2>2
<1>4. pos + 1 <= last /\ last <= L /\ last - pos <= W
  BY <1>1, <1>3
<1>5. \A i \in (pos + 1) .. last : txt[i] \in Chars
  BY <1>3, <1>4
<1>6. /\ SubSeq(txt, pos + 1, last) \in Seq(Chars)
      /\ Len(SubSeq(txt, pos + 1, last)) = last - pos
      /\ \A j \in 1 .. (last - pos) : SubSeq(txt, pos + 1, last)[j] = txt[pos + j]
  <2>1. /\ SubSeq(txt, pos + 1, last) \in Seq(Chars)
        /\ Len(SubSeq(txt, pos + 1, last))
             = IF pos + 1 <= last THEN last - (pos + 1) + 1 ELSE 0
        /\ \A i \in 1 .. (last - (pos + 1) + 1) :
              SubSeq(txt, pos + 1, last)[i] = txt[pos + 1 + i - 1]
    BY <1>3, <1>4, <1>5, SubSeqProperties
  <2>2. QED
    BY <1>4, <2>1
<1>7. k < N => last = pos + W
  <2>1. k < N => k * W <= (N - 1) * W
    BY <1>1
  <2>2. QED
    BY <1>1, <1>3, <2>1
<1>8. k = N => last = L
  BY <1>1, <1>3
<1> DEFINE r == DisplayVerboseInfo(lbl, txt)[k]
<1>9. r.info = SubSeq(txt, pos + 1, last)
  <2>1. R.info = SubSeq(txt, pos + 1, last)
    BY Zenon DEF R
  <2>2. QED
    BY <1>2, <2>1, Zenon DEF r
<1>10. r.info \in Seq(Chars) /\ Len(r.info) = last - pos
  BY <1>6, <1>9
<1>11. Len(r.info) \in 1 .. W
  BY <1>4, <1>10
<1>12. k < N => Len(r.info) = W
  BY <1>7, <1>10
<1>13. k = N => (N - 1) * W + Len(r.info) = L
  BY <1>3, <1>8, <1>10
<1>14. \A j \in 1 .. Len(r.info) : r.info[j] = txt[(k - 1) * W + j]
  BY <1>6, <1>9, <1>10
<1>15. QED
  BY <1>10, <1>11, <1>12, <1>13, <1>14

(* Only the first row carries the label.                                  *)
LEMMA VerboseInfoLabel ==
    ASSUME NEW lbl, NEW txt \in Seq(Chars),
           NEW k \in 1 .. NRows(txt)
    PROVE  DisplayVerboseInfo(lbl, txt)[k].name = IF k = 1 THEN lbl ELSE ""
<1> USE DEF NRows
<1> DEFINE pos == (k - 1) * DataInfoTagLen
           last == IF pos + DataInfoTagLen < Len(txt) THEN pos + DataInfoTagLen ELSE Len(txt)
           R == [name |-> IF k = 1 THEN lbl ELSE "", info |-> SubSeq(txt, pos + 1, last)]
<1>1. DisplayVerboseInfo(lbl, txt)[k] = R
  BY DEF DisplayVerboseInfo, R
<1>2. R.name = IF k = 1 THEN lbl ELSE ""
  BY Zenon DEF R
<1> HIDE DEF R
<1>3. QED
  BY <1>1, <1>2, Zenon

(* The display is a sequence of (L + W - 1) \div W labelled rows.          *)
LEMMA VerboseInfoType ==
    ASSUME NEW lbl, NEW txt \in Seq(Chars)
    PROVE  LET D == DisplayVerboseInfo(lbl, txt)
               N == NRows(txt)
           IN  /\ D \in Seq([name : {lbl, ""}, info : Seq(Chars)])
               /\ Len(D) = N
<1> USE DEF NRows
<1> DEFINE D == DisplayVerboseInfo(lbl, txt)
           N == NRows(txt)
           T == [name : {lbl, ""}, info : Seq(Chars)]
<1>1. N \in Nat
  BY RowCount
<1>2. D = [k \in 1 .. N |-> D[k]] /\ DOMAIN D = 1 .. N
  BY DEF DisplayVerboseInfo, D, N
<1>3. \A k \in 1 .. N : D[k] \in T
  <2> SUFFICES ASSUME NEW k \in 1 .. N PROVE D[k] \in T
    OBVIOUS
  <2> DEFINE R == [name |-> IF k = 1 THEN lbl ELSE "",
                   info |-> D[k].info]
  <2>1. D[k].info \in Seq(Chars)
    BY VerboseInfoRow DEF D, N
  <2>2. D[k] = R
    BY DEF DisplayVerboseInfo, D, R
  <2>3. (IF k = 1 THEN lbl ELSE "") \in {lbl, ""}
    BY Zenon
  <2>4. R \in T
    BY <2>1, <2>3, Zenon DEF R, T
  <2>5. QED
    BY <2>2, <2>4, Zenon
<1> HIDE DEF T
<1>4. D \in [1 .. N -> T]
  BY <1>2, <1>3
<1>5. D \in Seq(T) /\ Len(D) = N
  BY <1>1, <1>4
<1>6. QED
  BY <1>5, Zenon DEF D, N, T

(* Every message a result cell can hold is a string over Chars.            *)
LEMMA MessagesAreStrings == Messages \subseteq Seq(Chars)
BY DEF Messages

-----------------------------------------------------------------------------
(* VerboseInfoRoundTrip is about the rows and the message together; the    *)
(* invariant that carries it from step to step says the rows are empty or  *)
(* are exactly the display of the sanitized message.                       *)
IInv ==
    /\ TypeOK
    /\ rows = << >> \/ rows = DisplayVerboseInfo("Warning", Sanitize(msg))

LEMMA IInvInit == Init => IInv
BY DEF Init, IInv, TypeOK, Rows

LEMMA IInvNext == IInv /\ [Next]_vars => IInv'
<1> SUFFICES ASSUME IInv, [Next]_vars PROVE IInv'
  OBVIOUS
<1>1. CASE DisplayWarning
  <2>1. msg' = msg /\ msg \in Seq(Chars) /\ msg' \in Messages
    BY <1>1, MessagesAreStrings DEF DisplayWarning, IInv, TypeOK
  <2>2. Sanitize(msg) \in Seq(Chars)
    BY <2>1, SanitizeType
  <2>3. DisplayVerboseInfo("Warning", Sanitize(msg))
          \in Seq([name : {"Warning", ""}, info : Seq(Chars)])
    BY <2>2, VerboseInfoType
  <2>4. rows' = DisplayVerboseInfo("Warning", Sanitize(msg'))
    BY <1>1, <2>1 DEF DisplayWarning
  <2>5. QED
    BY <2>1, <2>3, <2>4 DEF IInv, TypeOK, Rows
<1>2. CASE UNCHANGED vars
  BY <1>2 DEF vars, IInv, TypeOK
<1>3. QED
  BY <1>1, <1>2 DEF Next

(* The rows the invariant allows are the tiling VerboseInfoRoundTrip       *)
(* describes.                                                               *)
LEMMA RoundTripFromIInv == IInv => VerboseInfoRoundTrip
<1> SUFFICES ASSUME IInv, rows # << >>
             PROVE  LET S == Sanitize(msg)
                        W == DataInfoTagLen
                        N == Len(rows)
                    IN  /\ \A k \in DOMAIN rows : Len(rows[k].info) \in 1 .. W
                        /\ \A k \in 1 .. (N - 1) : Len(rows[k].info) = W
                        /\ (N - 1) * W + Len(rows[N].info) = Len(S)
                        /\ \A k \in DOMAIN rows : \A j \in DOMAIN rows[k].info :
                              rows[k].info[j] = S[(k - 1) * W + j]
                        /\ \A k \in DOMAIN rows : (rows[k].name = "Warning") <=> (k = 1)
  BY DEF VerboseInfoRoundTrip
<1> DEFINE S == Sanitize(msg)
           W == DataInfoTagLen
           M == NRows(S)
           Rec == [name : {"Warning", ""}, info : Seq(Chars)]
<1>1. rows = DisplayVerboseInfo("Warning", S)
  BY DEF IInv
<1>2. S \in Seq(Chars)
  BY SanitizeType, MessagesAreStrings DEF IInv, TypeOK
<1>3. rows \in Seq(Rec) /\ Len(rows) = M
  BY <1>1, <1>2, VerboseInfoType, Zenon DEF Rec
<1> HIDE DEF Rec
<1>4. M \in Nat /\ M >= 1 /\ DOMAIN rows = 1 .. M
  BY <1>3, RowCount DEF NRows
<1>5. ASSUME NEW k \in 1 .. M
      PROVE  /\ rows[k].info \in Seq(Chars)
             /\ Len(rows[k].info) \in 1 .. W
             /\ k < M => Len(rows[k].info) = W
             /\ k = M => (M - 1) * W + Len(rows[k].info) = Len(S)
             /\ \A j \in 1 .. Len(rows[k].info) : rows[k].info[j] = S[(k - 1) * W + j]
  <2> DEFINE r == DisplayVerboseInfo("Warning", S)[k]
  <2>1. /\ r.info \in Seq(Chars)
        /\ Len(r.info) \in 1 .. W
        /\ k < M => Len(r.info) = W
        /\ k = M => (M - 1) * W + Len(r.info) = Len(S)
        /\ \A j \in 1 .. Len(r.info) : r.info[j] = S[(k - 1) * W + j]
    BY <1>2, VerboseInfoRow
  <2>2. rows[k] = r
    BY <1>1
  <2> HIDE DEF r
  <2>3. QED
    BY <2>1, <2>2
<1>6. \A k \in 1 .. M : rows[k].name = IF k = 1 THEN "Warning" ELSE ""
  <2> TAKE k \in 1 .. M
  <2>1. DisplayVerboseInfo("Warning", S)[k].name = IF k = 1 THEN "Warning" ELSE ""
    <3> HIDE DEF S, M
    <3>1. k \in 1 .. NRows(S)
      BY DEF M
    <3>2. QED
      BY <1>2, <3>1, VerboseInfoLabel, ZenonT(60)
  <2>2. QED
    BY <1>1, <2>1, Zenon
<1>7. \A k \in 1 .. M : (rows[k].name = "Warning") <=> (k = 1)
  BY <1>6, Zenon
<1>8. \A k \in DOMAIN rows : Len(rows[k].info) \in 1 .. W
  BY <1>4, <1>5
<1>9. \A k \in 1 .. (Len(rows) - 1) : Len(rows[k].info) = W
  BY <1>3, <1>4, <1>5
<1>10. (Len(rows) - 1) * W + Len(rows[Len(rows)].info) = Len(S)
  BY <1>3, <1>4, <1>5
<1>11. \A k \in DOMAIN rows : \A j \in DOMAIN rows[k].info :
          rows[k].info[j] = S[(k - 1) * W + j]
  <2> SUFFICES ASSUME NEW k \in 1 .. M, NEW j \in DOMAIN rows[k].info
               PROVE  rows[k].info[j] = S[(k - 1) * W + j]
    BY <1>4
  <2>1. DOMAIN rows[k].info = 1 .. Len(rows[k].info)
    BY <1>5
  <2>2. QED
    BY <1>5, <2>1
<1>12. QED
  BY <1>4, <1>7, <1>8, <1>9, <1>10, <1>11

(* Every state the text report reaches is well typed: the message is one a *)
(* result cell can hold and the rows are labelled strings                  *)
(* (HelperDisplayDetails' output).                                          *)
THEOREM TypeCorrect == Spec => []TypeOK
<1>1. IInv => TypeOK
  BY DEF IInv
<1>2. QED
  BY <1>1, IInvInit, IInvNext, PTL DEF Spec

(* For every alphabet, message length and column width, the rows           *)
(* DisplayVerboseInfo prints for a warning give back Sanitize's output      *)
(* exactly: full rows of DATA_INFO_TAG_LEN characters, a non-empty last    *)
(* row ending at the message's end, the label on the first row only.       *)
THEOREM VerboseInfoRoundTripHolds == Spec => []VerboseInfoRoundTrip
BY RoundTripFromIInv, IInvInit, IInvNext, PTL DEF Spec
=============================================================================
