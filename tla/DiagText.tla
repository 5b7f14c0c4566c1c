------------------------------ MODULE DiagText ------------------------------
(***************************************************************************)
(* How the text report shows one error or info message of a result cell    *)
(* (src/dcgmi/Diag.cpp): HelperDisplayDetails passes it through           *)
(* Diag::Sanitize and prints it with Diag::DisplayVerboseInfo, which cuts  *)
(* it into rows of at most DATA_INFO_TAG_LEN characters, the label on the  *)
(* first row only. A message is a sequence of one-character strings.       *)
(***************************************************************************)
EXTENDS Integers, Sequences

CONSTANTS
    Chars,           \* the characters messages are made of
    MaxLen,          \* bound on the length of a message
    DataInfoTagLen   \* DATA_INFO_TAG_LEN, the width of the value column

ASSUME TextAssumption ==
    /\ MaxLen \in Nat
    /\ DataInfoTagLen \in Nat \ {0}
    /\ "*" \in Chars

\* Diag::isWhitespace.
Whitespace == {" ", "\n", "\t", "\r", "\f"}

Messages == UNION {[1 .. n -> Chars] : n \in 0 .. MaxLen}

\* std::string::find("***"): the first position where "***" starts, 0 if none.
FindStars(s) ==
    LET At == {p \in 1 .. (Len(s) - 2) : s[p] = "*" /\ s[p + 1] = "*" /\ s[p + 2] = "*"}
    IN  IF At = {} THEN 0 ELSE CHOOSE p \in At : \A q \in At : p <= q

\* The trailing-whitespace loop, then the leading one.
TrimTrailing(t) ==
    LET Keep == {i \in 1 .. Len(t) : t[i] \notin Whitespace}
    IN  IF Keep = {} THEN << >>
        ELSE SubSeq(t, 1, CHOOSE i \in Keep : \A j \in Keep : j <= i)

TrimLeading(t) ==
    LET Keep == {i \in 1 .. Len(t) : t[i] \notin Whitespace}
    IN  IF Keep = {} THEN << >>
        ELSE SubSeq(t, CHOOSE i \in Keep : \A j \in Keep : i <= j, Len(t))

\* Diag::Sanitize: drop everything up to and including the first "***",
\* then trailing and leading whitespace.
Sanitize(s) ==
    LET p == FindStars(s)
    IN  TrimLeading(TrimTrailing(IF p = 0 THEN s ELSE SubSeq(s, p + 3, Len(s))))

\* Mutant: every row but the last loses its last character.
DisplayVerboseInfoShortRows(name, info) ==
    LET Rows == (Len(info) + DataInfoTagLen - 1) \div DataInfoTagLen
        pos(k) == (k - 1) * DataInfoTagLen
        last(k) == IF k = Rows THEN Len(info) ELSE pos(k) + DataInfoTagLen - 1
    IN  [k \in 1 .. Rows |->
           [name |-> IF k = 1 THEN name ELSE "",
            info |-> SubSeq(info, pos(k) + 1, last(k))]]

\* Diag::DisplayVerboseInfo: one row per pos = 0, W, 2W, ... below the
\* length, with info.substr(pos, W).
DisplayVerboseInfo(name, info) ==
    LET Rows == (Len(info) + DataInfoTagLen - 1) \div DataInfoTagLen
        pos(k) == (k - 1) * DataInfoTagLen
        last(k) == IF pos(k) + DataInfoTagLen < Len(info)
                   THEN pos(k) + DataInfoTagLen ELSE Len(info)
    IN  [k \in 1 .. Rows |->
           [name |-> IF k = 1 THEN name ELSE "",
            info |-> SubSeq(info, pos(k) + 1, last(k))]]

-----------------------------------------------------------------------------
VARIABLES
    msg,    \* error[j].msg (or info) of a result cell
    rows    \* the rows the text report prints for it (<<>> before)

vars == <<msg, rows>>

Rows == Seq([name : {"Warning", ""}, info : Seq(Chars)])

TypeOK == msg \in Messages /\ rows \in Rows

Init == msg \in Messages /\ rows = << >>

\* Mutant: the error message is labelled as an info note.
DisplayWarningAsInfo ==
    /\ rows = << >> /\ msg # << >>
    /\ rows' = DisplayVerboseInfo("Info", Sanitize(msg))
    /\ UNCHANGED msg

\* HelperDisplayDetails, for a message that is not empty:
\* DisplayVerboseInfo(cmdView, "Warning", Sanitize(msg)).
DisplayWarning ==
    /\ rows = << >> /\ msg # << >>
    /\ rows' = DisplayVerboseInfo("Warning", Sanitize(msg))
    /\ UNCHANGED msg

Next == DisplayWarning

Spec == Init /\ [][Next]_vars

-----------------------------------------------------------------------------
\* What the rows say, read back in order.
Shown == LET cat[k \in 0 .. Len(rows)] ==
               IF k = 0 THEN << >> ELSE cat[k - 1] \o rows[k].info
         IN  cat[Len(rows)]

\* The rows of a wrapped message give back the sanitized message exactly:
\* read in order, row k holds the characters (k-1)*W+1 .. of it, every row
\* but the last is full, the last ends at the message's end, none is empty
\* or wider than the value column, and only the first row carries the label
\* (DisplayVerboseInfo's DATA_INFO_TAG_LEN wrapping).
VerboseInfoRoundTrip ==
    rows # << >> =>
        LET S == Sanitize(msg)
            W == DataInfoTagLen
            N == Len(rows)
        IN  /\ \A k \in DOMAIN rows : Len(rows[k].info) \in 1 .. W
            /\ \A k \in 1 .. (N - 1) : Len(rows[k].info) = W
            /\ (N - 1) * W + Len(rows[N].info) = Len(S)
            /\ \A k \in DOMAIN rows : \A j \in DOMAIN rows[k].info :
                  rows[k].info[j] = S[(k - 1) * W + j]
            /\ \A k \in DOMAIN rows : (rows[k].name = "Warning") <=> (k = 1)

\* Sanitize is idempotent: what the report shows, sanitized again, is what
\* it shows (spec 8: Sanitize(Sanitize(s)) = Sanitize(s); spec 4.3: the
\* cut is after the last "***").
SanitizeIdempotent == rows # << >> => Sanitize(Shown) = Shown
=============================================================================
