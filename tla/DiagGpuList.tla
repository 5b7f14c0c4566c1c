----------------------------- MODULE DiagGpuList ----------------------------
(***************************************************************************)
(* The -i GPU list of `dcgmi diag` (src/dcgmi/Diag.cpp): the StartDiag     *)
(* constructor rejects it unless StartDiag::validGpuListFormat accepts it, *)
(* and Diag::RunDiagOnce turns each comma-separated token into a GPU index *)
(* with strtol(token, NULL, 10). The list is given already split at the    *)
(* commas (dcgmTokenizeString), as a sequence of non-empty tokens, each a  *)
(* sequence of one-character strings.                                      *)
(***************************************************************************)
EXTENDS Integers, Sequences

CONSTANTS
    ListChars,     \* characters a token may contain
    MaxTokens,     \* bound on the number of tokens
    MaxTokenLen    \* bound on the length of a token

Digits == [d \in {"0", "1", "2", "3", "4", "5", "6", "7", "8", "9"} |->
             CASE d = "0" -> 0 [] d = "1" -> 1 [] d = "2" -> 2 [] d = "3" -> 3
               [] d = "4" -> 4 [] d = "5" -> 5 [] d = "6" -> 6 [] d = "7" -> 7
               [] d = "8" -> 8 [] d = "9" -> 9]

Tokens == UNION {[1 .. n -> ListChars] : n \in 1 .. MaxTokenLen}
GpuLists == UNION {[1 .. n -> Tokens] : n \in 0 .. MaxTokens}

\* StartDiag::validGpuListFormat: every token starts with a digit (isdigit
\* of its first character).
ValidGpuListFormat(l) == \A i \in DOMAIN l : l[i][1] \in DOMAIN Digits

\* strtol(s, NULL, 10): the value of the longest prefix of digits, 0 if none.
Strtol(s) ==
    LET val[k \in 0 .. Len(s)] ==
          IF k = 0 THEN 0
          ELSE IF \A j \in 1 .. k : s[j] \in DOMAIN Digits
               THEN 10 * val[k - 1] + Digits[s[k]]
               ELSE val[k - 1]
    IN  val[Len(s)]

VARIABLES
    gpuList,  \* drd.gpuList, split at the commas
    phase,    \* "args", "rejected" (CmdLineParseException) or "accepted"
    gpuVec    \* the GPU indices RunDiagOnce derives from the list

vars == <<gpuList, phase, gpuVec>>

Init == gpuList \in GpuLists /\ phase = "args" /\ gpuVec = << >>

\* The StartDiag constructor's check of the list.
CheckGpuList ==
    /\ phase = "args"
    /\ phase' = IF ValidGpuListFormat(gpuList) THEN "accepted" ELSE "rejected"
    /\ UNCHANGED <<gpuList, gpuVec>>

\* RunDiagOnce, after a run with a non-empty list: gpuVec.push_back(strtol).
ParseGpuList ==
    /\ phase = "accepted" /\ gpuList # << >> /\ gpuVec = << >>
    /\ gpuVec' = [i \in DOMAIN gpuList |-> Strtol(gpuList[i])]
    /\ UNCHANGED <<gpuList, phase>>

Next == CheckGpuList \/ ParseGpuList

Spec == Init /\ [][Next]_vars

\* A list the constructor accepts is a comma-separated list of numbers, as
\* its error message says ("must be a comma-separated list of numbers"), so
\* that strtol reads every token whole.
AcceptedListIsNumbers ==
    phase = "accepted" =>
        \A i \in DOMAIN gpuList :
            \A j \in DOMAIN gpuList[i] : gpuList[i][j] \in DOMAIN Digits
=============================================================================
