----------------------------- MODULE DiagCodes -----------------------------
(***************************************************************************)
(* The dcgmReturn_t codes that Diag.cpp tells apart, shared by the run     *)
(* supervisor (DiagRun) and the result classifier and renderers           *)
(* (DiagReport).                                                           *)
(***************************************************************************)

\* Return codes (dcgmReturn_t) that this part of the code distinguishes.
OK            == "OK"
GroupIncompat == "GROUP_INCOMPATIBLE"
NotSupported  == "NOT_SUPPORTED"
Paused        == "PAUSED"
Timeout       == "TIMEOUT"
ConnLost      == "CONNECTION_NOT_VALID"
NvvsError     == "NVVS_ERROR"
IsolateError  == "NVVS_ISOLATE_ERROR"
Killed        == "NVVS_KILLED"

\* What the run RPC can return: the three rejections RunDiagOnce names, and
\* any other code, which its last branch passes on as it is (the engine's
\* own NVVS_ERROR, NVVS_ISOLATE_ERROR or NVVS_KILLED included). What
\* RunStartDiag can return is the same set.
RpcCodes == {OK, GroupIncompat, NotSupported, Paused, Timeout, ConnLost,
             NvvsError, IsolateError, Killed}
RetCodes == RpcCodes

\* Values of Diag::GetFailureResult over a response.
Verdicts == {OK, NvvsError, IsolateError}

=============================================================================
