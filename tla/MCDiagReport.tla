---------------------------- MODULE MCDiagReport ----------------------------
(* Small instances of DiagReport for TLC. *)
EXTENDS DiagReport

\* Two device slots: one filled and one unused, or both filled.
MCNumDevices == 2
\* Diagnostic (hidden when it skipped everywhere) and PCIe.
MCGpuTests == <<"diagnostic", "pcie">>
MCOneGpuTest == <<"diagnostic">>
\* One ordinary deployment test, or it with the deprecated CUDA runtime one.
MCLevelOneTests == <<"denylist">>
MCLevelOneWithCuda == <<"cuda_runtime", "denylist">>
MCCudaRuntimeTest == "cuda_runtime"
\* DCGM_DIAG_RESULT_PASS is 0 in dcgm_structs.h: a zero-filled cell passes.
MCZeroStatus == Pass
MCFilterChoices == {<< >>, <<0>>, <<1>>, <<0, 1>>, <<1, 0>>}
MCJsonModes == {FALSE, TRUE}
=============================================================================
