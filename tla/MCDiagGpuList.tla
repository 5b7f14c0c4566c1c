---------------------------- MODULE MCDiagGpuList ---------------------------
(* A small instance of DiagGpuList for TLC. *)
EXTENDS DiagGpuList

\* Two digits and a letter; tokens of up to two characters, up to two tokens.
MCListChars == {"0", "1", "x"}
MCMaxTokens == 2
MCMaxTokenLen == 2
=============================================================================
