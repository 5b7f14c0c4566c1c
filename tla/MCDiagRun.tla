----------------------------- MODULE MCDiagRun -----------------------------
(* Small instances of DiagRun for TLC. *)
EXTENDS DiagRun

\* Three iterations, so that a failure can stop the loop before the last one.
MCIterations == 3

\* A success, the two codes after which the run may stay on the engine, one
\* of the rejections that RunDiagOnce reports with a fixed message, and a
\* kill reported by the engine itself (another client's abort).
MCEngineCodes == {OK, Timeout, ConnLost, Paused, Killed}

MCJsonModes == {FALSE, TRUE}

\* Two signals: one that cancels, and one in another window.
MCMaxSignals == 2
=============================================================================
