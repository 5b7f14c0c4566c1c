----------------------------- MODULE MCDiagText -----------------------------
(* A small instance of DiagText for TLC. *)
EXTENDS DiagText

\* The delimiter, one whitespace character and one ordinary character.
MCChars == {"*", " ", "a"}
\* Long enough for two "***" around text: "***a***a".
MCMaxLen == 8
\* The width is 45 in the build; 3 makes messages of this length wrap onto
\* several rows, with and without a short last row.
MCDataInfoTagLen == 3
=============================================================================
