\* DiagGpuList on lists of up to two tokens of up to two characters.
CONSTANTS
    ListChars <- MCListChars
    MaxTokens <- MCMaxTokens
    MaxTokenLen <- MCMaxTokenLen

SPECIFICATION Spec
INVARIANT AcceptedListIsNumbers

\* The constructor throws or the run has used the list: nothing follows.
CHECK_DEADLOCK FALSE
