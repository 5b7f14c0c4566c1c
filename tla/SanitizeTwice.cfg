\* DiagText on messages of up to eight characters.
CONSTANTS
    Chars <- MCChars
    MaxLen <- MCMaxLen
    DataInfoTagLen <- MCDataInfoTagLen

SPECIFICATION Spec

INVARIANT SanitizeIdempotent

\* The message has been displayed: HelperDisplayDetails moves on.
CHECK_DEADLOCK FALSE
