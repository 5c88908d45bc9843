--------------------------- MODULE MCMessageStatus ---------------------------
\* MessageStatus has no sets to instantiate; the configurations give its bounds.
EXTENDS MessageStatus
=============================================================================
