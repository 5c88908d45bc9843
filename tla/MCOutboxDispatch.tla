--------------------------- MODULE MCOutboxDispatch ---------------------------
EXTENDS OutboxDispatch, TLC

CONSTANTS j1, j2, d1, d2

\* Two rows of one workspace, which is not on the first page of the recovery scan.
MCOwner == (j1 :> 2) @@ (j2 :> 2)
=============================================================================
