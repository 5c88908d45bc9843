----------------------------- MODULE MCBroadcast -----------------------------
EXTENDS Broadcast

CONSTANTS p, a, b, bulk, twin, image

\* One scheduled message and a broadcast to two recipients.
MCJobOf == [l \in Leaf |-> IF l = p THEN NoJob ELSE bulk]
MCObjectOf == [j \in Job |-> image]

\* Two broadcasts with one upload, to one recipient each.
TwinJobOf == [l \in Leaf |-> IF l = b THEN twin ELSE bulk]
=============================================================================
