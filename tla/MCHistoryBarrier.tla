--------------------------- MODULE MCHistoryBarrier ---------------------------
\* One imported message, one marker, one live event; a consumer and a drain.
EXTENDS HistoryBarrier

CONSTANTS h1, h2, m1, live, consumer1, drain1
=============================================================================
