--------------------------- MODULE MCSendScheduler ---------------------------
EXTENDS SendScheduler

CONSTANTS a, b, c, k1, k2

\* Media that never settles and a text behind it to one contact, a typing command,
\* and media to another contact.
MCId == <<a, b, NoId, c>>
MCTo == <<k1, k1, NoContact, k2>>
=============================================================================
