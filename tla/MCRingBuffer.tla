---------------------------- MODULE MCRingBuffer ----------------------------
\* RingBuffer on a small instance: one thread more than there are places, and a
\* record for each place and each thread.
EXTENDS RingBuffer

CONSTANTS t1, t2, t3, r1, r2, r3, r4, r5

Threads == {t1, t2, t3}
Records == {r1, r2, r3, r4, r5}
=============================================================================
