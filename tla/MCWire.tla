------------------------------- MODULE MCWire -------------------------------
\* Wire: three connections for two sessions, a channel of one slot.
EXTENDS Wire
=============================================================================
