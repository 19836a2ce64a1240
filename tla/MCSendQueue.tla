---------------------------- MODULE MCSendQueue ----------------------------
\* Instances of SendQueue for TLC: the messages are model values.
EXTENDS SendQueue

CONSTANTS m1, m2
============================================================================
