---------------------------- MODULE MCNetSafety ----------------------------
EXTENDS NetSafety
CONSTANTS c1, c2

TwoCallers == {c1, c2}
=============================================================================
