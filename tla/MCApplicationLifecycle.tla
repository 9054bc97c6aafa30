----------------------- MODULE MCApplicationLifecycle -----------------------
EXTENDS HostedCode, TLC

CONSTANTS c1, c2, v1, v2
Alike == Permutations({c1, c2}) \cup Permutations({v1, v2})
=============================================================================
