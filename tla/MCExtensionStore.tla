-------------------------- MODULE MCExtensionStore --------------------------
EXTENDS ExtensionStore, TLC

CONSTANTS p1, p2, A, x, y, z, dep

Workers == Permutations({p1, p2})
OneProject == [p \in Procs |-> A]
Systems == [e \in Extensions |-> IF e = z THEN NoSystem ELSE "crm"]
Aliases == [copy |-> 2, official |-> 1]

\* x is republished by the second snapshot, the others are only carried along.
Versions == [e \in Extensions |-> [s \in 1..2 |-> IF e = x THEN s ELSE 1]]
PinnedXZ == [j \in Projects |-> {<<x, 1>>, <<z, 1>>}]
=============================================================================
