-------------------------- MODULE MCClientObjects --------------------------
(* Small instances of ClientObjects: two tasks, four addresses.            *)
EXTENDS ClientObjects

CONSTANTS t1, t2, o1, o2, o3, o4

SmallFds == {3, 4}

\* Tasks and addresses are compared for equality only.
Symmetry == Permutations({t1, t2}) \cup Permutations({o1, o2, o3, o4})
=============================================================================
