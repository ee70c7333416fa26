---------------------------- MODULE MCNativeRuntime ----------------------------
EXTENDS NativeRuntime, TLC

CONSTANTS p1, p2, lib1, lib2

\* Of these loads MaxLoads may begin: two that share the process, the library
\* or both.
MCLoads == {<<p1, lib1, 1>>, <<p1, lib1, 2>>, <<p1, lib2, 1>>, <<p2, lib1, 1>>}
MCProcessOf == [l \in MCLoads |-> l[1]]
MCLibraryOf == [l \in MCLoads |-> l[2]]

Interchangeable == Permutations(Pids)
==============================================================================
