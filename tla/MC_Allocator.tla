---------------------------- MODULE MC_Allocator ----------------------------
(* Values for the constants of Allocator that a configuration cannot write. *)
EXTENDS Allocator, TLC

CONSTANTS a1, a2, p1, p2, blank, s1, s2, tmp1, tmp2

\* Two families, each with a prefix of its own; the counter of one may start
\* unusable.
OwnPrefixes == (a1 :> p1) @@ (a2 :> p2)
SecondUnset == (a1 :> 7) @@ (a2 :> 0)
BothSet == (a1 :> 7) @@ (a2 :> 1)

InOrder == <<a1, a2>>

\* Both processes see the same lock file.
OneLock == [i \in Instances |-> tmp1]

\* The two processes are interchangeable.
Interchangeable == Permutations({s1, s2})
=============================================================================
