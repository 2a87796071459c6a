------------------------------ MODULE MCPlugins ------------------------------
(***************************************************************************)
(* Instances of PluginRegistry for TLC.                                    *)
(***************************************************************************)
EXTENDS PluginRegistry

CONSTANTS p, q, app, handler, v1, v2, d1, d2

LatestOf == [n \in Plugins |-> v2]
\* An archive may hold the version that is offered, or a broken or foreign
\* specification.
ArchiveVersions == {v2, None}
Swap == Permutations(Contents)

\* Two calls may overlap in every way, but for nested scans meanwhile, before
\* the application has a registry; after one of them has returned, no new call
\* is explored before the process starts again.
OneRace ==
    overlapped => error = "no registry" /\ \A t \in Threads : Len(stack[t]) \in 1 .. 2
\* What follows a second backup is not explored.
OneBackup == Cardinality(backups) <= 1
==============================================================================
