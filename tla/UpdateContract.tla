--------------------------- MODULE UpdateContract ---------------------------
(***************************************************************************)
(* What the update manager promises: the installation changes in one step  *)
(* and only in the ways Select and Rollback allow.  The generation of the  *)
(* metadata never decreases and an update never lowers the version.        *)
(***************************************************************************)
EXTENDS Integers

CONSTANTS Artifact, VersionOf, MaxGeneration

VARIABLE installed

NotInstalled == [artifact |-> "none", generation |-> 0]

Release(artifact, generation) ==
    [artifact |-> artifact, generation |-> generation]

Init == installed = [highest |-> 0, active |-> NotInstalled,
                     previous |-> NotInstalled]

\* Select refuses a generation that was seen and a version that is lower.
Selectable(artifact, generation) ==
    /\ generation > installed.highest
    /\ installed.active # NotInstalled =>
           VersionOf[artifact] >= VersionOf[installed.active.artifact]

\* The installed artifact is announced again.
Refresh(generation) ==
    /\ installed.active # NotInstalled
    /\ Selectable(installed.active.artifact, generation)
    /\ installed' = [installed EXCEPT !.highest = generation,
                                      !.active.generation = generation]

Install(artifact, generation) ==
    /\ Selectable(artifact, generation)
    /\ installed' = [highest  |-> generation,
                     active   |-> Release(artifact, generation),
                     previous |-> installed.active]

Rollback ==
    /\ installed.active # NotInstalled /\ installed.previous # NotInstalled
    /\ installed' = [installed EXCEPT !.active = installed.previous,
                                      !.previous = installed.active]

Next ==
    \/ \E generation \in 1 .. MaxGeneration :
           \/ Refresh(generation)
           \/ \E artifact \in Artifact : Install(artifact, generation)
    \/ Rollback

Spec == Init /\ [][Next]_installed
=============================================================================
