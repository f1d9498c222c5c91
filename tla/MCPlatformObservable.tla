------------------------ MODULE MCPlatformObservable ------------------------
(* PlatformObservable on small sets of identities.  Subscribers, and        *)
(* observers, are interchangeable: states that differ by a renaming of them *)
(* are one for the checks of invariants.                                    *)
EXTENDS PlatformObservable, TLC

Symmetry == Permutations(Subs) \cup Permutations(Observers)
=============================================================================
