------------------------ MODULE MCInstallationUpdate ------------------------
(* Instances of InstallationUpdate for TLC.                                *)
EXTENDS InstallationUpdate, TLC

CONSTANTS u1, u2, l1, l2, r1, r2, r3

Symmetry ==
    Permutations(Updaters) \cup Permutations(Launchers)
        \cup Permutations(Releases)
=============================================================================
