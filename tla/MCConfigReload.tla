--------------------------- MODULE MCConfigReload ---------------------------
(* Instances of ConfigReload for TLC.  NCores + 2 configurations can be     *)
(* allocated at once.  Addrs3 is just enough for one core, so that freed    *)
(* addresses are reused; Addrs5 leaves two cores a fresh one each time.     *)
EXTENDS ConfigReload, TLC

CONSTANTS a1, a2, a3, a4, a5

Addrs3 == {a1, a2, a3}
Addrs5 == {a1, a2, a3, a4, a5}
Symmetry5 == Permutations(Addrs5)
=============================================================================
