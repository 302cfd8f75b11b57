----------------------------- MODULE MCNatTable -----------------------------
(* Instances of NatTable for TLC. *)
EXTENDS NatTable

ZeroAddress == <<0, 0, 0>>
=============================================================================
