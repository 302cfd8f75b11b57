---------------------------- MODULE MCAdmServer ----------------------------
(* Instances of AdmServer for TLC: one peer more than there are slots. *)
EXTENDS AdmServer, TLC

CONSTANTS p1, p2, p3

ThreePeers == {p1, p2, p3}
AllFaults == {"select", "eintr", "accept", "fcntl", "send", "slaves"}
NoFaults == {}
PeerSymmetry == Permutations(ThreePeers)
=============================================================================
