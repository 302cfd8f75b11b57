------------------------------- MODULE NatMap -------------------------------
(* What the NAT lookup table promises: a map from addresses to addresses,  *)
(* in which a rule stores both directions and a later rule overrides an    *)
(* earlier one.  A failed allocation loses rules, and only that does: the  *)
(* map is then no longer `intact', but what is left of it is still right.  *)
CONSTANTS Address, Zero

VARIABLES map,     \* map[ip]: the translation of ip; Zero if there is none
          intact   \* no rule was lost since the map was last emptied

Empty == [ip \in Address |-> Zero]

MapInit == map = Empty /\ intact = TRUE

\* A rule is stored in both directions; or an allocation fails, everything before
\* is lost, and of the rule itself at most the second direction is kept.
AddRule(int_ip, ext_ip) ==
  \/ /\ map' = [map EXCEPT ![int_ip] = ext_ip, ![ext_ip] = int_ip]
     /\ UNCHANGED intact
  \/ /\ map' \in {Empty, [Empty EXCEPT ![ext_ip] = int_ip]}
     /\ intact' = FALSE

Clear == map' = Empty /\ intact' = TRUE

MapNext == Clear \/ \E int_ip, ext_ip \in Address : AddRule(int_ip, ext_ip)

MapSpec == MapInit /\ [][MapNext]_<<map, intact>>
=============================================================================
