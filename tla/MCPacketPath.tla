---------------------------- MODULE MCPacketPath ----------------------------
(* Instances of PacketPath for TLC, and the rules of the documentation for *)
(* any two networks.  The instances have two ports and addresses of four   *)
(* bits:                                                                   *)
(*                                                                         *)
(*   private network   4/2  (4..7)       port 0, NATASHA is 4              *)
(*   public network    8/2  (8..11)      port 1, NATASHA is 8              *)
(*   NAT rule          5 <-> 9                                             *)
EXTENDS PacketPath

CONSTANTS PrivateNet, PublicNet   \* the networks of the conditions in the rules

\* A prefix length of 0 is left out: ipv4_in_network compares all the bits then
\* (DefaultRouteMatchesAll).
ASSUME NetworksAssumption ==
  /\ AddrBits \in Nat \ {0}
  /\ {PrivateNet, PublicNet} \subseteq [ip : Nat, mask : 1 .. AddrBits]

PrivateNet4 == [ip |-> 4, mask |-> 2]
PublicNet8 == [ip |-> 8, mask |-> 2]

Act(act, arg) == [type |-> "ACTION", left |-> 0, right |-> 0, act |-> act, arg |-> arg]
Op(type, left, right) ==
  [type |-> type, left |-> left, right |-> right, act |-> "none", arg |-> 0]

NatRule == [ip \in {5, 9} |-> IF ip = 5 THEN 9 ELSE 5]
Natasha == {[port |-> 0, vlan |-> 0, ip |-> 4], [port |-> 1, vlan |-> 7, ip |-> 8]}

\* The trees are those parseconfig.y builds: an `if' is an IF node, whose left
\* child is a COND node, and a block is a SEQ node per statement after the first.

\* if (src in private) { nat rewrite src; out port 1 vlan 7; }
\* else { if (dst in public and vlan 7) { nat rewrite dst; out port 0; } }
\* drop;
OneWayTree ==
  <<Op("SEQ", 2, 16),
    Op("IF", 3, 8),
    Op("COND", 4, 5), Act("src_in", PrivateNet),
    Op("SEQ", 6, 7), Act("nat", "src"), Act("out", [port |-> 1, vlan |-> 7]),
    Op("IF", 9, 0),
    Op("COND", 10, 13), Op("AND", 11, 12),
    Act("dst_in", PublicNet), Act("vlan", 7),
    Op("SEQ", 14, 15), Act("nat", "dst"), Act("out", [port |-> 0, vlan |-> 0]),
    Act("drop", 0)>>

\* nat rewrite src; nat rewrite dst; out port 1;
HairpinTree ==
  <<Op("SEQ", 2, 5), Op("SEQ", 3, 4), Act("nat", "src"), Act("nat", "dst"),
    Act("out", [port |-> 1, vlan |-> 0])>>

\* if (src in private or dst in public) { print; }   -- and nothing else
FallThroughTree ==
  <<Op("IF", 2, 0), Op("COND", 3, 6), Op("OR", 4, 5),
    Act("src_in", PrivateNet), Act("dst_in", PublicNet),
    Act("print", 0)>>

\* if (src in 0/0) { nat rewrite src; out port 1; } drop;
DefaultRouteTree ==
  <<Op("SEQ", 2, 8), Op("IF", 3, 0),
    Op("COND", 4, 5), Act("src_in", [ip |-> 0, mask |-> 0]),
    Op("SEQ", 6, 7), Act("nat", "src"), Act("out", [port |-> 1, vlan |-> 0]),
    Act("drop", 0)>>

AllTrees == {OneWayTree, HairpinTree, FallThroughTree, <<>>}
DocTrees == {OneWayTree}
DefaultRouteTrees == {DefaultRouteTree}

\* A frame as it comes from the wire, all checksums right.
Base(eth, tci, src, dst) ==
  [eth |-> eth, l3bad |-> FALSE, l4bad |-> FALSE, tci |-> tci, op |-> "none",
   src |-> src, dst |-> dst, proto |-> "other", frag |-> "none",
   ip |-> src + dst, l4 |-> NoCksum, offload |-> FALSE, tx_ipv4 |-> FALSE,
   out |-> -1, short |-> FALSE, icmp |-> 0,
   inner |-> [src |-> 0, dst |-> 0, ip |-> 0]]

L4(proto, frag, tci, src, dst) ==
  [Base("ipv4", tci, src, dst) EXCEPT !.proto = proto, !.frag = frag,
     !.l4 = IF frag = "later" THEN NoCksum ELSE src + dst]

Icmp(op, tci, src, dst) ==
  [Base("ipv4", tci, src, dst) EXCEPT !.proto = "icmp", !.op = op]

IcmpError(tci, src, dst, isrc, idst) ==
  [Icmp("error", tci, src, dst) EXCEPT
     !.inner = [src |-> isrc, dst |-> idst, ip |-> isrc + idst]]

OtherFrames ==
  {Base("other", 0, 0, 0),
   [Base("arp", 0, 6, 4) EXCEPT !.op = "request"],
   [Base("arp", 0, 6, 8) EXCEPT !.op = "request"],
   [Base("arp", 0, 6, 4) EXCEPT !.op = "reply"],
   [Base("ipv4", 0, 5, 14) EXCEPT !.l3bad = TRUE],
   Icmp("echo", 0, 6, 4), Icmp("echo", 7, 9, 8), Icmp("other", 0, 6, 4)}

NatFrames ==
  {L4("tcp", "none", 0, 5, 14), L4("udp", "first", 0, 5, 14),
   [L4("tcp", "none", 7, 14, 9) EXCEPT !.l4bad = TRUE, !.l4 = 24],
   L4("udp", "later", 7, 14, 9), L4("tcp", "none", 0, 14, 9),
   [L4("udp", "none", 0, 5, 9) EXCEPT !.l4 = NoCksum],
   L4("udp", "none", 0, 5, 9), L4("tcp", "first", 0, 5, 9),
   L4("other", "none", 0, 6, 14), Icmp("echo", 0, 5, 14),
   IcmpError(0, 5, 14, 14, 5), IcmpError(7, 14, 9, 9, 14),
   IcmpError(0, 5, 14, 14, 6), IcmpError(0, 5, 9, 9, 5),
   [IcmpError(0, 5, 14, 13, 9) EXCEPT !.short = TRUE]}

AllFrames == OtherFrames \cup NatFrames

\* The addresses that share the first bits of the network's.
Block(net) ==
  LET size == 2^(AddrBits - net.mask)
      first == net.ip - (net.ip % size)
  IN  first .. first + size - 1

FromPrivate(f) == f.src \in Block(PrivateNet)
ToPublic(f) == f.dst \in Block(PublicNet) /\ VLAN_ID(f) = 7

\* process_rules under OneWayTree: what leaves and is no answer of NATASHA's own
\* either leaves on port 1, came from the private network, has its source
\* translated and VLAN 7; or leaves on port 0, did not come from there, had a
\* public destination and VLAN 7, and has its destination translated.  What
\* `drop' has counted matched neither condition; and no packet is lost.
ForwardedAsConfigured ==
  rules = OneWayTree =>
    /\ \A i \in sent :
         LET f == buf[i]  o == orig[i].frame IN
         \/ IsAnswer(f, o)
         \/ /\ f.out = 1 /\ FromPrivate(o)
            /\ f.src = nat_lookup[o.src] /\ f.dst = o.dst /\ f.tci = 7
         \/ /\ f.out = 0 /\ ~FromPrivate(o) /\ ToPublic(o)
            /\ f.dst = nat_lookup[o.dst] /\ f.src = o.src /\ f.tci = 0
    /\ stats["drop_nat_condition"]
         <= Cardinality({i \in Received : /\ orig[i].frame.eth = "ipv4"
                                          /\ ~FromPrivate(orig[i].frame)
                                          /\ ~ToPublic(orig[i].frame)})
    /\ lost = {}

\* cond_network.c: ipv4_in_network is "true if ip is in network".  Every address
\* is in 0/0, so nothing is dropped by DefaultRouteTree's last rule.
DefaultRouteMatchesAll ==
  rules = DefaultRouteTree => stats["drop_nat_condition"] = 0
=============================================================================
