-------------------------- MODULE ForwardingProofs --------------------------
(* Under the rules of the documentation packets are forwarded as configured: *)
(* for addresses of any width, any two networks, any frames, translations    *)
(* and addresses of NATASHA and any sizes of the bursts, the walk of         *)
(* process_rules over OneWayTree means what the text of the rules says.      *)
EXTENDS MCPacketPath, PacketPathProofs

-----------------------------------------------------------------------------
(* The inductive invariant.  f is a packet, o is what was received. *)

Fresh(f, o) == f.src = o.src /\ f.dst = o.dst /\ f.tci = o.tci /\ f.out = -1
SrcDone(f, o) ==
  FromPrivate(o) /\ f.src = nat_lookup[o.src] /\ f.dst = o.dst /\ f.out = -1
DstDone(f, o) ==
  /\ ~FromPrivate(o) /\ ToPublic(o)
  /\ f.dst = nat_lookup[o.dst] /\ f.src = o.src /\ f.out = -1

\* What is known of the packet when a node is about to be executed.
Before(n, f, o) ==
  /\ n \in {1, 2, 3, 4} => Fresh(f, o)
  /\ n \in {5, 6} => Fresh(f, o) /\ FromPrivate(o)
  /\ n = 7 => SrcDone(f, o)
  /\ n \in {8, 9, 10, 11} => Fresh(f, o) /\ ~FromPrivate(o)
  /\ n = 12 => Fresh(f, o) /\ ~FromPrivate(o) /\ o.dst \in Block(PublicNet)
  /\ n \in {13, 14} => Fresh(f, o) /\ ~FromPrivate(o) /\ ToPublic(o)
  /\ n = 15 => DstDone(f, o)
  /\ n \in {0, 16} => Fresh(f, o) /\ ~FromPrivate(o) /\ ~ToPublic(o)

\* What is known when a node has returned r >= 0: not one that always breaks.
After(n, r, f, o) ==
  /\ n \notin {1, 5, 7, 13, 15, 16}
  /\ n = 4 => Fresh(f, o) /\ (r # 0 <=> FromPrivate(o))
  /\ n = 3 => r = 0 /\ Fresh(f, o) /\ ~FromPrivate(o)
  /\ n = 6 => SrcDone(f, o)
  /\ n = 11 => Fresh(f, o) /\ ~FromPrivate(o) /\ (r # 0 <=> o.dst \in Block(PublicNet))
  /\ n = 12 => /\ Fresh(f, o) /\ ~FromPrivate(o) /\ o.dst \in Block(PublicNet)
               /\ r # 0 <=> VLAN_ID(o) = 7
  /\ n = 10 => Fresh(f, o) /\ ~FromPrivate(o) /\ (r # 0 <=> ToPublic(o))
  /\ n = 14 => DstDone(f, o)
  /\ n \in {0, 2, 8, 9} => r = 0 /\ Fresh(f, o) /\ ~FromPrivate(o) /\ ~ToPublic(o)

\* The node that a caller is executing, and the one that is executed now.
Child(caller) ==
  IF caller[2] = "left" THEN rules[caller[1]].left ELSE rules[caller[1]].right
Here == IF stack = <<>> THEN 1 ELSE Child(stack[Len(stack)])

\* The stack is a path of the tree from its root.
OnPath == \A k \in 1 .. Len(stack) : stack[k][1] = IF k = 1 THEN 1 ELSE Child(stack[k - 1])

WalkKnows ==
  pc = "rules" =>
    /\ OnPath
    /\ ctl = "call" => node = Here /\ Before(Here, Pkt, orig[cur].frame)
    /\ ctl = "return" /\ ret >= 0 => After(Here, ret, Pkt, orig[cur].frame)

Forwarded(f, o) ==
  \/ IsAnswer(f, o)
  \/ /\ f.out = 1 /\ FromPrivate(o)
     /\ f.src = nat_lookup[o.src] /\ f.dst = o.dst /\ f.tci = 7
  \/ /\ f.out = 0 /\ ~FromPrivate(o) /\ ToPublic(o)
     /\ f.dst = nat_lookup[o.dst] /\ f.src = o.src /\ f.tci = 0

Unmatched(o) == o.eth = "ipv4" /\ ~FromPrivate(o) /\ ~ToPublic(o)

\* The packets freed to which `drop' applies.
Refused == {i \in Gone \ sent : Unmatched(orig[i].frame)}

OneWayInv ==
  rules = OneWayTree =>
    /\ WalkKnows
    /\ \A i \in Queued \cup sent : Forwarded(buf[i], orig[i].frame)
    /\ stats["drop_nat_condition"] <= Cardinality(Refused)
    /\ lost = {}

-----------------------------------------------------------------------------
(* The rules of the documentation. *)

\* The nodes with children.
LEMMA OneWayInner ==
  ASSUME rules = OneWayTree
  PROVE  /\ DOMAIN rules = 1 .. 16
         /\ rules[1].type = "SEQ" /\ rules[1].left = 2 /\ rules[1].right = 16
         /\ rules[2].type = "IF" /\ rules[2].left = 3 /\ rules[2].right = 8
         /\ rules[3].type = "COND" /\ rules[3].left = 4 /\ rules[3].right = 5
         /\ rules[5].type = "SEQ" /\ rules[5].left = 6 /\ rules[5].right = 7
         /\ rules[8].type = "IF" /\ rules[8].left = 9 /\ rules[8].right = 0
         /\ rules[9].type = "COND" /\ rules[9].left = 10 /\ rules[9].right = 13
         /\ rules[10].type = "AND" /\ rules[10].left = 11 /\ rules[10].right = 12
         /\ rules[13].type = "SEQ" /\ rules[13].left = 14 /\ rules[13].right = 15
  BY DEF OneWayTree, Op

\* The conditions and the actions.
LEMMA OneWayActions ==
  ASSUME rules = OneWayTree
  PROVE  /\ \A n \in {4, 6, 7, 11, 12, 14, 15, 16} : rules[n].type = "ACTION"
         /\ rules[4].act = "src_in" /\ rules[4].arg = PrivateNet
         /\ rules[6].act = "nat" /\ rules[6].arg = "src"
         /\ rules[7].act = "out" /\ rules[7].arg = [port |-> 1, vlan |-> 7]
         /\ rules[11].act = "dst_in" /\ rules[11].arg = PublicNet
         /\ rules[12].act = "vlan" /\ rules[12].arg = 7
         /\ rules[14].act = "nat" /\ rules[14].arg = "dst"
         /\ rules[15].act = "out" /\ rules[15].arg = [port |-> 0, vlan |-> 0]
         /\ rules[16].act = "drop"
  BY DEF OneWayTree, Act

\* The number of addresses of a network, as the number of subsets of its free bits.
LEMMA PowerPositive ==
  ASSUME NEW n \in Nat
  PROVE  2^n \in Nat \ {0}
<1>1. IsFiniteSet(1 .. n) /\ Cardinality(1 .. n) = n
  BY FS_Interval
<1>2. IsFiniteSet(SUBSET (1 .. n)) /\ Cardinality(SUBSET (1 .. n)) = 2^n
  BY <1>1, FS_SUBSET
<1>3. Cardinality(SUBSET (1 .. n)) \in Nat
  BY <1>2, FS_CardinalityType
<1>4. SUBSET (1 .. n) # {}
  OBVIOUS
<1>5. Cardinality(SUBSET (1 .. n)) # 0
  BY <1>2, <1>4, FS_EmptySet
<1> QED BY <1>2, <1>3, <1>5

\* ipv4_in_network, for addresses of any width and any network but those of prefix
\* length 0: the shift is by less than the width, and what remains of two addresses
\* is the same when they are in the same block.
LEMMA NetworkIsBlock ==
  ASSUME NEW ip \in Nat, NEW net \in [ip : Nat, mask : 1 .. AddrBits],
         AddrBits \in Nat \ {0}
  PROVE  ipv4_in_network(ip, net) <=> ip \in Block(net)
<1> DEFINE size == 2^(AddrBits - net.mask)
           a == net.ip
<1>1. net.mask \in 1 .. AddrBits /\ a \in Nat
  OBVIOUS
<1>2. (AddrBits - net.mask) % AddrBits = AddrBits - net.mask /\ AddrBits - net.mask \in Nat
  BY <1>1
<1>3. size \in Nat \ {0}
  BY <1>2, PowerPositive
<1>4. ipv4_in_network(ip, net) <=> ip \div size = a \div size
  BY <1>2 DEF ipv4_in_network
<1>5. Block(net) = a - (a % size) .. (a - (a % size)) + size - 1
  BY DEF Block
<1> HIDE DEF size, a
<1>6. ip \div size = a \div size <=> ip \in a - (a % size) .. (a - (a % size)) + size - 1
  BY <1>1, <1>3
<1> QED BY <1>4, <1>5, <1>6

\* The two networks of the conditions.
LEMMA Networks ==
  ASSUME NEW ip \in Nat
  PROVE  /\ ipv4_in_network(ip, PrivateNet) <=> ip \in Block(PrivateNet)
         /\ ipv4_in_network(ip, PublicNet) <=> ip \in Block(PublicNet)
BY NetworksAssumption, NetworkIsBlock

-----------------------------------------------------------------------------
(* The actions, as the addresses of the packet see them. *)

\* nat rewrite src replaces the source.
LEMMA SrcReplaced ==
  ASSUME PathInv, pc = "rules", action_nat_rewrite("src"), ret' = 0
  PROVE  /\ buf'[cur].src = nat_lookup[Pkt.src] /\ buf'[cur].dst = Pkt.dst
         /\ buf'[cur].tci = Pkt.tci /\ buf'[cur].out = Pkt.out
<1> DEFINE to == nat_lookup[Pkt.src]
           into == nat_lookup[Pkt.inner.dst]
           outer == RewriteOuter(Pkt, "src", to)
           both == RewriteInner(outer, "dst", into)
<1>1. cur \in Received /\ Pkt \in Packet
  BY CurReceived DEF PathInv
<1>2. OtherSide("src") = "dst"
  BY DEF OtherSide
<1>3. /\ Pkt.src \in DOMAIN nat_lookup
      /\ buf' = [buf EXCEPT ![cur] = IF HasInner(Pkt) THEN both ELSE outer]
  BY <1>2 DEF action_nat_rewrite
<1>4. buf'[cur] = both \/ buf'[cur] = outer
  BY <1>1, <1>3 DEF PathInv, ControlInv, Received
<1>5. to \in Nat
  BY <1>3, NatAssumption
<1> HIDE DEF to, into, outer, both
<1>6. PICK c \in Int, b \in BOOLEAN :
        /\ RewriteOuter(Pkt, "src", to)
             = [Pkt EXCEPT !.src = to, !.ip = Pkt.ip + to - Pkt.src, !.l4 = c, !.offload = b]
        /\ IF HasL4Cksum(Pkt)
             THEN IF Pkt.frag = "first" THEN c = Pkt.l4 + to - Pkt.src /\ b = Pkt.offload
                                        ELSE c = 0 /\ b = TRUE
             ELSE c = Pkt.l4 /\ b = Pkt.offload
  BY <1>1, <1>5, RewriteSrc
<1>7. outer.src = to /\ outer.dst = Pkt.dst /\ outer.tci = Pkt.tci /\ outer.out = Pkt.out
  BY <1>1, <1>6 DEF outer, Packet
<1>8. /\ both.src = outer.src /\ both.dst = outer.dst
      /\ both.tci = outer.tci /\ both.out = outer.out
  BY DEF both, RewriteInner
<1> QED BY <1>4, <1>7, <1>8 DEF to

\* nat rewrite dst replaces the destination.
LEMMA DstReplaced ==
  ASSUME PathInv, pc = "rules", action_nat_rewrite("dst"), ret' = 0
  PROVE  /\ buf'[cur].dst = nat_lookup[Pkt.dst] /\ buf'[cur].src = Pkt.src
         /\ buf'[cur].tci = Pkt.tci /\ buf'[cur].out = Pkt.out
<1> DEFINE to == nat_lookup[Pkt.dst]
           into == nat_lookup[Pkt.inner.src]
           outer == RewriteOuter(Pkt, "dst", to)
           both == RewriteInner(outer, "src", into)
<1>1. cur \in Received /\ Pkt \in Packet
  BY CurReceived DEF PathInv
<1>2. OtherSide("dst") = "src"
  BY DEF OtherSide
<1>3. /\ Pkt.dst \in DOMAIN nat_lookup
      /\ buf' = [buf EXCEPT ![cur] = IF HasInner(Pkt) THEN both ELSE outer]
  BY <1>2 DEF action_nat_rewrite
<1>4. buf'[cur] = both \/ buf'[cur] = outer
  BY <1>1, <1>3 DEF PathInv, ControlInv, Received
<1>5. to \in Nat
  BY <1>3, NatAssumption
<1> HIDE DEF to, into, outer, both
<1>6. PICK c \in Int, b \in BOOLEAN :
        /\ RewriteOuter(Pkt, "dst", to)
             = [Pkt EXCEPT !.dst = to, !.ip = Pkt.ip + to - Pkt.dst, !.l4 = c, !.offload = b]
        /\ IF HasL4Cksum(Pkt)
             THEN IF Pkt.frag = "first" THEN c = Pkt.l4 + to - Pkt.dst /\ b = Pkt.offload
                                        ELSE c = 0 /\ b = TRUE
             ELSE c = Pkt.l4 /\ b = Pkt.offload
  BY <1>1, <1>5, RewriteDst
<1>7. outer.dst = to /\ outer.src = Pkt.src /\ outer.tci = Pkt.tci /\ outer.out = Pkt.out
  BY <1>1, <1>6 DEF outer, Packet
<1>8. /\ both.src = outer.src /\ both.dst = outer.dst
      /\ both.tci = outer.tci /\ both.out = outer.out
  BY DEF both, RewriteInner
<1> QED BY <1>4, <1>7, <1>8 DEF to

-----------------------------------------------------------------------------
(* The packets that have left the rules. *)

\* OneWayInv without the walk.
Settled ==
  /\ \A i \in Queued \cup sent : Forwarded(buf[i], orig[i].frame)
  /\ stats["drop_nat_condition"] <= Cardinality(Refused)
  /\ lost = {}

LEMMA OneWayParts == OneWayInv <=> (rules = OneWayTree => WalkKnows /\ Settled)
  BY DEF OneWayInv, Settled

\* There are finitely many packets that `drop' may have freed.
RefusedAreFinite == IsFiniteSet(Refused) /\ Cardinality(Refused) \in Nat

LEMMA RefusedFinite == ControlInv => RefusedAreFinite
<1> SUFFICES ASSUME ControlInv
             PROVE  RefusedAreFinite
  OBVIOUS
<1>1. IsFiniteSet(Gone)
  BY TxTypesHold, GoneFinite
<1>2. Refused \subseteq Gone
  BY DEF Refused
<1> QED BY <1>1, <1>2, FS_Subset, FS_CardinalityType DEF RefusedAreFinite

LEMMA RefusedFiniteNext == ControlInv' => RefusedAreFinite'
BY RefusedFinite, PTL

\* A step that counts no packet as dropped by the rules, changes no packet that
\* is queued or sent, and queues or sends those that are forwarded.
LEMMA StaysSettled ==
  ASSUME PathInv, PathInv', Settled,
         \A i \in Received : orig'[i] = orig[i],
         \A i \in Queued \cup sent : buf'[i] = buf[i],
         Gone \subseteq Gone', sent' \cap Gone \subseteq sent,
         stats'["drop_nat_condition"] = stats["drop_nat_condition"],
         \A i \in Queued' \cup sent' :
           i \in Queued \cup sent \/ Forwarded(buf'[i], orig'[i].frame),
         lost' = lost
  PROVE  Settled'
<1>1. Queued \cup sent \subseteq Received /\ Gone \subseteq Received
  BY DEF PathInv, ControlInv, TypeOK, PlacesInv, Gone
<1>2. \A i \in Queued' \cup sent' : Forwarded(buf'[i], orig'[i].frame)
  BY <1>1 DEF Settled
<1>3. Refused \subseteq Refused'
  BY <1>1 DEF Refused
<1>4. /\ Cardinality(Refused) \in Nat
      /\ IsFiniteSet(Refused') /\ Cardinality(Refused') \in Nat
  BY RefusedFinite, RefusedFiniteNext DEF PathInv, RefusedAreFinite
<1>5. Cardinality(Refused) <= Cardinality(Refused')
  BY <1>3, <1>4, FS_Subset
<1>6. stats["drop_nat_condition"] \in Nat
  BY DEF PathInv, ControlInv, TypeOK, Counters
<1> QED BY <1>2, <1>4, <1>5, <1>6 DEF Settled

\* A packet is freed for another reason.
LEMMA FreedSettled ==
  ASSUME PathInv, PathInv', Settled, NEW i \in Received, i \notin Queued \cup Gone,
         NEW c \in DropCounters \ {"drop_nat_condition"}, Free(i, c),
         Len(buf') = Len(buf), UNCHANGED <<orig, lost>>,
         \A k \in Received \ {i} : buf'[k] = buf[k]
  PROVE  Settled'
<1>1. TxTypes /\ TxInv /\ Received' = Received
  BY TxTypesHold DEF PathInv, Received
<1>2. sent' = sent /\ Queued' = Queued /\ Gone' = Gone \cup {i}
  BY <1>1, FreeEffect
<1>3. stats'["drop_nat_condition"] = stats["drop_nat_condition"]
  BY <1>1 DEF Free, TxTypes, Counters
<1>4. Queued \cup sent \subseteq Received \ {i}
  BY SMTT(30) DEF PathInv, ControlInv, TypeOK, PlacesInv, TxInv
<1> QED BY <1>2, <1>3, <1>4, StaysSettled

\* A packet is given to tx_send.
LEMMA SentSettled ==
  ASSUME PathInv, PathInv', Settled, NEW i \in Received, i \notin Queued \cup Gone,
         NEW p \in Ports, Enqueue(i, p), Forwarded(buf'[i], orig[i].frame),
         Len(buf') = Len(buf), UNCHANGED <<orig, lost>>,
         \A k \in Received \ {i} : buf'[k] = buf[k]
  PROVE  Settled'
<1>1. TxTypes /\ TxInv /\ Received' = Received
  BY TxTypesHold DEF PathInv, Received
<1>2. /\ Gone \subseteq Gone' /\ sent \subseteq sent'
      /\ sent' \cup Queued' \subseteq sent \cup Queued \cup {i}
  BY <1>1, SendEffect
<1>3. stats'["drop_nat_condition"] = stats["drop_nat_condition"]
  BY <1>1 DEF Enqueue, Flush, TxTypes, Counters
<1>4. Queued \cup sent \subseteq Received \ {i}
  BY SMTT(30) DEF PathInv, ControlInv, TypeOK, PlacesInv, TxInv
<1>5. sent' \cap Gone \subseteq sent
  BY <1>1, <1>2 DEF TxInv
<1> QED BY <1>2, <1>3, <1>4, <1>5, StaysSettled

\* Nothing happens to any packet.
LEMMA QuietSettled ==
  ASSUME PathInv, PathInv', Settled,
         UNCHANGED <<buf, orig, tx_queues, released, sent, lost, stats>>
  PROVE  Settled'
<1>1. Queued' = Queued /\ Gone' = Gone
  BY DEF Queued, Gone, Received
<1> QED BY <1>1, StaysSettled

-----------------------------------------------------------------------------
(* The steps outside of the rules. *)

LEMMA RxBurstSettled ==
  ASSUME PathInv, PathInv', Settled, RxBurst
  PROVE  Settled'
<1>1. PICK n \in 0 .. MAX_RX_BURST :
        \E fs \in [1 .. n -> Frames] :
          /\ buf' = buf \o fs
          /\ orig' = orig \o [k \in 1 .. n |-> [frame |-> fs[k], port |-> port]]
  BY DEF RxBurst
<1>2. PICK fs \in [1 .. n -> Frames] :
        /\ buf' = buf \o fs
        /\ orig' = orig \o [k \in 1 .. n |-> [frame |-> fs[k], port |-> port]]
  BY <1>1
<1> DEFINE os == [k \in 1 .. n |-> [frame |-> fs[k], port |-> port]]
<1>3. /\ buf \in Seq(Packet) /\ orig \in Seq([frame : Frames, port : Ports])
      /\ Len(orig) = Len(buf) /\ port \in Ports
  BY DEF PathInv, ControlInv, TypeOK
<1>4. n \in Nat /\ \A k \in 1 .. n : fs[k] \in Frames /\ fs[k] \in Packet
  BY BurstAssumption, FramesAssumption
<1>5. fs \in Seq(Packet) /\ os \in Seq([frame : Frames, port : Ports])
  <2>1. fs \in [1 .. n -> Packet] /\ os \in [1 .. n -> [frame : Frames, port : Ports]]
    BY <1>3, <1>4
  <2>2. fs \in Seq(Packet)
    BY <1>4, <2>1, SeqDef
  <2> DEFINE O == [frame : Frames, port : Ports]
  <2>3. os \in [1 .. n -> O]
    BY <2>1
  <2>4. os \in Seq(O)
    BY <1>4, <2>3, SeqDef
  <2> QED BY <2>2, <2>4
<1> HIDE DEF os
<1>6. /\ Len(buf \o fs) = Len(buf) + Len(fs)
      /\ \A i \in 1 .. Len(buf) : (buf \o fs)[i] = buf[i]
  BY <1>3, <1>5, Appended
<1>7. \A i \in 1 .. Len(orig) : (orig \o os)[i] = orig[i]
  BY <1>3, <1>5, Appended
<1>8. \A i \in Received : buf'[i] = buf[i] /\ orig'[i] = orig[i]
  BY <1>2, <1>3, <1>6, <1>7 DEF Received, os
<1>9. Received \subseteq Received'
  <2>1. Len(buf) \in Nat /\ Len(fs) \in Nat /\ Len(buf') = Len(buf) + Len(fs)
    BY <1>2, <1>3, <1>5, <1>6
  <2> QED BY <2>1 DEF Received
<1>10. UNCHANGED <<tx_queues, released, sent, lost, stats>>
  BY DEF RxBurst
<1>11. Queued' = Queued /\ Gone \subseteq Gone'
  BY <1>9, <1>10 DEF Queued, Gone
<1>12. Queued \cup sent \subseteq Received
  BY DEF PathInv, ControlInv, TypeOK, PlacesInv
<1> QED BY <1>8, <1>10, <1>11, <1>12, StaysSettled

LEMMA AcceptSettled ==
  ASSUME PathInv, PathInv', Settled, Accept
  PROVE  Settled'
<1> DEFINE i == Head(burst)
<1>1. /\ burst # <<>> /\ burst' = Tail(burst) /\ UNCHANGED <<buf, orig, lost>>
      /\ \/ Free(i, "drop_bad_l3_cksum")
         \/ /\ stats' = [stats EXCEPT !["rx_bad_l4_cksum"] =
                           @ + IF buf[i].l4bad THEN 1 ELSE 0]
            /\ UNCHANGED <<released, tx_queues, sent>>
  BY DEF Accept
<1>2. i \in Received /\ i \in InBurst
  BY <1>1, BurstHead
<1>3. i \notin Queued \cup Gone
  BY <1>2 DEF PathInv, PlacesInv
<1> HIDE DEF i
<1>4. CASE Free(i, "drop_bad_l3_cksum")
  <2>1. "drop_bad_l3_cksum" \in DropCounters \ {"drop_nat_condition"}
    BY DEF DropCounters, Counters
  <2> QED BY <1>1, <1>2, <1>3, <1>4, <2>1, FreedSettled
<1>5. CASE /\ stats' = [stats EXCEPT !["rx_bad_l4_cksum"] =
                           @ + IF buf[i].l4bad THEN 1 ELSE 0]
           /\ UNCHANGED <<released, tx_queues, sent>>
  <2>1. stats'["drop_nat_condition"] = stats["drop_nat_condition"]
    BY <1>5 DEF PathInv, ControlInv, TypeOK, Counters
  <2>2. Queued' = Queued /\ Gone' = Gone
    BY <1>1, <1>5 DEF Queued, Gone, Received
  <2> QED BY <1>1, <1>5, <2>1, <2>2, StaysSettled
<1> QED BY <1>1, <1>4, <1>5

\* What NATASHA answers itself.
LEMMA AnsweredSettled ==
  ASSUME PathInv, PathInv', Settled, ArpReply \/ IcmpEcho
  PROVE  Settled'
<1>1. pc = "ether" /\ Enqueue(cur, port) /\ UNCHANGED <<orig, lost>>
  BY DEF ArpReply, IcmpEcho, tx_send
<1>2. /\ Pkt = orig[cur].frame /\ Pkt \in Packet /\ cur \in Received /\ port \in Ports
  BY <1>1, EtherIsOrig, CurReceived DEF PathInv, ControlInv, TypeOK
<1>3. cur \notin Queued \cup Gone
  BY <1>1, HandIsCur, HandOwned DEF PathInv
<1>4. PICK g : buf' = [buf EXCEPT ![cur] = g] /\ IsAnswer(g, Pkt)
  <2>1. CASE ArpReply
    <3>1. Pkt.eth = "arp"
      BY <2>1 DEF ArpReply, IsOurArp, IsArpRequest
    <3>2. \E g : buf' = [buf EXCEPT ![cur] = g]
      BY <2>1 DEF ArpReply, tx_send
    <3> QED BY <3>1, <3>2 DEF IsAnswer
  <2>2. CASE IcmpEcho
    <3> DEFINE a == [EchoReply EXCEPT !.out = port]
    <3>1. buf' = [buf EXCEPT ![cur] = a] /\ Pkt.eth = "ipv4" /\ Pkt.op = "echo"
      BY <2>2 DEF IcmpEcho, IsIcmpForUs, tx_send
    <3>2. a.eth = Pkt.eth /\ a.op = "echo_reply"
      BY <1>2 DEF Packet, EchoReply
    <3>3. IsAnswer(a, Pkt)
      BY <3>1, <3>2 DEF IsAnswer
    <3> QED BY <3>1, <3>3
  <2> QED BY <2>1, <2>2
<1>5. buf'[cur] = g /\ Len(buf') = Len(buf) /\ \A k \in Received \ {cur} : buf'[k] = buf[k]
  BY <1>2, <1>4 DEF PathInv, ControlInv, Received
<1>6. Forwarded(buf'[cur], orig[cur].frame)
  BY <1>2, <1>4, <1>5 DEF Forwarded
<1> QED BY <1>1, <1>2, <1>3, <1>5, <1>6, SentSettled

LEMMA RefusedSettled ==
  ASSUME PathInv, PathInv', Settled, IcmpUnknown \/ Unhandled
  PROVE  Settled'
<1>1. /\ pc = "ether" /\ UNCHANGED <<buf, orig, lost>>
      /\ \E c \in {"drop_unknown_icmp", "drop_unhandled_ethertype"} : Free(cur, c)
  BY DEF IcmpUnknown, Unhandled
<1>2. cur \in Received /\ cur \notin Queued \cup Gone
  BY <1>1, EtherIsOrig, HandIsCur, HandOwned DEF PathInv
<1>3. PICK c \in DropCounters \ {"drop_nat_condition"} : Free(cur, c)
  BY <1>1 DEF DropCounters, Counters
<1> QED BY <1>1, <1>2, <1>3, FreedSettled

LEMMA TxFlushSettled ==
  ASSUME PathInv, PathInv', Settled, TxFlush
  PROVE  Settled'
<1> DEFINE q == tx_queues[port]
<1>1. /\ pc = "flush" /\ UNCHANGED <<burst, cur, rulesVars, buf, orig, lost>>
      /\ IF q = <<>> THEN UNCHANGED <<tx_queues, released, sent, stats>>
                     ELSE \E n \in 0 .. Len(q) : Flush(port, q, n)
  BY DEF TxFlush
<1>2. CASE q = <<>>
  BY <1>1, <1>2, QuietSettled
<1>3. CASE q # <<>>
  <2>1. PICK n \in 0 .. Len(q) : Flush(port, q, n)
    BY <1>1, <1>3
  <2>2. port \in Ports /\ q \in Seq(Received) /\ tx_queues \in [Ports -> Seq(Received)]
        /\ stats \in [Counters -> Nat] /\ TxInv
    BY DEF PathInv, ControlInv, TypeOK
  <2>3. /\ tx_queues' = [tx_queues EXCEPT ![port] = <<>>]
        /\ sent' = sent \cup {q[k] : k \in 1 .. n}
        /\ stats'["drop_nat_condition"] = stats["drop_nat_condition"]
    BY <2>1, <2>2 DEF Flush, Counters
  <2>4. \A k \in 1 .. n : q[k] \in Queued
    <3>1. \A k \in 1 .. n : k \in DOMAIN q
      BY <2>2
    <3> QED BY <2>2, <3>1 DEF Queued
  <2>5. Queued' \subseteq Queued
    BY <2>2, <2>3 DEF Queued
  <2>6. sent' \subseteq sent \cup Queued
    BY <2>3, <2>4
  <2>7. Gone \subseteq Gone'
    <3>1. InBurst' = InBurst /\ InHand' = {} /\ lost' = lost /\ Received' = Received
      BY <1>1 DEF PathInv, ControlInv, InBurst, InHand, Received
    <3>2. Received' = InBurst' \cup InHand' \cup Queued' \cup lost' \cup Gone'
      BY DEF PathInv, PlacesInv
    <3>3. Gone \cap (InBurst \cup Queued \cup lost) = {} /\ Gone \subseteq Received
      BY <2>2 DEF PathInv, PlacesInv, TxInv, Gone
    <3> QED BY <2>5, <3>1, <3>2, <3>3
  <2>8. sent' \cap Gone \subseteq sent
    BY <2>2, <2>6 DEF TxInv
  <2> QED BY <1>1, <2>3, <2>5, <2>6, <2>7, <2>8, StaysSettled
<1> QED BY <1>2, <1>3

-----------------------------------------------------------------------------
(* The walk of the rules. *)

\* The stack of the walk has callers only, and ends where the walk is.
LEMMA OneWayCallers ==
  ASSUME PathInv, rules = OneWayTree, stack # <<>>, OnPath
  PROVE  /\ Len(stack) \in Nat \ {0}
         /\ stack \in Seq((DOMAIN rules) \X {"left", "right"})
         /\ stack[Len(stack)][1] \in {1, 2, 3, 5, 8, 9, 10, 13}
         /\ stack[Len(stack)][2] \in {"left", "right"}
         /\ stack[Len(stack)] = <<stack[Len(stack)][1], stack[Len(stack)][2]>>
<1>1. /\ Len(stack) \in Nat \ {0}
      /\ stack \in Seq((DOMAIN rules) \X {"left", "right"})
      /\ \A k \in 1 .. Len(stack) : /\ stack[k][1] \in DOMAIN rules
                                    /\ rules[stack[k][1]].type \in InnerTypes
  BY StackTop
<1>2. Len(stack) \in 1 .. Len(stack)
  BY <1>1
<1>3. stack[Len(stack)] \in (DOMAIN rules) \X {"left", "right"}
  BY <1>1, <1>2, ElementOfSeq
<1>4. rules[stack[Len(stack)][1]].type # "ACTION"
  BY <1>1, <1>2 DEF InnerTypes
<1>5. stack[Len(stack)][1] \in 1 .. 16
  BY <1>1, <1>2, OneWayInner
<1>6. stack[Len(stack)][1] \in {1, 2, 3, 5, 8, 9, 10, 13}
  <2> DEFINE n == stack[Len(stack)][1]
  <2> HIDE DEF n
  <2>1. n \in 1 .. 16 /\ rules[n].type # "ACTION"
    BY <1>4, <1>5 DEF n
  <2>2. n \in {1, 2, 3, 5, 8, 9, 10, 13}
    BY <2>1, OneWayActions
  <2> QED BY <2>2 DEF n
<1> QED BY <1>1, <1>3, <1>6

\* A call of a node with children: its left child is next.
LEMMA DescendKnows ==
  ASSUME PathInv, rules = OneWayTree, WalkKnows, Descend, rules' = rules
  PROVE  WalkKnows'
<1> DEFINE o == orig[cur].frame
           s == Append(stack, <<node, "left">>)
<1>1. /\ pc = "rules" /\ ctl = "call" /\ ctl' = "call" /\ node # 0
      /\ rules[node].type # "ACTION"
      /\ stack' = s /\ node' = rules[node].left
      /\ UNCHANGED <<buf, orig, cur>>
  BY DEF Descend
<1>2. OnPath /\ node = Here /\ Before(node, Pkt, o)
  BY <1>1 DEF WalkKnows
<1>3. node \in DOMAIN rules /\ stack \in Seq((DOMAIN rules) \X {"left", "right"})
  BY <1>1 DEF PathInv, ControlInv, TypeOK
<1>4. node \in {1, 2, 3, 5, 8, 9, 10, 13}
  <2>1. node \in 1 .. 16
    BY <1>3, OneWayInner
  <2> QED BY <1>1, <2>1, OneWayActions
<1>5. <<node, "left">> \in (DOMAIN rules) \X {"left", "right"}
  BY <1>3
<1>6. /\ Len(stack) \in Nat /\ Len(s) = Len(stack) + 1
      /\ s[Len(stack) + 1] = <<node, "left">>
      /\ \A k \in 1 .. Len(stack) : s[k] = stack[k]
      /\ s # <<>>
  <2>1. Len(stack) \in Nat
    BY <1>3
  <2>2. /\ s \in Seq((DOMAIN rules) \X {"left", "right"}) /\ Len(s) = Len(stack) + 1
        /\ \A k \in 1 .. Len(stack) : s[k] = stack[k]
        /\ s[Len(stack) + 1] = <<node, "left">>
    BY <1>3, <1>5, AppendProperties
  <2> HIDE DEF s
  <2>3. s # <<>>
    BY <2>1, <2>2
  <2> QED BY <2>1, <2>2, <2>3
<1> HIDE DEF s, o
<1>7. \A e : Child(e)' = Child(e)
  BY DEF Child
<1>8. Here' = rules[node].left
  BY <1>1, <1>6 DEF Here, Child
<1>9. OnPath'
  <2>1. ASSUME NEW k \in 1 .. Len(s)
        PROVE  s[k][1] = IF k = 1 THEN 1 ELSE Child(s[k - 1])
    <3>1. CASE k \in 1 .. Len(stack)
      <4>1. k - 1 \in 1 .. Len(stack) \/ k = 1
        BY <1>6, <3>1
      <4> QED BY <1>2, <1>6, <3>1, <4>1 DEF OnPath
    <3>2. CASE k = Len(stack) + 1
      <4>1. s[k][1] = Here
        BY <1>2, <1>6, <3>2
      <4>2. CASE Len(stack) = 0
        <5>1. stack = <<>>
          BY <1>3, <4>2
        <5> QED BY <3>2, <4>1, <4>2, <5>1 DEF Here
      <4>3. CASE Len(stack) # 0
        <5>1. stack # <<>> /\ k # 1 /\ k - 1 = Len(stack) /\ Len(stack) \in 1 .. Len(stack)
          BY <1>6, <3>2, <4>3
        <5> QED BY <1>6, <4>1, <5>1 DEF Here
      <4> QED BY <4>2, <4>3
    <3> QED BY <1>6, <3>1, <3>2
  <2> QED BY <1>1, <2>1 DEF OnPath, Child
<1>10. Before(rules[node].left, Pkt, o)
  BY <1>2, <1>4, OneWayInner DEF Before
<1>11. Pkt' = Pkt /\ orig'[cur'].frame = o
  BY <1>1 DEF Pkt, o
<1>12. Before(Here', Pkt', orig'[cur'].frame)
  BY <1>8, <1>10, <1>11
<1> QED BY <1>1, <1>8, <1>9, <1>12 DEF WalkKnows

\* What the caller of a node does with its result.
LEMMA ResumeMeans ==
  ASSUME rules = OneWayTree, NEW n \in {1, 2, 3, 5, 8, 9, 10, 13},
         NEW side \in {"left", "right"}, NEW c,
         c = (IF side = "left" THEN rules[n].left ELSE rules[n].right),
         NEW r \in 0 .. 1, NEW f, NEW o, After(c, r, f, o)
  PROVE  IF side = "left" /\ RunsRight(rules[n].type, r)
           THEN Before(rules[n].right, f, o)
           ELSE After(n, Result(rules[n].type, side, r), f, o)
<1>1. CASE n \in {1, 5, 13}
  BY <1>1, OneWayInner DEF RunsRight, Result, Before, After
<1>2. CASE n \in {2, 8}
  BY <1>2, OneWayInner DEF RunsRight, Result, Before, After
<1>3. CASE n \in {3, 9}
  BY <1>3, OneWayInner DEF RunsRight, Result, Before, After
<1>4. CASE n = 10
  BY <1>4, OneWayInner DEF RunsRight, Result, Before, After, ToPublic
<1> QED BY <1>1, <1>2, <1>3, <1>4

\* The caller goes on with its right child, or returns itself.
LEMMA ResumeKnows ==
  ASSUME PathInv, rules = OneWayTree, WalkKnows, Resume, rules' = rules
  PROVE  WalkKnows'
<1> DEFINE n == stack[Len(stack)][1]
           side == stack[Len(stack)][2]
           o == orig[cur].frame
           D == (DOMAIN rules) \X {"left", "right"}
           right == ret >= 0 /\ side = "left" /\ RunsRight(rules[n].type, ret)
<1>1. /\ pc = "rules" /\ ctl = "return" /\ stack # <<>> /\ UNCHANGED <<pc, cur, buf, orig>>
      /\ IF right THEN /\ stack' = [stack EXCEPT ![Len(stack)] = <<n, "right">>]
                       /\ ctl' = "call" /\ node' = rules[n].right /\ ret' = ret
                  ELSE /\ stack' = SubSeq(stack, 1, Len(stack) - 1)
                       /\ ret' = Result(rules[n].type, side, ret) /\ ctl' = ctl
  BY DEF Resume
<1>2. OnPath /\ (ret >= 0 => After(Here, ret, Pkt, o)) /\ ret \in -1 .. 1
  BY <1>1 DEF WalkKnows, PathInv, ControlInv, TypeOK
<1>3. /\ Len(stack) \in Nat \ {0}
      /\ stack \in Seq(D)
      /\ n \in {1, 2, 3, 5, 8, 9, 10, 13} /\ side \in {"left", "right"}
  BY <1>1, <1>2, OneWayCallers
<1>4. Here = IF side = "left" THEN rules[n].left ELSE rules[n].right
  BY <1>1 DEF Here, Child
<1>5. Pkt' = Pkt /\ orig'[cur'].frame = o
  BY <1>1 DEF Pkt
<1>6. \A k \in 1 .. Len(stack) : stack[k][1] = IF k = 1 THEN 1 ELSE Child(stack[k - 1])
  BY <1>2 DEF OnPath
<1>7. n = IF Len(stack) = 1 THEN 1 ELSE Child(stack[Len(stack) - 1])
  <2>1. Len(stack) \in 1 .. Len(stack)
    BY <1>3
  <2> QED BY <1>6, <2>1
<1>8. n \in DOMAIN rules
  BY <1>3, OneWayInner
<1> HIDE DEF n, side, o, D, right
<1>9. Len(stack) \in Nat /\ Len(stack) # 0 /\ stack \in Seq(D)
  BY <1>3
<1>10. CASE right
  <2>1. <<n, "right">> \in D
    BY <1>8 DEF D
  <2>2. /\ Len(stack') = Len(stack) /\ stack' # <<>>
        /\ stack'[Len(stack)] = <<n, "right">>
        /\ \A k \in 1 .. Len(stack) : k # Len(stack) => stack'[k] = stack[k]
    <3>1. /\ stack' \in Seq(D) /\ Len(stack') = Len(stack)
          /\ stack'[Len(stack)] = <<n, "right">>
          /\ \A k \in 1 .. Len(stack) : k # Len(stack) => stack'[k] = stack[k]
      BY <1>1, <1>10, <1>9, <2>1
    <3>2. stack' # <<>>
      BY <1>3, <3>1
    <3> QED BY <3>1, <3>2
  <2>3. Here' = rules[n].right
    BY <2>2, "left" # "right" DEF Here, Child
  <2>4. OnPath'
    <3>1. ASSUME NEW k \in 1 .. Len(stack)
          PROVE  stack'[k][1] = IF k = 1 THEN 1 ELSE Child(stack'[k - 1])
      <4>1. stack'[k][1] = stack[k][1]
        BY <2>2 DEF n
      <4>2. k = 1 \/ (k - 1 \in 1 .. Len(stack) /\ k - 1 # Len(stack))
        BY <1>3
      <4> QED BY <1>6, <2>2, <4>1, <4>2
    <3> QED BY <2>2, <3>1 DEF OnPath, Child
  <2>5. Before(rules[n].right, Pkt, o)
    <3>1. ret \in 0 .. 1 /\ side = "left" /\ RunsRight(rules[n].type, ret)
      BY <1>2, <1>10 DEF right
    <3>2. After(Here, ret, Pkt, o)
      BY <1>2, <3>1
    <3> QED BY <1>3, <1>4, <3>1, <3>2, ResumeMeans
  <2>6. Before(Here', Pkt', orig'[cur'].frame)
    BY <1>5, <2>3, <2>5
  <2> QED BY <1>1, <1>10, <2>3, <2>4, <2>6 DEF WalkKnows
<1>11. CASE ~right
  <2>1. /\ stack' = SubSeq(stack, 1, Len(stack) - 1) /\ ctl' = "return"
        /\ ret' = Result(rules[n].type, side, ret)
    BY <1>1, <1>11
  <2>2. /\ Len(stack') = Len(stack) - 1
        /\ \A k \in 1 .. Len(stack) - 1 : stack'[k] = stack[k]
        /\ stack' = <<>> <=> Len(stack) = 1
    <3>1. /\ stack' \in Seq(D) /\ Len(stack') = Len(stack) - 1
          /\ \A k \in 1 .. Len(stack) - 1 : stack'[k] = stack[k]
      <4> DEFINE l == Len(stack) - 1
      <4>1. l \in Nat /\ l <= Len(stack)
        BY <1>9
      <4> HIDE DEF l
      <4>2. \A k \in 1 .. l : k \in 1 .. Len(stack)
        BY <1>9, <4>1
      <4>3. stack' = SubSeq(stack, 1, l)
        BY <2>1 DEF l
      <4>4. /\ stack' \in Seq(D) /\ Len(stack') = l
            /\ \A k \in 1 .. l : stack'[k] = stack[k]
        BY <1>9, <4>1, <4>2, <4>3
      <4> QED BY <4>4 DEF l
    <3>2. stack' = <<>> <=> Len(stack') = 0
      BY <3>1, EmptySeq
    <3> QED BY <1>3, <3>1, <3>2
  <2>3. Here' = n
    <3>1. CASE Len(stack) = 1
      BY <1>7, <2>2, <3>1 DEF Here
    <3>2. CASE Len(stack) # 1
      <4>1. Len(stack) - 1 \in 1 .. Len(stack) - 1
        <5>1. \A l \in Nat : l # 0 /\ l # 1 => l - 1 \in 1 .. l - 1
          OBVIOUS
        <5> QED BY <1>9, <3>2, <5>1
      <4>2. stack' # <<>> /\ stack'[Len(stack')] = stack[Len(stack) - 1]
        BY <2>2, <3>2, <4>1
      <4> QED BY <1>7, <3>2, <4>2 DEF Here, Child
    <3> QED BY <3>1, <3>2
  <2>4. OnPath'
    <3>1. ASSUME NEW k \in 1 .. Len(stack) - 1
          PROVE  stack'[k][1] = IF k = 1 THEN 1 ELSE Child(stack'[k - 1])
      <4>1. k \in 1 .. Len(stack) /\ (k = 1 \/ k - 1 \in 1 .. Len(stack) - 1)
        BY <1>3
      <4> QED BY <1>6, <2>2, <4>1
    <3> QED BY <2>2, <3>1 DEF OnPath, Child
  <2>5. ret' >= 0 => After(n, ret', Pkt, o)
    <3> SUFFICES ASSUME ret' >= 0
                 PROVE  After(n, ret', Pkt, o)
      OBVIOUS
    <3>1. rules[n].type \in InnerTypes
      BY <1>3, OneWayInner DEF InnerTypes
    <3>2. ret \in 0 .. 1
      BY <1>2, <2>1, <3>1, ResultSign
    <3>3. ~(side = "left" /\ RunsRight(rules[n].type, ret))
      BY <1>11, <3>2 DEF right
    <3>4. After(Here, ret, Pkt, o)
      BY <1>2, <3>2
    <3> QED BY <1>3, <1>4, <2>1, <3>2, <3>3, <3>4, ResumeMeans
  <2>6. ret' >= 0 => After(Here', ret', Pkt', orig'[cur'].frame)
    BY <1>5, <2>3, <2>5
  <2> QED BY <2>1, <2>4, <2>6 DEF WalkKnows
<1> QED BY <1>10, <1>11

\* What the ACTION nodes of the rules do.
LEMMA OneWayCalls ==
  ASSUME rules = OneWayTree, NEW n, CallAction(n), Pkt \in Packet
  PROVE  /\ n = 4 => Quiet /\ ret' = (IF Pkt.src \in Block(PrivateNet) THEN 1 ELSE 0)
         /\ n = 6 => action_nat_rewrite("src")
         /\ n = 7 => action_out([port |-> 1, vlan |-> 7])
         /\ n = 11 => Quiet /\ ret' = (IF Pkt.dst \in Block(PublicNet) THEN 1 ELSE 0)
         /\ n = 12 => Quiet /\ ret' = (IF VLAN_ID(Pkt) = 7 THEN 1 ELSE 0)
         /\ n = 14 => action_nat_rewrite("dst")
         /\ n = 15 => action_out([port |-> 0, vlan |-> 0])
         /\ n = 16 => action_drop
<1>1. Pkt.src \in Nat /\ Pkt.dst \in Nat
  BY DEF Packet
<1>2. \/ rules[n].act = "nat" /\ action_nat_rewrite(rules[n].arg)
      \/ rules[n].act = "out" /\ action_out(rules[n].arg)
      \/ rules[n].act = "drop" /\ action_drop
      \/ rules[n].act = "print"
      \/ IsCond(n) /\ ret' = (IF CondHolds(n) THEN 1 ELSE 0) /\ Quiet
  BY DEF CallAction
<1>3. ASSUME n = 4
      PROVE  Quiet /\ ret' = (IF Pkt.src \in Block(PrivateNet) THEN 1 ELSE 0)
  <2>1. Quiet /\ ret' = (IF CondHolds(n) THEN 1 ELSE 0)
    BY <1>2, <1>3, OneWayActions
  <2>2. CondHolds(n) <=> ipv4_in_network(Pkt.src, PrivateNet)
    BY <1>3, OneWayActions DEF CondHolds
  <2> QED BY <1>1, <2>1, <2>2, Networks
<1>4. ASSUME n = 11
      PROVE  Quiet /\ ret' = (IF Pkt.dst \in Block(PublicNet) THEN 1 ELSE 0)
  <2>1. Quiet /\ ret' = (IF CondHolds(n) THEN 1 ELSE 0)
    BY <1>2, <1>4, OneWayActions
  <2>2. CondHolds(n) <=> ipv4_in_network(Pkt.dst, PublicNet)
    BY <1>4, OneWayActions DEF CondHolds
  <2> QED BY <1>1, <2>1, <2>2, Networks
<1>5. ASSUME n = 12
      PROVE  Quiet /\ ret' = (IF VLAN_ID(Pkt) = 7 THEN 1 ELSE 0)
  <2>1. Quiet /\ ret' = (IF CondHolds(n) THEN 1 ELSE 0)
    BY <1>2, <1>5, OneWayActions
  <2>2. CondHolds(n) <=> VLAN_ID(Pkt) = 7
    BY <1>5, OneWayActions DEF CondHolds
  <2> QED BY <2>1, <2>2
<1>6. /\ n = 6 => action_nat_rewrite("src")
      /\ n = 14 => action_nat_rewrite("dst")
  BY <1>2, OneWayActions DEF IsCond
<1>7. /\ n = 7 => action_out([port |-> 1, vlan |-> 7])
      /\ n = 15 => action_out([port |-> 0, vlan |-> 0])
  BY <1>2, OneWayActions DEF IsCond
<1>8. n = 16 => action_drop
  BY <1>2, OneWayActions DEF IsCond
<1> QED BY <1>3, <1>4, <1>5, <1>6, <1>7, <1>8

\* The node that an Execute step is about.
LEMMA ExecuteAt ==
  ASSUME PathInv, rules = OneWayTree, WalkKnows, Execute
  PROVE  /\ pc = "rules" /\ ctl = "call" /\ pc' = "rules" /\ ctl' = "return"
         /\ UNCHANGED <<cur, orig, lost, stack>>
         /\ OnPath /\ node = Here /\ Before(node, Pkt, orig[cur].frame)
         /\ \/ node = 0 /\ ret' = 0 /\ Quiet
            \/ node \in {4, 6, 7, 11, 12, 14, 15, 16} /\ CallAction(node)
<1>1. /\ pc = "rules" /\ ctl = "call" /\ pc' = "rules" /\ ctl' = "return"
      /\ UNCHANGED <<cur, orig, lost, stack>>
      /\ IF node = 0 THEN ret' = 0 /\ Quiet
                     ELSE rules[node].type = "ACTION" /\ CallAction(node)
  BY DEF Execute
<1>2. OnPath /\ node = Here /\ Before(node, Pkt, orig[cur].frame)
  BY <1>1 DEF WalkKnows
<1>3. node \in {0} \cup 1 .. 16
  BY OneWayInner DEF PathInv, ControlInv, TypeOK
<1>4. ASSUME node # 0
      PROVE  node \in {4, 6, 7, 11, 12, 14, 15, 16}
  <2>1. node \in 1 .. 16 /\ rules[node].type = "ACTION"
    BY <1>1, <1>3, <1>4
  <2>2. node \notin {1, 2, 3, 5, 8, 9, 10, 13}
    BY <2>1, OneWayInner
  <2> QED BY <2>1, <2>2
<1> QED BY <1>1, <1>2, <1>4

LEMMA ExecuteKnows ==
  ASSUME PathInv, rules = OneWayTree, WalkKnows, Execute, rules' = rules
  PROVE  WalkKnows'
<1> DEFINE o == orig[cur].frame
<1>1. /\ pc = "rules" /\ ctl = "call" /\ pc' = "rules" /\ ctl' = "return"
      /\ UNCHANGED <<cur, orig, lost, stack>>
      /\ OnPath /\ node = Here /\ Before(node, Pkt, o)
      /\ \/ node = 0 /\ ret' = 0 /\ Quiet
         \/ node \in {4, 6, 7, 11, 12, 14, 15, 16} /\ CallAction(node)
  BY ExecuteAt
<1>2. Pkt \in Packet
  BY <1>1, InRules
<1>3. OnPath' /\ Here' = node
  BY <1>1 DEF OnPath, Here, Child
<1>4. Pkt' = buf'[cur] /\ orig'[cur'].frame = o
  BY <1>1 DEF Pkt
<1> HIDE DEF o
<1>5. Quiet => Pkt' = Pkt
  BY <1>1 DEF Quiet, Pkt
<1>6. ASSUME ret' >= 0
      PROVE  After(node, ret', Pkt', o)
  <2>1. CASE node = 0
    BY <1>1, <1>5, <2>1 DEF Before, After, CallAction
  <2>2. CASE node = 4
    <3>1. Pkt' = Pkt /\ ret' = (IF Pkt.src \in Block(PrivateNet) THEN 1 ELSE 0) /\ Fresh(Pkt, o)
      BY <1>1, <1>2, <1>5, <2>2, OneWayCalls DEF Before
    <3> QED BY <2>2, <3>1 DEF After, Fresh, FromPrivate
  <2>3. CASE node = 6
    <3>1. action_nat_rewrite("src") /\ Fresh(Pkt, o) /\ FromPrivate(o)
      BY <1>1, <1>2, <2>3, OneWayCalls DEF Before
    <3>2. ret' = 0
      BY <1>6, <3>1 DEF action_nat_rewrite
    <3>3. /\ Pkt'.src = nat_lookup[Pkt.src] /\ Pkt'.dst = Pkt.dst /\ Pkt'.out = Pkt.out
      BY <1>1, <1>4, <3>1, <3>2, SrcReplaced
    <3>4. SrcDone(Pkt', o)
      BY <3>1, <3>3 DEF SrcDone, Fresh
    <3> QED BY <2>3, <3>4 DEF After
  <2>4. CASE node \in {7, 15}
    <3>1. ret' = -1
      BY <1>1, <1>2, <2>4, OneWayCalls DEF action_out
    <3> QED BY <1>6, <3>1
  <2>5. CASE node = 11
    <3>1. /\ Pkt' = Pkt /\ ret' = (IF Pkt.dst \in Block(PublicNet) THEN 1 ELSE 0)
          /\ Fresh(Pkt, o) /\ ~FromPrivate(o)
      BY <1>1, <1>2, <1>5, <2>5, OneWayCalls DEF Before
    <3> QED BY <2>5, <3>1 DEF After, Fresh
  <2>6. CASE node = 12
    <3>1. /\ Pkt' = Pkt /\ ret' = (IF VLAN_ID(Pkt) = 7 THEN 1 ELSE 0)
          /\ Fresh(Pkt, o) /\ ~FromPrivate(o) /\ o.dst \in Block(PublicNet)
      BY <1>1, <1>2, <1>5, <2>6, OneWayCalls DEF Before
    <3>2. VLAN_ID(Pkt) = VLAN_ID(o)
      BY <3>1 DEF Fresh, VLAN_ID
    <3> QED BY <2>6, <3>1, <3>2 DEF After
  <2>7. CASE node = 14
    <3>1. action_nat_rewrite("dst") /\ Fresh(Pkt, o) /\ ~FromPrivate(o) /\ ToPublic(o)
      BY <1>1, <1>2, <2>7, OneWayCalls DEF Before
    <3>2. ret' = 0
      BY <1>6, <3>1 DEF action_nat_rewrite
    <3>3. /\ Pkt'.dst = nat_lookup[Pkt.dst] /\ Pkt'.src = Pkt.src /\ Pkt'.out = Pkt.out
      BY <1>1, <1>4, <3>1, <3>2, DstReplaced
    <3>4. DstDone(Pkt', o)
      BY <3>1, <3>3 DEF DstDone, Fresh
    <3> QED BY <2>7, <3>4 DEF After
  <2>8. CASE node = 16
    <3>1. ret' = -1
      BY <1>1, <1>2, <2>8, OneWayCalls DEF action_drop
    <3> QED BY <1>6, <3>1
  <2> QED BY <1>1, <2>1, <2>2, <2>3, <2>4, <2>5, <2>6, <2>7, <2>8
<1> QED BY <1>1, <1>3, <1>4, <1>6 DEF WalkKnows

\* `out' sends what the rules have made of the packet.
LEMMA OutSettled ==
  ASSUME PathInv, PathInv', Settled, pc = "rules", ctl = "call",
         NEW p \in Ports, NEW v \in Nat, action_out([port |-> p, vlan |-> v]),
         UNCHANGED <<orig, lost>>,
         \A g : /\ g.src = Pkt.src /\ g.dst = Pkt.dst /\ g.out = p /\ g.tci = v
                => Forwarded(g, orig[cur].frame)
  PROVE  Settled'
<1> DEFINE t == [Pkt EXCEPT !.tci = v, !.tx_ipv4 = TRUE]
           g == [t EXCEPT !.out = p]
<1>1. cur \in Received /\ Pkt \in Packet /\ cur \notin Queued \cup Gone
  BY InRules
<1>2. Enqueue(cur, p) /\ buf' = [buf EXCEPT ![cur] = g]
  BY DEF action_out, tx_send
<1>3. g.src = Pkt.src /\ g.dst = Pkt.dst /\ g.out = p /\ g.tci = v
  BY <1>1 DEF Packet
<1> HIDE DEF g
<1>4. buf'[cur] = g /\ Len(buf') = Len(buf) /\ \A k \in Received \ {cur} : buf'[k] = buf[k]
  BY <1>1, <1>2 DEF PathInv, ControlInv, Received
<1>5. Forwarded(buf'[cur], orig[cur].frame)
  BY <1>3, <1>4
<1> QED BY <1>1, <1>2, <1>4, <1>5, SentSettled

\* `drop' frees a packet to which no condition applied, and counts it.
LEMMA DropSettled ==
  ASSUME PathInv, PathInv', Settled, pc = "rules", ctl = "call",
         action_drop, UNCHANGED <<orig, lost>>, Unmatched(orig[cur].frame)
  PROVE  Settled'
<1>1. cur \in Received /\ cur \notin Queued \cup Gone
  BY InRules
<1>2. TxTypes /\ TxInv /\ buf' = buf /\ Free(cur, "drop_nat_condition")
  BY TxTypesHold DEF PathInv, action_drop
<1>3. Received' = Received /\ "drop_nat_condition" \in DropCounters
  BY <1>2 DEF Received, DropCounters, Counters
<1>4. sent' = sent /\ Queued' = Queued /\ Gone' = Gone \cup {cur}
  BY <1>1, <1>2, <1>3, FreeEffect
<1>5. stats'["drop_nat_condition"] = stats["drop_nat_condition"] + 1
      /\ stats["drop_nat_condition"] \in Nat
  BY <1>2 DEF Free, TxTypes, Counters
<1>6. cur \notin Refused /\ cur \notin sent
  BY <1>1, <1>2 DEF Refused, TxInv
<1>7. Refused' = Refused \cup {cur}
  BY <1>4, <1>6 DEF Refused
<1>8. IsFiniteSet(Refused) /\ Cardinality(Refused) \in Nat
  BY RefusedFinite DEF PathInv, RefusedAreFinite
<1>9. Cardinality(Refused') = Cardinality(Refused) + 1
  BY <1>6, <1>7, <1>8, FS_AddElement
<1>10. stats'["drop_nat_condition"] <= Cardinality(Refused')
  BY <1>5, <1>8, <1>9 DEF Settled
<1> QED BY <1>2, <1>4, <1>10 DEF Settled

\* A rewrite frees the packet for want of a translation, or goes on with it.
LEMMA NatSettled ==
  ASSUME PathInv, PathInv', Settled, pc = "rules", ctl = "call", UNCHANGED <<orig, lost>>,
         NEW field \in {"src", "dst"}, action_nat_rewrite(field)
  PROVE  Settled'
<1>1. /\ cur \in Received /\ Pkt \in Packet /\ Pkt.eth = "ipv4"
      /\ Kept(Pkt, orig[cur].frame) /\ cur \notin Queued \cup Gone
  BY InRules
<1>2. /\ \E g \in Packet : buf' = [buf EXCEPT ![cur] = g]
      /\ \/ Free(cur, "drop_no_rule")
         \/ UNCHANGED <<tx_queues, released, sent, stats>>
  <2>1. CASE field = "src"
    BY <1>1, <2>1, NatSrc DEF PathInv
  <2>2. CASE field = "dst"
    BY <1>1, <2>2, NatDst DEF PathInv
  <2> QED BY <2>1, <2>2
<1>3. Len(buf') = Len(buf) /\ \A k \in Received \ {cur} : buf'[k] = buf[k]
  BY <1>1, <1>2 DEF PathInv, ControlInv, Received
<1>4. CASE Free(cur, "drop_no_rule")
  <2>1. "drop_no_rule" \in DropCounters \ {"drop_nat_condition"}
    BY DEF DropCounters, Counters
  <2> QED BY <1>1, <1>3, <1>4, <2>1, FreedSettled
<1>5. CASE UNCHANGED <<tx_queues, released, sent, stats>>
  <2>1. Queued' = Queued /\ Gone' = Gone
    BY <1>3, <1>5 DEF Queued, Gone, Received
  <2>2. Queued \cup sent \subseteq Received \ {cur}
    <3>1. sent \subseteq Received /\ sent \subseteq Gone
      BY DEF PathInv, ControlInv, TypeOK, TxInv
    <3>2. Queued \subseteq Received
      BY DEF PathInv, PlacesInv
    <3> QED BY <1>1, <3>1, <3>2
  <2> QED BY <1>3, <1>5, <2>1, <2>2, StaysSettled
<1> QED BY <1>2, <1>4, <1>5

LEMMA ExecuteSettled ==
  ASSUME PathInv, PathInv', rules = OneWayTree, WalkKnows, Settled, Execute
  PROVE  Settled'
<1> DEFINE o == orig[cur].frame
<1>1. /\ pc = "rules" /\ ctl = "call" /\ UNCHANGED <<orig, lost>>
      /\ Before(node, Pkt, o)
      /\ \/ node = 0 /\ ret' = 0 /\ Quiet
         \/ node \in {4, 6, 7, 11, 12, 14, 15, 16} /\ CallAction(node)
  BY ExecuteAt
<1>2. Pkt \in Packet /\ Pkt.eth = "ipv4" /\ Kept(Pkt, o)
  BY <1>1, InRules
<1>3. o.eth = "ipv4"
  BY <1>2 DEF Kept
<1>4. 1 \in Nat /\ rules \in RuleTrees /\ 7 \in DOMAIN rules /\ 15 \in DOMAIN rules
  BY OneWayInner DEF PathInv, ControlInv, TypeOK
<1>5. 1 \in Ports /\ 0 \in Ports
  BY <1>4, NodeShape, OneWayActions
<1> HIDE DEF o
<1>6. CASE Quiet
  BY <1>1, <1>6, QuietSettled DEF Quiet
<1>7. CASE node \in {0, 4, 11, 12}
  BY <1>1, <1>2, <1>6, <1>7, OneWayCalls
<1>8. CASE node = 6 \/ node = 14
  <2>1. \E field \in {"src", "dst"} : action_nat_rewrite(field)
    BY <1>1, <1>2, <1>8, OneWayCalls
  <2> QED BY <1>1, <2>1, NatSettled
<1>9. CASE node = 7
  <2>1. action_out([port |-> 1, vlan |-> 7]) /\ SrcDone(Pkt, o)
    BY <1>1, <1>2, <1>9, OneWayCalls DEF Before
  <2>2. \A g : /\ g.src = Pkt.src /\ g.dst = Pkt.dst /\ g.out = 1 /\ g.tci = 7
               => Forwarded(g, o)
    BY <2>1 DEF SrcDone, Forwarded
  <2> QED BY <1>1, <1>5, <2>1, <2>2, OutSettled DEF o
<1>10. CASE node = 15
  <2>1. action_out([port |-> 0, vlan |-> 0]) /\ DstDone(Pkt, o)
    BY <1>1, <1>2, <1>10, OneWayCalls DEF Before
  <2>2. \A g : /\ g.src = Pkt.src /\ g.dst = Pkt.dst /\ g.out = 0 /\ g.tci = 0
               => Forwarded(g, o)
    BY <2>1 DEF DstDone, Forwarded
  <2> QED BY <1>1, <1>5, <2>1, <2>2, OutSettled DEF o
<1>11. CASE node = 16
  <2>1. action_drop /\ ~FromPrivate(o) /\ ~ToPublic(o)
    BY <1>1, <1>2, <1>11, OneWayCalls DEF Before
  <2>2. Unmatched(o)
    BY <1>3, <2>1 DEF Unmatched
  <2> QED BY <1>1, <2>1, <2>2, DropSettled DEF o
<1> QED BY <1>1, <1>7, <1>8, <1>9, <1>10, <1>11

-----------------------------------------------------------------------------
(* OneWayInv is an invariant. *)

LEMMA OneWayInit == Init => OneWayInv
<1> SUFFICES ASSUME Init
             PROVE  OneWayInv
  OBVIOUS
<1>1. pc = "rx" /\ lost = {} /\ sent = {} /\ stats["drop_nat_condition"] = 0
      /\ tx_queues = [p \in Ports |-> <<>>] /\ buf = <<>>
  BY DEF Init, Counters
<1>2. Queued = {} /\ Gone = {}
  BY <1>1 DEF Queued, Gone, Received
<1>3. Refused = {}
  BY <1>2 DEF Refused
<1>4. Cardinality(Refused) = 0
  BY <1>3, FS_EmptySet
<1> QED BY <1>1, <1>2, <1>4 DEF OneWayInv, WalkKnows

\* The walk begins at the root, with the packet as it was received.
LEMMA EnterRulesKnows ==
  ASSUME PathInv, rules = OneWayTree, EnterRules, rules' = rules
  PROVE  WalkKnows'
<1>1. /\ pc = "ether" /\ ctl' = "call" /\ node' = Root /\ stack' = <<>>
      /\ UNCHANGED <<cur, buf, orig>>
  BY DEF EnterRules
<1>2. Root = 1
  <2>1. 1 \in DOMAIN rules
    BY OneWayInner
  <2> QED BY <2>1 DEF Root
<1>3. Pkt = orig[cur].frame /\ orig[cur].frame \in Frames
  BY <1>1, EtherIsOrig, CurReceived DEF PathInv
<1>4. Fresh(Pkt, orig[cur].frame)
  BY <1>3, FramesAssumption DEF Fresh
<1>5. Before(1, Pkt, orig[cur].frame)
  BY <1>4 DEF Before
<1>6. Here' = 1 /\ OnPath'
  BY <1>1 DEF Here, OnPath
<1>7. Before(Here', Pkt', orig'[cur'].frame)
  BY <1>1, <1>5, <1>6 DEF Pkt
<1> QED BY <1>1, <1>2, <1>6, <1>7 DEF WalkKnows

\* The walk ends only by an action that has dealt with the packet.
LEMMA RulesDoneSettled ==
  ASSUME PathInv, PathInv', WalkKnows, Settled, RulesDone
  PROVE  Settled'
<1>1. /\ pc = "rules" /\ ctl = "return" /\ stack = <<>>
      /\ lost' = IF ret < 0 THEN lost ELSE lost \cup {cur}
      /\ UNCHANGED <<buf, orig, tx_queues, released, sent, stats>>
  BY DEF RulesDone
<1>2. ret \in -1 .. 1 /\ Here = 1
  BY <1>1 DEF PathInv, ControlInv, TypeOK, Here
<1>3. ~(ret >= 0)
  BY <1>1, <1>2 DEF WalkKnows, After
<1>4. lost' = lost
  BY <1>1, <1>2, <1>3
<1> QED BY <1>1, <1>4, QuietSettled

LEMMA OneWayStep ==
  PathInv /\ PathInv' /\ OneWayInv /\ [Next]_vars => OneWayInv'
<1> SUFFICES ASSUME PathInv, PathInv', OneWayInv, [Next]_vars
             PROVE  OneWayInv'
  OBVIOUS
<1>1. CASE UNCHANGED vars
  <2>1. UNCHANGED <<rules, pc, ctl, node, ret, stack, cur, buf, orig, tx_queues, released,
                    sent, lost, stats>>
    BY <1>1 DEF vars, rulesVars
  <2>2. UNCHANGED <<Queued, Received, Here, OnPath, Pkt>>
    BY <2>1 DEF Queued, Received, Here, OnPath, Child, Pkt
  <2>3. UNCHANGED <<Gone, Refused>>
    BY <2>1, <2>2 DEF Gone, Refused
  <2> QED BY <2>1, <2>2, <2>3 DEF OneWayInv, WalkKnows
<1>2. CASE Next /\ rules = OneWayTree
  <2>1. rules' = rules /\ WalkKnows /\ Settled
    BY <1>2, OneWayParts DEF Next
  <2>2. WalkKnows'
    <3>1. CASE EnterRules
      BY <1>2, <2>1, <3>1, EnterRulesKnows
    <3>2. CASE Descend
      BY <1>2, <2>1, <3>2, DescendKnows
    <3>3. CASE Execute
      BY <1>2, <2>1, <3>3, ExecuteKnows
    <3>4. CASE Resume
      BY <1>2, <2>1, <3>4, ResumeKnows
    <3>5. CASE RxBurst \/ NextPort \/ Accept \/ TxFlush
      <4>1. pc' # "rules"
        BY <3>5 DEF RxBurst, NextPort, Accept, TxFlush
      <4> QED BY <4>1 DEF WalkKnows
    <3>6. CASE ArpReply \/ IcmpEcho \/ IcmpUnknown \/ Unhandled \/ RulesDone
      <4>1. pc' # "rules"
        BY <3>6 DEF ArpReply, IcmpEcho, IcmpUnknown, Unhandled, RulesDone, PacketDone
      <4> QED BY <4>1 DEF WalkKnows
    <3> QED BY <1>2, <3>1, <3>2, <3>3, <3>4, <3>5, <3>6 DEF Next
  <2>3. Settled'
    <3>1. CASE NextPort \/ EnterRules \/ Descend \/ Resume
      BY <2>1, <3>1, QuietSettled DEF NextPort, EnterRules, Descend, Resume
    <3>2. CASE RxBurst
      BY <2>1, <3>2, RxBurstSettled
    <3>3. CASE Accept
      BY <2>1, <3>3, AcceptSettled
    <3>4. CASE ArpReply \/ IcmpEcho
      BY <2>1, <3>4, AnsweredSettled
    <3>5. CASE IcmpUnknown \/ Unhandled
      BY <2>1, <3>5, RefusedSettled
    <3>6. CASE Execute
      BY <1>2, <2>1, <3>6, ExecuteSettled
    <3>7. CASE RulesDone
      BY <2>1, <3>7, RulesDoneSettled
    <3>8. CASE TxFlush
      BY <2>1, <3>8, TxFlushSettled
    <3> QED BY <1>2, <3>1, <3>2, <3>3, <3>4, <3>5, <3>6, <3>7, <3>8 DEF Next
  <2> QED BY <2>1, <2>2, <2>3 DEF OneWayInv, Settled
<1>3. CASE Next /\ rules # OneWayTree
  BY <1>3 DEF Next, OneWayInv
<1> QED BY <1>1, <1>2, <1>3

\* The inductive invariant holds in every state of every behaviour, for addresses of any
\* width (32 bits in the code) and any two networks in the conditions of OneWayTree.
THEOREM OneWayInvariant == Spec => []OneWayInv
<1>1. PathInv /\ PathInv' /\ OneWayInv /\ [Next]_vars => OneWayInv'
  BY OneWayStep
<1>2. Spec => []PathInv
  BY PathInvariant
<1> QED BY <1>1, <1>2, OneWayInit, PTL DEF Spec

\* process_rules does what the text of the rules says, for addresses of any width, any two
\* networks of a prefix length above 0, overlapping or not, any frames, translations,
\* addresses of NATASHA, number of ports and sizes of the bursts: a packet is forwarded to
\* the side and with the translation that its addresses and its VLAN select, `drop' is
\* counted only for a packet that no condition selects, and none is lost.
THEOREM ForwardsAsConfigured == Spec => []ForwardedAsConfigured
<1>1. PathInv /\ OneWayInv => ForwardedAsConfigured
  <2> SUFFICES ASSUME PathInv, OneWayInv, rules = OneWayTree
               PROVE  ForwardedAsConfigured
    BY DEF ForwardedAsConfigured
  <2> DEFINE D == {i \in Received : /\ orig[i].frame.eth = "ipv4"
                                    /\ ~FromPrivate(orig[i].frame)
                                    /\ ~ToPublic(orig[i].frame)}
  <2>1. WalkKnows /\ Settled
    BY OneWayParts
  <2>2. \A i \in sent : Forwarded(buf[i], orig[i].frame)
    BY <2>1 DEF Settled
  <2>3. Refused \subseteq D
    BY DEF Refused, Unmatched, Gone
  <2>4. IsFiniteSet(Received)
    <3>1. Len(buf) \in Nat
      BY DEF PathInv, ControlInv
    <3> QED BY <3>1, FS_Interval DEF Received
  <2>5. IsFiniteSet(D)
    BY <2>4, FS_Subset
  <2> HIDE DEF D
  <2>6. Cardinality(Refused) <= Cardinality(D)
    BY <2>3, <2>5, FS_Subset
  <2>7. /\ stats["drop_nat_condition"] \in Nat /\ Cardinality(Refused) \in Nat
        /\ Cardinality(D) \in Nat
    BY <2>5, RefusedFinite, FS_CardinalityType
    DEF PathInv, ControlInv, TypeOK, Counters, RefusedAreFinite
  <2>8. stats["drop_nat_condition"] <= Cardinality(D)
    BY <2>1, <2>6, <2>7 DEF Settled
  <2> QED BY <2>1, <2>2, <2>8 DEF ForwardedAsConfigured, Forwarded, Settled, D
<1>2. Spec => []PathInv
  BY PathInvariant
<1>3. Spec => []OneWayInv
  BY OneWayInvariant
<1> QED BY <1>1, <1>2, <1>3, PTL
=============================================================================
