----------------------------- MODULE PacketPath -----------------------------
(* One worker processing packets under one configuration: handle_port and  *)
(* dispatch_packet (core.c), arp.c, ipv4.c, the actions and conditions of  *)
(* the rules, tx_send and tx_flush (pkt.c), and the seven counters of      *)
(* struct natasha_app_stats.                                               *)
(*                                                                         *)
(* A packet is the record of the fields the code looks at.  A checksum is  *)
(* the sum it attests: the one of a header is right when it equals the sum *)
(* of the addresses it covers, and cksum_update(c, from, to) adds          *)
(* to - from.  (Checksum.tla is about its 32-bit arithmetic.)  The rules   *)
(* are a tree of nodes, walked with an explicit stack.                     *)
EXTENDS Integers, Sequences, FiniteSets

CONSTANTS
  eth_dev_count,  \* number of ports
  MAX_TX_BURST,   \* size of a transmit queue (32 in the code)
  MAX_RX_BURST,   \* size of the array given to rte_eth_rx_burst (32)
  MaxRx,          \* bound: packets received in a behaviour
  Frames,         \* what the network may send
  OwnIps,         \* ip_addresses of the ports: records [port, vlan, ip]
  nat_lookup,     \* the NAT lookup table, a function
  RuleTrees,      \* the `rules' sections considered: functions from nodes to
                  \* records; node 1 is the root, and 0 is no node
  AddrBits        \* bound: width of an address (32 in the code)

ASSUME PortsAssumption == eth_dev_count \in Nat \ {0}
ASSUME BurstAssumption ==
  MAX_TX_BURST \in Nat \ {0} /\ MAX_RX_BURST \in Nat \ {0} /\ MaxRx \in Nat

Ports == 0 .. eth_dev_count - 1
Ids == 1 .. MaxRx
NoCksum == -1     \* a UDP packet without checksum

\* A packet: the fields the code looks at, what it tells the NIC (offload, tx_ipv4),
\* and the port it was given to tx_send for (out, -1 before that).
Packet ==
  [eth : {"arp", "ipv4", "other"}, l3bad : BOOLEAN, l4bad : BOOLEAN, tci : Nat,
   op : {"none", "request", "reply", "echo", "echo_reply", "error", "other"},
   src : Nat, dst : Nat, proto : {"tcp", "udp", "icmp", "other"},
   frag : {"none", "first", "later"}, ip : Int, l4 : Int, offload : BOOLEAN,
   tx_ipv4 : BOOLEAN, out : Int, short : BOOLEAN, icmp : Int,
   inner : [src : Nat, dst : Nat, ip : Int]]

\* What is received tells the NIC nothing yet.  A checksum of 0 is one that the NIC
\* is to compute, so not both addresses of an IPv4 packet are 0.0.0.0; nor is
\* 0.0.0.0 a translation (NatTable.tla).
ASSUME FramesAssumption ==
  /\ Frames \subseteq Packet
  /\ \A f \in Frames : ~f.offload /\ f.out = -1 /\ (f.eth = "ipv4" => f.src + f.dst # 0)
ASSUME NatAssumption == nat_lookup \in [DOMAIN nat_lookup -> Nat \ {0}]

\* The trees the grammar builds: the nodes are numbered in the order of the text, a
\* node before its children, all below the left one before the right one.  `out'
\* names a port that exists.
InnerTypes == {"SEQ", "IF", "COND", "AND", "OR"}
InnerNodes(tree) == {n \in DOMAIN tree : tree[n].type \in InnerTypes}
ASSUME RulesAssumption ==
  \A tree \in RuleTrees :
    /\ Len(tree) \in Nat /\ DOMAIN tree = 1 .. Len(tree)
    /\ \A n \in InnerNodes(tree) :
         /\ tree[n].left \in {0} \cup n + 1 .. Len(tree)
         /\ tree[n].right \in {0} \cup n + 1 .. Len(tree)
         /\ tree[n].right # 0 => tree[n].left < tree[n].right
         /\ \A m \in InnerNodes(tree) :
              m < n /\ n < tree[m].right => tree[n].left < tree[m].right
                                           /\ tree[n].right < tree[m].right
    /\ \A n \in DOMAIN tree \ InnerNodes(tree) :
         /\ tree[n].type = "ACTION"
         /\ tree[n].act = "nat" => tree[n].arg \in {"src", "dst"}
         /\ tree[n].act = "out" => tree[n].arg.port \in Ports /\ tree[n].arg.vlan \in Nat

Counters == {"drop_no_rule", "drop_nat_condition", "drop_bad_l3_cksum",
             "rx_bad_l4_cksum", "drop_unknown_icmp",
             "drop_unhandled_ethertype", "drop_tx_notsent"}

VARIABLES
  rules,     \* the rules of the configuration, one of RuleTrees
  pc,        \* "rx", "dispatch", "ether", "rules", "flush"
  port,      \* loop variable of main_loop
  burst,     \* packets of the burst that are still to be dispatched
  cur,       \* the packet being processed, 0 if none
  ctl,       \* process_rules: about to be called, or returning
  node, ret, \* its argument, its result
  stack,     \* its callers: pairs of a node and the child being executed
  buf,       \* the packets received so far, as they are now
  orig,      \* history: the packets as they were received, and their port
  tx_queues, \* tx_queues[p]: packets waiting to be sent on p
  released,  \* history: how often a packet was freed or given to the NIC
  sent,      \* history: the packets given to the NIC
  lost,      \* history: packets no one owns any more
  stats

rulesVars == <<ctl, node, ret, stack>>
vars == <<rules, pc, port, burst, cur, rulesVars, buf, orig, tx_queues, released, sent,
          lost, stats>>

Received == 1 .. Len(buf)
Pkt == buf[cur]
Root == IF DOMAIN rules = {} THEN 0 ELSE 1

TypeOK ==
  /\ rules \in RuleTrees
  /\ pc \in {"rx", "dispatch", "ether", "rules", "flush"}
  /\ port \in Ports
  /\ burst \in Seq(Received)
  /\ cur \in {0} \cup Received
  /\ ctl \in {"call", "return"}
  /\ node \in {0} \cup DOMAIN rules
  /\ ret \in -1 .. 1
  /\ stack \in Seq((DOMAIN rules) \X {"left", "right"})
  /\ Len(buf) <= MaxRx /\ Len(orig) = Len(buf)
  /\ tx_queues \in [Ports -> Seq(Received)]
  /\ \A p \in Ports : Len(tx_queues[p]) < MAX_TX_BURST
  /\ released \in [Ids -> Nat]
  /\ sent \subseteq Received /\ lost \subseteq Received
  /\ stats \in [Counters -> Nat]

Init ==
  /\ rules \in RuleTrees
  /\ pc = "rx" /\ port = 0 /\ burst = <<>> /\ cur = 0
  /\ ctl = "return" /\ node = 0 /\ ret = 0 /\ stack = <<>>
  /\ buf = <<>> /\ orig = <<>>
  /\ tx_queues = [p \in Ports |-> <<>>]
  /\ released = [i \in Ids |-> 0]
  /\ sent = {} /\ lost = {}
  /\ stats = [s \in Counters |-> 0]

-----------------------------------------------------------------------------
(* Freeing, queueing, sending. *)

\* rte_pktmbuf_free, and the counter that goes with it.
Free(i, counter) ==
  /\ released' = [released EXCEPT ![i] = @ + 1]
  /\ stats' = [stats EXCEPT ![counter] = @ + 1]
  /\ UNCHANGED <<tx_queues, sent>>

\* Mutant: the packets that were not sent are not counted.
FlushUncounted(p, q, n) ==
  /\ tx_queues' = [tx_queues EXCEPT ![p] = <<>>]
  /\ released' = [i \in Ids |-> released[i] + Cardinality({k \in DOMAIN q : q[k] = i})]
  /\ sent' = sent \cup {q[k] : k \in 1 .. n}
  /\ stats' = stats

\* rte_eth_tx_burst takes the first n packets of queue q; the others are freed.
Flush(p, q, n) ==
  /\ tx_queues' = [tx_queues EXCEPT ![p] = <<>>]
  /\ released' = [i \in Ids |-> released[i] + Cardinality({k \in DOMAIN q : q[k] = i})]
  /\ sent' = sent \cup {q[k] : k \in 1 .. n}
  /\ stats' = [stats EXCEPT !["drop_tx_notsent"] = @ + Len(q) - n]

\* Mutant: the queue is flushed one packet too late.
EnqueueLate(i, p) ==
  LET q == Append(tx_queues[p], i) IN
  IF Len(q) <= MAX_TX_BURST
    THEN /\ tx_queues' = [tx_queues EXCEPT ![p] = q]
         /\ UNCHANGED <<released, sent, stats>>
    ELSE \E n \in 0 .. Len(q) : Flush(p, q, n)

\* The second half of tx_send: "Enqueue a packet. If the queue is full, flush it."
Enqueue(i, p) ==
  LET q == Append(tx_queues[p], i) IN
  IF Len(q) < MAX_TX_BURST
    THEN /\ tx_queues' = [tx_queues EXCEPT ![p] = q]
         /\ UNCHANGED <<released, sent, stats>>
    ELSE \E n \in 0 .. Len(q) : Flush(p, q, n)

\* Packet i, whose contents are f now, is put in the queue of port p.
tx_send(i, f, p) ==
  /\ buf' = [buf EXCEPT ![i] = [f EXCEPT !.out = p]]
  /\ Enqueue(i, p)

-----------------------------------------------------------------------------
(* handle_port and the first part of dispatch_packet. *)

RxBurst ==
  /\ pc = "rx"
  /\ \E n \in 0 .. MAX_RX_BURST :
       /\ Len(buf) + n <= MaxRx
       /\ \E fs \in [1 .. n -> Frames] :
            /\ buf' = buf \o fs
            /\ orig' = orig \o [k \in 1 .. n |-> [frame |-> fs[k], port |-> port]]
       /\ burst' = [k \in 1 .. n |-> Len(buf) + k]
  /\ pc' = "dispatch"
  /\ UNCHANGED <<port, cur, rulesVars, tx_queues, released, sent, lost, stats>>

\* The burst is done: the next port, or the transmit queues.
NextPort ==
  /\ pc = "dispatch" /\ burst = <<>>
  /\ IF port + 1 \in Ports THEN port' = port + 1 /\ pc' = "rx"
                           ELSE port' = 0 /\ pc' = "flush"
  /\ UNCHANGED <<burst, cur, rulesVars, buf, orig, tx_queues, released, sent, lost,
                 stats>>

\* "Drop only bad l3 checksumed packet"; a bad L4 checksum is only counted.
Accept ==
  /\ pc = "dispatch" /\ burst # <<>>
  /\ burst' = Tail(burst)
  /\ LET i == Head(burst) IN
       IF buf[i].l3bad
         THEN Free(i, "drop_bad_l3_cksum") /\ UNCHANGED <<pc, cur>>
         ELSE /\ pc' = "ether" /\ cur' = i
              /\ stats' = [stats EXCEPT !["rx_bad_l4_cksum"] =
                             @ + IF buf[i].l4bad THEN 1 ELSE 0]
              /\ UNCHANGED <<released, tx_queues, sent>>
  /\ UNCHANGED <<port, rulesVars, buf, orig, lost>>

\* The packet has been dealt with: back to the loop of handle_port.
PacketDone == pc' = "dispatch" /\ cur' = 0

-----------------------------------------------------------------------------
(* arp.c and the ICMP part of ipv4.c. *)

VLAN_ID(f) == f.tci % 4096
is_natasha_port_ip(ip, vlan, p) == [port |-> p, vlan |-> vlan, ip |-> ip] \in OwnIps
is_natasha_ip(ip, vlan) == \E p \in Ports : is_natasha_port_ip(ip, vlan, p)

IsArpRequest == Pkt.eth = "arp" /\ Pkt.op = "request"
IsOurArp == IsArpRequest /\ is_natasha_port_ip(Pkt.dst, VLAN_ID(Pkt), port)
IsIcmpForUs ==
  Pkt.eth = "ipv4" /\ Pkt.proto = "icmp" /\ is_natasha_ip(Pkt.dst, VLAN_ID(Pkt))

\* arp_request: the request becomes the reply.
ArpReply ==
  /\ pc = "ether" /\ IsOurArp
  /\ tx_send(cur, [Pkt EXCEPT !.op = "reply", !.src = Pkt.dst, !.dst = Pkt.src], port)
  /\ PacketDone
  /\ UNCHANGED <<port, burst, rulesVars, orig, lost>>

EchoReply ==
  [Pkt EXCEPT !.op = "echo_reply", !.src = Pkt.dst, !.dst = Pkt.src, !.ip = Pkt.src + Pkt.dst]

\* Mutant: the reply goes to the port that has the address.
IcmpEchoByOwner ==
  /\ pc = "ether" /\ IsIcmpForUs /\ Pkt.op = "echo"
  /\ \E p \in Ports : /\ is_natasha_port_ip(Pkt.dst, VLAN_ID(Pkt), p)
                      /\ tx_send(cur, EchoReply, p)
  /\ PacketDone
  /\ UNCHANGED <<port, burst, rulesVars, orig, lost>>

\* icmp_echo: swap the addresses, compute both checksums anew; the reply goes out
\* where the request came in, though the address may be that of another port.
IcmpEcho ==
  /\ pc = "ether" /\ IsIcmpForUs /\ Pkt.op = "echo"
  /\ tx_send(cur, EchoReply, port)
  /\ PacketDone
  /\ UNCHANGED <<port, burst, rulesVars, orig, lost>>

\* Mutant: icmp_answer forgets that the packet was dropped and returns -1.
IcmpUnknownFreedTwice ==
  /\ pc = "ether" /\ IsIcmpForUs /\ Pkt.op # "echo"
  /\ released' = [released EXCEPT ![cur] = @ + 2]
  /\ stats' = [stats EXCEPT !["drop_unknown_icmp"] = @ + 1,
                            !["drop_unhandled_ethertype"] = @ + 1]
  /\ PacketDone
  /\ UNCHANGED <<port, burst, rulesVars, buf, orig, tx_queues, sent, lost>>

\* icmp_answer: "Even if we can't handle pkt, it is addressed to us. Drop it".
IcmpUnknown ==
  /\ pc = "ether" /\ IsIcmpForUs /\ Pkt.op # "echo"
  /\ Free(cur, "drop_unknown_icmp")
  /\ PacketDone
  /\ UNCHANGED <<port, burst, rulesVars, buf, orig, lost>>

\* dispatch_packet drops what its handlers refuse: another Ethernet type, an
\* ARP packet that is no request or not for us, IPv4 when there are no rules.
Unhandled ==
  /\ pc = "ether"
  /\ \/ Pkt.eth = "other"
     \/ Pkt.eth = "arp" /\ ~IsOurArp
     \/ Pkt.eth = "ipv4" /\ ~IsIcmpForUs /\ Root = 0
  /\ Free(cur, "drop_unhandled_ethertype")
  /\ PacketDone
  /\ UNCHANGED <<port, burst, rulesVars, buf, orig, lost>>

EnterRules ==
  /\ pc = "ether" /\ Pkt.eth = "ipv4" /\ ~IsIcmpForUs /\ Root # 0
  /\ pc' = "rules"
  /\ ctl' = "call" /\ node' = Root /\ stack' = <<>>
  /\ UNCHANGED <<port, burst, cur, ret, buf, orig, tx_queues, released, sent, lost,
                 stats>>

-----------------------------------------------------------------------------
(* Conditions and actions of the rules. *)

\* ip & (~0 << (32 - mask)): with mask 0 the shift count is the width of the
\* type, for which the processor shifts by 0.
ipv4_in_network(ip, network) ==
  LET shift == (AddrBits - network.mask) % AddrBits
  IN  ip \div 2^shift = network.ip \div 2^shift

IsCond(n) == rules[n].act \in {"src_in", "dst_in", "vlan"}

CondHolds(n) ==
  CASE rules[n].act = "src_in" -> ipv4_in_network(Pkt.src, rules[n].arg)
    [] rules[n].act = "dst_in" -> ipv4_in_network(Pkt.dst, rules[n].arg)
    [] rules[n].act = "vlan"   -> VLAN_ID(Pkt) = rules[n].arg

\* The L4 header is in this packet ("on all packet a part from [2nd, n]
\* fragment") and its checksum covers the addresses.  UDP may have none.
HasL4Cksum(f) ==
  /\ f.frag # "later"
  /\ \/ f.proto = "tcp"
     \/ f.proto = "udp" /\ f.l4 \notin {NoCksum, 0}

\* Mutant: the NIC is left to compute the checksum of a first fragment.
RewriteL4NoFrag(f, from, to) ==
  IF HasL4Cksum(f) THEN [f EXCEPT !.l4 = 0, !.offload = TRUE] ELSE f

\* The checksum of a first fragment is updated incrementally; otherwise the NIC
\* computes it when it sends a packet marked for offload.
RewriteL4(f, from, to) ==
  IF ~HasL4Cksum(f) THEN f
  ELSE IF f.frag = "first" THEN [f EXCEPT !.l4 = @ + to - from]
  ELSE [f EXCEPT !.l4 = 0, !.offload = TRUE]

\* lookup_and_rewrite on one field of the outer header.
RewriteOuter(f, field, to) ==
  RewriteL4([f EXCEPT ![field] = to, !.ip = @ + to - f[field]], f[field], to)

\* Mutant: the ICMP checksum is not told that the inner one has changed.
RewriteInnerHalf(f, field, to) ==
  LET d == to - f.inner[field]
  IN  [f EXCEPT !.inner[field] = to, !.inner.ip = @ + d, !.icmp = @ + d]

\* The end of icmp_nat_handle: the inner address, the inner checksum, and the
\* ICMP checksum, which covers the inner address and the inner checksum (a
\* checksum field holds the opposite of the sum it attests).
RewriteInner(f, field, to) ==
  LET d == to - f.inner[field]
  IN  [f EXCEPT !.inner[field] = to, !.inner.ip = @ + d, !.icmp = (@ - d) + d]

\* icmp_nat_handle applies to ICMP errors.  Its length test is a comparison of
\* an unsigned number with 0: it never fails, a short packet is not spared.
HasInner(f) == f.proto = "icmp" /\ f.frag # "later" /\ f.op = "error"

\* Mutant: the inner address on the same side is rewritten.
OtherSideSame(field) == field

\* When the source is rewritten, so is the inner destination, and vice versa.
OtherSide(field) == IF field = "src" THEN "dst" ELSE "src"

\* action_nat_rewrite: each of the two lookups may miss.
action_nat_rewrite(field) ==
  LET other == OtherSide(field)
      outerMiss == Pkt[field] \notin DOMAIN nat_lookup
      innerMiss == HasInner(Pkt) /\ Pkt.inner[other] \notin DOMAIN nat_lookup
      outer == RewriteOuter(Pkt, field, nat_lookup[Pkt[field]])
  IN  \/ /\ outerMiss \/ innerMiss
         /\ Free(cur, "drop_no_rule")
         /\ ret' = -1
         /\ IF outerMiss THEN UNCHANGED buf ELSE buf' = [buf EXCEPT ![cur] = outer]
      \/ /\ ~outerMiss /\ ~innerMiss
         /\ buf' = [buf EXCEPT ![cur] =
              IF HasInner(Pkt)
                THEN RewriteInner(outer, other, nat_lookup[Pkt.inner[other]])
                ELSE outer]
         /\ ret' = 0
         /\ UNCHANGED <<tx_queues, released, sent, stats>>

action_out(arg) ==
  /\ tx_send(cur, [Pkt EXCEPT !.tci = arg.vlan, !.tx_ipv4 = TRUE], arg.port)
  /\ ret' = -1

action_drop ==
  /\ Free(cur, "drop_nat_condition")
  /\ ret' = -1
  /\ UNCHANGED buf

Quiet == UNCHANGED <<buf, tx_queues, released, sent, stats>>

\* return node->action(pkt, port, core, node->data);
CallAction(n) ==
  \/ rules[n].act = "nat" /\ action_nat_rewrite(rules[n].arg)
  \/ rules[n].act = "out" /\ action_out(rules[n].arg)
  \/ rules[n].act = "drop" /\ action_drop
  \/ rules[n].act = "print" /\ ret' = 0 /\ Quiet
  \/ IsCond(n) /\ ret' = (IF CondHolds(n) THEN 1 ELSE 0) /\ Quiet

-----------------------------------------------------------------------------
(* process_rules. *)

\* A call with a node that is no ACTION first executes its left child.
Descend ==
  /\ pc = "rules" /\ ctl = "call" /\ node # 0 /\ rules[node].type # "ACTION"
  /\ stack' = Append(stack, <<node, "left">>)
  /\ node' = rules[node].left
  /\ UNCHANGED <<pc, port, burst, cur, ctl, ret, buf, orig, tx_queues, released,
                 sent, lost, stats>>

Execute ==
  /\ pc = "rules" /\ ctl = "call"
  /\ IF node = 0 THEN ret' = 0 /\ Quiet
                 ELSE rules[node].type = "ACTION" /\ CallAction(node)
  /\ ctl' = "return"
  /\ UNCHANGED <<pc, port, burst, cur, node, stack, orig, lost>>

\* Mutant: an AND goes on like an OR, when its left side is false.
RunsRightAndAsOr(type, v) ==
  \/ type = "SEQ"
  \/ type \in {"IF", "OR", "AND"} /\ v = 0
  \/ type = "COND" /\ v # 0

\* Whether the right child is executed when the left one has returned v.
RunsRight(type, v) ==
  \/ type = "SEQ"
  \/ type \in {"IF", "OR"} /\ v = 0
  \/ type \in {"COND", "AND"} /\ v # 0

\* What the node returns when its last child has returned v.
Result(type, side, v) ==
  IF v < 0 THEN -1
  ELSE CASE type \in {"SEQ", "IF"} -> 0
         [] type = "COND" -> IF side = "right" THEN 1 ELSE 0
         [] type \in {"AND", "OR"} -> v

\* Mutant: the place in the node is not remembered.
ResumeRepeats ==
  /\ pc = "rules" /\ ctl = "return" /\ stack # <<>>
  /\ LET n == stack[Len(stack)][1]
     IN  IF ret >= 0 /\ RunsRight(rules[n].type, ret)
           THEN /\ ctl' = "call" /\ node' = rules[n].right
                /\ UNCHANGED <<ret, stack>>
           ELSE /\ stack' = SubSeq(stack, 1, Len(stack) - 1)
                /\ ret' = Result(rules[n].type, "right", ret)
                /\ UNCHANGED <<ctl, node>>
  /\ UNCHANGED <<pc, port, burst, cur, buf, orig, tx_queues, released, sent, lost,
                 stats>>

\* The caller takes the result of a child: the next child, or its own result.
Resume ==
  /\ pc = "rules" /\ ctl = "return" /\ stack # <<>>
  /\ LET n == stack[Len(stack)][1]
         side == stack[Len(stack)][2]
     IN  IF ret >= 0 /\ side = "left" /\ RunsRight(rules[n].type, ret)
           THEN /\ stack' = [stack EXCEPT ![Len(stack)] = <<n, "right">>]
                /\ ctl' = "call" /\ node' = rules[n].right
                /\ UNCHANGED ret
           ELSE /\ stack' = SubSeq(stack, 1, Len(stack) - 1)
                /\ ret' = Result(rules[n].type, side, ret)
                /\ UNCHANGED <<ctl, node>>
  /\ UNCHANGED <<pc, port, burst, cur, buf, orig, tx_queues, released, sent, lost,
                 stats>>

\* ipv4_handle ignores the result: a packet on which no breaking action was
\* executed is neither freed nor queued.
RulesDone ==
  /\ pc = "rules" /\ ctl = "return" /\ stack = <<>>
  /\ lost' = IF ret < 0 THEN lost ELSE lost \cup {cur}
  /\ node' = 0 /\ ret' = 0
  /\ PacketDone
  /\ UNCHANGED <<port, burst, ctl, stack, buf, orig, tx_queues, released, sent, stats>>

-----------------------------------------------------------------------------
\* Mutant: the last port is not flushed.
TxFlushNotLast ==
  /\ pc = "flush"
  /\ IF port + 1 = eth_dev_count \/ tx_queues[port] = <<>>
       THEN UNCHANGED <<tx_queues, released, sent, stats>>
       ELSE \E n \in 0 .. Len(tx_queues[port]) : Flush(port, tx_queues[port], n)
  /\ IF port + 1 \in Ports THEN port' = port + 1 /\ UNCHANGED pc
                           ELSE port' = 0 /\ pc' = "rx"
  /\ UNCHANGED <<burst, cur, rulesVars, buf, orig, lost>>

\* The second loop of main_loop.
TxFlush ==
  /\ pc = "flush"
  /\ IF tx_queues[port] = <<>>
       THEN UNCHANGED <<tx_queues, released, sent, stats>>
       ELSE \E n \in 0 .. Len(tx_queues[port]) : Flush(port, tx_queues[port], n)
  /\ IF port + 1 \in Ports THEN port' = port + 1 /\ UNCHANGED pc
                           ELSE port' = 0 /\ pc' = "rx"
  /\ UNCHANGED <<burst, cur, rulesVars, buf, orig, lost>>

\* A change of configuration is the subject of ConfigReload.tla.
Next ==
  /\ \/ RxBurst \/ NextPort \/ Accept
     \/ ArpReply \/ IcmpEcho \/ IcmpUnknown \/ Unhandled
     \/ EnterRules \/ Descend \/ Execute \/ Resume \/ RulesDone
     \/ TxFlush
  /\ UNCHANGED rules

\* The worker is never descheduled: its loop goes on.
Spec == Init /\ [][Next]_vars
FairSpec == Spec /\ WF_vars(Next)

-----------------------------------------------------------------------------
(* Properties. *)

Queued == UNION {{tx_queues[p][k] : k \in DOMAIN tx_queues[p]} : p \in Ports}
InBurst == {burst[k] : k \in DOMAIN burst}

\* The packet in hand: a breaking action has given it away when it returns -1.
InHand == IF cur = 0 \/ (pc = "rules" /\ ctl = "return" /\ ret < 0) THEN {} ELSE {cur}

\* Where a packet is, with every place of an array and every release counted.
BurstPlaces(i) == {<<"burst", k, 0>> : k \in {k \in DOMAIN burst : burst[k] = i}}
QueuePlaces(i, p) ==
  {<<"queue", p, k>> : k \in {k \in DOMAIN tx_queues[p] : tx_queues[p][k] = i}}
QueuedPlaces(i) == UNION {QueuePlaces(i, p) : p \in Ports}
HandPlaces(i) == {<<"hand", 0, 0>> : h \in InHand \cap {i}}
LostPlaces(i) == {<<"lost", 0, 0>> : l \in lost \cap {i}}
Releases(i) == {<<"released", n, 0>> : n \in 1 .. released[i]}

Places(i) ==
  BurstPlaces(i) \cup QueuedPlaces(i) \cup HandPlaces(i) \cup LostPlaces(i) \cup Releases(i)

\* Every mbuf that was received and not yet released has exactly one owner: the
\* burst array, the packet being processed, one place of one transmit queue; or
\* it is one of those that fell through the rules.  None is freed twice, or
\* freed while it is queued.
OneOwner == \A i \in Received : Cardinality(Places(i)) = 1

Dropped ==
  stats["drop_no_rule"] + stats["drop_nat_condition"] + stats["drop_bad_l3_cksum"]
    + stats["drop_unknown_icmp"] + stats["drop_unhandled_ethertype"] + stats["drop_tx_notsent"]

Gone == {i \in Received : released[i] > 0}

\* Every packet freed by the program is counted by exactly one drop counter:
\* the statistics account for all packets that were received and not sent.
DropsAreCounted == Dropped = Cardinality(Gone) - Cardinality(sent)

\* The checksums of an IPv4 header, of the TCP or UDP header of a packet or first
\* fragment, and of an ICMP error with the header that it quotes.
IpRight(f) == f.ip = f.src + f.dst

L4Right(f) ==
  \/ f.frag = "later" \/ f.proto \notin {"tcp", "udp"}
  \/ f.proto = "udp" /\ f.l4 = NoCksum
  \/ IF f.offload THEN f.tx_ipv4 /\ f.frag = "none" ELSE f.l4 = f.src + f.dst

InnerRight(f) ==
  HasInner(f) /\ ~f.short =>
     /\ f.inner.ip = f.inner.src + f.inner.dst
     /\ f.icmp = f.inner.src + f.inner.dst - f.inner.ip

\* A checksum that was right when the packet was received is right when it
\* leaves, or the NIC is told to compute it: under any rules, for any number of
\* rewrites, for fragments and for packets without checksum.
ChecksumsRightOnWire ==
  \A i \in sent :
    LET f == buf[i]  o == orig[i].frame IN
    f.eth = "ipv4" =>
      /\ IpRight(o) => IpRight(f)
      /\ L4Right(o) => L4Right(f)
      /\ InnerRight(o) => InnerRight(f)

\* The packet quoted in an ICMP error matches the error's own addresses after
\* the translation if it did before, so that its receiver recognises it.
InnerFollowsOuter ==
  \A i \in sent :
    LET f == buf[i]  o == orig[i].frame IN
    f.eth = "ipv4" /\ HasInner(f) /\ ~f.short =>
      /\ o.inner.dst = o.src => f.inner.dst = f.src
      /\ o.inner.src = o.dst => f.inner.src = f.dst

\* When main_loop starts a new turn nothing waits in a transmit queue.
QueuesDrained == pc = "rx" /\ port = 0 => Queued = {}

\* f is the answer of arp_request or icmp_echo to what was received as o.
IsAnswer(f, o) ==
  o.eth = "arp" \/ (f.eth = "ipv4" /\ f.op = "echo_reply" /\ o.op = "echo")

\* What NATASHA answers itself goes out on the port the question came in, from
\* one of its own addresses to the one who asked: an ARP request for an address
\* of another port is not answered, an echo request for one is, and its reply
\* is not sent on that other port.
AnswersAreOurs ==
  \A i \in Queued \cup sent :
    LET f == buf[i]  o == orig[i] IN
    IsAnswer(f, o.frame) =>
      /\ f.out = o.port
      /\ f.dst = o.frame.src /\ f.src = o.frame.dst
      /\ is_natasha_ip(f.src, VLAN_ID(f))
      /\ f.eth = "arp" => is_natasha_port_ip(f.src, VLAN_ID(f), o.port)

\* A packet in hand is always dealt with: the walk of the rules ends.
PacketsFinish == (cur # 0) ~> (cur = 0)

\* action_nat.c, icmp_nat_handle: "If the outer packet is not large enough to
\* contain a full IPv4 header, then we don't rewrite anything."
ShortErrorsNotRewritten ==
  \A i \in Received :
    buf[i].eth = "ipv4" /\ HasInner(buf[i]) /\ buf[i].short
      => buf[i].inner = orig[i].frame.inner /\ buf[i].icmp = orig[i].frame.icmp
=============================================================================
