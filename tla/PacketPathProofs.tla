-------------------------- MODULE PacketPathProofs --------------------------
(* The packet path keeps PathInv, for every set of frames, rules, addresses *)
(* and translations and every size of the bursts.                           *)
EXTENDS PacketPath, FiniteSetTheorems, SequenceTheorems, TLAPS

-----------------------------------------------------------------------------
(* The inductive invariant. *)

\* The packets as well have their types, and the program counter says whether
\* there is a packet in hand.
ControlInv ==
  /\ TypeOK
  /\ buf \in Seq(Packet) /\ orig \in Seq([frame : Frames, port : Ports])
  /\ cur # 0 <=> pc \in {"ether", "rules"}
  /\ pc \in {"rx", "flush"} => burst = <<>>
  /\ ret >= 0 \/ (pc = "rules" /\ ctl = "return")
  /\ \A k \in DOMAIN stack : rules[stack[k][1]].type \in InnerTypes

\* No packet is twice in the queues, released twice, or both queued and released.
TxInv ==
  /\ \A p, q \in Ports : \A j \in DOMAIN tx_queues[p] : \A k \in DOMAIN tx_queues[q] :
       tx_queues[p][j] = tx_queues[q][k] => p = q /\ j = k
  /\ \A i \in Ids : released[i] \in {0, 1} /\ (released[i] = 1 => i \in Received)
  /\ sent \subseteq Gone
  /\ Queued \cap Gone = {}
  /\ DropsAreCounted

\* No packet is twice in the burst; the places are disjoint, and hold all packets.
PlacesInv ==
  /\ \A j, k \in DOMAIN burst : burst[j] = burst[k] => j = k
  /\ InBurst \cap (InHand \cup Queued \cup lost \cup Gone) = {}
  /\ InHand \cap (Queued \cup lost \cup Gone) = {}
  /\ lost \cap (Queued \cup Gone) = {}
  /\ Received = InBurst \cup InHand \cup Queued \cup lost \cup Gone

\* Queues that main_loop has passed are empty.
FlushInv ==
  /\ pc = "flush" => \A p \in Ports : p < port => tx_queues[p] = <<>>
  /\ pc = "rx" /\ port = 0 => \A p \in Ports : tx_queues[p] = <<>>

\* An L4 checksum that was right, before the packet is marked for the NIC.
L4Kept(f) ==
  \/ f.frag = "later" \/ f.proto \notin {"tcp", "udp"}
  \/ f.proto = "udp" /\ f.l4 = NoCksum /\ ~f.offload
  \/ IF f.offload THEN f.frag = "none" /\ f.l4 = 0 ELSE f.l4 = f.src + f.dst

InnerFollows(f, o) ==
  HasInner(f) /\ ~f.short =>
    /\ o.inner.dst = o.src => f.inner.dst = f.src
    /\ o.inner.src = o.dst => f.inner.src = f.dst

\* f is what has become of o, as long as it has not been freed.
Kept(f, o) ==
  /\ f.eth = o.eth /\ f.proto = o.proto
  /\ f.eth = "ipv4" =>
       /\ f.src + f.dst # 0
       /\ IpRight(o) => IpRight(f)
       /\ L4Right(o) => L4Kept(f)
       /\ InnerRight(o) => InnerRight(f)
       /\ InnerFollows(f, o)

\* What NATASHA answers itself (o is what was received, on port p).
Answer(f, o, p) ==
  IsAnswer(f, o) =>
    /\ f.out = p
    /\ f.dst = o.src /\ f.src = o.dst
    /\ is_natasha_ip(f.src, VLAN_ID(f))
    /\ f.eth = "arp" => is_natasha_port_ip(f.src, VLAN_ID(f), p)

PacketsInv ==
  /\ \A i \in Received : i \in sent \/ i \notin Gone => Kept(buf[i], orig[i].frame)
  /\ \A i \in InBurst \cup (IF pc = "ether" THEN {cur} ELSE {}) :
       buf[i] = orig[i].frame /\ orig[i].port = port
  /\ pc = "rules" => Pkt.eth = "ipv4" /\ Pkt.op = orig[cur].frame.op
  /\ \A i \in Queued \cup sent :
       /\ Answer(buf[i], orig[i].frame, orig[i].port)
       /\ buf[i].proto \in {"tcp", "udp"} /\ buf[i].eth = "ipv4" => buf[i].tx_ipv4

\* Preserved by every step; implies the invariants above.
PathInv == ControlInv /\ TxInv /\ PlacesInv /\ FlushInv /\ PacketsInv

-----------------------------------------------------------------------------
(* Counting. *)

\* An array of n different elements.
LEMMA CountArray ==
  ASSUME NEW n \in Nat, NEW q, NEW R,
         \A x : x \in R <=> \E k \in 1 .. n : x = q[k],
         \A j, k \in 1 .. n : q[j] = q[k] => j = k
  PROVE  IsFiniteSet(R) /\ Cardinality(R) = n
<1> DEFINE f == [k \in 1 .. n |-> q[k]]
<1>1. f \in Bijection(1 .. n, R)
  BY DEF Bijection, Injection, Surjection, IsInjective
<1>2. ExistsBijection(1 .. n, R)
  BY <1>1 DEF ExistsBijection
<1>3. IsFiniteSet(1 .. n) /\ Cardinality(1 .. n) = n
  BY FS_Interval
<1> QED BY <1>2, <1>3, FS_Bijection

\* Two finite sets without a common element.
LEMMA CountUnion ==
  ASSUME NEW S, IsFiniteSet(S), NEW R, IsFiniteSet(R), S \cap R = {}
  PROVE  Cardinality(S \cup R) = Cardinality(S) + Cardinality(R)
<1>1. Cardinality(S \cap R) = 0
  BY FS_EmptySet
<1>2. Cardinality(S \cup R) = Cardinality(S) + Cardinality(R) - Cardinality(S \cap R)
  BY FS_Union
<1>3. Cardinality(S) \in Nat /\ Cardinality(R) \in Nat
  BY FS_CardinalityType
<1> QED BY <1>1, <1>2, <1>3

\* A packet is in an array without repetitions at most once.
LEMMA CountIn ==
  ASSUME NEW q, NEW i, NEW C, \A k : k \in C <=> k \in DOMAIN q /\ q[k] = i,
         \A j, k \in DOMAIN q : q[j] = q[k] => j = k
  PROVE  Cardinality(C) = IF \E k \in DOMAIN q : q[k] = i THEN 1 ELSE 0
<1>1. CASE \E k \in DOMAIN q : q[k] = i
  <2>1. PICK k \in DOMAIN q : q[k] = i
    BY <1>1
  <2>2. C = {k}
    BY <2>1
  <2> QED BY <1>1, <2>2, FS_Singleton
<1>2. CASE ~ \E k \in DOMAIN q : q[k] = i
  <2>1. C = {}
    BY <1>2
  <2> QED BY <1>2, <2>1, FS_EmptySet
<1> QED BY <1>1, <1>2

-----------------------------------------------------------------------------
(* Freeing, queueing and sending, as TxInv sees them. *)

\* The part of TypeOK about what the transmit queues and the counters hold.
TxTypes ==
  /\ Received \subseteq Ids
  /\ tx_queues \in [Ports -> Seq(Received)]
  /\ \A p \in Ports : Len(tx_queues[p]) < MAX_TX_BURST
  /\ released \in [Ids -> Nat]
  /\ sent \subseteq Received
  /\ stats \in [Counters -> Nat]

LEMMA TxTypesHold ==
  ASSUME ControlInv
  PROVE  TxTypes
<1>1. Len(buf) \in Nat
  BY DEF ControlInv
<1>2. TypeOK
  BY DEF ControlInv
<1>3. Len(buf) <= MaxRx /\ MaxRx \in Nat
  BY <1>2, BurstAssumption DEF TypeOK
<1>4. Received \subseteq Ids
  BY <1>1, <1>3 DEF Received, Ids
<1> QED BY <1>2, <1>4 DEF TypeOK, TxTypes

\* The packets released and those sent are finitely many.
LEMMA GoneFinite ==
  ASSUME TxTypes
  PROVE  /\ IsFiniteSet(Gone) /\ Cardinality(Gone) \in Nat
         /\ IsFiniteSet(sent) /\ Cardinality(sent) \in Nat
<1>1. IsFiniteSet(Ids)
  BY BurstAssumption, FS_Interval DEF Ids
<1>2. Gone \subseteq Ids /\ sent \subseteq Ids
  BY DEF TxTypes, Gone
<1> QED BY <1>1, <1>2, FS_Subset, FS_CardinalityType

DropCounters == Counters \ {"rx_bad_l4_cksum"}

\* Counting one more drop, or several at once.
LEMMA DroppedGrows ==
  ASSUME stats \in [Counters -> Nat], NEW c \in DropCounters, NEW n \in Nat,
         stats' = [stats EXCEPT ![c] = @ + n]
  PROVE  stats' \in [Counters -> Nat] /\ Dropped \in Nat /\ Dropped' = Dropped + n
  BY DEF Dropped, Counters, DropCounters

\* A packet that is neither queued nor released is freed and counted.
LEMMA FreeEffect ==
  ASSUME TxTypes, TxInv, Received' = Received,
         NEW i \in Received, i \notin Queued \cup Gone,
         NEW c \in DropCounters, Free(i, c)
  PROVE  /\ TxTypes' /\ TxInv'
         /\ tx_queues' = tx_queues /\ sent' = sent
         /\ Queued' = Queued /\ Gone' = Gone \cup {i}
<1>1. /\ released' = [released EXCEPT ![i] = @ + 1]
      /\ stats' = [stats EXCEPT ![c] = @ + 1]
      /\ tx_queues' = tx_queues /\ sent' = sent
  BY DEF Free
<1>2. stats' \in [Counters -> Nat] /\ Dropped \in Nat /\ Dropped' = Dropped + 1
  BY <1>1, DroppedGrows DEF TxTypes
<1>3. i \in Ids /\ released[i] = 0
  BY DEF TxTypes, Gone
<1>4. Gone' = Gone \cup {i}
  BY <1>1, <1>3 DEF TxTypes, Gone
<1>5. Queued' = Queued
  BY <1>1 DEF Queued
<1>6. TxTypes'
  BY <1>1, <1>2 DEF TxTypes
<1>7. Cardinality(Gone') = Cardinality(Gone) + 1
  BY <1>4, GoneFinite, FS_AddElement
<1>8. DropsAreCounted'
  BY <1>1, <1>2, <1>7, GoneFinite DEF TxInv, DropsAreCounted
<1>9. \A k \in Ids : released'[k] \in {0, 1} /\ (released'[k] = 1 => k \in Received)
  BY <1>1, <1>3 DEF TxInv, TxTypes
<1>10. TxInv'
  BY <1>1, <1>4, <1>5, <1>8, <1>9 DEF TxInv
<1> QED BY <1>1, <1>4, <1>5, <1>6, <1>10

\* A queue is emptied: its first n packets are sent, the others freed and counted.
LEMMA FlushEffect ==
  ASSUME TxTypes, TxInv, Received' = Received,
         NEW p \in Ports, NEW q \in Seq(Received), NEW n \in 0 .. Len(q),
         \A j, k \in DOMAIN q : q[j] = q[k] => j = k,
         \A k \in DOMAIN q : q[k] \notin Gone,
         \A j \in DOMAIN tx_queues[p] : \E k \in DOMAIN q : tx_queues[p][j] = q[k],
         \A r \in Ports \ {p} : \A j \in DOMAIN tx_queues[r] : \A k \in DOMAIN q :
            tx_queues[r][j] # q[k],
         NEW R, \A x : x \in R <=> \E k \in DOMAIN q : x = q[k],
         Flush(p, q, n)
  PROVE  /\ TxTypes' /\ TxInv'
         /\ tx_queues' = [tx_queues EXCEPT ![p] = <<>>]
         /\ Queued' = Queued \ R /\ Gone' = Gone \cup R
         /\ sent \subseteq sent' /\ sent' \subseteq sent \cup R
<1> DEFINE S == {q[k] : k \in 1 .. n}
<1>1. /\ tx_queues' = [tx_queues EXCEPT ![p] = <<>>]
      /\ released' = [i \in Ids |-> released[i] + Cardinality({k \in DOMAIN q : q[k] = i})]
      /\ sent' = sent \cup S
      /\ stats' = [stats EXCEPT !["drop_tx_notsent"] = @ + Len(q) - n]
  BY DEF Flush
<1>2. Len(q) \in Nat /\ DOMAIN q = 1 .. Len(q) /\ n \in Nat /\ n <= Len(q)
  OBVIOUS
<1>3. R \subseteq Received /\ S \subseteq R /\ sent \subseteq Received
  <2>1. \A k \in DOMAIN q : q[k] \in Received
    OBVIOUS
  <2>2. \A k \in 1 .. n : k \in DOMAIN q
    BY <1>2
  <2> QED BY <2>1, <2>2 DEF TxTypes
<1>4. \A i \in Ids : released'[i] = released[i] + IF i \in R THEN 1 ELSE 0
  <2> TAKE i \in Ids
  <2> DEFINE C == {k \in DOMAIN q : q[k] = i}
  <2>1. \A k : k \in C <=> k \in DOMAIN q /\ q[k] = i
    OBVIOUS
  <2>2. released'[i] = released[i] + Cardinality(C)
    BY <1>1
  <2> HIDE DEF C
  <2>3. Cardinality(C) = IF \E k \in DOMAIN q : q[k] = i THEN 1 ELSE 0
    BY <2>1, CountIn, ZenonT(90)
  <2> QED BY <2>2, <2>3
<1>5. released' \in [Ids -> Nat]
  <2>1. \A i \in Ids : released'[i] \in Nat
    BY <1>4, SMTT(30) DEF TxTypes
  <2> QED BY <1>1, <2>1
<1>6. Gone' = Gone \cup R
  <2>1. \A i \in Received : i \in Ids /\ released[i] \in Nat
    BY DEF TxTypes
  <2> QED BY <1>3, <1>4, <2>1 DEF Gone
<1>7. Queued' = Queued \ R
  <2>1. \A r \in Ports \ {p} : tx_queues'[r] = tx_queues[r]
    BY <1>1 DEF TxTypes
  <2>2. tx_queues'[p] = <<>>
    BY <1>1 DEF TxTypes
  <2>3. ASSUME NEW x \in Queued'
        PROVE  x \in Queued \ R
    <3>1. PICK r \in Ports : \E j \in DOMAIN tx_queues'[r] : x = tx_queues'[r][j]
      BY <2>3 DEF Queued
    <3>2. r # p
      BY <2>2, <3>1
    <3> QED BY <2>1, <3>1, <3>2 DEF Queued
  <2>4. ASSUME NEW x \in Queued, x \notin R
        PROVE  x \in Queued'
    <3>1. PICK r \in Ports : \E j \in DOMAIN tx_queues[r] : x = tx_queues[r][j]
      BY <2>4 DEF Queued
    <3>2. r # p
      BY <2>4, <3>1
    <3> QED BY <2>1, <3>1, <3>2 DEF Queued
  <2> QED BY <2>3, <2>4
<1>8. /\ IsFiniteSet(Gone) /\ Cardinality(Gone) \in Nat
      /\ IsFiniteSet(sent) /\ Cardinality(sent) \in Nat
  BY GoneFinite
<1>9. Cardinality(Gone') = Cardinality(Gone) + Len(q)
  <2>1. \A j, k \in 1 .. Len(q) : q[j] = q[k] => j = k
    BY <1>2
  <2>2. Gone \cap R = {}
    OBVIOUS
  <2>3. \A x : x \in R <=> \E k \in 1 .. Len(q) : x = q[k]
    BY <1>2
  <2>4. IsFiniteSet(R) /\ Cardinality(R) = Len(q)
    BY <1>2, <2>1, <2>3, CountArray, ZenonT(90)
  <2>5. Cardinality(Gone \cup R) = Cardinality(Gone) + Cardinality(R)
    BY <1>8, <2>2, <2>4, CountUnion
  <2> QED BY <1>6, <2>4, <2>5
<1>10. Cardinality(sent') = Cardinality(sent) + n
  <2>1. sent \cap S = {}
    BY <1>3 DEF TxInv
  <2>2. \A j, k \in 1 .. n : q[j] = q[k] => j = k
    BY <1>2
  <2>3. \A x : x \in S <=> \E k \in 1 .. n : x = q[k]
    OBVIOUS
  <2> HIDE DEF S
  <2>4. IsFiniteSet(S) /\ Cardinality(S) = n
    BY <1>2, <2>2, <2>3, CountArray, ZenonT(90)
  <2>5. Cardinality(sent \cup S) = Cardinality(sent) + Cardinality(S)
    BY <1>8, <2>1, <2>4, CountUnion
  <2> QED BY <1>1, <2>4, <2>5
<1>11. stats' \in [Counters -> Nat] /\ Dropped \in Nat /\ Dropped' = Dropped + (Len(q) - n)
  <2>1. stats \in [Counters -> Nat] /\ "drop_tx_notsent" \in DropCounters
    BY DEF TxTypes, DropCounters, Counters
  <2>2. stats["drop_tx_notsent"] \in Nat
    BY <2>1 DEF DropCounters
  <2>3. stats' = [stats EXCEPT !["drop_tx_notsent"] = @ + (Len(q) - n)]
    BY <1>1, <1>2, <2>2
  <2>4. Len(q) - n \in Nat
    BY <1>2
  <2> QED BY <2>1, <2>3, <2>4, DroppedGrows
<1>12. DropsAreCounted'
  <2>1. Dropped = Cardinality(Gone) - Cardinality(sent)
    BY DEF TxInv, DropsAreCounted
  <2> QED BY <1>2, <1>8, <1>9, <1>10, <1>11, <2>1 DEF DropsAreCounted
<1>13. TxTypes'
  <2>1. tx_queues' \in [Ports -> Seq(Received')]
    BY <1>1 DEF TxTypes
  <2>2. \A r \in Ports : Len(tx_queues'[r]) < MAX_TX_BURST
    BY <1>1, BurstAssumption DEF TxTypes
  <2> QED BY <1>1, <1>3, <1>5, <1>11, <2>1, <2>2 DEF TxTypes
<1>14. TxInv'
  <2>1. \A r, u \in Ports : \A j \in DOMAIN tx_queues'[r] : \A k \in DOMAIN tx_queues'[u] :
          tx_queues'[r][j] = tx_queues'[u][k] => r = u /\ j = k
    BY <1>1 DEF TxInv, TxTypes
  <2>2. \A i \in Ids : released'[i] \in {0, 1} /\ (released'[i] = 1 => i \in Received)
    <3>1. \A i \in R : released[i] = 0
      BY <1>3 DEF TxTypes, Gone
    <3>2. \A i \in Ids : released[i] \in {0, 1} /\ (released[i] = 1 => i \in Received)
      BY DEF TxInv
    <3>3. ASSUME NEW i \in Ids
          PROVE  released'[i] \in {0, 1} /\ (released'[i] = 1 => i \in Received)
      <4>1. CASE i \in R
        BY <1>3, <1>4, <3>1, <4>1
      <4>2. CASE i \notin R
        BY <1>4, <3>2, <4>2
      <4> QED BY <4>1, <4>2
    <3> QED BY <3>3
  <2>3. sent' \subseteq Gone' /\ Queued' \cap Gone' = {}
    BY <1>1, <1>3, <1>6, <1>7 DEF TxInv
  <2> QED BY <1>12, <2>1, <2>2, <2>3 DEF TxInv
<1> QED BY <1>1, <1>3, <1>6, <1>7, <1>13, <1>14

\* A packet that is neither queued nor released is given to tx_send: it is queued
\* on p, or sent or freed with the others that wait there.
LEMMA SendEffect ==
  ASSUME TxTypes, TxInv, Received' = Received,
         NEW i \in Received, i \notin Queued \cup Gone, NEW p \in Ports, Enqueue(i, p)
  PROVE  /\ TxTypes' /\ TxInv'
         /\ Queued' \cup Gone' = Queued \cup Gone \cup {i}
         /\ Gone \subseteq Gone' /\ sent \subseteq sent'
         /\ sent' \cup Queued' \subseteq sent \cup Queued \cup {i}
<1> DEFINE q == Append(tx_queues[p], i)
<1>1. tx_queues[p] \in Seq(Received) /\ Len(tx_queues[p]) \in Nat
  BY DEF TxTypes
<1>2. /\ q \in Seq(Received) /\ Len(q) = Len(tx_queues[p]) + 1
      /\ DOMAIN q = 1 .. Len(tx_queues[p]) + 1
      /\ DOMAIN tx_queues[p] = 1 .. Len(tx_queues[p])
      /\ \A k \in DOMAIN tx_queues[p] : q[k] = tx_queues[p][k]
      /\ q[Len(tx_queues[p]) + 1] = i
  BY <1>1
<1>3. \A r \in Ports : \A j \in DOMAIN tx_queues[r] : tx_queues[r][j] \in Queued
  BY DEF Queued
<1>4. \A j, k \in DOMAIN q : q[j] = q[k] => j = k
  <2>1. \A k \in DOMAIN q : k \in DOMAIN tx_queues[p] \/ k = Len(tx_queues[p]) + 1
    BY <1>1, <1>2
  <2>2. \A j, k \in DOMAIN tx_queues[p] : tx_queues[p][j] = tx_queues[p][k] => j = k
    BY DEF TxInv
  <2>3. \A k \in DOMAIN tx_queues[p] : tx_queues[p][k] # i
    BY <1>3
  <2> HIDE DEF q
  <2> QED BY <1>2, <2>1, <2>2, <2>3
<1>5. \A k \in DOMAIN q : q[k] \in Queued \cup {i}
  <2>1. \A k \in DOMAIN q : k \in DOMAIN tx_queues[p] \/ k = Len(tx_queues[p]) + 1
    BY <1>1, <1>2
  <2> HIDE DEF q
  <2> QED BY <1>2, <1>3, <2>1
<1>6. CASE Len(q) < MAX_TX_BURST
  <2>1. tx_queues' = [tx_queues EXCEPT ![p] = q] /\ UNCHANGED <<released, sent, stats>>
    BY <1>6 DEF Enqueue
  <2> HIDE DEF q
  <2>2. Gone' = Gone /\ sent' = sent
    BY <2>1 DEF Gone
  <2>3. tx_queues'[p] = q /\ \A r \in Ports \ {p} : tx_queues'[r] = tx_queues[r]
    BY <2>1 DEF TxTypes
  <2>4. Queued' = Queued \cup {i}
    <3>1. ASSUME NEW x \in Queued'
          PROVE  x \in Queued \cup {i}
      <4>1. PICK r \in Ports : \E j \in DOMAIN tx_queues'[r] : x = tx_queues'[r][j]
        BY <3>1 DEF Queued
      <4> QED BY <1>3, <1>5, <2>3, <4>1
    <3>2. ASSUME NEW x \in Queued
          PROVE  x \in Queued'
      <4>1. PICK r \in Ports : \E j \in DOMAIN tx_queues[r] : x = tx_queues[r][j]
        BY <3>2 DEF Queued
      <4>2. \E j \in DOMAIN tx_queues'[r] : x = tx_queues'[r][j]
        <5>1. CASE r = p
          <6>1. DOMAIN tx_queues[p] \subseteq DOMAIN q
            BY <1>1, <1>2
          <6> QED BY <1>2, <2>3, <4>1, <5>1, <6>1
        <5>2. CASE r # p
          BY <2>3, <4>1, <5>2
        <5> QED BY <5>1, <5>2
      <4> QED BY <4>2 DEF Queued
    <3>3. i \in Queued'
      <4>1. Len(tx_queues[p]) + 1 \in DOMAIN q
        BY <1>1, <1>2
      <4> QED BY <1>2, <2>3, <4>1 DEF Queued
    <3> QED BY <3>1, <3>2, <3>3
  <2>5. TxTypes'
    <3>1. tx_queues' \in [Ports -> Seq(Received')]
      BY <1>2, <2>1 DEF TxTypes
    <3>2. \A r \in Ports : Len(tx_queues'[r]) < MAX_TX_BURST
      BY <1>6, <2>3 DEF TxTypes
    <3> QED BY <2>1, <3>1, <3>2 DEF TxTypes
  <2>6. TxInv'
    <3>1. \A r, u \in Ports : \A j \in DOMAIN tx_queues'[r] : \A k \in DOMAIN tx_queues'[u] :
            tx_queues'[r][j] = tx_queues'[u][k] => r = u /\ j = k
      <4>1. \A r \in Ports \ {p} : \A j \in DOMAIN tx_queues[r] : \A k \in DOMAIN q :
              tx_queues[r][j] # q[k]
        <5>1. \A r \in Ports \ {p} : \A j \in DOMAIN tx_queues[r] : \A k \in DOMAIN tx_queues[p] :
                tx_queues[r][j] # tx_queues[p][k]
          BY DEF TxInv
        <5>2. \A k \in DOMAIN q : k \in DOMAIN tx_queues[p] \/ k = Len(tx_queues[p]) + 1
          BY <1>1, <1>2
        <5> QED BY <1>2, <1>3, <5>1, <5>2
      <4> QED BY <1>4, <2>3, <4>1 DEF TxInv
    <3>2. Dropped' = Dropped
      BY <2>1 DEF Dropped
    <3>3. DropsAreCounted'
      BY <2>2, <3>2 DEF TxInv, DropsAreCounted
    <3>4. Queued' \cap Gone' = {}
      BY <2>2, <2>4 DEF TxInv
    <3>5. \A x \in Ids : released'[x] \in {0, 1} /\ (released'[x] = 1 => x \in Received')
      BY <2>1 DEF TxInv
    <3> QED BY <2>2, <3>1, <3>3, <3>4, <3>5 DEF TxInv
  <2> QED BY <2>2, <2>4, <2>5, <2>6
<1>7. CASE ~(Len(q) < MAX_TX_BURST)
  <2>1. PICK n \in 0 .. Len(q) : Flush(p, q, n)
    BY <1>7 DEF Enqueue
  <2> HIDE DEF q
  <2>2. \A k \in DOMAIN q : q[k] \notin Gone
    BY <1>5 DEF TxInv
  <2>3. \A j \in DOMAIN tx_queues[p] : \E k \in DOMAIN q : tx_queues[p][j] = q[k]
    <3>1. DOMAIN tx_queues[p] \subseteq DOMAIN q
      BY <1>1, <1>2
    <3> QED BY <1>2, <3>1
  <2>4. \A r \in Ports \ {p} : \A j \in DOMAIN tx_queues[r] : \A k \in DOMAIN q :
          tx_queues[r][j] # q[k]
    <3>1. \A r \in Ports \ {p} : \A j \in DOMAIN tx_queues[r] : \A k \in DOMAIN tx_queues[p] :
            tx_queues[r][j] # tx_queues[p][k]
      BY DEF TxInv
    <3>2. \A k \in DOMAIN q : k \in DOMAIN tx_queues[p] \/ k = Len(tx_queues[p]) + 1
      BY <1>1, <1>2
    <3> QED BY <1>2, <1>3, <3>1, <3>2
  <2> DEFINE R == {q[k] : k \in DOMAIN q}
  <2>5. \A x : x \in R <=> \E k \in DOMAIN q : x = q[k]
    OBVIOUS
  <2>6. i \in R /\ R \subseteq Queued \cup {i}
    BY <1>1, <1>2, <1>5
  <2> HIDE DEF R
  <2>7. /\ TxTypes' /\ TxInv'
        /\ Queued' = Queued \ R /\ Gone' = Gone \cup R
        /\ sent \subseteq sent' /\ sent' \subseteq sent \cup R
    BY <1>2, <1>4, <2>1, <2>2, <2>3, <2>4, <2>5, FlushEffect
  <2> QED BY <2>6, <2>7
<1> QED BY <1>6, <1>7

\* Nothing is released, queued or dropped; packets may be received.
LEMMA QuietEffect ==
  ASSUME TxTypes, TxInv, Received \subseteq Received', Received' \subseteq Ids,
         UNCHANGED <<tx_queues, released, sent>>,
         stats' \in [Counters -> Nat], Dropped' = Dropped
  PROVE  TxTypes' /\ TxInv' /\ Queued' = Queued /\ Gone' = Gone
<1>1. Queued' = Queued
  BY DEF Queued
<1>2. Gone' = Gone
  BY DEF Gone, TxTypes, TxInv
<1>3. TxTypes'
  <2>1. \A p \in Ports : tx_queues[p] \in Seq(Received')
    BY DEF TxTypes
  <2>2. tx_queues' \in [Ports -> Seq(Received')]
    BY <2>1 DEF TxTypes
  <2> QED BY <2>2 DEF TxTypes
<1>4. TxInv'
  BY <1>1, <1>2 DEF TxInv, DropsAreCounted
<1> QED BY <1>1, <1>2, <1>3, <1>4

-----------------------------------------------------------------------------
(* ControlInv. *)

\* The nodes of a rule tree.
LEMMA NodeShape ==
  ASSUME rules \in RuleTrees, NEW n \in DOMAIN rules
  PROVE  /\ n # 0
         /\ rules[n].type # "ACTION" =>
              /\ rules[n].type \in InnerTypes
              /\ rules[n].left \in {0} \cup DOMAIN rules
              /\ rules[n].right \in {0} \cup DOMAIN rules
         /\ rules[n].type \in InnerTypes => rules[n].right \in {0} \cup DOMAIN rules
         /\ rules[n].type = "ACTION" =>
              /\ rules[n].act = "nat" => rules[n].arg \in {"src", "dst"}
              /\ rules[n].act = "out" =>
                   rules[n].arg.port \in Ports /\ rules[n].arg.vlan \in Nat
<1>1. /\ Len(rules) \in Nat /\ DOMAIN rules = 1 .. Len(rules)
      /\ n \in InnerNodes(rules) =>
           /\ rules[n].left \in {0} \cup n + 1 .. Len(rules)
           /\ rules[n].right \in {0} \cup n + 1 .. Len(rules)
      /\ n \notin InnerNodes(rules) =>
           /\ rules[n].type = "ACTION"
           /\ rules[n].act = "nat" => rules[n].arg \in {"src", "dst"}
           /\ rules[n].act = "out" =>
                rules[n].arg.port \in Ports /\ rules[n].arg.vlan \in Nat
  BY RulesAssumption
<1>2. n \in InnerNodes(rules) <=> rules[n].type \in InnerTypes
  BY DEF InnerNodes
<1>3. "ACTION" \notin InnerTypes
  BY DEF InnerTypes
<1>4. n \in 1 .. Len(rules) /\ n # 0 /\ n + 1 .. Len(rules) \subseteq DOMAIN rules
  BY <1>1
<1> QED BY <1>1, <1>2, <1>3, <1>4

LEMMA RootType ==
  ASSUME rules \in RuleTrees
  PROVE  Root \in {0} \cup DOMAIN rules
<1>1. Len(rules) \in Nat /\ DOMAIN rules = 1 .. Len(rules)
  BY RulesAssumption
<1> QED BY <1>1 DEF Root

\* A node returns a negative value only when its last child does.
LEMMA ResultSign ==
  ASSUME NEW type \in InnerTypes, NEW side, NEW v \in -1 .. 1
  PROVE  /\ Result(type, side, v) \in -1 .. 1
         /\ Result(type, side, v) < 0 <=> v < 0
<1>1. CASE v < 0
  BY <1>1 DEF Result
<1>2. CASE ~(v < 0) /\ type \in {"SEQ", "IF"}
  BY <1>2 DEF Result
<1>3. CASE ~(v < 0) /\ type = "COND"
  BY <1>3 DEF Result
<1>4. CASE ~(v < 0) /\ type \in {"AND", "OR"}
  BY <1>4 DEF Result
<1> QED BY <1>1, <1>2, <1>3, <1>4 DEF InnerTypes

\* The packet in hand is one that was received.
LEMMA CurReceived ==
  ASSUME ControlInv, pc \in {"ether", "rules"}
  PROVE  cur \in Received /\ cur # 0 /\ Pkt \in Packet /\ orig[cur].frame \in Frames
         /\ orig[cur].port \in Ports
<1>1. cur \in Received /\ cur # 0
  BY DEF ControlInv, TypeOK
<1>2. Len(buf) \in Nat /\ cur \in 1 .. Len(buf) /\ cur \in 1 .. Len(orig)
  BY <1>1 DEF ControlInv, TypeOK, Received
<1>3. Pkt \in Packet
  BY <1>2 DEF ControlInv, Pkt
<1>4. orig[cur] \in [frame : Frames, port : Ports]
  <2>1. orig \in Seq([frame : Frames, port : Ports])
    BY DEF ControlInv
  <2> QED BY <1>2, <2>1, ElementOfSeq
<1> QED BY <1>1, <1>3, <1>4

\* Replacing one packet leaves the others, and their number.
LEMMA Replace ==
  ASSUME ControlInv, pc \in {"ether", "rules"}, NEW g \in Packet,
         buf' = [buf EXCEPT ![cur] = g]
  PROVE  /\ buf' \in Seq(Packet) /\ Len(buf') = Len(buf) /\ Received' = Received
         /\ buf'[cur] = g
         /\ \A i \in Received \ {cur} : buf'[i] = buf[i]
  BY CurReceived DEF ControlInv, Received

-----------------------------------------------------------------------------
(* What the other parts of PathInv need of a step that deals with `cur'. *)

\* The packet in hand stays there, is queued or is released; others in queues
\* may be released.
LEMMA PlacesMove ==
  ASSUME PlacesInv, UNCHANGED <<burst, lost>>, Received' = Received,
         InHand' \cup Queued' \cup Gone' = InHand \cup Queued \cup Gone,
         InHand' \cap (Queued' \cup Gone') = {}
  PROVE  PlacesInv'
<1>1. InBurst' = InBurst
  BY DEF InBurst
<1>2. InBurst' \cap (InHand' \cup Queued' \cup lost' \cup Gone') = {}
  BY <1>1 DEF PlacesInv
<1>3. lost' \cap (Queued' \cup Gone') = {} /\ InHand' \cap lost' = {}
  BY DEF PlacesInv
<1>4. Received' = InBurst' \cup InHand' \cup Queued' \cup lost' \cup Gone'
  BY <1>1 DEF PlacesInv
<1>5. \A j, k \in DOMAIN burst' : burst'[j] = burst'[k] => j = k
  BY DEF PlacesInv
<1> QED BY <1>2, <1>3, <1>4, <1>5 DEF PlacesInv

\* The packet in hand changes, the others do not.
LEMMA PacketsMove ==
  ASSUME ControlInv, TxInv, PlacesInv, PacketsInv, pc \in {"ether", "rules"},
         UNCHANGED <<burst, orig, port>>, Received' = Received,
         \A i \in Received \ {cur} : buf'[i] = buf[i],
         cur \in InHand,
         Gone \subseteq Gone', sent' \cup Queued' \subseteq sent \cup Queued \cup {cur},
         cur \in sent' \/ cur \notin Gone' => Kept(buf'[cur], orig[cur].frame),
         cur \in sent' \cup Queued' =>
           /\ Answer(buf'[cur], orig[cur].frame, orig[cur].port)
           /\ buf'[cur].proto \in {"tcp", "udp"} /\ buf'[cur].eth = "ipv4"
                => buf'[cur].tx_ipv4,
         \/ pc' = "dispatch"
         \/ pc' = "rules" /\ cur' = cur /\ buf'[cur].eth = "ipv4"
              /\ buf'[cur].op = orig[cur].frame.op
  PROVE  PacketsInv'
<1>1. cur \in Received
  BY CurReceived
<1>2. InBurst' = InBurst /\ cur \notin InBurst /\ InBurst \subseteq Received
  BY DEF InBurst, PlacesInv
<1>3. ASSUME NEW i \in Received', i \in sent' \/ i \notin Gone'
      PROVE  Kept(buf'[i], orig'[i].frame)
  <2>1. CASE i = cur
    BY <1>3, <2>1
  <2>2. CASE i # cur
    <3>1. i \in sent \/ i \notin Gone
      BY <1>3, <2>2 DEF TxInv
    <3> QED BY <2>2, <3>1 DEF PacketsInv
  <2> QED BY <2>1, <2>2
<1>4. ASSUME NEW i \in InBurst' \cup (IF pc' = "ether" THEN {cur'} ELSE {})
      PROVE  buf'[i] = orig'[i].frame /\ orig'[i].port = port'
  <2>1. i \in InBurst /\ i # cur /\ i \in Received
    BY <1>2
  <2>2. buf[i] = orig[i].frame /\ orig[i].port = port
    BY <2>1 DEF PacketsInv
  <2> QED BY <2>1, <2>2
<1>5. pc' = "rules" => Pkt'.eth = "ipv4" /\ Pkt'.op = orig'[cur'].frame.op
  BY DEF Pkt
<1>6. ASSUME NEW i \in Queued' \cup sent'
      PROVE  /\ Answer(buf'[i], orig'[i].frame, orig'[i].port)
             /\ buf'[i].proto \in {"tcp", "udp"} /\ buf'[i].eth = "ipv4" => buf'[i].tx_ipv4
  <2>1. CASE i = cur
    BY <2>1
  <2>2. CASE i # cur
    <3>1. i \in Queued \cup sent
      BY <2>2
    <3>2. i \in Received
      BY <3>1 DEF PlacesInv, TxInv
    <3>3. /\ Answer(buf[i], orig[i].frame, orig[i].port)
          /\ buf[i].proto \in {"tcp", "udp"} /\ buf[i].eth = "ipv4" => buf[i].tx_ipv4
      BY <3>1 DEF PacketsInv
    <3> QED BY <2>2, <3>2, <3>3
  <2> QED BY <2>1, <2>2
<1> QED BY <1>3, <1>4, <1>5, <1>6 DEF PacketsInv

-----------------------------------------------------------------------------
(* What becomes of a packet. *)

\* The L4 part of a rewrite changes the checksum and the request to the NIC only.
LEMMA RewriteL4Frame ==
  ASSUME NEW f \in Packet, NEW from \in Nat, NEW to \in Nat
  PROVE  \E c \in Int, b \in BOOLEAN :
           /\ RewriteL4(f, from, to) = [f EXCEPT !.l4 = c, !.offload = b]
           /\ IF HasL4Cksum(f)
                THEN IF f.frag = "first" THEN c = f.l4 + to - from /\ b = f.offload
                                         ELSE c = 0 /\ b = TRUE
                ELSE c = f.l4 /\ b = f.offload
<1>1. f.l4 \in Int /\ f.offload \in BOOLEAN
  BY DEF Packet
<1>2. CASE ~HasL4Cksum(f)
  <2>1. RewriteL4(f, from, to) = [f EXCEPT !.l4 = f.l4, !.offload = f.offload]
    BY <1>2 DEF RewriteL4, Packet
  <2> QED BY <1>1, <1>2, <2>1
<1>3. CASE HasL4Cksum(f) /\ f.frag = "first"
  <2>1. RewriteL4(f, from, to)
          = [f EXCEPT !.l4 = f.l4 + to - from, !.offload = f.offload]
    BY <1>3 DEF RewriteL4, Packet
  <2>2. f.l4 + to - from \in Int
    BY <1>1
  <2> QED BY <1>1, <1>3, <2>1, <2>2
<1>4. CASE HasL4Cksum(f) /\ f.frag # "first"
  <2>1. RewriteL4(f, from, to) = [f EXCEPT !.l4 = 0, !.offload = TRUE]
    BY <1>4 DEF RewriteL4
  <2>2. 0 \in Int /\ TRUE \in BOOLEAN
    OBVIOUS
  <2> QED BY <1>4, <2>1, <2>2, Zenon
<1> QED BY <1>2, <1>3, <1>4

\* A rewrite of the source, and of the destination.
LEMMA RewriteSrc ==
  ASSUME NEW f \in Packet, NEW to \in Nat
  PROVE  \E c \in Int, b \in BOOLEAN :
           /\ RewriteOuter(f, "src", to)
                = [f EXCEPT !.src = to, !.ip = f.ip + to - f.src, !.l4 = c, !.offload = b]
           /\ IF HasL4Cksum(f)
                THEN IF f.frag = "first" THEN c = f.l4 + to - f.src /\ b = f.offload
                                         ELSE c = 0 /\ b = TRUE
                ELSE c = f.l4 /\ b = f.offload
<1> DEFINE g == [f EXCEPT !.src = to, !.ip = f.ip + to - f.src]
<1>1. RewriteOuter(f, "src", to) = RewriteL4(g, f.src, to)
  BY DEF RewriteOuter
<1>2. g \in Packet /\ g.l4 = f.l4 /\ g.offload = f.offload /\ g.frag = f.frag
      /\ g.proto = f.proto /\ f.src \in Nat
  <2>1. f.src \in Nat /\ f.ip \in Int
    BY DEF Packet
  <2>2. f.ip + to - f.src \in Int
    BY <2>1
  <2> HIDE DEF g
  <2>3. g \in Packet
    BY <2>1, <2>2 DEF g, Packet
  <2>4. g.l4 = f.l4 /\ g.offload = f.offload /\ g.frag = f.frag /\ g.proto = f.proto
    BY DEF g, Packet
  <2> QED BY <2>1, <2>3, <2>4
<1>3. HasL4Cksum(g) <=> HasL4Cksum(f)
  BY <1>2 DEF HasL4Cksum
<1> HIDE DEF g
<1>4. PICK c \in Int, b \in BOOLEAN :
        /\ RewriteL4(g, f.src, to) = [g EXCEPT !.l4 = c, !.offload = b]
        /\ IF HasL4Cksum(g)
             THEN IF g.frag = "first" THEN c = g.l4 + to - f.src /\ b = g.offload
                                      ELSE c = 0 /\ b = TRUE
             ELSE c = g.l4 /\ b = g.offload
  BY <1>2, RewriteL4Frame
<1>5. RewriteOuter(f, "src", to)
        = [f EXCEPT !.src = to, !.ip = f.ip + to - f.src, !.l4 = c, !.offload = b]
  BY <1>1, <1>4 DEF g, Packet
<1> QED BY <1>2, <1>3, <1>4, <1>5

LEMMA RewriteDst ==
  ASSUME NEW f \in Packet, NEW to \in Nat
  PROVE  \E c \in Int, b \in BOOLEAN :
           /\ RewriteOuter(f, "dst", to)
                = [f EXCEPT !.dst = to, !.ip = f.ip + to - f.dst, !.l4 = c, !.offload = b]
           /\ IF HasL4Cksum(f)
                THEN IF f.frag = "first" THEN c = f.l4 + to - f.dst /\ b = f.offload
                                         ELSE c = 0 /\ b = TRUE
                ELSE c = f.l4 /\ b = f.offload
<1> DEFINE g == [f EXCEPT !.dst = to, !.ip = f.ip + to - f.dst]
<1>1. RewriteOuter(f, "dst", to) = RewriteL4(g, f.dst, to)
  BY DEF RewriteOuter
<1>2. g \in Packet /\ g.l4 = f.l4 /\ g.offload = f.offload /\ g.frag = f.frag
      /\ g.proto = f.proto /\ f.dst \in Nat
  <2>1. f.dst \in Nat /\ f.ip \in Int
    BY DEF Packet
  <2>2. f.ip + to - f.dst \in Int
    BY <2>1
  <2> HIDE DEF g
  <2>3. g \in Packet
    BY <2>1, <2>2 DEF g, Packet
  <2>4. g.l4 = f.l4 /\ g.offload = f.offload /\ g.frag = f.frag /\ g.proto = f.proto
    BY DEF g, Packet
  <2> QED BY <2>1, <2>3, <2>4
<1>3. HasL4Cksum(g) <=> HasL4Cksum(f)
  BY <1>2 DEF HasL4Cksum
<1> HIDE DEF g
<1>4. PICK c \in Int, b \in BOOLEAN :
        /\ RewriteL4(g, f.dst, to) = [g EXCEPT !.l4 = c, !.offload = b]
        /\ IF HasL4Cksum(g)
             THEN IF g.frag = "first" THEN c = g.l4 + to - f.dst /\ b = g.offload
                                      ELSE c = 0 /\ b = TRUE
             ELSE c = g.l4 /\ b = g.offload
  BY <1>2, RewriteL4Frame
<1>5. RewriteOuter(f, "dst", to)
        = [f EXCEPT !.dst = to, !.ip = f.ip + to - f.dst, !.l4 = c, !.offload = b]
  BY <1>1, <1>4 DEF g, Packet
<1> QED BY <1>2, <1>3, <1>4, <1>5

\* What a rewrite of the source address does to a packet.
LEMMA KeptSrc ==
  ASSUME NEW f \in Packet, NEW o, Kept(f, o), f.eth = "ipv4", NEW to \in Nat \ {0},
         NEW g, g = RewriteOuter(f, "src", to)
  PROVE  /\ g \in Packet /\ g.src = to /\ g.dst = f.dst
         /\ g.eth = f.eth /\ g.op = f.op /\ g.proto = f.proto /\ g.frag = f.frag
         /\ g.short = f.short /\ g.inner = f.inner /\ g.icmp = f.icmp
         /\ g.src + g.dst # 0
         /\ IpRight(o) => IpRight(g)
         /\ L4Right(o) => L4Kept(g)
         /\ InnerRight(o) => InnerRight(g)
<1>1. PICK c \in Int, b \in BOOLEAN :
        /\ g = [f EXCEPT !.src = to, !.ip = f.ip + to - f.src, !.l4 = c, !.offload = b]
        /\ IF HasL4Cksum(f)
             THEN IF f.frag = "first" THEN c = f.l4 + to - f.src /\ b = f.offload
                                      ELSE c = 0 /\ b = TRUE
             ELSE c = f.l4 /\ b = f.offload
  BY RewriteSrc
<1>2. /\ f.src \in Nat /\ f.dst \in Nat /\ f.ip \in Int /\ f.l4 \in Int
      /\ f.offload \in BOOLEAN /\ f.frag \in {"none", "first", "later"}
      /\ f.proto \in {"tcp", "udp", "icmp", "other"}
  BY DEF Packet
<1>3. f.ip + to - f.src \in Int
  BY <1>2
<1>4. g \in Packet
  BY <1>1, <1>3, ZenonT(60) DEF Packet
<1>5. /\ g.src = to /\ g.dst = f.dst /\ g.ip = f.ip + to - f.src
      /\ g.l4 = c /\ g.offload = b
      /\ g.eth = f.eth /\ g.op = f.op /\ g.proto = f.proto /\ g.frag = f.frag
      /\ g.short = f.short /\ g.inner = f.inner /\ g.icmp = f.icmp
  BY <1>1 DEF Packet
<1>6. g.src + g.dst # 0
  BY <1>2, <1>5
<1>7. IpRight(o) => IpRight(g)
  BY <1>2, <1>5 DEF Kept, IpRight
<1>8. ASSUME L4Right(o)
      PROVE  L4Kept(g)
  <2>1. L4Kept(f) /\ f.src + f.dst # 0
    BY <1>8 DEF Kept
  <2>2. CASE f.frag = "later" \/ f.proto \notin {"tcp", "udp"}
    BY <1>5, <2>2 DEF L4Kept
  <2>3. CASE f.frag # "later" /\ f.proto = "udp" /\ f.l4 = NoCksum /\ ~f.offload
    <3>1. ~HasL4Cksum(f)
      BY <2>3 DEF HasL4Cksum
    <3>2. g.l4 = f.l4 /\ g.offload = f.offload
      BY <1>1, <1>5, <3>1
    <3> QED BY <1>5, <2>3, <3>2 DEF L4Kept
  <2>4. CASE f.frag # "later" /\ f.offload /\ f.frag = "none" /\ f.l4 = 0
    <3>1. g.l4 = 0 /\ g.offload
      <4>1. CASE HasL4Cksum(f)
        BY <1>1, <1>5, <2>4, <4>1
      <4>2. CASE ~HasL4Cksum(f)
        BY <1>1, <1>5, <2>4, <4>2
      <4> QED BY <4>1, <4>2
    <3> QED BY <1>5, <2>4, <3>1 DEF L4Kept
  <2>5. CASE /\ f.frag # "later" /\ f.proto \in {"tcp", "udp"}
             /\ ~f.offload /\ f.l4 = f.src + f.dst
    <3>1. f.l4 \notin {NoCksum, 0}
      BY <1>2, <2>1, <2>5 DEF NoCksum
    <3>2. HasL4Cksum(f)
      BY <2>5, <3>1 DEF HasL4Cksum
    <3>3. CASE f.frag = "first"
      <4>1. g.l4 = f.l4 + to - f.src /\ ~g.offload
        BY <1>1, <1>5, <2>5, <3>2, <3>3
      <4>2. g.l4 = g.src + g.dst
        BY <1>2, <1>5, <2>5, <4>1
      <4> QED BY <4>1, <4>2 DEF L4Kept
    <3>4. CASE f.frag = "none"
      <4>1. g.l4 = 0 /\ g.offload
        BY <1>1, <1>5, <3>2, <3>4
      <4> QED BY <1>5, <3>4, <4>1 DEF L4Kept
    <3> QED BY <1>2, <2>5, <3>3, <3>4
  <2> QED BY <1>2, <2>1, <2>2, <2>3, <2>4, <2>5 DEF L4Kept
<1>9. InnerRight(o) => InnerRight(g)
  BY <1>5 DEF Kept, InnerRight, HasInner
<1> QED BY <1>4, <1>5, <1>6, <1>7, <1>8, <1>9

\* And with it the destination address of the packet that it quotes.
LEMMA KeptSrcInner ==
  ASSUME NEW f \in Packet, NEW o, Kept(f, o), f.eth = "ipv4", NEW to \in Nat \ {0},
         NEW g, g = RewriteOuter(f, "src", to), NEW into \in Nat \ {0},
         f.inner.dst = f.src => into = to,
         NEW h, h = RewriteInner(g, "dst", into)
  PROVE  h \in Packet /\ h.eth = f.eth /\ h.op = f.op /\ Kept(h, o)
<1>1. /\ g \in Packet /\ g.src = to /\ g.dst = f.dst
      /\ g.eth = f.eth /\ g.op = f.op /\ g.proto = f.proto /\ g.frag = f.frag
      /\ g.short = f.short /\ g.inner = f.inner /\ g.icmp = f.icmp
      /\ g.src + g.dst # 0
      /\ IpRight(o) => IpRight(g)
      /\ L4Right(o) => L4Kept(g)
      /\ InnerRight(o) => InnerRight(g)
  BY KeptSrc
<1> DEFINE d == into - g.inner.dst
<1>2. g.inner \in [src : Nat, dst : Nat, ip : Int] /\ g.icmp \in Int
  BY <1>1 DEF Packet
<1>3. g.inner.src \in Nat /\ g.inner.dst \in Nat /\ g.inner.ip \in Int
  BY <1>2
<1>4. d \in Int
  BY <1>3
<1>5. h = [g EXCEPT !.inner.dst = into, !.inner.ip = g.inner.ip + d,
                    !.icmp = (g.icmp - d) + d]
  BY DEF RewriteInner
<1> HIDE DEF d
<1>6. h.inner = [g.inner EXCEPT !.dst = into, !.ip = g.inner.ip + d]
  BY <1>1, <1>2, <1>5 DEF Packet
<1>7. /\ h.inner.dst = into /\ h.inner.src = g.inner.src
      /\ h.inner.ip = g.inner.ip + d
      /\ h.inner \in [src : Nat, dst : Nat, ip : Int]
  <2>1. g.inner.ip + d \in Int
    BY <1>3, <1>4
  <2> QED BY <1>2, <1>6, <2>1
<1>8. h.icmp = (g.icmp - d) + d
  BY <1>1, <1>5 DEF Packet
<1>9. /\ h.eth = g.eth /\ h.op = g.op /\ h.proto = g.proto /\ h.frag = g.frag
      /\ h.short = g.short /\ h.src = g.src /\ h.dst = g.dst /\ h.ip = g.ip
      /\ h.l4 = g.l4 /\ h.offload = g.offload /\ h.tx_ipv4 = g.tx_ipv4
  BY <1>1, <1>5 DEF Packet
<1>10. h \in Packet
  <2>1. g.inner.ip + d \in Int /\ (g.icmp - d) + d \in Int
    BY <1>2, <1>3, <1>4
  <2>2. h = [g EXCEPT !.inner = h.inner, !.icmp = h.icmp]
    BY <1>1, <1>5, <1>6, <1>8 DEF Packet
  <2>3. h.icmp \in Int
    BY <1>8, <2>1
  <2>4. \A r \in [src : Nat, dst : Nat, ip : Int], c \in Int :
          [g EXCEPT !.inner = r, !.icmp = c] \in Packet
    BY <1>1 DEF Packet
  <2>5. [g EXCEPT !.inner = h.inner, !.icmp = h.icmp] \in Packet
    BY <1>7, <2>3, <2>4, Zenon
  <2> QED BY <2>2, <2>5, Zenon
<1>11. IpRight(o) => IpRight(h)
  BY <1>1, <1>9 DEF IpRight
<1>12. L4Right(o) => L4Kept(h)
  BY <1>1, <1>9 DEF L4Kept
<1>13. InnerRight(o) => InnerRight(h)
  <2>1. HasInner(h) /\ ~h.short <=> HasInner(g) /\ ~g.short
    BY <1>9 DEF HasInner
  <2>2. g.inner.ip = g.inner.src + g.inner.dst => h.inner.ip = h.inner.src + h.inner.dst
    BY <1>3, <1>7 DEF d
  <2>3. g.icmp = g.inner.src + g.inner.dst - g.inner.ip
          => h.icmp = h.inner.src + h.inner.dst - h.inner.ip
    BY <1>2, <1>3, <1>7, <1>8 DEF d
  <2> QED BY <1>1, <2>1, <2>2, <2>3 DEF InnerRight
<1>14. InnerFollows(h, o)
  <2>1. HasInner(h) /\ ~h.short => HasInner(f) /\ ~f.short
    BY <1>1, <1>9 DEF HasInner
  <2>2. f.inner.dst = f.src => h.inner.dst = h.src
    BY <1>1, <1>7, <1>9
  <2>3. f.inner.src = f.dst => h.inner.src = h.dst
    BY <1>1, <1>7, <1>9
  <2> QED BY <2>1, <2>2, <2>3 DEF Kept, InnerFollows
<1> QED BY <1>1, <1>9, <1>10, <1>11, <1>12, <1>13, <1>14 DEF Kept

\* What a rewrite of the destination address does to a packet.
LEMMA KeptDst ==
  ASSUME NEW f \in Packet, NEW o, Kept(f, o), f.eth = "ipv4", NEW to \in Nat \ {0},
         NEW g, g = RewriteOuter(f, "dst", to)
  PROVE  /\ g \in Packet /\ g.dst = to /\ g.src = f.src
         /\ g.eth = f.eth /\ g.op = f.op /\ g.proto = f.proto /\ g.frag = f.frag
         /\ g.short = f.short /\ g.inner = f.inner /\ g.icmp = f.icmp
         /\ g.src + g.dst # 0
         /\ IpRight(o) => IpRight(g)
         /\ L4Right(o) => L4Kept(g)
         /\ InnerRight(o) => InnerRight(g)
<1>1. PICK c \in Int, b \in BOOLEAN :
        /\ g = [f EXCEPT !.dst = to, !.ip = f.ip + to - f.dst, !.l4 = c, !.offload = b]
        /\ IF HasL4Cksum(f)
             THEN IF f.frag = "first" THEN c = f.l4 + to - f.dst /\ b = f.offload
                                      ELSE c = 0 /\ b = TRUE
             ELSE c = f.l4 /\ b = f.offload
  BY RewriteDst
<1>2. /\ f.src \in Nat /\ f.dst \in Nat /\ f.ip \in Int /\ f.l4 \in Int
      /\ f.offload \in BOOLEAN /\ f.frag \in {"none", "first", "later"}
      /\ f.proto \in {"tcp", "udp", "icmp", "other"}
  BY DEF Packet
<1>3. f.ip + to - f.dst \in Int
  BY <1>2
<1>4. g \in Packet
  BY <1>1, <1>3, ZenonT(60) DEF Packet
<1>5. /\ g.dst = to /\ g.src = f.src /\ g.ip = f.ip + to - f.dst
      /\ g.l4 = c /\ g.offload = b
      /\ g.eth = f.eth /\ g.op = f.op /\ g.proto = f.proto /\ g.frag = f.frag
      /\ g.short = f.short /\ g.inner = f.inner /\ g.icmp = f.icmp
  BY <1>1 DEF Packet
<1>6. g.src + g.dst # 0
  BY <1>2, <1>5
<1>7. IpRight(o) => IpRight(g)
  BY <1>2, <1>5 DEF Kept, IpRight
<1>8. ASSUME L4Right(o)
      PROVE  L4Kept(g)
  <2>1. L4Kept(f) /\ f.src + f.dst # 0
    BY <1>8 DEF Kept
  <2>2. CASE f.frag = "later" \/ f.proto \notin {"tcp", "udp"}
    BY <1>5, <2>2 DEF L4Kept
  <2>3. CASE f.frag # "later" /\ f.proto = "udp" /\ f.l4 = NoCksum /\ ~f.offload
    <3>1. ~HasL4Cksum(f)
      BY <2>3 DEF HasL4Cksum
    <3>2. g.l4 = f.l4 /\ g.offload = f.offload
      BY <1>1, <1>5, <3>1
    <3> QED BY <1>5, <2>3, <3>2 DEF L4Kept
  <2>4. CASE f.frag # "later" /\ f.offload /\ f.frag = "none" /\ f.l4 = 0
    <3>1. g.l4 = 0 /\ g.offload
      <4>1. CASE HasL4Cksum(f)
        BY <1>1, <1>5, <2>4, <4>1
      <4>2. CASE ~HasL4Cksum(f)
        BY <1>1, <1>5, <2>4, <4>2
      <4> QED BY <4>1, <4>2
    <3> QED BY <1>5, <2>4, <3>1 DEF L4Kept
  <2>5. CASE /\ f.frag # "later" /\ f.proto \in {"tcp", "udp"}
             /\ ~f.offload /\ f.l4 = f.src + f.dst
    <3>1. f.l4 \notin {NoCksum, 0}
      BY <1>2, <2>1, <2>5 DEF NoCksum
    <3>2. HasL4Cksum(f)
      BY <2>5, <3>1 DEF HasL4Cksum
    <3>3. CASE f.frag = "first"
      <4>1. g.l4 = f.l4 + to - f.dst /\ ~g.offload
        BY <1>1, <1>5, <2>5, <3>2, <3>3
      <4>2. g.l4 = g.src + g.dst
        BY <1>2, <1>5, <2>5, <4>1
      <4> QED BY <4>1, <4>2 DEF L4Kept
    <3>4. CASE f.frag = "none"
      <4>1. g.l4 = 0 /\ g.offload
        BY <1>1, <1>5, <3>2, <3>4
      <4> QED BY <1>5, <3>4, <4>1 DEF L4Kept
    <3> QED BY <1>2, <2>5, <3>3, <3>4
  <2> QED BY <1>2, <2>1, <2>2, <2>3, <2>4, <2>5 DEF L4Kept
<1>9. InnerRight(o) => InnerRight(g)
  BY <1>5 DEF Kept, InnerRight, HasInner
<1> QED BY <1>4, <1>5, <1>6, <1>7, <1>8, <1>9

\* And with it the source address of the packet that it quotes.
LEMMA KeptDstInner ==
  ASSUME NEW f \in Packet, NEW o, Kept(f, o), f.eth = "ipv4", NEW to \in Nat \ {0},
         NEW g, g = RewriteOuter(f, "dst", to), NEW into \in Nat \ {0},
         f.inner.src = f.dst => into = to,
         NEW h, h = RewriteInner(g, "src", into)
  PROVE  h \in Packet /\ h.eth = f.eth /\ h.op = f.op /\ Kept(h, o)
<1>1. /\ g \in Packet /\ g.dst = to /\ g.src = f.src
      /\ g.eth = f.eth /\ g.op = f.op /\ g.proto = f.proto /\ g.frag = f.frag
      /\ g.short = f.short /\ g.inner = f.inner /\ g.icmp = f.icmp
      /\ g.src + g.dst # 0
      /\ IpRight(o) => IpRight(g)
      /\ L4Right(o) => L4Kept(g)
      /\ InnerRight(o) => InnerRight(g)
  BY KeptDst
<1> DEFINE d == into - g.inner.src
<1>2. g.inner \in [src : Nat, dst : Nat, ip : Int] /\ g.icmp \in Int
  BY <1>1 DEF Packet
<1>3. g.inner.src \in Nat /\ g.inner.dst \in Nat /\ g.inner.ip \in Int
  BY <1>2
<1>4. d \in Int
  BY <1>3
<1>5. h = [g EXCEPT !.inner.src = into, !.inner.ip = g.inner.ip + d,
                    !.icmp = (g.icmp - d) + d]
  BY DEF RewriteInner
<1> HIDE DEF d
<1>6. h.inner = [g.inner EXCEPT !.src = into, !.ip = g.inner.ip + d]
  BY <1>1, <1>2, <1>5 DEF Packet
<1>7. /\ h.inner.src = into /\ h.inner.dst = g.inner.dst
      /\ h.inner.ip = g.inner.ip + d
      /\ h.inner \in [src : Nat, dst : Nat, ip : Int]
  <2>1. g.inner.ip + d \in Int
    BY <1>3, <1>4
  <2> QED BY <1>2, <1>6, <2>1
<1>8. h.icmp = (g.icmp - d) + d
  BY <1>1, <1>5 DEF Packet
<1>9. /\ h.eth = g.eth /\ h.op = g.op /\ h.proto = g.proto /\ h.frag = g.frag
      /\ h.short = g.short /\ h.src = g.src /\ h.dst = g.dst /\ h.ip = g.ip
      /\ h.l4 = g.l4 /\ h.offload = g.offload /\ h.tx_ipv4 = g.tx_ipv4
  <2>1. h.eth = g.eth /\ h.op = g.op /\ h.proto = g.proto /\ h.frag = g.frag
    BY <1>1, <1>5 DEF Packet
  <2>2. h.short = g.short /\ h.src = g.src /\ h.dst = g.dst /\ h.ip = g.ip
    BY <1>1, <1>5 DEF Packet
  <2>3. h.l4 = g.l4 /\ h.offload = g.offload /\ h.tx_ipv4 = g.tx_ipv4
    BY <1>1, <1>5 DEF Packet
  <2> QED BY <2>1, <2>2, <2>3
<1>10. h \in Packet
  <2>1. g.inner.ip + d \in Int /\ (g.icmp - d) + d \in Int
    BY <1>2, <1>3, <1>4
  <2>2. h = [g EXCEPT !.inner = h.inner, !.icmp = h.icmp]
    BY <1>1, <1>5, <1>6, <1>8 DEF Packet
  <2>3. h.icmp \in Int
    BY <1>8, <2>1
  <2>4. \A r \in [src : Nat, dst : Nat, ip : Int], c \in Int :
          [g EXCEPT !.inner = r, !.icmp = c] \in Packet
    BY <1>1 DEF Packet
  <2>5. [g EXCEPT !.inner = h.inner, !.icmp = h.icmp] \in Packet
    BY <1>7, <2>3, <2>4, Zenon
  <2> QED BY <2>2, <2>5, Zenon
<1>11. IpRight(o) => IpRight(h)
  BY <1>1, <1>9 DEF IpRight
<1>12. L4Right(o) => L4Kept(h)
  BY <1>1, <1>9 DEF L4Kept
<1>13. InnerRight(o) => InnerRight(h)
  <2>1. HasInner(h) /\ ~h.short <=> HasInner(g) /\ ~g.short
    BY <1>9 DEF HasInner
  <2>2. g.inner.ip = g.inner.src + g.inner.dst => h.inner.ip = h.inner.src + h.inner.dst
    BY <1>3, <1>7 DEF d
  <2>3. g.icmp = g.inner.src + g.inner.dst - g.inner.ip
          => h.icmp = h.inner.src + h.inner.dst - h.inner.ip
    BY <1>2, <1>3, <1>7, <1>8 DEF d
  <2> QED BY <1>1, <2>1, <2>2, <2>3 DEF InnerRight
<1>14. InnerFollows(h, o)
  <2>1. HasInner(h) /\ ~h.short => HasInner(f) /\ ~f.short
    BY <1>1, <1>9 DEF HasInner
  <2>2. f.inner.src = f.dst => h.inner.src = h.dst
    BY <1>1, <1>7, <1>9
  <2>3. f.inner.dst = f.src => h.inner.dst = h.src
    BY <1>1, <1>7, <1>9
  <2> QED BY <2>1, <2>2, <2>3 DEF Kept, InnerFollows
<1> QED BY <1>1, <1>9, <1>10, <1>11, <1>12, <1>13, <1>14 DEF Kept

\* nat rewrite src: the packet is translated, or it is freed.
LEMMA NatSrc ==
  ASSUME ControlInv, pc = "rules", Pkt.eth = "ipv4", NEW o, Kept(Pkt, o),
         action_nat_rewrite("src")
  PROVE  /\ \E g \in Packet : /\ buf' = [buf EXCEPT ![cur] = g]
                              /\ g.eth = Pkt.eth /\ g.op = Pkt.op
                              /\ ret' = 0 => Kept(g, o)
         /\ \/ ret' = -1 /\ Free(cur, "drop_no_rule")
            \/ ret' = 0 /\ UNCHANGED <<tx_queues, released, sent, stats>>
<1> DEFINE to == nat_lookup[Pkt.src]
           into == nat_lookup[Pkt.inner.dst]
           outer == RewriteOuter(Pkt, "src", to)
           both == RewriteInner(outer, "dst", into)
           outerMiss == Pkt.src \notin DOMAIN nat_lookup
           innerMiss == HasInner(Pkt) /\ Pkt.inner.dst \notin DOMAIN nat_lookup
<1>1. cur \in Received /\ Pkt \in Packet
  BY CurReceived
<1>2. OtherSide("src") = "dst"
  BY DEF OtherSide
<1>3. \/ /\ outerMiss \/ innerMiss
         /\ Free(cur, "drop_no_rule") /\ ret' = -1
         /\ IF outerMiss THEN buf' = buf ELSE buf' = [buf EXCEPT ![cur] = outer]
      \/ /\ ~outerMiss /\ ~innerMiss
         /\ buf' = [buf EXCEPT ![cur] = IF HasInner(Pkt) THEN both ELSE outer]
         /\ ret' = 0 /\ UNCHANGED <<tx_queues, released, sent, stats>>
  BY <1>2 DEF action_nat_rewrite
<1>4. CASE outerMiss
  <2>1. Free(cur, "drop_no_rule") /\ ret' = -1 /\ buf' = buf
    BY <1>3, <1>4
  <2>2. buf' = [buf EXCEPT ![cur] = Pkt]
    BY <1>1, <2>1 DEF ControlInv, Received, Pkt
  <2> QED BY <1>1, <2>1, <2>2
<1>5. CASE ~outerMiss
  <2>1. to \in Nat \ {0}
    BY <1>5, NatAssumption
  <2> HIDE DEF to, into, outer, both
  <2>2. /\ outer \in Packet /\ outer.eth = Pkt.eth /\ outer.op = Pkt.op
        /\ outer.proto = Pkt.proto /\ outer.frag = Pkt.frag
        /\ outer.src + outer.dst # 0
        /\ IpRight(o) => IpRight(outer)
        /\ L4Right(o) => L4Kept(outer)
        /\ InnerRight(o) => InnerRight(outer)
    BY <1>1, <2>1, KeptSrc DEF outer
  <2>3. CASE innerMiss
    <3>1. Free(cur, "drop_no_rule") /\ ret' = -1 /\ buf' = [buf EXCEPT ![cur] = outer]
      BY <1>3, <1>5, <2>3
    <3>2. ret' # 0
      BY <3>1
    <3> QED BY <2>2, <3>1, <3>2, Zenon
  <2>4. CASE ~innerMiss /\ ~HasInner(Pkt)
    <3>1. buf' = [buf EXCEPT ![cur] = outer] /\ ret' = 0
          /\ UNCHANGED <<tx_queues, released, sent, stats>>
      BY <1>3, <1>5, <2>4
    <3>2. InnerFollows(outer, o)
      BY <2>2, <2>4 DEF InnerFollows, HasInner
    <3>3. Kept(outer, o)
      BY <2>2, <3>2 DEF Kept
    <3> QED BY <2>2, <3>1, <3>3
  <2>5. CASE ~innerMiss /\ HasInner(Pkt)
    <3>1. buf' = [buf EXCEPT ![cur] = both] /\ ret' = 0
          /\ UNCHANGED <<tx_queues, released, sent, stats>>
      BY <1>3, <1>5, <2>5
    <3>2. into \in Nat \ {0}
      BY <2>5, NatAssumption DEF into
    <3>3. Pkt.inner.dst = Pkt.src => into = to
      BY DEF into, to
    <3>4. both \in Packet /\ both.eth = Pkt.eth /\ both.op = Pkt.op /\ Kept(both, o)
      BY <1>1, <2>1, <3>2, <3>3, KeptSrcInner DEF outer, both
    <3> QED BY <3>1, <3>4
  <2> QED BY <2>3, <2>4, <2>5
<1> QED BY <1>4, <1>5

\* nat rewrite dst: the packet is translated, or it is freed.
LEMMA NatDst ==
  ASSUME ControlInv, pc = "rules", Pkt.eth = "ipv4", NEW o, Kept(Pkt, o),
         action_nat_rewrite("dst")
  PROVE  /\ \E g \in Packet : /\ buf' = [buf EXCEPT ![cur] = g]
                              /\ g.eth = Pkt.eth /\ g.op = Pkt.op
                              /\ ret' = 0 => Kept(g, o)
         /\ \/ ret' = -1 /\ Free(cur, "drop_no_rule")
            \/ ret' = 0 /\ UNCHANGED <<tx_queues, released, sent, stats>>
<1> DEFINE to == nat_lookup[Pkt.dst]
           into == nat_lookup[Pkt.inner.src]
           outer == RewriteOuter(Pkt, "dst", to)
           both == RewriteInner(outer, "src", into)
           outerMiss == Pkt.dst \notin DOMAIN nat_lookup
           innerMiss == HasInner(Pkt) /\ Pkt.inner.src \notin DOMAIN nat_lookup
<1>1. cur \in Received /\ Pkt \in Packet
  BY CurReceived
<1>2. OtherSide("dst") = "src"
  BY DEF OtherSide
<1>3. \/ /\ outerMiss \/ innerMiss
         /\ Free(cur, "drop_no_rule") /\ ret' = -1
         /\ IF outerMiss THEN buf' = buf ELSE buf' = [buf EXCEPT ![cur] = outer]
      \/ /\ ~outerMiss /\ ~innerMiss
         /\ buf' = [buf EXCEPT ![cur] = IF HasInner(Pkt) THEN both ELSE outer]
         /\ ret' = 0 /\ UNCHANGED <<tx_queues, released, sent, stats>>
  BY <1>2 DEF action_nat_rewrite
<1>4. CASE outerMiss
  <2>1. Free(cur, "drop_no_rule") /\ ret' = -1 /\ buf' = buf
    BY <1>3, <1>4
  <2>2. buf' = [buf EXCEPT ![cur] = Pkt]
    BY <1>1, <2>1 DEF ControlInv, Received, Pkt
  <2> QED BY <1>1, <2>1, <2>2
<1>5. CASE ~outerMiss
  <2>1. to \in Nat \ {0}
    BY <1>5, NatAssumption
  <2> HIDE DEF to, into, outer, both
  <2>2. /\ outer \in Packet /\ outer.eth = Pkt.eth /\ outer.op = Pkt.op
        /\ outer.proto = Pkt.proto /\ outer.frag = Pkt.frag
        /\ outer.src + outer.dst # 0
        /\ IpRight(o) => IpRight(outer)
        /\ L4Right(o) => L4Kept(outer)
        /\ InnerRight(o) => InnerRight(outer)
    BY <1>1, <2>1, KeptDst DEF outer
  <2>3. CASE innerMiss
    <3>1. Free(cur, "drop_no_rule") /\ ret' = -1 /\ buf' = [buf EXCEPT ![cur] = outer]
      BY <1>3, <1>5, <2>3
    <3>2. ret' # 0
      BY <3>1
    <3> QED BY <2>2, <3>1, <3>2, Zenon
  <2>4. CASE ~innerMiss /\ ~HasInner(Pkt)
    <3>1. buf' = [buf EXCEPT ![cur] = outer] /\ ret' = 0
          /\ UNCHANGED <<tx_queues, released, sent, stats>>
      BY <1>3, <1>5, <2>4
    <3>2. InnerFollows(outer, o)
      BY <2>2, <2>4 DEF InnerFollows, HasInner
    <3>3. Kept(outer, o)
      BY <2>2, <3>2 DEF Kept
    <3> QED BY <2>2, <3>1, <3>3
  <2>5. CASE ~innerMiss /\ HasInner(Pkt)
    <3>1. buf' = [buf EXCEPT ![cur] = both] /\ ret' = 0
          /\ UNCHANGED <<tx_queues, released, sent, stats>>
      BY <1>3, <1>5, <2>5
    <3>2. into \in Nat \ {0}
      BY <2>5, NatAssumption DEF into
    <3>3. Pkt.inner.src = Pkt.dst => into = to
      BY DEF into, to
    <3>4. both \in Packet /\ both.eth = Pkt.eth /\ both.op = Pkt.op /\ Kept(both, o)
      BY <1>1, <2>1, <3>2, <3>3, KeptDstInner DEF outer, both
    <3> QED BY <3>1, <3>4
  <2> QED BY <2>3, <2>4, <2>5
<1> QED BY <1>4, <1>5

-----------------------------------------------------------------------------
(* The steps. *)

\* What ControlInv asks of a step that deals with `cur'.
LEMMA ControlMove ==
  ASSUME ControlInv, pc \in {"ether", "rules"}, TxTypes', rules' = rules,
         buf' \in Seq(Packet), Len(buf') = Len(buf),
         UNCHANGED <<orig, burst, port>>, lost' \subseteq Received,
         \/ pc' = "dispatch" /\ cur' = 0
         \/ pc' = "rules" /\ cur' = cur,
         ctl' \in {"call", "return"}, node' \in {0} \cup DOMAIN rules, ret' \in -1 .. 1,
         ret' >= 0 \/ (pc' = "rules" /\ ctl' = "return"),
         stack' \in Seq((DOMAIN rules) \X {"left", "right"}),
         \A k \in DOMAIN stack' : rules[stack'[k][1]].type \in InnerTypes
  PROVE  ControlInv'
<1>1. Received' = Received
  BY DEF Received
<1>2. cur \in Received /\ cur # 0
  BY CurReceived
<1>3. TypeOK'
  <2>1. burst' \in Seq(Received')
    BY <1>1 DEF ControlInv, TypeOK
  <2>2. cur' \in {0} \cup Received' /\ lost' \subseteq Received'
    BY <1>1, <1>2
  <2>3. /\ rules' \in RuleTrees /\ port' \in Ports
        /\ Len(buf') <= MaxRx /\ Len(orig') = Len(buf')
    BY DEF ControlInv, TypeOK
  <2>4. pc' \in {"rx", "dispatch", "ether", "rules", "flush"}
    OBVIOUS
  <2> QED BY <2>1, <2>2, <2>3, <2>4 DEF TypeOK, TxTypes
<1>4. orig' \in Seq([frame : Frames, port : Ports])
  BY DEF ControlInv
<1>5. cur' # 0 <=> pc' \in {"ether", "rules"}
  BY <1>2
<1>6. pc' \in {"rx", "flush"} => burst' = <<>>
  OBVIOUS
<1> QED BY <1>3, <1>4, <1>5, <1>6 DEF ControlInv

\* The packet in hand, before the rules or in them.
LEMMA HandIsCur ==
  ASSUME ControlInv, pc = "ether" \/ (pc = "rules" /\ ctl = "call")
  PROVE  InHand = {cur}
  BY CurReceived DEF InHand

\* It is neither queued nor released.
LEMMA HandOwned ==
  ASSUME PlacesInv, InHand = {cur}
  PROVE  cur \notin Queued \cup Gone /\ cur \notin lost \cup InBurst
  BY DEF PlacesInv

\* NATASHA's own answers and the packets that dispatch_packet refuses: the
\* packet changes to g and is sent or freed.
LEMMA Answered ==
  ASSUME PathInv, pc = "ether", rules' = rules, NEW g \in Packet,
         buf' = [buf EXCEPT ![cur] = g],
         PacketDone, UNCHANGED <<port, burst, rulesVars, orig, lost>>,
         \/ \E c \in DropCounters : Free(cur, c)
         \/ /\ Enqueue(cur, port)
            /\ Kept(g, orig[cur].frame) /\ Answer(g, orig[cur].frame, orig[cur].port)
            /\ ~(g.proto \in {"tcp", "udp"} /\ g.eth = "ipv4")
  PROVE  PathInv'
<1>1. ControlInv /\ TxInv /\ PlacesInv /\ FlushInv /\ PacketsInv
  BY DEF PathInv
<1>2. /\ buf' \in Seq(Packet) /\ Len(buf') = Len(buf) /\ Received' = Received
      /\ buf'[cur] = g /\ \A i \in Received \ {cur} : buf'[i] = buf[i]
  BY <1>1, Replace
<1>3. cur \in Received /\ cur # 0 /\ InHand = {cur}
      /\ cur \notin Queued \cup Gone /\ cur \notin lost \cup InBurst
  BY <1>1, CurReceived, HandIsCur, HandOwned
<1>4. pc' = "dispatch" /\ cur' = 0 /\ InHand' = {}
  BY DEF PacketDone, InHand
<1>5. port \in Ports /\ TxTypes
  BY <1>1, TxTypesHold DEF ControlInv, TypeOK
<1>6. /\ TxTypes' /\ TxInv'
      /\ Queued' \cup Gone' = Queued \cup Gone \cup {cur}
      /\ Gone \subseteq Gone' /\ sent' \cup Queued' \subseteq sent \cup Queued \cup {cur}
      /\ cur \in sent' \cup Queued' \/ cur \notin Gone' =>
           /\ Kept(g, orig[cur].frame) /\ Answer(g, orig[cur].frame, orig[cur].port)
           /\ ~(g.proto \in {"tcp", "udp"} /\ g.eth = "ipv4")
  <2>1. CASE \E c \in DropCounters : Free(cur, c)
    <3>1. PICK c \in DropCounters : Free(cur, c)
      BY <2>1
    <3>2. /\ TxTypes' /\ TxInv' /\ sent' = sent
          /\ Queued' = Queued /\ Gone' = Gone \cup {cur}
      BY <1>1, <1>2, <1>3, <1>5, <3>1, FreeEffect
    <3>3. cur \notin sent
      BY <1>1, <1>3 DEF TxInv
    <3> QED BY <1>3, <3>2, <3>3
  <2>2. CASE /\ Enqueue(cur, port)
             /\ Kept(g, orig[cur].frame) /\ Answer(g, orig[cur].frame, orig[cur].port)
             /\ ~(g.proto \in {"tcp", "udp"} /\ g.eth = "ipv4")
    BY <1>1, <1>2, <1>3, <1>5, <2>2, SendEffect
  <2> QED BY <2>1, <2>2
<1>7. ControlInv'
  <2>1. /\ ctl' \in {"call", "return"} /\ node' \in {0} \cup DOMAIN rules
        /\ ret' \in -1 .. 1 /\ ret' >= 0
        /\ stack' \in Seq((DOMAIN rules) \X {"left", "right"})
        /\ \A k \in DOMAIN stack' : rules[stack'[k][1]].type \in InnerTypes
    BY <1>1 DEF ControlInv, TypeOK, rulesVars
  <2>2. lost' \subseteq Received
    BY <1>1 DEF ControlInv, TypeOK
  <2> QED BY <1>1, <1>2, <1>4, <1>6, <2>1, <2>2, ControlMove
<1>8. PlacesInv'
  BY <1>1, <1>2, <1>3, <1>4, <1>6, PlacesMove
<1>9. FlushInv'
  BY <1>4 DEF FlushInv
<1>10. PacketsInv'
  BY <1>1, <1>2, <1>3, <1>4, <1>6, PacketsMove
<1> QED BY <1>6, <1>7, <1>8, <1>9, <1>10 DEF PathInv

\* Before the rules a packet is as it was received.
LEMMA EtherIsOrig ==
  ASSUME PathInv, pc = "ether"
  PROVE  /\ Pkt = orig[cur].frame /\ orig[cur].port = port
         /\ Pkt \in Packet /\ Kept(Pkt, Pkt) /\ cur \in Received
<1>1. cur \in Received /\ Pkt \in Packet
  BY CurReceived DEF PathInv
<1>2. Pkt = orig[cur].frame /\ orig[cur].port = port
  BY DEF PathInv, PacketsInv, Pkt
<1>3. cur \notin Gone
  BY HandIsCur, HandOwned DEF PathInv
<1>4. Kept(buf[cur], orig[cur].frame)
  BY <1>1, <1>3 DEF PathInv, PacketsInv
<1> QED BY <1>1, <1>2, <1>4 DEF Pkt

LEMMA ArpReplyStep ==
  ASSUME PathInv, ArpReply, rules' = rules
  PROVE  PathInv'
<1> DEFINE r == [Pkt EXCEPT !.op = "reply", !.src = Pkt.dst, !.dst = Pkt.src]
           g == [r EXCEPT !.out = port]
<1>1. /\ pc = "ether" /\ IsOurArp /\ Enqueue(cur, port) /\ PacketDone
      /\ buf' = [buf EXCEPT ![cur] = g]
      /\ UNCHANGED <<port, burst, rulesVars, orig, lost>>
  BY DEF ArpReply, tx_send
<1>2. /\ Pkt = orig[cur].frame /\ orig[cur].port = port /\ Pkt \in Packet
      /\ port \in Ports /\ port \in Int
  BY <1>1, EtherIsOrig, PortsAssumption DEF PathInv, ControlInv, TypeOK, Ports
<1>3. Pkt.eth = "arp" /\ is_natasha_port_ip(Pkt.dst, VLAN_ID(Pkt), port)
  BY <1>1 DEF IsOurArp, IsArpRequest
<1>4. g \in Packet
  BY <1>2 DEF Packet
<1>5. /\ g.eth = Pkt.eth /\ g.proto = Pkt.proto /\ g.tci = Pkt.tci
      /\ g.src = Pkt.dst /\ g.dst = Pkt.src /\ g.out = port
  BY <1>2 DEF Packet
<1> HIDE DEF g
<1>6. Kept(g, orig[cur].frame)
  BY <1>2, <1>3, <1>5 DEF Kept
<1>7. Answer(g, orig[cur].frame, orig[cur].port)
  <2>1. VLAN_ID(g) = VLAN_ID(Pkt)
    BY <1>5 DEF VLAN_ID
  <2>2. is_natasha_port_ip(g.src, VLAN_ID(g), port) /\ is_natasha_ip(g.src, VLAN_ID(g))
    BY <1>2, <1>3, <1>5, <2>1 DEF is_natasha_ip
  <2> QED BY <1>2, <1>5, <2>2 DEF Answer
<1>8. ~(g.proto \in {"tcp", "udp"} /\ g.eth = "ipv4")
  BY <1>3, <1>5
<1> QED BY <1>1, <1>4, <1>6, <1>7, <1>8, Answered

LEMMA IcmpEchoStep ==
  ASSUME PathInv, IcmpEcho, rules' = rules
  PROVE  PathInv'
<1> DEFINE g == [EchoReply EXCEPT !.out = port]
<1>1. /\ pc = "ether" /\ IsIcmpForUs /\ Pkt.op = "echo" /\ Enqueue(cur, port) /\ PacketDone
      /\ buf' = [buf EXCEPT ![cur] = g]
      /\ UNCHANGED <<port, burst, rulesVars, orig, lost>>
  BY DEF IcmpEcho, tx_send
<1>2. /\ Pkt = orig[cur].frame /\ orig[cur].port = port /\ Pkt \in Packet /\ Kept(Pkt, Pkt)
      /\ port \in Int
  BY <1>1, EtherIsOrig, PortsAssumption DEF PathInv, ControlInv, TypeOK, Ports
<1>3. /\ Pkt.eth = "ipv4" /\ Pkt.proto = "icmp"
      /\ is_natasha_ip(Pkt.dst, VLAN_ID(Pkt))
  BY <1>1 DEF IsIcmpForUs
<1>4. Pkt.src \in Nat /\ Pkt.dst \in Nat /\ Pkt.src + Pkt.dst \in Int
  BY <1>2 DEF Packet
<1>5. g \in Packet
  <2>1. EchoReply \in Packet
    BY <1>2, <1>4, ZenonT(60) DEF Packet, EchoReply
  <2> QED BY <1>2, <2>1 DEF Packet
<1>6. /\ g.eth = Pkt.eth /\ g.proto = Pkt.proto /\ g.tci = Pkt.tci
      /\ g.src = Pkt.dst /\ g.dst = Pkt.src /\ g.ip = Pkt.src + Pkt.dst
      /\ g.op = "echo_reply" /\ g.out = port
  BY <1>2 DEF Packet, EchoReply
<1> HIDE DEF g
<1>7. Kept(g, orig[cur].frame)
  <2>1. g.src + g.dst # 0 /\ IpRight(g)
    BY <1>2, <1>3, <1>4, <1>6 DEF Kept, IpRight
  <2>2. L4Kept(g) /\ InnerRight(g) /\ InnerFollows(g, orig[cur].frame)
    BY <1>3, <1>6 DEF L4Kept, InnerRight, InnerFollows, HasInner
  <2> QED BY <1>2, <1>6, <2>1, <2>2 DEF Kept
<1>8. Answer(g, orig[cur].frame, orig[cur].port)
  <2>1. VLAN_ID(g) = VLAN_ID(Pkt)
    BY <1>6 DEF VLAN_ID
  <2> QED BY <1>2, <1>3, <1>6, <2>1 DEF Answer
<1>9. ~(g.proto \in {"tcp", "udp"} /\ g.eth = "ipv4")
  BY <1>3, <1>6
<1> QED BY <1>1, <1>5, <1>7, <1>8, <1>9, Answered

\* The packets that are dropped before the rules.
LEMMA DroppedStep ==
  ASSUME PathInv, IcmpUnknown \/ Unhandled, rules' = rules
  PROVE  PathInv'
<1>1. /\ pc = "ether" /\ PacketDone
      /\ UNCHANGED <<port, burst, rulesVars, buf, orig, lost>>
      /\ \E c \in {"drop_unknown_icmp", "drop_unhandled_ethertype"} : Free(cur, c)
  BY DEF IcmpUnknown, Unhandled
<1>2. Pkt \in Packet /\ cur \in Received
  BY <1>1, EtherIsOrig
<1>3. buf' = [buf EXCEPT ![cur] = Pkt]
  BY <1>1, <1>2 DEF PathInv, ControlInv, Received, Pkt
<1>4. \E c \in DropCounters : Free(cur, c)
  BY <1>1 DEF DropCounters, Counters
<1> QED BY <1>1, <1>2, <1>3, <1>4, Answered

\* A step of the walk that calls no action.
LEMMA Walked ==
  ASSUME PathInv, pc \in {"ether", "rules"}, pc' = "rules", cur' = cur, rules' = rules,
         UNCHANGED <<port, burst, buf, orig, tx_queues, released, sent, lost, stats>>,
         InHand' = InHand, Pkt.eth = "ipv4", Pkt.op = orig[cur].frame.op,
         ctl' \in {"call", "return"}, node' \in {0} \cup DOMAIN rules, ret' \in -1 .. 1,
         ret' >= 0 \/ ctl' = "return",
         stack' \in Seq((DOMAIN rules) \X {"left", "right"}),
         \A k \in DOMAIN stack' : rules[stack'[k][1]].type \in InnerTypes
  PROVE  PathInv'
<1>1. ControlInv /\ TxInv /\ PlacesInv /\ FlushInv /\ PacketsInv /\ TxTypes
  BY TxTypesHold DEF PathInv
<1>2. Received' = Received /\ Received \subseteq Ids
  BY <1>1 DEF Received, TxTypes
<1>3. TxTypes' /\ TxInv' /\ Queued' = Queued /\ Gone' = Gone
  <2>1. stats' \in [Counters -> Nat] /\ Dropped' = Dropped
    BY <1>1 DEF TxTypes, Dropped
  <2> QED BY <1>1, <1>2, <2>1, QuietEffect
<1>4. ControlInv'
  <2>1. lost' \subseteq Received /\ buf' \in Seq(Packet)
    BY <1>1 DEF ControlInv, TypeOK
  <2> QED BY <1>1, <1>3, <2>1, ControlMove
<1>5. PlacesInv'
  <2>1. InHand' \cap (Queued' \cup Gone') = {}
    BY <1>1, <1>3 DEF PlacesInv
  <2> QED BY <1>1, <1>2, <1>3, <2>1, PlacesMove
<1>6. FlushInv'
  BY DEF FlushInv
<1>7. PacketsInv'
  <2>1. InBurst' = InBurst /\ Pkt' = Pkt
    BY DEF InBurst, Pkt
  <2>2. InBurst' \cup (IF pc' = "ether" THEN {cur'} ELSE {})
          \subseteq InBurst \cup (IF pc = "ether" THEN {cur} ELSE {})
    BY <2>1
  <2> QED BY <1>1, <1>2, <1>3, <2>1, <2>2 DEF PacketsInv
<1> QED BY <1>3, <1>4, <1>5, <1>6, <1>7 DEF PathInv

LEMMA EnterRulesStep ==
  ASSUME PathInv, EnterRules, rules' = rules
  PROVE  PathInv'
<1>1. /\ pc = "ether" /\ Pkt.eth = "ipv4" /\ pc' = "rules" /\ ctl' = "call"
      /\ node' = Root /\ stack' = <<>>
      /\ UNCHANGED <<port, burst, cur, ret, buf, orig, tx_queues, released, sent, lost, stats>>
  BY DEF EnterRules
<1>2. Pkt = orig[cur].frame
  BY <1>1, EtherIsOrig
<1>3. Root \in {0} \cup DOMAIN rules
  BY RootType DEF PathInv, ControlInv, TypeOK
<1>4. InHand' = InHand
  BY <1>1 DEF InHand
<1>5. ret' \in -1 .. 1 /\ ret' >= 0
  BY <1>1 DEF PathInv, ControlInv, TypeOK
<1>6. /\ stack' \in Seq((DOMAIN rules) \X {"left", "right"})
      /\ \A k \in DOMAIN stack' : rules[stack'[k][1]].type \in InnerTypes
  BY <1>1
<1> QED BY <1>1, <1>2, <1>3, <1>4, <1>5, <1>6, Walked

\* The callers of process_rules.
LEMMA StackTop ==
  ASSUME PathInv, stack # <<>>
  PROVE  /\ Len(stack) \in Nat \ {0}
         /\ stack \in Seq((DOMAIN rules) \X {"left", "right"})
         /\ \A k \in 1 .. Len(stack) : /\ stack[k][1] \in DOMAIN rules
                                       /\ rules[stack[k][1]].type \in InnerTypes
<1>1. stack \in Seq((DOMAIN rules) \X {"left", "right"})
  BY DEF PathInv, ControlInv, TypeOK
<1>2. \A k \in 1 .. Len(stack) : stack[k] \in (DOMAIN rules) \X {"left", "right"}
  BY <1>1, ElementOfSeq
<1>3. \A k \in 1 .. Len(stack) : rules[stack[k][1]].type \in InnerTypes
  BY <1>1 DEF PathInv, ControlInv
<1> QED BY <1>1, <1>2, <1>3

LEMMA DescendStep ==
  ASSUME PathInv, Descend, rules' = rules
  PROVE  PathInv'
<1>1. /\ pc = "rules" /\ ctl = "call" /\ node # 0 /\ rules[node].type # "ACTION"
      /\ stack' = Append(stack, <<node, "left">>) /\ node' = rules[node].left
      /\ UNCHANGED <<pc, port, burst, cur, ctl, ret, buf, orig, tx_queues, released,
                     sent, lost, stats>>
  BY DEF Descend
<1>2. /\ rules \in RuleTrees /\ node \in DOMAIN rules /\ ret \in -1 .. 1 /\ ret >= 0
      /\ stack \in Seq((DOMAIN rules) \X {"left", "right"})
      /\ \A k \in DOMAIN stack : rules[stack[k][1]].type \in InnerTypes
  BY <1>1 DEF PathInv, ControlInv, TypeOK
<1>3. rules[node].type \in InnerTypes /\ rules[node].left \in {0} \cup DOMAIN rules
  BY <1>1, <1>2, NodeShape
<1>4. Pkt.eth = "ipv4" /\ Pkt.op = orig[cur].frame.op
  BY <1>1 DEF PathInv, PacketsInv
<1>5. InHand' = InHand
  BY <1>1 DEF InHand
<1>6. <<node, "left">> \in (DOMAIN rules) \X {"left", "right"}
  BY <1>2
<1>7. stack' \in Seq((DOMAIN rules) \X {"left", "right"})
  BY <1>1, <1>2, <1>6, AppendProperties
<1>8. ASSUME NEW k \in DOMAIN stack'
      PROVE  rules[stack'[k][1]].type \in InnerTypes
  <2>1. Len(stack) \in Nat /\ DOMAIN stack = 1 .. Len(stack) /\ k \in 1 .. Len(stack) + 1
    BY <1>1, <1>2, <1>6, <1>8, AppendProperties, LenProperties
  <2>2. CASE k = Len(stack) + 1
    <3>1. stack'[k] = <<node, "left">>
      BY <1>1, <1>2, <1>6, <2>2, AppendProperties
    <3> QED BY <1>3, <3>1
  <2>3. CASE k # Len(stack) + 1
    <3>1. k \in 1 .. Len(stack)
      BY <2>1, <2>3
    <3>2. stack'[k] = stack[k]
      BY <1>1, <1>2, <1>6, <3>1, AppendProperties
    <3> QED BY <1>2, <2>1, <3>1, <3>2
  <2> QED BY <2>2, <2>3
<1> QED BY <1>1, <1>2, <1>3, <1>4, <1>5, <1>7, <1>8, Walked

LEMMA ResumeStep ==
  ASSUME PathInv, Resume, rules' = rules
  PROVE  PathInv'
<1> DEFINE n == stack[Len(stack)][1]
           side == stack[Len(stack)][2]
           D == (DOMAIN rules) \X {"left", "right"}
<1>1. /\ pc = "rules" /\ ctl = "return" /\ stack # <<>>
      /\ UNCHANGED <<pc, port, burst, cur, buf, orig, tx_queues, released, sent, lost, stats>>
      /\ \/ /\ ret >= 0 /\ stack' = [stack EXCEPT ![Len(stack)] = <<n, "right">>]
            /\ ctl' = "call" /\ node' = rules[n].right /\ ret' = ret
         \/ /\ stack' = SubSeq(stack, 1, Len(stack) - 1)
            /\ ret' = Result(rules[n].type, side, ret) /\ UNCHANGED <<ctl, node>>
  BY DEF Resume
<1>2. /\ Len(stack) \in Nat \ {0} /\ stack \in Seq(D)
      /\ \A k \in 1 .. Len(stack) : /\ stack[k][1] \in DOMAIN rules
                                    /\ rules[stack[k][1]].type \in InnerTypes
  BY <1>1, StackTop
<1>3. n \in DOMAIN rules /\ rules[n].type \in InnerTypes
  BY <1>2
<1>4. rules[n].right \in {0} \cup DOMAIN rules
  BY <1>3, NodeShape DEF PathInv, ControlInv, TypeOK
<1>5. /\ ret \in -1 .. 1 /\ node \in {0} \cup DOMAIN rules
      /\ Pkt.eth = "ipv4" /\ Pkt.op = orig[cur].frame.op
  BY <1>1 DEF PathInv, ControlInv, TypeOK, PacketsInv
<1> HIDE DEF n, side, D
<1>6. CASE /\ ret >= 0 /\ stack' = [stack EXCEPT ![Len(stack)] = <<n, "right">>]
           /\ ctl' = "call" /\ node' = rules[n].right /\ ret' = ret
  <2>1. InHand' = InHand
    BY <1>1, <1>5, <1>6 DEF InHand
  <2>2. <<n, "right">> \in D
    BY <1>3 DEF D
  <2>3. /\ stack' \in Seq(D) /\ DOMAIN stack' = 1 .. Len(stack)
        /\ stack'[Len(stack)] = <<n, "right">>
        /\ \A k \in 1 .. Len(stack) : k # Len(stack) => stack'[k] = stack[k]
    BY <1>2, <1>6, <2>2
  <2>4. \A k \in DOMAIN stack' : rules[stack'[k][1]].type \in InnerTypes
    BY <1>2, <1>3, <2>3
  <2> QED BY <1>1, <1>4, <1>5, <1>6, <2>1, <2>3, <2>4, Walked DEF D
<1>7. CASE /\ stack' = SubSeq(stack, 1, Len(stack) - 1)
           /\ ret' = Result(rules[n].type, side, ret) /\ UNCHANGED <<ctl, node>>
  <2>1. ret' \in -1 .. 1 /\ (ret' < 0 <=> ret < 0)
    BY <1>3, <1>5, <1>7, ResultSign
  <2>2. InHand' = InHand
    BY <1>1, <1>7, <2>1 DEF InHand
  <2>3. /\ stack' \in Seq(D) /\ DOMAIN stack' = 1 .. Len(stack) - 1
        /\ \A k \in 1 .. Len(stack) - 1 : stack'[k] = stack[k]
    BY <1>2, <1>7
  <2>4. \A k \in DOMAIN stack' : rules[stack'[k][1]].type \in InnerTypes
    BY <1>2, <2>3
  <2> QED BY <1>1, <1>5, <1>7, <2>1, <2>2, <2>3, <2>4, Walked DEF D
<1> QED BY <1>1, <1>6, <1>7

\* A packet that is in the rules.
LEMMA InRules ==
  ASSUME PathInv, pc = "rules", ctl = "call"
  PROVE  /\ cur \in Received /\ Pkt \in Packet /\ Pkt.eth = "ipv4"
         /\ Pkt.op = orig[cur].frame.op /\ Kept(Pkt, orig[cur].frame)
         /\ InHand = {cur} /\ cur \notin Queued \cup Gone
<1>1. cur \in Received /\ Pkt \in Packet
  BY CurReceived DEF PathInv
<1>2. InHand = {cur} /\ cur \notin Queued \cup Gone
  BY HandIsCur, HandOwned DEF PathInv
<1>3. Pkt.eth = "ipv4" /\ Pkt.op = orig[cur].frame.op
  BY DEF PathInv, PacketsInv
<1>4. Kept(buf[cur], orig[cur].frame)
  BY <1>1, <1>2 DEF PathInv, PacketsInv
<1> QED BY <1>1, <1>2, <1>3, <1>4 DEF Pkt

\* An action of the rules changes the packet to g and goes on with it, frees it,
\* or sends it.
LEMMA Acted ==
  ASSUME PathInv, pc = "rules", ctl = "call", rules' = rules, ctl' = "return",
         UNCHANGED <<pc, port, burst, cur, node, stack, orig, lost>>,
         NEW g \in Packet, buf' = [buf EXCEPT ![cur] = g],
         g.eth = Pkt.eth, g.op = Pkt.op,
         \/ ret' = -1 /\ \E c \in DropCounters : Free(cur, c)
         \/ /\ ret' = 0 /\ UNCHANGED <<tx_queues, released, sent, stats>>
            /\ Kept(g, orig[cur].frame)
         \/ /\ ret' = -1 /\ \E p \in Ports : Enqueue(cur, p)
            /\ Kept(g, orig[cur].frame) /\ g.tx_ipv4
  PROVE  PathInv'
<1>1. ControlInv /\ TxInv /\ PlacesInv /\ FlushInv /\ PacketsInv /\ TxTypes
  BY TxTypesHold DEF PathInv
<1>2. /\ buf' \in Seq(Packet) /\ Len(buf') = Len(buf) /\ Received' = Received
      /\ buf'[cur] = g /\ \A i \in Received \ {cur} : buf'[i] = buf[i]
  BY <1>1, Replace
<1>3. /\ cur \in Received /\ Pkt \in Packet /\ Pkt.eth = "ipv4"
      /\ Pkt.op = orig[cur].frame.op /\ Kept(Pkt, orig[cur].frame)
      /\ InHand = {cur} /\ cur \notin Queued \cup Gone
  BY InRules
<1>4. cur \notin sent
  BY <1>1, <1>3 DEF TxInv
<1>5. Answer(g, orig[cur].frame, orig[cur].port)
  BY <1>3 DEF Answer, IsAnswer, Kept
<1>6. /\ TxTypes' /\ TxInv'
      /\ InHand' \cup Queued' \cup Gone' = InHand \cup Queued \cup Gone
      /\ InHand' \cap (Queued' \cup Gone') = {}
      /\ Gone \subseteq Gone' /\ sent' \cup Queued' \subseteq sent \cup Queued \cup {cur}
      /\ cur \in sent' \/ cur \notin Gone' => Kept(g, orig[cur].frame)
      /\ cur \in sent' \cup Queued' => g.tx_ipv4
  <2>1. CASE ret' = -1 /\ \E c \in DropCounters : Free(cur, c)
    <3>1. PICK c \in DropCounters : Free(cur, c)
      BY <2>1
    <3>2. /\ TxTypes' /\ TxInv' /\ sent' = sent
          /\ Queued' = Queued /\ Gone' = Gone \cup {cur}
      BY <1>1, <1>2, <1>3, <3>1, FreeEffect
    <3>3. InHand' = {}
      BY <2>1 DEF InHand
    <3> QED BY <1>3, <1>4, <3>2, <3>3
  <2>2. CASE /\ ret' = 0 /\ UNCHANGED <<tx_queues, released, sent, stats>>
             /\ Kept(g, orig[cur].frame)
    <3>1. stats' \in [Counters -> Nat] /\ Dropped' = Dropped /\ Received \subseteq Ids
      BY <1>1, <2>2 DEF TxTypes, Dropped
    <3>2. TxTypes' /\ TxInv' /\ Queued' = Queued /\ Gone' = Gone
      BY <1>1, <1>2, <2>2, <3>1, QuietEffect
    <3>3. InHand' = {cur}
      BY <1>1, <2>2, CurReceived DEF InHand
    <3> QED BY <1>3, <1>4, <2>2, <3>2, <3>3
  <2>3. CASE /\ ret' = -1 /\ \E p \in Ports : Enqueue(cur, p)
             /\ Kept(g, orig[cur].frame) /\ g.tx_ipv4
    <3>1. PICK p \in Ports : Enqueue(cur, p)
      BY <2>3
    <3>2. /\ TxTypes' /\ TxInv'
          /\ Queued' \cup Gone' = Queued \cup Gone \cup {cur}
          /\ Gone \subseteq Gone' /\ sent' \cup Queued' \subseteq sent \cup Queued \cup {cur}
      BY <1>1, <1>2, <1>3, <3>1, SendEffect
    <3>3. InHand' = {}
      BY <2>3 DEF InHand
    <3> QED BY <1>3, <2>3, <3>2, <3>3
  <2> QED BY <2>1, <2>2, <2>3
<1>7. ControlInv'
  <2>1. /\ ctl' \in {"call", "return"} /\ node' \in {0} \cup DOMAIN rules
        /\ stack' \in Seq((DOMAIN rules) \X {"left", "right"})
        /\ \A k \in DOMAIN stack' : rules[stack'[k][1]].type \in InnerTypes
    BY <1>1 DEF ControlInv, TypeOK
  <2>2. lost' \subseteq Received
    BY <1>1 DEF ControlInv, TypeOK
  <2>3. ret' \in -1 .. 1
    OBVIOUS
  <2> QED BY <1>1, <1>2, <1>6, <2>1, <2>2, <2>3, ControlMove
<1>8. PlacesInv'
  BY <1>1, <1>2, <1>6, PlacesMove
<1>9. FlushInv'
  BY DEF FlushInv
<1>10. PacketsInv'
  BY <1>1, <1>2, <1>3, <1>5, <1>6, PacketsMove
<1> QED BY <1>6, <1>7, <1>8, <1>9, <1>10 DEF PathInv

LEMMA ExecuteStep ==
  ASSUME PathInv, Execute, rules' = rules
  PROVE  PathInv'
<1>1. /\ pc = "rules" /\ ctl = "call" /\ ctl' = "return"
      /\ UNCHANGED <<pc, port, burst, cur, node, stack, orig, lost>>
  BY DEF Execute
<1>2. /\ cur \in Received /\ Pkt \in Packet /\ Pkt.eth = "ipv4"
      /\ Pkt.op = orig[cur].frame.op /\ Kept(Pkt, orig[cur].frame)
  BY <1>1, InRules
<1>3. /\ rules \in RuleTrees /\ node \in {0} \cup DOMAIN rules /\ ControlInv
      /\ buf \in Seq(Packet)
  BY DEF PathInv, ControlInv, TypeOK
<1>4. CASE ret' \in {0, 1} /\ Quiet
  <2>1. InHand' = InHand
    BY <1>1, <1>4, <1>3 DEF InHand, ControlInv
  <2>2. /\ stack' \in Seq((DOMAIN rules) \X {"left", "right"})
        /\ \A k \in DOMAIN stack' : rules[stack'[k][1]].type \in InnerTypes
    BY <1>1 DEF PathInv, ControlInv, TypeOK
  <2>3. node' \in {0} \cup DOMAIN rules /\ ret' \in -1 .. 1 /\ ret' >= 0
    BY <1>1, <1>3, <1>4
  <2> QED BY <1>1, <1>2, <1>4, <2>1, <2>2, <2>3, Walked DEF Quiet
<1>5. CASE node = 0
  BY <1>4, <1>5 DEF Execute
<1>6. CASE node # 0
  <2>1. node \in DOMAIN rules /\ rules[node].type = "ACTION" /\ CallAction(node)
    BY <1>3, <1>6 DEF Execute
  <2>2. /\ rules[node].act = "nat" => rules[node].arg \in {"src", "dst"}
        /\ rules[node].act = "out" =>
             rules[node].arg.port \in Ports /\ rules[node].arg.vlan \in Nat
    BY <1>3, <2>1, NodeShape
  <2>3. CASE rules[node].act = "nat" /\ action_nat_rewrite(rules[node].arg)
    <3>1. /\ \E g \in Packet : /\ buf' = [buf EXCEPT ![cur] = g]
                               /\ g.eth = Pkt.eth /\ g.op = Pkt.op
                               /\ ret' = 0 => Kept(g, orig[cur].frame)
          /\ \/ ret' = -1 /\ Free(cur, "drop_no_rule")
             \/ ret' = 0 /\ UNCHANGED <<tx_queues, released, sent, stats>>
      <4>1. CASE rules[node].arg = "src"
        BY <1>1, <1>2, <1>3, <2>3, <4>1, NatSrc
      <4>2. CASE rules[node].arg = "dst"
        BY <1>1, <1>2, <1>3, <2>3, <4>2, NatDst
      <4> QED BY <2>2, <2>3, <4>1, <4>2
    <3>2. PICK g \in Packet : /\ buf' = [buf EXCEPT ![cur] = g]
                              /\ g.eth = Pkt.eth /\ g.op = Pkt.op
                              /\ ret' = 0 => Kept(g, orig[cur].frame)
      BY <3>1
    <3>3. "drop_no_rule" \in DropCounters
      BY DEF DropCounters, Counters
    <3> QED BY <1>1, <3>1, <3>2, <3>3, Acted
  <2>4. CASE rules[node].act = "out" /\ action_out(rules[node].arg)
    <3> DEFINE t == [Pkt EXCEPT !.tci = rules[node].arg.vlan, !.tx_ipv4 = TRUE]
               g == [t EXCEPT !.out = rules[node].arg.port]
    <3>1. /\ buf' = [buf EXCEPT ![cur] = g] /\ Enqueue(cur, rules[node].arg.port)
          /\ ret' = -1
      BY <2>4 DEF action_out, tx_send
    <3>2. rules[node].arg.port \in Ports /\ rules[node].arg.port \in Int
          /\ rules[node].arg.vlan \in Nat
      BY <2>2, <2>4, PortsAssumption DEF Ports
    <3>3. g \in Packet
      BY <1>2, <3>2 DEF Packet
    <3>4. /\ g.eth = Pkt.eth /\ g.op = Pkt.op /\ g.proto = Pkt.proto /\ g.frag = Pkt.frag
          /\ g.src = Pkt.src /\ g.dst = Pkt.dst /\ g.ip = Pkt.ip /\ g.l4 = Pkt.l4
          /\ g.offload = Pkt.offload /\ g.short = Pkt.short /\ g.inner = Pkt.inner
          /\ g.icmp = Pkt.icmp /\ g.tx_ipv4 = TRUE
      BY <1>2 DEF Packet
    <3> HIDE DEF g
    <3>5. Kept(g, orig[cur].frame)
      BY <1>2, <3>4 DEF Kept, IpRight, L4Kept, InnerRight, InnerFollows, HasInner
    <3> QED BY <1>1, <3>1, <3>2, <3>3, <3>4, <3>5, Acted
  <2>5. CASE rules[node].act = "drop" /\ action_drop
    <3>1. ret' = -1 /\ buf' = buf /\ Free(cur, "drop_nat_condition")
      BY <2>5 DEF action_drop
    <3>2. buf' = [buf EXCEPT ![cur] = Pkt]
      BY <1>2, <1>3, <3>1 DEF Received, Pkt
    <3>3. "drop_nat_condition" \in DropCounters
      BY DEF DropCounters, Counters
    <3> QED BY <1>1, <1>2, <3>1, <3>2, <3>3, Acted
  <2>6. CASE rules[node].act = "print" /\ ret' = 0 /\ Quiet
    BY <1>4, <2>6
  <2>7. CASE IsCond(node) /\ ret' = (IF CondHolds(node) THEN 1 ELSE 0) /\ Quiet
    BY <1>4, <2>7
  <2> QED BY <2>1, <2>3, <2>4, <2>5, <2>6, <2>7 DEF CallAction
<1> QED BY <1>5, <1>6

LEMMA RulesDoneStep ==
  ASSUME PathInv, RulesDone, rules' = rules
  PROVE  PathInv'
<1>1. /\ pc = "rules" /\ ctl = "return" /\ stack = <<>>
      /\ lost' = IF ret < 0 THEN lost ELSE lost \cup {cur}
      /\ node' = 0 /\ ret' = 0 /\ pc' = "dispatch" /\ cur' = 0
      /\ UNCHANGED <<port, burst, ctl, stack, buf, orig, tx_queues, released, sent, stats>>
  BY DEF RulesDone, PacketDone
<1>2. ControlInv /\ TxInv /\ PlacesInv /\ FlushInv /\ PacketsInv /\ TxTypes
  BY TxTypesHold DEF PathInv
<1>3. Received' = Received /\ Received \subseteq Ids /\ cur \in Received /\ cur # 0
  BY <1>1, <1>2, CurReceived DEF Received, TxTypes
<1>4. TxTypes' /\ TxInv' /\ Queued' = Queued /\ Gone' = Gone
  <2>1. stats' \in [Counters -> Nat] /\ Dropped' = Dropped
    BY <1>1, <1>2 DEF TxTypes, Dropped
  <2> QED BY <1>1, <1>2, <1>3, <2>1, QuietEffect
<1>5. ControlInv'
  <2>1. lost' \subseteq Received /\ buf' \in Seq(Packet)
    BY <1>1, <1>2, <1>3 DEF ControlInv, TypeOK
  <2>2. /\ stack' \in Seq((DOMAIN rules) \X {"left", "right"})
        /\ \A k \in DOMAIN stack' : rules[stack'[k][1]].type \in InnerTypes
    BY <1>1
  <2>3. ret' \in -1 .. 1 /\ ret' >= 0
    BY <1>1
  <2> QED BY <1>1, <1>2, <1>4, <2>1, <2>2, <2>3, ControlMove
<1>6. InHand' = {} /\ InBurst' = InBurst /\ lost' = lost \cup InHand
  BY <1>1, <1>3 DEF InHand, InBurst
<1>7. PlacesInv'
  <2>1. \A j, k \in DOMAIN burst' : burst'[j] = burst'[k] => j = k
    BY <1>1, <1>2 DEF PlacesInv
  <2>2. /\ InBurst' \cap (InHand' \cup Queued' \cup lost' \cup Gone') = {}
        /\ InHand' \cap (Queued' \cup lost' \cup Gone') = {}
        /\ lost' \cap (Queued' \cup Gone') = {}
        /\ Received' = InBurst' \cup InHand' \cup Queued' \cup lost' \cup Gone'
    BY <1>2, <1>3, <1>4, <1>6 DEF PlacesInv
  <2> QED BY <2>1, <2>2 DEF PlacesInv
<1>8. FlushInv'
  BY <1>1 DEF FlushInv
<1>9. PacketsInv'
  <2>1. InBurst' \cup (IF pc' = "ether" THEN {cur'} ELSE {})
          \subseteq InBurst \cup (IF pc = "ether" THEN {cur} ELSE {})
    BY <1>1, <1>6
  <2> QED BY <1>1, <1>2, <1>3, <1>4, <2>1 DEF PacketsInv
<1> QED BY <1>4, <1>5, <1>7, <1>8, <1>9 DEF PathInv

\* The first packet of the burst.
LEMMA BurstHead ==
  ASSUME PathInv, burst # <<>>, burst' = Tail(burst)
  PROVE  /\ burst' \in Seq(Received) /\ Head(burst) \in Received /\ Head(burst) \in InBurst
         /\ InBurst' = InBurst \ {Head(burst)}
         /\ \A j, k \in DOMAIN burst' : burst'[j] = burst'[k] => j = k
<1>1. burst \in Seq(Received)
  BY DEF PathInv, ControlInv, TypeOK
<1>2. /\ Len(burst) \in Nat \ {0} /\ DOMAIN burst = 1 .. Len(burst)
      /\ Head(burst) = burst[1] /\ Head(burst) \in Received
      /\ burst' \in Seq(Received) /\ DOMAIN burst' = 1 .. Len(burst) - 1
      /\ \A k \in 1 .. Len(burst) - 1 : burst'[k] = burst[k + 1]
  BY <1>1
<1>3. \A j, k \in DOMAIN burst : burst[j] = burst[k] => j = k
  BY DEF PathInv, PlacesInv
<1>4. \A j, k \in DOMAIN burst' : burst'[j] = burst'[k] => j = k
  <2> TAKE j, k \in DOMAIN burst'
  <2>1. j + 1 \in DOMAIN burst /\ k + 1 \in DOMAIN burst /\ j \in Nat /\ k \in Nat
    BY <1>2
  <2>2. burst'[j] = burst[j + 1] /\ burst'[k] = burst[k + 1]
    BY <1>2
  <2> HAVE burst'[j] = burst'[k]
  <2>3. j + 1 = k + 1
    BY <1>3, <2>1, <2>2
  <2> QED BY <2>1, <2>3
<1>5. InBurst' = InBurst \ {Head(burst)}
  <2>1. ASSUME NEW k \in DOMAIN burst'
        PROVE  burst'[k] \in InBurst /\ burst'[k] # burst[1]
    <3>1. k + 1 \in DOMAIN burst /\ 1 \in DOMAIN burst /\ k + 1 # 1
      BY <1>2
    <3>2. burst'[k] = burst[k + 1]
      BY <1>2
    <3> QED BY <1>3, <3>1, <3>2 DEF InBurst
  <2>2. ASSUME NEW k \in DOMAIN burst, burst[k] # burst[1]
        PROVE  \E j \in DOMAIN burst' : burst[k] = burst'[j]
    <3>1. k - 1 \in DOMAIN burst' /\ (k - 1) + 1 = k
      BY <1>2, <2>2
    <3>2. burst'[k - 1] = burst[k]
      BY <1>2, <3>1
    <3> QED BY <3>1, <3>2
  <2> QED BY <1>2, <2>1, <2>2 DEF InBurst
<1>6. Head(burst) \in InBurst
  <2>1. 1 \in DOMAIN burst
    BY <1>2
  <2> QED BY <1>2, <2>1 DEF InBurst
<1> QED BY <1>2, <1>4, <1>5, <1>6

LEMMA AcceptStep ==
  ASSUME PathInv, Accept, rules' = rules
  PROVE  PathInv'
<1> DEFINE i == Head(burst)
<1>1. /\ pc = "dispatch" /\ burst # <<>> /\ burst' = Tail(burst)
      /\ UNCHANGED <<port, rulesVars, buf, orig, lost>>
      /\ \/ Free(i, "drop_bad_l3_cksum") /\ UNCHANGED <<pc, cur>>
         \/ /\ pc' = "ether" /\ cur' = i
            /\ stats' = [stats EXCEPT !["rx_bad_l4_cksum"] =
                           @ + IF buf[i].l4bad THEN 1 ELSE 0]
            /\ UNCHANGED <<released, tx_queues, sent>>
  BY DEF Accept
<1>2. ControlInv /\ TxInv /\ PlacesInv /\ FlushInv /\ PacketsInv /\ TxTypes
  BY TxTypesHold DEF PathInv
<1>3. Received' = Received /\ Received \subseteq Ids
  BY <1>1, <1>2 DEF Received, TxTypes
<1>4. /\ burst' \in Seq(Received) /\ i \in Received /\ i \in InBurst
      /\ InBurst' = InBurst \ {i}
      /\ \A j, k \in DOMAIN burst' : burst'[j] = burst'[k] => j = k
  BY <1>1, BurstHead
<1>5. i # 0 /\ cur = 0 /\ InHand = {}
  BY <1>1, <1>2, <1>3, <1>4 DEF ControlInv, InHand, Ids
<1> HIDE DEF i
<1>6. i \notin Queued \cup Gone \cup lost
  BY <1>2, <1>4 DEF PlacesInv
<1>7. /\ ctl' \in {"call", "return"} /\ node' \in {0} \cup DOMAIN rules
      /\ ret' \in -1 .. 1 /\ ret' >= 0
      /\ stack' \in Seq((DOMAIN rules) \X {"left", "right"})
      /\ \A k \in DOMAIN stack' : rules[stack'[k][1]].type \in InnerTypes
      /\ rules' \in RuleTrees /\ port' \in Ports
      /\ Len(buf') <= MaxRx /\ Len(orig') = Len(buf') /\ lost' \subseteq Received
      /\ buf' \in Seq(Packet) /\ orig' \in Seq([frame : Frames, port : Ports])
  BY <1>1, <1>2 DEF ControlInv, TypeOK, rulesVars
<1>8. CASE Free(i, "drop_bad_l3_cksum") /\ UNCHANGED <<pc, cur>>
  <2>1. "drop_bad_l3_cksum" \in DropCounters
    BY DEF DropCounters, Counters
  <2>2. /\ TxTypes' /\ TxInv' /\ sent' = sent
        /\ Queued' = Queued /\ Gone' = Gone \cup {i}
    BY <1>2, <1>3, <1>4, <1>6, <1>8, <2>1, FreeEffect
  <2>3. InHand' = {} /\ pc' = "dispatch" /\ cur' = 0
    BY <1>1, <1>5, <1>8 DEF InHand
  <2>4. ControlInv'
    <3>1. TypeOK'
      BY <1>3, <1>4, <1>7, <2>2, <2>3 DEF TypeOK, TxTypes
    <3> QED BY <1>7, <2>3, <3>1 DEF ControlInv
  <2>5. PlacesInv'
    <3>1. /\ InBurst' \cap (InHand' \cup Queued' \cup lost' \cup Gone') = {}
          /\ InHand' \cap (Queued' \cup lost' \cup Gone') = {}
          /\ lost' \cap (Queued' \cup Gone') = {}
          /\ Received' = InBurst' \cup InHand' \cup Queued' \cup lost' \cup Gone'
      BY <1>1, <1>2, <1>3, <1>4, <1>5, <1>6, <2>2, <2>3 DEF PlacesInv
    <3> QED BY <1>4, <3>1 DEF PlacesInv
  <2>6. FlushInv'
    BY <2>3 DEF FlushInv
  <2>7. PacketsInv'
    <3>1. InBurst' \cup (IF pc' = "ether" THEN {cur'} ELSE {}) \subseteq InBurst
      BY <1>4, <2>3
    <3> QED BY <1>1, <1>2, <1>3, <2>2, <2>3, <3>1 DEF PacketsInv
  <2> QED BY <2>2, <2>4, <2>5, <2>6, <2>7 DEF PathInv
<1>9. CASE /\ pc' = "ether" /\ cur' = i
           /\ stats' = [stats EXCEPT !["rx_bad_l4_cksum"] =
                          @ + IF buf[i].l4bad THEN 1 ELSE 0]
           /\ UNCHANGED <<released, tx_queues, sent>>
  <2>1. stats' \in [Counters -> Nat] /\ Dropped' = Dropped
    BY <1>2, <1>9 DEF TxTypes, Dropped, Counters
  <2>2. TxTypes' /\ TxInv' /\ Queued' = Queued /\ Gone' = Gone
    BY <1>2, <1>3, <1>9, <2>1, QuietEffect
  <2>3. InHand' = {i}
    BY <1>5, <1>9 DEF InHand
  <2>4. ControlInv'
    <3>1. TypeOK'
      BY <1>3, <1>4, <1>7, <1>9, <2>2 DEF TypeOK, TxTypes
    <3> QED BY <1>5, <1>7, <1>9, <3>1 DEF ControlInv
  <2>5. PlacesInv'
    <3>1. /\ InBurst' \cap (InHand' \cup Queued' \cup lost' \cup Gone') = {}
          /\ InHand' \cap (Queued' \cup lost' \cup Gone') = {}
          /\ lost' \cap (Queued' \cup Gone') = {}
          /\ Received' = InBurst' \cup InHand' \cup Queued' \cup lost' \cup Gone'
      BY <1>1, <1>2, <1>3, <1>4, <1>5, <1>6, <2>2, <2>3 DEF PlacesInv
    <3> QED BY <1>4, <3>1 DEF PlacesInv
  <2>6. FlushInv'
    BY <1>9 DEF FlushInv
  <2>7. PacketsInv'
    <3>1. InBurst' \cup (IF pc' = "ether" THEN {cur'} ELSE {}) \subseteq InBurst
      BY <1>4, <1>9
    <3> QED BY <1>1, <1>2, <1>3, <1>9, <2>2, <3>1 DEF PacketsInv
  <2> QED BY <2>2, <2>4, <2>5, <2>6, <2>7 DEF PathInv
<1> QED BY <1>1, <1>8, <1>9

\* A frame is kept as long as nothing is done to it.
LEMMA FrameKept ==
  ASSUME NEW f \in Frames
  PROVE  f \in Packet /\ Kept(f, f)
<1>1. f \in Packet /\ ~f.offload /\ (f.eth = "ipv4" => f.src + f.dst # 0)
  BY FramesAssumption
<1>2. L4Right(f) => L4Kept(f)
  BY <1>1 DEF L4Right, L4Kept
<1>3. InnerFollows(f, f)
  BY DEF InnerFollows
<1> QED BY <1>1, <1>2, <1>3 DEF Kept

\* A burst is added to what was received.
LEMMA Appended ==
  ASSUME NEW S, NEW s \in Seq(S), NEW t \in Seq(S)
  PROVE  /\ s \o t \in Seq(S) /\ Len(s \o t) = Len(s) + Len(t)
         /\ \A i \in 1 .. Len(s) : (s \o t)[i] = s[i]
         /\ \A k \in 1 .. Len(t) : (s \o t)[Len(s) + k] = t[k]
<1> DEFINE u == s \o t
<1>1. /\ u \in Seq(S) /\ Len(u) = Len(s) + Len(t) /\ Len(s) \in Nat /\ Len(t) \in Nat
      /\ \A i \in 1 .. Len(s) + Len(t) : u[i] = IF i <= Len(s) THEN s[i] ELSE t[i - Len(s)]
  BY ConcatProperties, LenProperties
<1> HIDE DEF u
<1>2. \A i \in 1 .. Len(s) : i \in 1 .. Len(s) + Len(t) /\ i <= Len(s)
  BY <1>1
<1>3. \A k \in 1 .. Len(t) : /\ Len(s) + k \in 1 .. Len(s) + Len(t)
                             /\ ~(Len(s) + k <= Len(s)) /\ (Len(s) + k) - Len(s) = k
  BY <1>1
<1>4. /\ \A i \in 1 .. Len(s) : u[i] = s[i]
      /\ \A k \in 1 .. Len(t) : u[Len(s) + k] = t[k]
  BY <1>1, <1>2, <1>3
<1> QED BY <1>1, <1>4 DEF u

LEMMA RxBurstStep ==
  ASSUME PathInv, RxBurst, rules' = rules
  PROVE  PathInv'
<1>1. PICK n \in 0 .. MAX_RX_BURST :
        /\ Len(buf) + n <= MaxRx
        /\ \E fs \in [1 .. n -> Frames] :
             /\ buf' = buf \o fs
             /\ orig' = orig \o [k \in 1 .. n |-> [frame |-> fs[k], port |-> port]]
        /\ burst' = [k \in 1 .. n |-> Len(buf) + k]
  BY DEF RxBurst
<1>2. PICK fs \in [1 .. n -> Frames] :
        /\ buf' = buf \o fs
        /\ orig' = orig \o [k \in 1 .. n |-> [frame |-> fs[k], port |-> port]]
  BY <1>1
<1>3. /\ pc = "rx" /\ pc' = "dispatch"
      /\ UNCHANGED <<port, cur, rulesVars, tx_queues, released, sent, lost, stats>>
  BY DEF RxBurst
<1>4. ControlInv /\ TxInv /\ PlacesInv /\ FlushInv /\ PacketsInv /\ TxTypes
  BY TxTypesHold DEF PathInv
<1> DEFINE os == [k \in 1 .. n |-> [frame |-> fs[k], port |-> port]]
           O == [frame : Frames, port : Ports]
<1>5. /\ n \in Nat /\ buf \in Seq(Packet) /\ orig \in Seq(O) /\ Len(orig) = Len(buf)
      /\ Len(buf) \in Nat /\ burst = <<>> /\ cur = 0 /\ port \in Ports
  BY <1>3, <1>4, BurstAssumption DEF ControlInv, TypeOK
<1>6. fs \in Seq(Frames) /\ Len(fs) = n
  <2>1. fs \in Seq(Frames)
    BY <1>5, SeqDef
  <2> QED BY <1>5, <2>1, LenProperties
<1>7. os \in Seq(O) /\ Len(os) = n /\ \A k \in 1 .. n : os[k].frame = fs[k] /\ os[k].port = port
  <2>1. os \in [1 .. n -> O]
    BY <1>5
  <2>2. os \in Seq(O)
    BY <1>5, <2>1, SeqDef
  <2> QED BY <1>5, <2>1, <2>2, LenProperties
<1>8. fs \in Seq(Packet)
  BY <1>6, FramesAssumption, SeqMonotonic
<1>9. /\ buf' \in Seq(Packet) /\ Len(buf') = Len(buf) + n
      /\ \A i \in 1 .. Len(buf) : buf'[i] = buf[i]
      /\ \A k \in 1 .. n : buf'[Len(buf) + k] = fs[k]
  <2>1. /\ buf \o fs \in Seq(Packet) /\ Len(buf \o fs) = Len(buf) + Len(fs)
        /\ \A i \in 1 .. Len(buf) : (buf \o fs)[i] = buf[i]
        /\ \A k \in 1 .. Len(fs) : (buf \o fs)[Len(buf) + k] = fs[k]
    BY <1>5, <1>8, Appended
  <2> QED BY <1>2, <1>6, <2>1
<1> HIDE DEF os, O
<1>10. orig' = orig \o os
  BY <1>2 DEF os
<1>11. /\ orig' \in Seq(O) /\ Len(orig') = Len(buf')
       /\ \A i \in 1 .. Len(buf) : orig'[i] = orig[i]
       /\ \A k \in 1 .. n : orig'[Len(buf) + k] = os[k]
  <2>1. /\ orig \o os \in Seq(O) /\ Len(orig \o os) = Len(orig) + Len(os)
        /\ \A i \in 1 .. Len(orig) : (orig \o os)[i] = orig[i]
        /\ \A k \in 1 .. Len(os) : (orig \o os)[Len(orig) + k] = os[k]
    BY <1>5, <1>7, Appended
  <2> QED BY <1>5, <1>7, <1>9, <1>10, <2>1
<1>12. /\ Received \subseteq Received' /\ Received' \subseteq Ids
       /\ Received = 1 .. Len(buf) /\ Received' = 1 .. Len(buf) + n
  BY <1>1, <1>5, <1>9, BurstAssumption DEF Received, Ids
<1>13. /\ burst' \in [1 .. n -> Received'] /\ DOMAIN burst' = 1 .. n
       /\ \A k \in 1 .. n : burst'[k] = Len(buf) + k
  BY <1>1, <1>5, <1>12
<1>14. burst' \in Seq(Received')
  BY <1>5, <1>13, SeqDef
<1>15. InBurst = {} /\ InBurst' = Received' \ Received
  <2>1. \A i \in Received' \ Received : i - Len(buf) \in 1 .. n /\ i = Len(buf) + (i - Len(buf))
    BY <1>5, <1>12
  <2>2. \A k \in 1 .. n : Len(buf) + k \in Received' \ Received
    BY <1>5, <1>12
  <2> QED BY <1>5, <1>13, <2>1, <2>2 DEF InBurst
<1>16. InHand = {} /\ InHand' = {}
  BY <1>3, <1>5 DEF InHand
<1>17. TxTypes' /\ TxInv' /\ Queued' = Queued /\ Gone' = Gone
  <2>1. stats' \in [Counters -> Nat] /\ Dropped' = Dropped
    BY <1>3, <1>4 DEF TxTypes, Dropped
  <2> QED BY <1>3, <1>4, <1>12, <2>1, QuietEffect
<1>18. ControlInv'
  <2>1. /\ ctl' \in {"call", "return"} /\ node' \in {0} \cup DOMAIN rules
        /\ ret' \in -1 .. 1 /\ ret' >= 0
        /\ stack' \in Seq((DOMAIN rules) \X {"left", "right"})
        /\ \A k \in DOMAIN stack' : rules[stack'[k][1]].type \in InnerTypes
        /\ rules' \in RuleTrees /\ port' \in Ports /\ lost' \subseteq Received
    BY <1>3, <1>4 DEF ControlInv, TypeOK, rulesVars
  <2>2. Len(buf') <= MaxRx /\ Len(orig') = Len(buf')
    BY <1>1, <1>9, <1>11
  <2>3. TypeOK'
    BY <1>3, <1>5, <1>12, <1>14, <1>17, <2>1, <2>2 DEF TypeOK, TxTypes
  <2> QED BY <1>3, <1>5, <1>9, <1>11, <2>1, <2>3 DEF ControlInv, O
<1>19. PlacesInv'
  <2>1. \A j, k \in DOMAIN burst' : burst'[j] = burst'[k] => j = k
    BY <1>5, <1>13
  <2>2. lost \subseteq Received /\ Queued \subseteq Received /\ Gone \subseteq Received
    BY <1>4 DEF PlacesInv
  <2>3. /\ InBurst' \cap (InHand' \cup Queued' \cup lost' \cup Gone') = {}
        /\ InHand' \cap (Queued' \cup lost' \cup Gone') = {}
        /\ lost' \cap (Queued' \cup Gone') = {}
        /\ Received' = InBurst' \cup InHand' \cup Queued' \cup lost' \cup Gone'
    BY <1>3, <1>4, <1>12, <1>15, <1>16, <1>17, <2>2 DEF PlacesInv
  <2> QED BY <2>1, <2>3 DEF PlacesInv
<1>20. FlushInv'
  BY <1>3 DEF FlushInv
<1>21. PacketsInv'
  <2>1. ASSUME NEW i \in Received' \ Received
        PROVE  /\ buf'[i] \in Frames /\ buf'[i] = orig'[i].frame
               /\ orig'[i].port = port' /\ Kept(buf'[i], orig'[i].frame)
    <3>1. PICK k \in 1 .. n : i = Len(buf) + k
      <4>1. i - Len(buf) \in 1 .. n /\ i = Len(buf) + (i - Len(buf))
        BY <1>5, <1>12, <2>1
      <4> QED BY <4>1
    <3>2. buf'[i] = fs[k] /\ orig'[i] = os[k] /\ fs[k] \in Frames
      BY <1>9, <1>11, <3>1
    <3>3. orig'[i].frame = fs[k] /\ orig'[i].port = port
      BY <1>7, <3>2
    <3> QED BY <1>3, <3>2, <3>3, FrameKept
  <2>2. \A i \in Received : buf'[i] = buf[i] /\ orig'[i] = orig[i]
    BY <1>9, <1>11, <1>12
  <2>3. \A i \in Received' : i \in sent' \/ i \notin Gone' => Kept(buf'[i], orig'[i].frame)
    BY <1>3, <1>4, <1>17, <2>1, <2>2 DEF PacketsInv
  <2>4. \A i \in InBurst' \cup (IF pc' = "ether" THEN {cur'} ELSE {}) :
          buf'[i] = orig'[i].frame /\ orig'[i].port = port'
    BY <1>3, <1>15, <2>1
  <2>5. ASSUME NEW i \in Queued' \cup sent'
        PROVE  /\ Answer(buf'[i], orig'[i].frame, orig'[i].port)
               /\ buf'[i].proto \in {"tcp", "udp"} /\ buf'[i].eth = "ipv4" => buf'[i].tx_ipv4
    <3>1. i \in Queued \cup sent /\ i \in Received
      BY <1>3, <1>4, <1>17 DEF PlacesInv, TxInv
    <3> QED BY <1>4, <2>2, <3>1 DEF PacketsInv
  <2>6. pc' # "rules"
    BY <1>3
  <2> QED BY <2>3, <2>4, <2>5, <2>6 DEF PacketsInv
<1> QED BY <1>17, <1>18, <1>19, <1>20, <1>21 DEF PathInv

\* A step between packets, which may release what is queued.
LEMMA Between ==
  ASSUME PathInv, burst = <<>>, cur = 0, pc' \in {"rx", "flush"}, port' \in Ports,
         rules' = rules, UNCHANGED <<burst, cur, rulesVars, buf, orig, lost>>,
         TxTypes', TxInv', Queued' \cup Gone' = Queued \cup Gone, Gone \subseteq Gone',
         sent' \cup Queued' \subseteq sent \cup Queued, FlushInv'
  PROVE  PathInv'
<1>1. ControlInv /\ TxInv /\ PlacesInv /\ PacketsInv
  BY DEF PathInv
<1>2. Received' = Received /\ InHand = {} /\ InHand' = {} /\ InBurst = {} /\ InBurst' = {}
  BY DEF Received, InHand, InBurst
<1>3. ControlInv'
  <2>1. /\ ctl' \in {"call", "return"} /\ node' \in {0} \cup DOMAIN rules
        /\ ret' \in -1 .. 1 /\ ret' >= 0
        /\ stack' \in Seq((DOMAIN rules) \X {"left", "right"})
        /\ \A k \in DOMAIN stack' : rules[stack'[k][1]].type \in InnerTypes
        /\ rules' \in RuleTrees /\ lost' \subseteq Received /\ burst' \in Seq(Received)
        /\ Len(buf') <= MaxRx /\ Len(orig') = Len(buf')
        /\ buf' \in Seq(Packet) /\ orig' \in Seq([frame : Frames, port : Ports])
    BY <1>1 DEF ControlInv, TypeOK, rulesVars
  <2>2. TypeOK'
    BY <1>2, <2>1 DEF TypeOK, TxTypes
  <2> QED BY <2>1, <2>2 DEF ControlInv
<1>4. PlacesInv'
  BY <1>1, <1>2, PlacesMove
<1>5. PacketsInv'
  <2>1. \A i \in Received' : i \in sent' \/ i \notin Gone' => Kept(buf'[i], orig'[i].frame)
    BY <1>1, <1>2 DEF PacketsInv, TxInv
  <2>2. \A i \in Queued' \cup sent' :
          /\ Answer(buf'[i], orig'[i].frame, orig'[i].port)
          /\ buf'[i].proto \in {"tcp", "udp"} /\ buf'[i].eth = "ipv4" => buf'[i].tx_ipv4
    BY <1>1 DEF PacketsInv
  <2> QED BY <1>2, <2>1, <2>2 DEF PacketsInv
<1> QED BY <1>3, <1>4, <1>5 DEF PathInv

LEMMA NextPortStep ==
  ASSUME PathInv, NextPort, rules' = rules
  PROVE  PathInv'
<1>1. /\ pc = "dispatch" /\ burst = <<>>
      /\ IF port + 1 \in Ports THEN port' = port + 1 /\ pc' = "rx"
                               ELSE port' = 0 /\ pc' = "flush"
      /\ UNCHANGED <<burst, cur, rulesVars, buf, orig, tx_queues, released, sent, lost, stats>>
  BY DEF NextPort
<1>2. ControlInv /\ TxInv /\ TxTypes /\ cur = 0 /\ port \in Ports
  BY <1>1, TxTypesHold DEF PathInv, ControlInv, TypeOK
<1>3. Received' = Received /\ Received \subseteq Ids
  BY <1>1, <1>2 DEF Received, TxTypes
<1>4. TxTypes' /\ TxInv' /\ Queued' = Queued /\ Gone' = Gone
  <2>1. stats' \in [Counters -> Nat] /\ Dropped' = Dropped
    BY <1>1, <1>2 DEF TxTypes, Dropped
  <2> QED BY <1>1, <1>2, <1>3, <2>1, QuietEffect
<1>5. port' \in Ports /\ pc' \in {"rx", "flush"}
  BY <1>1, PortsAssumption DEF Ports
<1>6. FlushInv'
  BY <1>1, <1>2, PortsAssumption DEF FlushInv, Ports
<1> QED BY <1>1, <1>2, <1>4, <1>5, <1>6, Between

LEMMA TxFlushStep ==
  ASSUME PathInv, TxFlush, rules' = rules
  PROVE  PathInv'
<1> DEFINE q == tx_queues[port]
<1>1. /\ pc = "flush"
      /\ IF q = <<>> THEN UNCHANGED <<tx_queues, released, sent, stats>>
                     ELSE \E n \in 0 .. Len(q) : Flush(port, q, n)
      /\ IF port + 1 \in Ports THEN port' = port + 1 /\ UNCHANGED pc
                               ELSE port' = 0 /\ pc' = "rx"
      /\ UNCHANGED <<burst, cur, rulesVars, buf, orig, lost>>
  BY DEF TxFlush
<1>2. /\ ControlInv /\ TxInv /\ TxTypes /\ cur = 0 /\ burst = <<>> /\ port \in Ports
      /\ FlushInv
  BY <1>1, TxTypesHold DEF PathInv, ControlInv, TypeOK
<1>3. Received' = Received /\ Received \subseteq Ids
  BY <1>1, <1>2 DEF Received, TxTypes
<1>4. /\ TxTypes' /\ TxInv' /\ tx_queues' = [tx_queues EXCEPT ![port] = <<>>]
      /\ Queued' \cup Gone' = Queued \cup Gone /\ Gone \subseteq Gone'
      /\ sent' \cup Queued' \subseteq sent \cup Queued
  <2>1. CASE q = <<>>
    <3>1. UNCHANGED <<tx_queues, released, sent, stats>>
      BY <1>1, <2>1
    <3>2. stats' \in [Counters -> Nat] /\ Dropped' = Dropped
      BY <1>2, <3>1 DEF TxTypes, Dropped
    <3>3. TxTypes' /\ TxInv' /\ Queued' = Queued /\ Gone' = Gone
      BY <1>2, <1>3, <3>1, <3>2, QuietEffect
    <3>4. tx_queues' = [tx_queues EXCEPT ![port] = <<>>]
      BY <1>2, <2>1, <3>1 DEF TxTypes
    <3> QED BY <3>1, <3>3, <3>4
  <2>2. CASE q # <<>>
    <3>1. PICK n \in 0 .. Len(q) : Flush(port, q, n)
      BY <1>1, <2>2
    <3>2. q \in Seq(Received)
      BY <1>2 DEF TxTypes
    <3>3. \A j, k \in DOMAIN q : q[j] = q[k] => j = k
      BY <1>2 DEF TxInv
    <3>4. \A k \in DOMAIN q : q[k] \in Queued
      BY <1>2 DEF Queued
    <3>5. \A k \in DOMAIN q : q[k] \notin Gone
      BY <1>2, <3>4 DEF TxInv
    <3>6. \A j \in DOMAIN tx_queues[port] : \E k \in DOMAIN q : tx_queues[port][j] = q[k]
      OBVIOUS
    <3>7. \A r \in Ports \ {port} : \A j \in DOMAIN tx_queues[r] : \A k \in DOMAIN q :
            tx_queues[r][j] # q[k]
      BY <1>2 DEF TxInv
    <3> DEFINE R == {q[k] : k \in DOMAIN q}
    <3>8. \A x : x \in R <=> \E k \in DOMAIN q : x = q[k]
      OBVIOUS
    <3>9. R \subseteq Queued
      BY <3>4
    <3> HIDE DEF q, R
    <3>10. /\ TxTypes' /\ TxInv' /\ tx_queues' = [tx_queues EXCEPT ![port] = <<>>]
           /\ Queued' = Queued \ R /\ Gone' = Gone \cup R
           /\ sent \subseteq sent' /\ sent' \subseteq sent \cup R
      BY <1>2, <1>3, <3>1, <3>2, <3>3, <3>5, <3>6, <3>7, <3>8, FlushEffect
    <3> QED BY <3>9, <3>10
  <2> QED BY <2>1, <2>2
<1>5. port' \in Ports /\ pc' \in {"rx", "flush"}
  BY <1>1, PortsAssumption DEF Ports
<1>6. FlushInv'
  <2>1. \A p \in Ports : p < port \/ p = port => tx_queues'[p] = <<>>
    BY <1>1, <1>2, <1>4 DEF FlushInv, TxTypes
  <2>2. CASE port + 1 \in Ports
    <3>1. \A p \in Ports : p < port + 1 => p < port \/ p = port
      BY <1>2, PortsAssumption DEF Ports
    <3> QED BY <1>1, <2>1, <2>2, <3>1 DEF FlushInv
  <2>3. CASE port + 1 \notin Ports
    <3>1. \A p \in Ports : p < port \/ p = port
      BY <1>2, <2>3, PortsAssumption DEF Ports
    <3> QED BY <1>1, <2>1, <2>3, <3>1 DEF FlushInv
  <2> QED BY <2>2, <2>3
<1> QED BY <1>1, <1>2, <1>4, <1>5, <1>6, Between

-----------------------------------------------------------------------------
(* PathInv is an invariant. *)

LEMMA PathInit == Init => PathInv
<1> SUFFICES ASSUME Init
             PROVE  PathInv
  OBVIOUS
<1>1. Received = {} /\ Len(buf) = 0 /\ Len(orig) = 0
  BY DEF Init, Received
<1>2. Queued = {} /\ Gone = {} /\ InBurst = {} /\ InHand = {}
  BY <1>1 DEF Init, Queued, Gone, InBurst, InHand
<1>3. TypeOK
  <2>1. 0 \in Ports
    BY PortsAssumption DEF Ports
  <2>2. tx_queues \in [Ports -> Seq(Received)] /\ \A p \in Ports : Len(tx_queues[p]) < MAX_TX_BURST
    BY BurstAssumption DEF Init
  <2>3. /\ burst \in Seq(Received) /\ stack \in Seq((DOMAIN rules) \X {"left", "right"})
        /\ ret \in -1 .. 1 /\ released \in [Ids -> Nat] /\ stats \in [Counters -> Nat]
    BY DEF Init
  <2> QED BY <1>1, <2>1, <2>2, <2>3, BurstAssumption DEF Init, TypeOK
<1>4. ControlInv
  BY <1>3 DEF Init, ControlInv
<1>5. DropsAreCounted
  <2>1. Cardinality(Gone) = 0 /\ Cardinality(sent) = 0
    BY <1>2, FS_EmptySet DEF Init
  <2>2. Dropped = 0
    BY DEF Init, Dropped, Counters
  <2> QED BY <2>1, <2>2 DEF DropsAreCounted
<1>6. TxInv
  BY <1>2, <1>5 DEF Init, TxInv
<1>7. PlacesInv
  BY <1>1, <1>2 DEF Init, PlacesInv
<1>8. FlushInv
  BY DEF Init, FlushInv
<1>9. PacketsInv
  BY <1>1, <1>2 DEF Init, PacketsInv
<1> QED BY <1>4, <1>6, <1>7, <1>8, <1>9 DEF PathInv

LEMMA PathStutter ==
  ASSUME PathInv, UNCHANGED vars
  PROVE  PathInv'
<1>1. UNCHANGED <<rules, pc, port, burst, cur, ctl, node, ret, stack, buf, orig, tx_queues,
                  released, sent, lost, stats>>
  BY DEF vars, rulesVars
<1>2. /\ Received' = Received /\ Queued' = Queued /\ Gone' = Gone /\ InBurst' = InBurst
      /\ InHand' = InHand /\ Pkt' = Pkt /\ Dropped' = Dropped
  BY <1>1 DEF Received, Queued, Gone, InBurst, InHand, Pkt, Dropped
<1>3. ControlInv'
  BY <1>1, <1>2 DEF PathInv, ControlInv, TypeOK
<1>4. TxInv'
  BY <1>1, <1>2 DEF PathInv, TxInv, DropsAreCounted
<1>5. PlacesInv' /\ FlushInv'
  BY <1>1, <1>2 DEF PathInv, PlacesInv, FlushInv
<1>6. PacketsInv'
  BY <1>1, <1>2 DEF PathInv, PacketsInv
<1> QED BY <1>3, <1>4, <1>5, <1>6 DEF PathInv

\* Every step of the worker keeps PathInv.
LEMMA PathStep == PathInv /\ [Next]_vars => PathInv'
<1> SUFFICES ASSUME PathInv, [Next]_vars
             PROVE  PathInv'
  OBVIOUS
<1>1. CASE UNCHANGED vars
  BY <1>1, PathStutter
<1>2. CASE Next
  <2>1. rules' = rules
    BY <1>2 DEF Next
  <2>2. CASE RxBurst
    BY <2>1, <2>2, RxBurstStep
  <2>3. CASE NextPort
    BY <2>1, <2>3, NextPortStep
  <2>4. CASE Accept
    BY <2>1, <2>4, AcceptStep
  <2>5. CASE ArpReply
    BY <2>1, <2>5, ArpReplyStep
  <2>6. CASE IcmpEcho
    BY <2>1, <2>6, IcmpEchoStep
  <2>7. CASE IcmpUnknown \/ Unhandled
    BY <2>1, <2>7, DroppedStep
  <2>8. CASE EnterRules
    BY <2>1, <2>8, EnterRulesStep
  <2>9. CASE Descend
    BY <2>1, <2>9, DescendStep
  <2>10. CASE Execute
    BY <2>1, <2>10, ExecuteStep
  <2>11. CASE Resume
    BY <2>1, <2>11, ResumeStep
  <2>12. CASE RulesDone
    BY <2>1, <2>12, RulesDoneStep
  <2>13. CASE TxFlush
    BY <2>1, <2>13, TxFlushStep
  <2> QED BY <1>2, <2>2, <2>3, <2>4, <2>5, <2>6, <2>7, <2>8, <2>9, <2>10, <2>11, <2>12,
            <2>13 DEF Next
<1> QED BY <1>1, <1>2

\* The inductive invariant holds in every state of every behaviour.
THEOREM PathInvariant == Spec => []PathInv
BY PathInit, PathStep, PTL DEF Spec

-----------------------------------------------------------------------------
(* What follows from it. *)

\* Every variable of the worker keeps its type; in particular no transmit queue
\* ever holds MAX_TX_BURST packets between two steps.
THEOREM PathTypes == Spec => []TypeOK
<1>1. PathInv => TypeOK
  BY DEF PathInv, ControlInv
<1> QED BY <1>1, PathInvariant, PTL

\* The statistics account for every packet that was received and not sent.
THEOREM EveryDropCounted == Spec => []DropsAreCounted
<1>1. PathInv => DropsAreCounted
  BY DEF PathInv, TxInv
<1> QED BY <1>1, PathInvariant, PTL

\* No packet waits in a transmit queue when main_loop starts a new turn.
THEOREM NothingWaits == Spec => []QueuesDrained
<1>1. PathInv => QueuesDrained
  BY DEF PathInv, FlushInv, QueuesDrained, Queued
<1> QED BY <1>1, PathInvariant, PTL

\* The replies to ARP requests and pings are NATASHA's own, to whoever asked, and
\* are given to tx_send for the port the request came in: under any rules, and
\* with addresses of any of the ports.
THEOREM OwnAnswers == Spec => []AnswersAreOurs
<1>1. PathInv => AnswersAreOurs
  BY DEF PathInv, PacketsInv, AnswersAreOurs, Answer
<1> QED BY <1>1, PathInvariant, PTL

\* Any rules and any number of rewrites keep the checksums of a packet right.
THEOREM ChecksumsKept == Spec => []ChecksumsRightOnWire
<1>1. ASSUME PathInv, NEW i \in sent, buf[i].eth = "ipv4"
      PROVE  /\ IpRight(orig[i].frame) => IpRight(buf[i])
             /\ L4Right(orig[i].frame) => L4Right(buf[i])
             /\ InnerRight(orig[i].frame) => InnerRight(buf[i])
  <2>1. i \in Received /\ Kept(buf[i], orig[i].frame)
    BY <1>1 DEF PathInv, PacketsInv, ControlInv, TypeOK
  <2>2. buf[i].proto \in {"tcp", "udp"} => buf[i].tx_ipv4
    BY <1>1 DEF PathInv, PacketsInv
  <2>3. L4Right(orig[i].frame) => L4Kept(buf[i])
    BY <1>1, <2>1 DEF Kept
  <2>4. L4Kept(buf[i]) => L4Right(buf[i])
    BY <2>2 DEF L4Kept, L4Right
  <2> QED BY <1>1, <2>1, <2>3, <2>4 DEF Kept
<1>2. PathInv => ChecksumsRightOnWire
  BY <1>1 DEF ChecksumsRightOnWire
<1> QED BY <1>2, PathInvariant, PTL

\* The packet quoted in an ICMP error is translated as the error is.
THEOREM InnerTranslated == Spec => []InnerFollowsOuter
<1>1. ASSUME PathInv, NEW i \in sent
      PROVE  Kept(buf[i], orig[i].frame)
  BY <1>1 DEF PathInv, PacketsInv, ControlInv, TypeOK
<1>2. PathInv => InnerFollowsOuter
  BY <1>1 DEF InnerFollowsOuter, Kept, InnerFollows
<1> QED BY <1>2, PathInvariant, PTL

\* The places of a packet, kind by kind.
LEMMA PlacesParts ==
  ASSUME PathInv, NEW i \in Received, NEW x
  PROVE  x \in Places(i) <=>
           \/ \E k \in DOMAIN burst : burst[k] = i /\ x = <<"burst", k, 0>>
           \/ \E p \in Ports : \E k \in DOMAIN tx_queues[p] :
                tx_queues[p][k] = i /\ x = <<"queue", p, k>>
           \/ i \in InHand /\ x = <<"hand", 0, 0>>
           \/ i \in lost /\ x = <<"lost", 0, 0>>
           \/ i \in Gone /\ x = <<"released", 1, 0>>
<1>1. i \in Gone => released[i] = 1
  BY TxTypesHold DEF PathInv, TxInv, TxTypes, Gone
<1>2. i \notin Gone => released[i] = 0
  BY TxTypesHold DEF PathInv, TxInv, TxTypes, Gone
<1>3. \A n : n \in 1 .. released[i] <=> i \in Gone /\ n = 1
  <2>1. CASE i \in Gone
    BY <1>1, <2>1
  <2>2. CASE i \notin Gone
    BY <1>2, <2>2
  <2> QED BY <2>1, <2>2
<1>4. x \in Places(i) <=>
        \/ x \in BurstPlaces(i) \/ \E p \in Ports : x \in QueuePlaces(i, p)
        \/ x \in HandPlaces(i) \/ x \in LostPlaces(i) \/ x \in Releases(i)
  <2>1. x \in QueuedPlaces(i) <=> \E p \in Ports : x \in QueuePlaces(i, p)
    BY DEF QueuedPlaces
  <2> QED BY <2>1 DEF Places
<1>5. x \in BurstPlaces(i) <=> \E k \in DOMAIN burst : burst[k] = i /\ x = <<"burst", k, 0>>
  BY DEF BurstPlaces
<1>6. \A p \in Ports : x \in QueuePlaces(i, p) <=>
        \E k \in DOMAIN tx_queues[p] : tx_queues[p][k] = i /\ x = <<"queue", p, k>>
  BY DEF QueuePlaces
<1>7. x \in HandPlaces(i) <=> i \in InHand /\ x = <<"hand", 0, 0>>
  BY DEF HandPlaces
<1>8. x \in LostPlaces(i) <=> i \in lost /\ x = <<"lost", 0, 0>>
  BY DEF LostPlaces
<1>9. x \in Releases(i) <=> i \in Gone /\ x = <<"released", 1, 0>>
  BY <1>3 DEF Releases
<1> QED BY <1>4, <1>5, <1>6, <1>7, <1>8, <1>9, Zenon

\* Every packet that was received and not released is in exactly one place; none
\* is released twice, or while another part of the program still owns it.
THEOREM ExactlyOneOwner == Spec => []OneOwner
<1>1. ASSUME PathInv, NEW i \in Received
      PROVE  Cardinality(Places(i)) = 1
  <2> DEFINE B == \E k \in DOMAIN burst : burst[k] = i
             Q == \E p \in Ports : \E k \in DOMAIN tx_queues[p] : tx_queues[p][k] = i
  <2>1. (B <=> i \in InBurst) /\ (Q <=> i \in Queued)
    BY DEF InBurst, Queued
  <2>2. /\ B => ~Q /\ i \notin InHand /\ i \notin lost /\ i \notin Gone
        /\ i \in InHand => ~Q /\ i \notin lost /\ i \notin Gone
        /\ i \in lost => ~Q /\ i \notin Gone
        /\ Q => i \notin Gone
        /\ B \/ Q \/ i \in InHand \/ i \in lost \/ i \in Gone
    BY <1>1, <2>1 DEF PathInv, PlacesInv, TxInv
  <2>3. \E x : Places(i) = {x}
    <3>1. CASE B
      <4>1. PICK k \in DOMAIN burst : burst[k] = i
        BY <3>1
      <4>2. \A j \in DOMAIN burst : burst[j] = i => j = k
        BY <1>1, <4>1 DEF PathInv, PlacesInv
      <4>3. \A x : x \in Places(i) <=> x = <<"burst", k, 0>>
        BY <1>1, <2>2, <3>1, <4>1, <4>2, PlacesParts
      <4>4. Places(i) = {<<"burst", k, 0>>}
        BY <4>3
      <4> QED BY <4>4
    <3>2. CASE Q
      <4>1. PICK p \in Ports : \E k \in DOMAIN tx_queues[p] : tx_queues[p][k] = i
        BY <3>2
      <4>2. PICK k \in DOMAIN tx_queues[p] : tx_queues[p][k] = i
        BY <4>1
      <4>3. \A r \in Ports : \A j \in DOMAIN tx_queues[r] : tx_queues[r][j] = i => r = p /\ j = k
        BY <1>1, <4>2 DEF PathInv, TxInv
      <4>4. \A x : x \in Places(i) <=> x = <<"queue", p, k>>
        BY <1>1, <2>2, <3>2, <4>2, <4>3, PlacesParts
      <4>5. Places(i) = {<<"queue", p, k>>}
        BY <4>4
      <4> QED BY <4>5
    <3>3. CASE i \in InHand
      <4>1. \A x : x \in Places(i) <=> x = <<"hand", 0, 0>>
        BY <1>1, <2>2, <3>3, PlacesParts
      <4>2. Places(i) = {<<"hand", 0, 0>>}
        BY <4>1
      <4> QED BY <4>2
    <3>4. CASE i \in lost
      <4>1. \A x : x \in Places(i) <=> x = <<"lost", 0, 0>>
        BY <1>1, <2>2, <3>4, PlacesParts
      <4>2. Places(i) = {<<"lost", 0, 0>>}
        BY <4>1
      <4> QED BY <4>2
    <3>5. CASE i \in Gone
      <4>1. \A x : x \in Places(i) <=> x = <<"released", 1, 0>>
        BY <1>1, <2>2, <3>5, PlacesParts
      <4>2. Places(i) = {<<"released", 1, 0>>}
        BY <4>1
      <4> QED BY <4>2
    <3> QED BY <2>2, <3>1, <3>2, <3>3, <3>4, <3>5
  <2>4. PICK x : Places(i) = {x}
    BY <2>3
  <2> QED BY <2>4, FS_Singleton
<1>2. PathInv => OneOwner
  BY <1>1 DEF OneOwner
<1> QED BY <1>2, PathInvariant, PTL


-----------------------------------------------------------------------------
(* process_rules ends. *)

\* The nodes that may still be called: those from the one that is being called on,
\* and those from the right child of a caller that executes its left child.
ToCome ==
  {x \in DOMAIN rules :
     \/ ctl = "call" /\ node # 0 /\ node <= x
     \/ \E k \in DOMAIN stack : /\ stack[k][2] = "left" /\ rules[stack[k][1]].right # 0
                                /\ rules[stack[k][1]].right <= x}

LeftCalls == {k \in DOMAIN stack : stack[k][2] = "left"}

\* A bound on the steps that process_rules has still to do.
StepsLeft ==
  4 * Cardinality(ToCome) + 2 * Cardinality(LeftCalls) + Len(stack)
    + (IF ctl = "call" THEN 1 ELSE 0)

\* The stack follows a branch of the tree: each caller is above the next and above
\* the node that is called, and what remains of a caller lies behind what remains
\* of the callers above it on the stack.
WalkInv ==
  pc = "rules" =>
    \A k \in DOMAIN stack :
      /\ \A j \in 1 .. k - 1 : stack[j][1] < stack[k][1]
      /\ ctl = "call" /\ node # 0 => stack[k][1] < node
      /\ stack[k][2] = "left" /\ rules[stack[k][1]].right # 0 =>
           /\ ctl = "call" /\ node # 0 => node < rules[stack[k][1]].right
           /\ \A j \in k + 1 .. Len(stack) :
                /\ stack[j][1] < rules[stack[k][1]].right
                /\ rules[stack[j][1]].right < rules[stack[k][1]].right

\* process_rules (ipv4.c): every step of the walk brings it closer to its end, whatever
\* the actions return; it takes at most four steps for each node, and one.
WalkShrinks ==
  [][/\ pc = "rules" => StepsLeft \in Nat /\ (pc' = "rules" => StepsLeft' < StepsLeft)
     /\ pc # "rules" /\ pc' = "rules" => StepsLeft' <= 4 * Len(rules) + 1]_vars

\* What RulesAssumption says of the rules of the configuration.
LEMMA TreeOrder ==
  ASSUME rules \in RuleTrees
  PROVE  /\ Len(rules) \in Nat /\ DOMAIN rules = 1 .. Len(rules)
         /\ \A n \in DOMAIN rules : rules[n].type \in InnerTypes =>
              /\ rules[n].left \in {0} \cup n + 1 .. Len(rules)
              /\ rules[n].right \in {0} \cup n + 1 .. Len(rules)
              /\ rules[n].right # 0 => rules[n].left < rules[n].right
              /\ \A m \in DOMAIN rules :
                   rules[m].type \in InnerTypes /\ m < n /\ n < rules[m].right =>
                     rules[n].left < rules[m].right /\ rules[n].right < rules[m].right
<1>1. /\ Len(rules) \in Nat /\ DOMAIN rules = 1 .. Len(rules)
      /\ \A n \in InnerNodes(rules) :
           /\ rules[n].left \in {0} \cup n + 1 .. Len(rules)
           /\ rules[n].right \in {0} \cup n + 1 .. Len(rules)
           /\ rules[n].right # 0 => rules[n].left < rules[n].right
           /\ \A m \in InnerNodes(rules) :
                m < n /\ n < rules[m].right => rules[n].left < rules[m].right
                                               /\ rules[n].right < rules[m].right
  BY RulesAssumption
<1>2. \A n \in DOMAIN rules : rules[n].type \in InnerTypes <=> n \in InnerNodes(rules)
  BY DEF InnerNodes
<1> QED BY <1>1, <1>2

\* The variables of the walk, as ControlInv has them.
LEMMA WalkTypes ==
  ASSUME PathInv
  PROVE  /\ rules \in RuleTrees
         /\ Len(rules) \in Nat /\ DOMAIN rules = 1 .. Len(rules)
         /\ node \in {0} \cup 1 .. Len(rules)
         /\ ctl \in {"call", "return"}
         /\ ret \in -1 .. 1
         /\ Len(stack) \in Nat /\ DOMAIN stack = 1 .. Len(stack)
         /\ stack \in Seq((1 .. Len(rules)) \X {"left", "right"})
         /\ \A k \in 1 .. Len(stack) :
              /\ stack[k][1] \in 1 .. Len(rules) /\ stack[k][2] \in {"left", "right"}
              /\ stack[k] = <<stack[k][1], stack[k][2]>>
              /\ rules[stack[k][1]].type \in InnerTypes
<1>1. ControlInv /\ TypeOK
  BY DEF PathInv, ControlInv
<1>2. rules \in RuleTrees /\ node \in {0} \cup DOMAIN rules /\ ctl \in {"call", "return"}
      /\ ret \in -1 .. 1
  BY <1>1 DEF TypeOK
<1>3. Len(rules) \in Nat /\ DOMAIN rules = 1 .. Len(rules)
  BY <1>2, TreeOrder
<1>4. stack \in Seq((1 .. Len(rules)) \X {"left", "right"})
  BY <1>1, <1>3 DEF TypeOK
<1>5. Len(stack) \in Nat /\ DOMAIN stack = 1 .. Len(stack)
      /\ \A k \in 1 .. Len(stack) : stack[k] \in (1 .. Len(rules)) \X {"left", "right"}
  BY <1>4
<1>6. \A k \in 1 .. Len(stack) : rules[stack[k][1]].type \in InnerTypes
  BY <1>1, <1>5 DEF ControlInv
<1> QED BY <1>2, <1>3, <1>4, <1>5, <1>6

LEMMA CountTo ==
  ASSUME NEW n \in Nat
  PROVE  IsFiniteSet(1 .. n) /\ Cardinality(1 .. n) = n
BY FS_Interval

\* The two sets are finite, so StepsLeft is a number.
LEMMA StepsAreCounted ==
  ASSUME PathInv
  PROVE  /\ IsFiniteSet(ToCome) /\ Cardinality(ToCome) \in Nat
         /\ IsFiniteSet(LeftCalls) /\ Cardinality(LeftCalls) \in Nat
         /\ Cardinality(ToCome) <= Len(rules)
         /\ StepsLeft \in Nat
<1>1. /\ Len(rules) \in Nat /\ DOMAIN rules = 1 .. Len(rules)
      /\ Len(stack) \in Nat /\ DOMAIN stack = 1 .. Len(stack)
  BY WalkTypes
<1>2. /\ IsFiniteSet(1 .. Len(rules)) /\ Cardinality(1 .. Len(rules)) = Len(rules)
      /\ IsFiniteSet(1 .. Len(stack))
  <2>1. IsFiniteSet(1 .. Len(rules)) /\ Cardinality(1 .. Len(rules)) = Len(rules)
    BY <1>1, CountTo
  <2>2. IsFiniteSet(1 .. Len(stack))
    BY <1>1, FS_Interval
  <2> QED BY <2>1, <2>2
<1>3. ToCome \subseteq 1 .. Len(rules) /\ LeftCalls \subseteq 1 .. Len(stack)
  BY <1>1 DEF ToCome, LeftCalls
<1>4. /\ IsFiniteSet(ToCome) /\ Cardinality(ToCome) <= Len(rules)
      /\ IsFiniteSet(LeftCalls)
  BY <1>2, <1>3, FS_Subset
<1>5. Cardinality(ToCome) \in Nat /\ Cardinality(LeftCalls) \in Nat
  BY <1>4, FS_CardinalityType
<1> QED BY <1>1, <1>4, <1>5 DEF StepsLeft

\* A part of a finite set, and a proper one.
LEMMA FewerToCome ==
  ASSUME NEW S, IsFiniteSet(S), NEW T, T \subseteq S
  PROVE  /\ Cardinality(T) \in Nat /\ Cardinality(S) \in Nat
         /\ Cardinality(T) <= Cardinality(S)
         /\ T # S => Cardinality(T) < Cardinality(S)
<1>1. /\ IsFiniteSet(T) /\ Cardinality(T) <= Cardinality(S)
      /\ Cardinality(S) = Cardinality(T) => S = T
  BY FS_Subset
<1>2. Cardinality(T) \in Nat /\ Cardinality(S) \in Nat
  BY <1>1, FS_CardinalityType
<1> QED BY <1>1, <1>2

\* A call with an inner node.
LEMMA DescendShrinks ==
  ASSUME PathInv, WalkInv, Descend, UNCHANGED rules
  PROVE  WalkInv' /\ StepsLeft' < StepsLeft
<1> DEFINE N == Len(stack)
<1>1. /\ pc = "rules" /\ ctl = "call" /\ node # 0 /\ rules[node].type # "ACTION"
      /\ stack' = Append(stack, <<node, "left">>)
      /\ node' = rules[node].left /\ ctl' = ctl /\ pc' = pc /\ rules' = rules
  BY DEF Descend
<1>2. /\ rules \in RuleTrees /\ Len(rules) \in Nat /\ DOMAIN rules = 1 .. Len(rules)
      /\ N \in Nat /\ DOMAIN stack = 1 .. N
      /\ stack \in Seq((1 .. Len(rules)) \X {"left", "right"})
      /\ node \in 1 .. Len(rules)
      /\ \A k \in 1 .. N : /\ stack[k][1] \in 1 .. Len(rules)
                           /\ rules[stack[k][1]].type \in InnerTypes
  BY <1>1, WalkTypes
<1>3. rules[node].type \in InnerTypes
  BY <1>1, <1>2, NodeShape
<1>4. /\ rules[node].left \in {0} \cup node + 1 .. Len(rules)
      /\ rules[node].right \in {0} \cup node + 1 .. Len(rules)
      /\ rules[node].right # 0 => rules[node].left < rules[node].right
      /\ \A k \in 1 .. N :
           /\ rules[stack[k][1]].right \in {0} \cup 1 .. Len(rules)
           /\ stack[k][1] < node /\ node < rules[stack[k][1]].right =>
                /\ rules[node].left < rules[stack[k][1]].right
                /\ rules[node].right < rules[stack[k][1]].right
  <2>1. node \in DOMAIN rules /\ \A k \in 1 .. N : stack[k][1] \in DOMAIN rules
    BY <1>2
  <2>2. /\ rules[node].left \in {0} \cup node + 1 .. Len(rules)
        /\ rules[node].right \in {0} \cup node + 1 .. Len(rules)
        /\ rules[node].right # 0 => rules[node].left < rules[node].right
    BY <1>2, <1>3, <2>1, TreeOrder
  <2>3. ASSUME NEW k \in 1 .. N
        PROVE  /\ rules[stack[k][1]].right \in {0} \cup stack[k][1] + 1 .. Len(rules)
               /\ stack[k][1] < node /\ node < rules[stack[k][1]].right =>
                    /\ rules[node].left < rules[stack[k][1]].right
                    /\ rules[node].right < rules[stack[k][1]].right
    BY <1>2, <1>3, <2>1, TreeOrder
  <2> QED BY <1>2, <2>2, <2>3
<1>5. /\ Len(stack') = N + 1 /\ DOMAIN stack' = 1 .. N + 1
      /\ stack'[N + 1] = <<node, "left">>
      /\ \A k \in 1 .. N : stack'[k] = stack[k]
  BY <1>1, <1>2
<1>6. /\ \A k \in 1 .. N :
           /\ \A j \in 1 .. k - 1 : stack[j][1] < stack[k][1]
           /\ stack[k][1] < node
           /\ stack[k][2] = "left" /\ rules[stack[k][1]].right # 0 =>
                /\ node < rules[stack[k][1]].right
                /\ \A j \in k + 1 .. N :
                     /\ stack[j][1] < rules[stack[k][1]].right
                     /\ rules[stack[j][1]].right < rules[stack[k][1]].right
  BY <1>1, <1>2 DEF WalkInv
<1> HIDE DEF N
<1>7. WalkInv'
  <2> SUFFICES ASSUME NEW k \in 1 .. N + 1
               PROVE  /\ \A j \in 1 .. k - 1 : stack'[j][1] < stack'[k][1]
                      /\ node' # 0 => stack'[k][1] < node'
                      /\ stack'[k][2] = "left" /\ rules[stack'[k][1]].right # 0 =>
                           /\ node' # 0 => node' < rules[stack'[k][1]].right
                           /\ \A j \in k + 1 .. N + 1 :
                                /\ stack'[j][1] < rules[stack'[k][1]].right
                                /\ rules[stack'[j][1]].right < rules[stack'[k][1]].right
    BY <1>1, <1>5 DEF WalkInv
  <2>1. CASE k = N + 1
    <3>1. stack'[k][1] = node /\ \A j \in 1 .. k - 1 : stack'[j] = stack[j] /\ j \in 1 .. N
      BY <1>2, <1>5, <2>1
    <3>2. k + 1 .. N + 1 = {}
      BY <1>2, <2>1
    <3> QED BY <1>1, <1>2, <1>4, <1>6, <3>1, <3>2
  <2>2. CASE k \in 1 .. N
    <3>1. stack'[k] = stack[k] /\ \A j \in 1 .. k - 1 : stack'[j] = stack[j]
      BY <1>2, <1>5, <2>2
    <3>2. node' # 0 => stack[k][1] < node'
      BY <1>1, <1>2, <1>4, <1>6, <2>2
    <3>3. ASSUME stack[k][2] = "left", rules[stack[k][1]].right # 0
          PROVE  /\ node' # 0 => node' < rules[stack[k][1]].right
                 /\ \A j \in k + 1 .. N + 1 :
                      /\ stack'[j][1] < rules[stack[k][1]].right
                      /\ rules[stack'[j][1]].right < rules[stack[k][1]].right
      <4>1. /\ stack[k][1] < node /\ node < rules[stack[k][1]].right
            /\ rules[node].left < rules[stack[k][1]].right
            /\ rules[node].right < rules[stack[k][1]].right
        BY <1>4, <1>6, <2>2, <3>3
      <4>2. \A j \in k + 1 .. N + 1 : j = N + 1 \/ (j \in k + 1 .. N /\ stack'[j] = stack[j])
        BY <1>2, <1>5, <2>2
      <4> QED BY <1>1, <1>5, <1>6, <2>2, <3>3, <4>1, <4>2
    <3> QED BY <1>6, <2>2, <3>1, <3>2, <3>3
  <2> QED BY <1>2, <2>1, <2>2
<1>8. ToCome' \subseteq ToCome /\ node \in ToCome /\ node \notin ToCome'
  <2>1. node \in ToCome
    BY <1>1, <1>2 DEF ToCome
  <2>2. ASSUME NEW x \in ToCome' PROVE x \in ToCome /\ x # node
    <3>1. x \in 1 .. Len(rules)
      BY <1>1, <1>2, <2>2 DEF ToCome
    <3>2. \/ node' # 0 /\ node' <= x
          \/ \E k \in 1 .. N + 1 : /\ stack'[k][2] = "left" /\ rules[stack'[k][1]].right # 0
                                   /\ rules[stack'[k][1]].right <= x
      BY <1>1, <1>5, <2>2 DEF ToCome
    <3>3. node < x
      <4>1. CASE node' # 0 /\ node' <= x
        BY <1>1, <1>2, <1>4, <3>1, <4>1
      <4>2. CASE \E k \in 1 .. N + 1 : /\ stack'[k][2] = "left" /\ rules[stack'[k][1]].right # 0
                                       /\ rules[stack'[k][1]].right <= x
        <5>1. PICK k \in 1 .. N + 1 : /\ stack'[k][2] = "left" /\ rules[stack'[k][1]].right # 0
                                      /\ rules[stack'[k][1]].right <= x
          BY <4>2
        <5>2. CASE k = N + 1
          BY <1>2, <1>4, <1>5, <3>1, <5>1, <5>2
        <5>3. CASE k \in 1 .. N
          <6>1. stack[k][2] = "left" /\ rules[stack[k][1]].right # 0
                /\ rules[stack[k][1]].right <= x
            BY <1>5, <5>1, <5>3
          <6>2. node < rules[stack[k][1]].right
            BY <1>6, <5>3, <6>1
          <6> QED BY <1>2, <1>4, <3>1, <5>3, <6>1, <6>2
        <5> QED BY <1>2, <5>2, <5>3
      <4> QED BY <3>2, <4>1, <4>2
    <3> QED BY <1>1, <1>2, <3>1, <3>3 DEF ToCome
  <2> QED BY <2>1, <2>2
<1>9. Cardinality(ToCome') < Cardinality(ToCome) /\ Cardinality(ToCome') \in Nat
  BY <1>8, StepsAreCounted, FewerToCome
<1>10. LeftCalls' = LeftCalls \cup {N + 1} /\ N + 1 \notin LeftCalls
  BY <1>2, <1>5 DEF LeftCalls
<1>11. Cardinality(LeftCalls') = Cardinality(LeftCalls) + 1
  BY <1>10, StepsAreCounted, FS_AddElement
<1>12. Cardinality(ToCome) \in Nat /\ Cardinality(LeftCalls) \in Nat
  BY StepsAreCounted
<1>13. StepsLeft' < StepsLeft
  <2>1. ctl = "call" /\ ctl' = "call" /\ N \in Nat /\ Len(stack) = N /\ Len(stack') = N + 1
    BY <1>1, <1>2, <1>5 DEF N
  <2> QED BY <1>9, <1>11, <1>12, <2>1 DEF StepsLeft
<1> QED BY <1>7, <1>13

\* A call without a node, or with an action: it returns.
LEMMA ExecuteShrinks ==
  ASSUME PathInv, WalkInv, Execute, UNCHANGED rules
  PROVE  WalkInv' /\ StepsLeft' < StepsLeft
<1>1. /\ pc = "rules" /\ ctl = "call" /\ ctl' = "return"
      /\ stack' = stack /\ node' = node /\ pc' = pc /\ rules' = rules
  BY DEF Execute
<1>2. WalkInv'
  BY <1>1 DEF WalkInv
<1>3. ToCome' \subseteq ToCome /\ LeftCalls' = LeftCalls
  BY <1>1 DEF ToCome, LeftCalls
<1>4. /\ Cardinality(ToCome') \in Nat /\ Cardinality(ToCome) \in Nat
      /\ Cardinality(ToCome') <= Cardinality(ToCome)
  BY <1>3, StepsAreCounted, FewerToCome
<1>5. Cardinality(LeftCalls) \in Nat /\ Len(stack) \in Nat
  BY StepsAreCounted, WalkTypes
<1>6. StepsLeft' < StepsLeft
  BY <1>1, <1>3, <1>4, <1>5 DEF StepsLeft
<1> QED BY <1>2, <1>6

\* The topmost caller takes the result of a child.
LEMMA ResumeShrinks ==
  ASSUME PathInv, WalkInv, Resume, UNCHANGED rules
  PROVE  WalkInv' /\ StepsLeft' < StepsLeft
<1> DEFINE N == Len(stack)
           n == stack[N][1]
           side == stack[N][2]
           Goes == ret >= 0 /\ side = "left" /\ RunsRight(rules[n].type, ret)
<1>1. /\ pc = "rules" /\ ctl = "return" /\ stack # <<>> /\ pc' = pc /\ rules' = rules
      /\ Goes => /\ stack' = [stack EXCEPT ![N] = <<n, "right">>]
                 /\ ctl' = "call" /\ node' = rules[n].right
      /\ ~Goes => stack' = SubSeq(stack, 1, N - 1) /\ ctl' = ctl
  BY DEF Resume
<1>2. /\ rules \in RuleTrees /\ Len(rules) \in Nat /\ DOMAIN rules = 1 .. Len(rules)
      /\ N \in Nat /\ DOMAIN stack = 1 .. N
      /\ stack \in Seq((1 .. Len(rules)) \X {"left", "right"})
      /\ \A k \in 1 .. N : /\ stack[k][1] \in 1 .. Len(rules)
                           /\ rules[stack[k][1]].type \in InnerTypes
  BY WalkTypes
<1>3. N \in 1 .. N
  BY <1>1, <1>2
<1>4. \A k \in 1 .. N : rules[stack[k][1]].right \in {0} \cup stack[k][1] + 1 .. Len(rules)
  <2>1. \A k \in 1 .. N : stack[k][1] \in DOMAIN rules
    BY <1>2
  <2> QED BY <1>2, <2>1, TreeOrder
<1>5. \A k \in 1 .. N :
        /\ \A j \in 1 .. k - 1 : stack[j][1] < stack[k][1]
        /\ stack[k][2] = "left" /\ rules[stack[k][1]].right # 0 =>
             \A j \in k + 1 .. N : /\ stack[j][1] < rules[stack[k][1]].right
                                   /\ rules[stack[j][1]].right < rules[stack[k][1]].right
  BY <1>1, <1>2 DEF WalkInv
<1>6. IsFiniteSet(ToCome) /\ IsFiniteSet(LeftCalls)
      /\ Cardinality(ToCome) \in Nat /\ Cardinality(LeftCalls) \in Nat
  BY StepsAreCounted
<1> HIDE DEF Goes
<1>7. CASE Goes
  <2>1. /\ Len(stack') = N /\ DOMAIN stack' = 1 .. N
        /\ stack'[N] = <<n, "right">> /\ side = "left"
        /\ \A k \in 1 .. N : k # N => stack'[k] = stack[k]
    <3>1. side = "left" /\ stack' = [stack EXCEPT ![N] = <<n, "right">>]
      BY <1>1, <1>7 DEF Goes
    <3>2. <<n, "right">> \in (1 .. Len(rules)) \X {"left", "right"}
      BY <1>2, <1>3
    <3> HIDE DEF n, side
    <3>3. /\ stack' \in Seq((1 .. Len(rules)) \X {"left", "right"}) /\ Len(stack') = N
          /\ \A k \in 1 .. N : stack'[k] = IF k = N THEN <<n, "right">> ELSE stack[k]
      BY <1>2, <1>3, <3>1, <3>2, ExceptSeq
    <3> HIDE DEF N
    <3>4. DOMAIN stack' = 1 .. N
      BY <3>3
    <3>5. stack'[N] = <<n, "right">>
      BY <1>3, <3>3
    <3> QED BY <3>1, <3>3, <3>4, <3>5
  <2>2. ctl' = "call" /\ node' = rules[n].right
    BY <1>1, <1>7
  <2> HIDE DEF N, n, side
  <2>3. n \in 1 .. Len(rules) /\ rules[n].right \in {0} \cup n + 1 .. Len(rules)
        /\ \A k \in 1 .. N : k # N => k \in 1 .. N - 1 /\ N \in k + 1 .. N
    BY <1>2, <1>3, <1>4 DEF n
  <2>4. \A k \in 1 .. N : stack'[k][1] = stack[k][1]
    BY <2>1 DEF n
  <2>5. \A k \in 1 .. N : k # N => stack[k][1] < n
    BY <1>3, <1>5, <2>3 DEF n
  <2>6. WalkInv'
    <3> SUFFICES ASSUME NEW k \in 1 .. N
                 PROVE  /\ \A j \in 1 .. k - 1 : stack'[j][1] < stack'[k][1]
                        /\ node' # 0 => stack'[k][1] < node'
                        /\ stack'[k][2] = "left" /\ rules[stack'[k][1]].right # 0 =>
                             /\ node' # 0 => node' < rules[stack'[k][1]].right
                             /\ \A j \in k + 1 .. N :
                                  /\ stack'[j][1] < rules[stack'[k][1]].right
                                  /\ rules[stack'[j][1]].right < rules[stack'[k][1]].right
      BY <1>1, <2>1 DEF WalkInv
    <3>1. \A j \in 1 .. k - 1 : stack'[j][1] < stack'[k][1]
      <4>1. \A j \in 1 .. k - 1 : j \in 1 .. N
        BY <1>2
      <4> QED BY <1>5, <2>4, <4>1
    <3>2. node' # 0 => stack'[k][1] < node'
      <4>1. stack'[k][1] = n \/ stack'[k][1] < n
        BY <2>1, <2>4, <2>5
      <4>2. stack'[k][1] \in 1 .. Len(rules)
        BY <1>2, <2>4
      <4> QED BY <1>2, <2>2, <2>3, <4>1, <4>2
    <3>3. ASSUME stack'[k][2] = "left", rules[stack'[k][1]].right # 0
          PROVE  /\ node' < rules[stack'[k][1]].right
                 /\ \A j \in k + 1 .. N :
                      /\ stack'[j][1] < rules[stack'[k][1]].right
                      /\ rules[stack'[j][1]].right < rules[stack'[k][1]].right
      <4>1. k # N /\ stack'[k] = stack[k] /\ N \in k + 1 .. N
        BY <2>1, <2>3, <3>3
      <4>2. \A j \in k + 1 .. N : /\ stack[j][1] < rules[stack[k][1]].right
                                  /\ rules[stack[j][1]].right < rules[stack[k][1]].right
        BY <1>5, <3>3, <4>1
      <4>3. \A j \in k + 1 .. N : j \in 1 .. N
        BY <1>2
      <4> QED BY <2>2, <2>4, <4>1, <4>2, <4>3 DEF n
    <3> QED BY <3>1, <3>2, <3>3
  <2>7. ToCome' \subseteq ToCome
    <3> SUFFICES ASSUME NEW x \in ToCome' PROVE x \in ToCome
      OBVIOUS
    <3>1. x \in 1 .. Len(rules)
      BY <1>1, <1>2 DEF ToCome
    <3>2. \/ node' # 0 /\ node' <= x
          \/ \E k \in 1 .. N : /\ stack'[k][2] = "left" /\ rules[stack'[k][1]].right # 0
                               /\ rules[stack'[k][1]].right <= x
      BY <1>1, <2>1 DEF ToCome
    <3>3. \E k \in 1 .. N : /\ stack[k][2] = "left" /\ rules[stack[k][1]].right # 0
                            /\ rules[stack[k][1]].right <= x
      <4>1. CASE node' # 0 /\ node' <= x
        BY <1>3, <2>1, <2>2, <4>1 DEF n, side
      <4>2. CASE \E k \in 1 .. N : /\ stack'[k][2] = "left" /\ rules[stack'[k][1]].right # 0
                                   /\ rules[stack'[k][1]].right <= x
        <5>1. PICK k \in 1 .. N : /\ stack'[k][2] = "left" /\ rules[stack'[k][1]].right # 0
                                  /\ rules[stack'[k][1]].right <= x
          BY <4>2
        <5>2. stack'[k] = stack[k]
          BY <2>1, <5>1
        <5> QED BY <5>1, <5>2
      <4> QED BY <3>2, <4>1, <4>2
    <3> QED BY <1>2, <3>1, <3>3 DEF ToCome
  <2>8. LeftCalls' = LeftCalls \ {N} /\ N \in LeftCalls
    BY <1>2, <1>3, <2>1 DEF LeftCalls, side
  <2>9. Cardinality(LeftCalls') = Cardinality(LeftCalls) - 1
    BY <1>6, <2>8, FS_RemoveElement
  <2>10. /\ Cardinality(ToCome') \in Nat
         /\ Cardinality(ToCome') <= Cardinality(ToCome)
    BY <1>6, <2>7, FewerToCome
  <2>11. StepsLeft' < StepsLeft
    <3>1. /\ ctl = "return" /\ ctl' = "call"
          /\ N \in Nat /\ Len(stack) = N /\ Len(stack') = N
      BY <1>1, <1>2, <2>1, <2>2 DEF N
    <3> QED BY <1>6, <2>9, <2>10, <3>1 DEF StepsLeft
  <2> QED BY <2>6, <2>11
<1>8. CASE ~Goes
  <2>1. /\ Len(stack') = N - 1 /\ DOMAIN stack' = 1 .. N - 1
        /\ \A k \in 1 .. N - 1 : stack'[k] = stack[k] /\ k \in 1 .. N
    <3>1. stack' = SubSeq(stack, 1, N - 1)
      BY <1>1, <1>8
    <3>2. N - 1 \in Nat /\ \A k \in 1 .. N - 1 : k \in 1 .. N
      BY <1>2, <1>3
    <3>3. \A k \in 1 .. N - 1 : stack[k] \in (1 .. Len(rules)) \X {"left", "right"}
      BY <1>2, <3>2
    <3> HIDE DEF N
    <3>4. /\ stack' \in Seq((1 .. Len(rules)) \X {"left", "right"}) /\ Len(stack') = N - 1
          /\ \A k \in 1 .. N - 1 : stack'[k] = stack[k]
      BY <3>1, <3>2, <3>3, SubSeqProperties
    <3> QED BY <3>2, <3>4
  <2>2. ctl' = "return"
    BY <1>1, <1>8
  <2> HIDE DEF N, n, side
  <2>3. WalkInv'
    <3> SUFFICES ASSUME NEW k \in 1 .. N - 1
                 PROVE  /\ \A j \in 1 .. k - 1 : stack'[j][1] < stack'[k][1]
                        /\ stack'[k][2] = "left" /\ rules[stack'[k][1]].right # 0 =>
                             \A j \in k + 1 .. N - 1 :
                                  /\ stack'[j][1] < rules[stack'[k][1]].right
                                  /\ rules[stack'[j][1]].right < rules[stack'[k][1]].right
      BY <1>1, <2>1, <2>2 DEF WalkInv
    <3>1. /\ \A j \in 1 .. k - 1 : j \in 1 .. N - 1
          /\ \A j \in k + 1 .. N - 1 : j \in 1 .. N - 1 /\ j \in k + 1 .. N
      BY <1>2
    <3> QED BY <1>5, <2>1, <3>1
  <2>4. ToCome' \subseteq ToCome
    BY <1>1, <1>2, <2>1, <2>2 DEF ToCome
  <2>5. LeftCalls' \subseteq LeftCalls
    BY <1>2, <2>1 DEF LeftCalls
  <2>6. /\ Cardinality(ToCome') \in Nat
        /\ Cardinality(ToCome') <= Cardinality(ToCome)
    BY <1>6, <2>4, FewerToCome
  <2>7. /\ Cardinality(LeftCalls') \in Nat
        /\ Cardinality(LeftCalls') <= Cardinality(LeftCalls)
    BY <1>6, <2>5, FewerToCome
  <2>8. StepsLeft' < StepsLeft
    <3>1. /\ ctl = "return" /\ ctl' = "return"
          /\ N \in Nat /\ Len(stack) = N /\ Len(stack') = N - 1
      BY <1>1, <1>2, <2>1, <2>2 DEF N
    <3> QED BY <1>6, <2>6, <2>7, <3>1 DEF StepsLeft
  <2> QED BY <2>3, <2>8
<1> QED BY <1>7, <1>8

\* The walk starts at the root.
LEMMA EnterRulesBounded ==
  ASSUME PathInv, EnterRules, UNCHANGED rules
  PROVE  WalkInv' /\ StepsLeft' <= 4 * Len(rules) + 1
<1>1. stack' = <<>> /\ ctl' = "call" /\ rules' = rules
  BY DEF EnterRules
<1>2. WalkInv'
  BY <1>1 DEF WalkInv
<1>3. Len(rules) \in Nat /\ DOMAIN rules = 1 .. Len(rules)
  BY WalkTypes
<1>4. ToCome' \subseteq 1 .. Len(rules) /\ LeftCalls' = {}
  BY <1>1, <1>3 DEF ToCome, LeftCalls
<1>5. IsFiniteSet(1 .. Len(rules)) /\ Cardinality(1 .. Len(rules)) = Len(rules)
  BY <1>3, CountTo
<1>6. Cardinality(ToCome') \in Nat /\ Cardinality(ToCome') <= Len(rules)
  BY <1>4, <1>5, FewerToCome
<1>7. Cardinality(LeftCalls') = 0 /\ Len(stack') = 0
  BY <1>1, <1>4, FS_EmptySet
<1> QED BY <1>1, <1>2, <1>3, <1>6, <1>7 DEF StepsLeft

\* What a step does to the walk.
LEMMA WalkStep ==
  ASSUME PathInv, WalkInv, [Next]_vars
  PROVE  /\ WalkInv'
         /\ vars' # vars =>
              /\ pc = "rules" /\ pc' = "rules" => StepsLeft' < StepsLeft
              /\ pc # "rules" /\ pc' = "rules" => StepsLeft' <= 4 * Len(rules) + 1
<1>1. CASE UNCHANGED vars
  BY <1>1 DEF vars, rulesVars, WalkInv
<1>2. CASE Next
  <2>1. UNCHANGED rules
    BY <1>2 DEF Next
  <2>2. CASE EnterRules
    <3>1. pc # "rules"
      BY <2>2 DEF EnterRules
    <3> QED BY <2>1, <2>2, <3>1, EnterRulesBounded
  <2>3. CASE Descend
    BY <2>1, <2>3, DescendShrinks DEF Descend
  <2>4. CASE Execute
    BY <2>1, <2>4, ExecuteShrinks DEF Execute
  <2>5. CASE Resume
    BY <2>1, <2>5, ResumeShrinks DEF Resume
  <2>6. CASE \/ RxBurst \/ NextPort \/ Accept \/ ArpReply \/ IcmpEcho \/ IcmpUnknown
             \/ Unhandled \/ RulesDone \/ TxFlush
    <3>1. pc' # "rules"
      BY <2>6 DEF RxBurst, NextPort, Accept, ArpReply, IcmpEcho, IcmpUnknown, Unhandled,
                  RulesDone, TxFlush, PacketDone
    <3> QED BY <3>1 DEF WalkInv
  <2> QED BY <1>2, <2>2, <2>3, <2>4, <2>5, <2>6 DEF Next
<1> QED BY <1>1, <1>2

\* ipv4.c, process_rules: for every tree of rules the recursion ends, whatever the
\* packets and the actions do: each step leaves a smaller number of steps to do.
THEOREM RulesEnd == Spec => WalkShrinks
<1>1. Init => WalkInv
  BY DEF Init, WalkInv
<1>2. PathInv /\ WalkInv /\ [Next]_vars => WalkInv'
  BY WalkStep
<1>3. PathInv /\ WalkInv /\ [Next]_vars =>
        [/\ pc = "rules" => StepsLeft \in Nat /\ (pc' = "rules" => StepsLeft' < StepsLeft)
         /\ pc # "rules" /\ pc' = "rules" => StepsLeft' <= 4 * Len(rules) + 1]_vars
  BY WalkStep, StepsAreCounted
<1> QED BY <1>1, <1>2, <1>3, PathInvariant, PTL DEF Spec, WalkShrinks
=============================================================================
