-------------------------- MODULE AdmServerProofs --------------------------
(* The administration server keeps its clients, its descriptors and its     *)
(* answers straight, for every number of slots and peers, every query and   *)
(* every system call that fails.                                            *)
EXTENDS AdmServer, FiniteSetTheorems, SequenceTheorems, WellFoundedInduction, TLAPS

-----------------------------------------------------------------------------
(* The inductive invariant. *)

\* A connection waits in the backlog, or is behind one descriptor, or nothing of
\* it is left.
ConnInv ==
  /\ \A j, k \in DOMAIN backlog : backlog[j] = backlog[k] => j = k
  /\ \A p \in Peers : conn[p] = "queued" <=> \E k \in DOMAIN backlog : backlog[k] = p
  /\ \A fd, gd \in OpenFds : fdtable[fd] = fdtable[gd] => fd = gd
  /\ \A p \in Peers : conn[p] = "closed" => /\ inbox[p] = <<>> /\ asked[p] = <<>>
                                            /\ answered[p] = <<>> /\ ~eof[p] /\ ~bad[p]

\* The client whose query has been read is still there when app_config_reload_all
\* returns: what select has found is used before any of it is closed.
ReadInv ==
  /\ apc \in {"check", "accept", "read", "reload"} => readfds \subseteq {Listening} \cup OpenFds
  /\ apc = "reload" => "reload" \in Queries /\ \E i \in InUse : clients[i] \in readfds

\* What p has sent and the server has not answered.
Unanswered(p) ==
  IF apc = "reload" /\ fdtable[clients[Chosen]] = p THEN <<"reload">> \o inbox[p] ELSE inbox[p]

\* A peer that behaves has one query under way at most, a known one; and unless
\* select was interrupted there is something to read where it says so.
GoodInv ==
  /\ \A p \in Peers : eof[p] => bad[p]
  /\ \A p \in Peers : ~bad[p] => Len(asked[p]) <= 1 /\ \A k \in DOMAIN asked[p] : asked[p][k] # "unknown"
  /\ "eintr" \notin Faults /\ apc \in {"check", "accept", "read"} =>
       \A fd \in readfds \cap Fds : inbox[fdtable[fd]] # <<>> \/ eof[fdtable[fd]]

\* Preserved by every step; implies the invariants above.
AdmInv ==
  /\ TypeOK /\ SlotsAccount /\ ConnInv /\ ReadInv /\ GoodInv
  /\ \A p \in Peers : asked[p] = answered[p] \o Unanswered(p)

-----------------------------------------------------------------------------
(* The first of several. *)

\* A set of naturals that is not empty has a least element.
LEMMA LeastExists ==
  ASSUME NEW S, S \subseteq Nat, S # {}
  PROVE  Min(S) \in S /\ \A y \in S : Min(S) <= y
<1> DEFINE R == OpToRel(<, Nat)
<1>1. PICK x \in S : \A y \in S : ~(<<y, x>> \in R)
  BY NatLessThanWellFounded, WFMin
<1>2. \A y \in S : <<y, x>> \in R <=> y < x
  BY DEF OpToRel
<1> HIDE DEF R
<1>3. \A y \in S : ~(y < x)
  BY <1>1, <1>2
<1>4. \A y \in S : x <= y
  BY <1>3
<1> QED BY <1>4 DEF Min

-----------------------------------------------------------------------------
(* Slots and descriptors. *)

\* What the constants are, and how many slots and descriptors there are.
LEMMA Sizes ==
  /\ NATASHA_MAX_CLIENTS \in Nat \ {0} /\ Slots \subseteq Nat /\ Fds \subseteq Nat /\ 0 \notin Fds
  /\ Listening \notin Fds /\ None \notin Peers
  /\ IsFiniteSet(Slots) /\ Cardinality(Slots) = NATASHA_MAX_CLIENTS
  /\ IsFiniteSet(Fds) /\ Cardinality(Fds) = NATASHA_MAX_CLIENTS + 1
<1>1. NATASHA_MAX_CLIENTS \in Nat \ {0}
  BY ClientsAssumption
<1>2. IsFiniteSet(Slots) /\ Cardinality(Slots) = NATASHA_MAX_CLIENTS
  BY <1>1, FS_Interval DEF Slots
<1>3. IsFiniteSet(Fds) /\ Cardinality(Fds) = NATASHA_MAX_CLIENTS + 1
  BY <1>1, FS_Interval DEF Fds
<1> QED BY <1>1, <1>2, <1>3, PeersAssumption DEF Slots, Fds, Listening

\* There is a descriptor to give out, and a slot when the count says so.
LEMMA Room ==
  ASSUME TypeOK, SlotsAccount
  PROVE  /\ IsFiniteSet(InUse) /\ FreeFd \in Fds \ OpenFds
         /\ cur_clients < NATASHA_MAX_CLIENTS => FreeSlot \in Slots \ InUse /\ InUse # Slots
<1> DEFINE f == [i \in InUse |-> clients[i]]
<1>1. InUse \subseteq Slots /\ OpenFds \subseteq Fds
  BY DEF InUse, OpenFds
<1>2. IsFiniteSet(InUse) /\ Cardinality(InUse) <= NATASHA_MAX_CLIENTS
  BY <1>1, Sizes, FS_Subset
<1>3. f \in Surjection(InUse, OpenFds)
  BY DEF SlotsAccount, Surjection
<1>4. IsFiniteSet(OpenFds) /\ Cardinality(OpenFds) <= Cardinality(InUse)
  BY <1>2, <1>3, FS_Surjection
<1>5. OpenFds # Fds
  BY <1>2, <1>4, Sizes, FS_CardinalityType
<1>6. FreeFd \in Fds \ OpenFds
  <2>1. Fds \ OpenFds # {} /\ Fds \ OpenFds \subseteq Nat
    BY <1>1, <1>5, Sizes
  <2> QED BY <2>1, LeastExists DEF FreeFd
<1>7. ASSUME cur_clients < NATASHA_MAX_CLIENTS
      PROVE  FreeSlot \in Slots \ InUse /\ InUse # Slots
  <2>1. InUse # Slots
    BY <1>7, Sizes DEF SlotsAccount
  <2>2. Slots \ InUse # {} /\ Slots \ InUse \subseteq Nat
    BY <1>1, <2>1, Sizes
  <2> QED BY <2>1, <2>2, LeastExists DEF FreeSlot
<1> QED BY <1>2, <1>6, <1>7

\* Nothing changes for the slots when they and the open connections stay.
LEMMA SameSlots ==
  ASSUME SlotsAccount, UNCHANGED <<clients, cur_clients, fdtable>>,
         \A p \in Peers : conn'[p] = "open" <=> conn[p] = "open"
  PROVE  SlotsAccount' /\ InUse' = InUse /\ OpenFds' = OpenFds
<1>1. InUse' = InUse /\ OpenFds' = OpenFds
  BY DEF InUse, OpenFds
<1> QED BY <1>1 DEF SlotsAccount

\* The client that is served is one of those in the set, and it is connected.
LEMMA ChosenClient ==
  ASSUME TypeOK, SlotsAccount, \E i \in InUse : clients[i] \in readfds
  PROVE  /\ Chosen \in InUse /\ clients[Chosen] \in readfds /\ clients[Chosen] \in OpenFds
         /\ fdtable[clients[Chosen]] \in Peers /\ conn[fdtable[clients[Chosen]]] = "open"
<1> DEFINE Ready == {i \in InUse : clients[i] \in readfds}
<1>1. Ready # {} /\ Ready \subseteq Nat
  BY Sizes DEF InUse
<1>2. Chosen \in Ready
  BY <1>1, LeastExists DEF Chosen
<1>3. clients[Chosen] \in OpenFds
  BY <1>2 DEF SlotsAccount
<1>4. fdtable[clients[Chosen]] \in Peers
  BY <1>3 DEF TypeOK, OpenFds
<1> QED BY <1>2, <1>3, <1>4 DEF SlotsAccount

\* No two open descriptors lead to the same peer.
OnePeerEach == \A fd, gd \in OpenFds : fdtable[fd] = fdtable[gd] => fd = gd

\* A client takes a free descriptor and a free slot.
LEMMA AdmitEffect ==
  ASSUME TypeOK, SlotsAccount, OnePeerEach, cur_clients < NATASHA_MAX_CLIENTS,
         NEW p \in Peers, conn[p] = "queued", Admit(p)
  PROVE  /\ clients' \in [Slots -> {0} \cup Fds] /\ cur_clients' \in 0 .. NATASHA_MAX_CLIENTS
         /\ fdtable' \in [Fds -> {None} \cup Peers]
         /\ SlotsAccount' /\ OnePeerEach' /\ OpenFds \subseteq OpenFds'
         /\ \A fd \in OpenFds : fdtable'[fd] = fdtable[fd]
<1> DEFINE f == FreeFd  k == FreeSlot
<1>1. /\ f \in Fds \ OpenFds /\ k \in Slots \ InUse /\ InUse # Slots /\ IsFiniteSet(InUse)
      /\ f # 0 /\ p # None
  BY Room, Sizes
<1> HIDE DEF f, k
<1>2. /\ fdtable' = [fdtable EXCEPT ![f] = p] /\ conn' = [conn EXCEPT ![p] = "open"]
      /\ clients' = [clients EXCEPT ![k] = f] /\ cur_clients' = cur_clients + 1
  BY <1>1 DEF Admit, f, k
<1>3. InUse' = InUse \cup {k} /\ k \notin InUse
  BY <1>1, <1>2 DEF InUse, TypeOK
<1>4. OpenFds' = OpenFds \cup {f} /\ f \notin OpenFds
  BY <1>1, <1>2 DEF OpenFds, TypeOK
<1>5. clients' \in [Slots -> {0} \cup Fds] /\ fdtable' \in [Fds -> {None} \cup Peers]
  BY <1>1, <1>2 DEF TypeOK
<1>6. cur_clients' \in 0 .. NATASHA_MAX_CLIENTS
  BY <1>2, Sizes DEF TypeOK
<1>7. /\ \A i \in InUse : clients'[i] = clients[i] /\ clients[i] \in OpenFds
      /\ clients'[k] = f
      /\ \A fd \in OpenFds : fdtable'[fd] = fdtable[fd]
      /\ fdtable'[f] = p
  BY <1>1, <1>2, <1>3, <1>4 DEF TypeOK, SlotsAccount, InUse, OpenFds
<1>8. cur_clients' = Cardinality(InUse')
  BY <1>1, <1>2, <1>3, FS_AddElement DEF SlotsAccount
<1>9. \A i, j \in InUse' : clients'[i] = clients'[j] => i = j
  BY <1>3, <1>4, <1>7 DEF SlotsAccount
<1>10. {clients'[i] : i \in InUse'} = OpenFds'
  BY <1>3, <1>4, <1>7 DEF SlotsAccount
<1>11. \A fd \in OpenFds : fdtable[fd] # p
  BY DEF SlotsAccount
<1>12. ASSUME NEW q \in Peers
       PROVE  conn'[q] = "open" <=> \E fd \in OpenFds' : fdtable'[fd] = q
  <2>1. CASE q = p
    BY <1>2, <1>4, <1>7, <2>1 DEF TypeOK
  <2>2. CASE q # p
    <3>1. conn'[q] = conn[q]
      BY <1>2, <2>2 DEF TypeOK
    <3> QED BY <1>4, <1>7, <2>2, <3>1 DEF SlotsAccount
  <2> QED BY <2>1, <2>2
<1>13. OnePeerEach'
  BY <1>4, <1>7, <1>11 DEF OnePeerEach
<1> QED BY <1>4, <1>5, <1>6, <1>7, <1>8, <1>9, <1>10, <1>12, <1>13 DEF SlotsAccount

\* A client gives its slot and its descriptor back.
LEMMA DisconnectEffect ==
  ASSUME TypeOK, SlotsAccount, OnePeerEach,
         NEW i \in InUse, NEW p \in Peers, p = fdtable[clients[i]], Disconnect(i, p)
  PROVE  /\ clients' \in [Slots -> {0} \cup Fds] /\ cur_clients' \in 0 .. NATASHA_MAX_CLIENTS
         /\ fdtable' \in [Fds -> {None} \cup Peers]
         /\ SlotsAccount' /\ OnePeerEach'
<1> DEFINE f == clients[i]
<1>1. f \in OpenFds /\ f \in Fds /\ IsFiniteSet(InUse) /\ i \in Slots /\ p # None
  BY Room, Sizes DEF SlotsAccount, OpenFds, InUse
<1> HIDE DEF f
<1>2. /\ fdtable' = [fdtable EXCEPT ![f] = None]
      /\ conn' = [q \in Peers |-> IF q \in {p} THEN "closed" ELSE conn[q]]
      /\ clients' = [clients EXCEPT ![i] = 0] /\ cur_clients' = cur_clients - 1
  BY DEF Disconnect, Hangup, f
<1>3. InUse' = InUse \ {i}
  BY <1>1, <1>2 DEF InUse, TypeOK
<1>4. OpenFds' = OpenFds \ {f}
  BY <1>1, <1>2 DEF OpenFds, TypeOK
<1>5. clients' \in [Slots -> {0} \cup Fds] /\ fdtable' \in [Fds -> {None} \cup Peers]
  BY <1>1, <1>2 DEF TypeOK
<1>6. cur_clients' = Cardinality(InUse')
  BY <1>1, <1>2, <1>3, FS_RemoveElement DEF SlotsAccount
<1>7. cur_clients' \in 0 .. NATASHA_MAX_CLIENTS
  <2>1. IsFiniteSet(InUse')
    BY <1>1, <1>3, FS_RemoveElement
  <2>2. cur_clients' \in Nat
    BY <1>6, <2>1, FS_CardinalityType
  <2> QED BY <1>2, <2>2, Sizes DEF TypeOK
<1>8. /\ \A j \in InUse' : clients'[j] = clients[j] /\ clients[j] # f
      /\ \A fd \in OpenFds' : fdtable'[fd] = fdtable[fd]
  BY <1>1, <1>2, <1>3, <1>4 DEF TypeOK, SlotsAccount, InUse, OpenFds, f
<1>9. \A j, k \in InUse' : clients'[j] = clients'[k] => j = k
  BY <1>3, <1>8 DEF SlotsAccount
<1>10. {clients'[j] : j \in InUse'} = OpenFds'
  <2>1. \A j \in InUse' : clients'[j] \in OpenFds'
    BY <1>3, <1>4, <1>8 DEF SlotsAccount
  <2>2. ASSUME NEW fd \in OpenFds' PROVE \E j \in InUse' : clients'[j] = fd
    <3>1. PICK j \in InUse : clients[j] = fd
      BY <1>4 DEF SlotsAccount
    <3>2. j # i
      BY <1>4, <3>1 DEF f
    <3> QED BY <1>3, <1>8, <3>1, <3>2
  <2> QED BY <2>1, <2>2
<1>11. \A fd \in OpenFds' : fdtable[fd] # p
  BY <1>1, <1>4 DEF OnePeerEach, f
<1>12. ASSUME NEW q \in Peers
       PROVE  conn'[q] = "open" <=> \E fd \in OpenFds' : fdtable'[fd] = q
  <2>1. CASE q = p
    BY <1>2, <1>8, <1>11, <2>1
  <2>2. CASE q # p
    BY <1>2, <1>4, <1>8, <2>2 DEF SlotsAccount, f
  <2> QED BY <2>1, <2>2
<1>13. OnePeerEach'
  BY <1>4, <1>8 DEF OnePeerEach
<1> QED BY <1>5, <1>6, <1>7, <1>9, <1>10, <1>12, <1>13 DEF SlotsAccount

-----------------------------------------------------------------------------
(* Sequences of queries. *)

\* A reply takes the first unanswered query.
LEMMA MoveFirst ==
  ASSUME NEW S, NEW a \in Seq(S), NEW q \in S, NEW b \in Seq(S)
  PROVE  a \o (<<q>> \o b) = Append(a, q) \o b
<1>1. <<q>> \in Seq(S)
  OBVIOUS
<1>2. Append(a, q) = a \o <<q>>
  BY AppendIsConcat
<1> QED BY <1>1, <1>2, ConcatAssociative

\* A query is sent behind the others.
LEMMA MoveLast ==
  ASSUME NEW S, NEW q \in S
  PROVE  \A a, b \in Seq(S) : Append(a \o b, q) = a \o Append(b, q)
<1> TAKE a, b \in Seq(S)
<1>1. <<q>> \in Seq(S) /\ a \o b \in Seq(S)
  BY ConcatProperties
<1>2. Append(a \o b, q) = (a \o b) \o <<q>> /\ Append(b, q) = b \o <<q>>
  BY <1>1, AppendIsConcat
<1> QED BY <1>1, <1>2, ConcatAssociative

\* The peer reads the reply to its oldest query.
LEMMA TakeFirst ==
  ASSUME NEW S, NEW a \in Seq(S), a # <<>>, NEW b \in Seq(S)
  PROVE  Tail(a \o b) = Tail(a) \o b
<1>1. /\ Len(a) \in Nat \ {0} /\ Len(b) \in Nat /\ Tail(a) \in Seq(S)
      /\ Len(Tail(a)) = Len(a) - 1 /\ a \o b \in Seq(S) /\ Len(a \o b) = Len(a) + Len(b)
      /\ \A i \in 1 .. Len(a) - 1 : Tail(a)[i] = a[i + 1]
  BY HeadTailProperties, ConcatProperties, LenProperties, EmptySeq
<1>2. /\ Tail(a \o b) \in Seq(S) /\ Len(Tail(a \o b)) = Len(a) + Len(b) - 1
      /\ \A i \in 1 .. Len(a) + Len(b) - 1 : Tail(a \o b)[i] = (a \o b)[i + 1]
  BY <1>1
<1>3. /\ Tail(a) \o b \in Seq(S) /\ Len(Tail(a) \o b) = Len(a) - 1 + Len(b)
      /\ \A i \in 1 .. (Len(a) - 1) + Len(b) :
           (Tail(a) \o b)[i] = IF i <= Len(a) - 1 THEN Tail(a)[i] ELSE b[i - (Len(a) - 1)]
  BY <1>1, ConcatProperties
<1>4. \A i \in 1 .. Len(a) + Len(b) : (a \o b)[i] = IF i <= Len(a) THEN a[i] ELSE b[i - Len(a)]
  BY ConcatProperties
<1>5. ASSUME NEW i \in 1 .. Len(a) + Len(b) - 1
      PROVE  Tail(a \o b)[i] = (Tail(a) \o b)[i]
  <2>1. i \in Nat /\ i + 1 \in 1 .. Len(a) + Len(b) /\ i \in 1 .. (Len(a) - 1) + Len(b)
    BY <1>1
  <2>2. CASE i <= Len(a) - 1
    <3>1. i + 1 <= Len(a) /\ i \in 1 .. Len(a) - 1
      BY <1>1, <2>1, <2>2
    <3> QED BY <1>1, <1>2, <1>3, <1>4, <2>1, <2>2, <3>1
  <2>3. CASE ~(i <= Len(a) - 1)
    <3>1. ~(i + 1 <= Len(a)) /\ (i + 1) - Len(a) = i - (Len(a) - 1)
      BY <1>1, <2>1, <2>3
    <3> QED BY <1>2, <1>3, <1>4, <2>1, <2>3, <3>1
  <2> QED BY <2>2, <2>3
<1>6. Len(Tail(a) \o b) = Len(a) + Len(b) - 1
  BY <1>1, <1>3
<1> QED BY <1>2, <1>3, <1>5, <1>6, SeqEqual

-----------------------------------------------------------------------------
(* Every step keeps the invariant. *)

Answers == \A p \in Peers : asked[p] = answered[p] \o Unanswered(p)

Stages == {"start", "idle", "busy", "ok", "error", "gone"}

\* What a request to the reload service may leave.
LEMMA ServiceTypes ==
  ASSUME \/ UNCHANGED service \/ Reload!Started \/ Reload!Request \/ Reload!Answer
         \/ Reload!Taken \/ Reload!Gone,
         service \in Stages
  PROVE  service' \in Stages
BY DEF Stages, Reload!Started, Reload!Request, Reload!Answer, Reload!Taken, Reload!Gone,
       Reload!Status

LEMMA InitHolds ==
  ASSUME Init
  PROVE  AdmInv
<1>1. TypeOK
  BY Sizes DEF Init, TypeOK, Reload!ServiceInit
<1>2. InUse = {} /\ OpenFds = {}
  BY DEF Init, InUse, OpenFds
<1>3. SlotsAccount
  BY <1>2, FS_EmptySet DEF Init, SlotsAccount
<1>4. ConnInv
  BY <1>2 DEF Init, ConnInv
<1>5. ReadInv
  BY DEF Init, ReadInv
<1>6. GoodInv
  <2>1. \A p \in Peers : Len(asked[p]) <= 1 /\ DOMAIN asked[p] = {}
    BY DEF Init
  <2> QED BY <2>1 DEF Init, GoodInv
<1>7. Answers
  <2>1. \A p \in Peers : Unanswered(p) = <<>>
    BY DEF Init, Unanswered
  <2> QED BY <2>1, ConcatEmptySeq, EmptySeq DEF Init, Answers
<1> QED BY <1>1, <1>3, <1>4, <1>5, <1>6, <1>7 DEF AdmInv, Answers

\* The server goes on and the connections stay as they are.
LEMMA QuietStep ==
  ASSUME AdmInv, apc # "reload", apc' \in {"select", "check", "accept", "read", "dead"},
         service' \in Stages,
         UNCHANGED <<clients, cur_clients, fdtable, backlog, conn, peerVars>>,
         readfds' \subseteq {Listening} \cup Fds,
         apc' \in {"check", "accept", "read"} =>
           /\ readfds' \subseteq {Listening} \cup OpenFds
           /\ "eintr" \notin Faults =>
                \A fd \in readfds' \cap Fds : inbox[fdtable[fd]] # <<>> \/ eof[fdtable[fd]]
  PROVE  AdmInv'
<1>1. TypeOK'
  BY DEF AdmInv, TypeOK, peerVars, Stages
<1>2. SlotsAccount' /\ InUse' = InUse /\ OpenFds' = OpenFds
  BY SameSlots DEF AdmInv
<1>3. ConnInv'
  BY <1>2 DEF AdmInv, ConnInv, peerVars
<1>4. ReadInv'
  BY <1>2 DEF ReadInv
<1>5. GoodInv'
  BY DEF AdmInv, GoodInv, peerVars
<1>6. Answers'
  BY DEF AdmInv, Answers, Unanswered, peerVars
<1> QED BY <1>1, <1>2, <1>3, <1>4, <1>5, <1>6 DEF AdmInv, Answers

LEMMA ListenStep ==
  ASSUME AdmInv, Listen
  PROVE  AdmInv'
<1>1. service' \in Stages /\ readfds' \subseteq {Listening} \cup Fds
  BY ServiceTypes DEF AdmInv, TypeOK, Stages, Listen
<1> QED BY <1>1, QuietStep DEF Listen

LEMMA SelectStep ==
  ASSUME AdmInv, Select
  PROVE  AdmInv'
<1>1. service' \in Stages
  BY ServiceTypes DEF AdmInv, TypeOK, Stages, Select
<1>2. Watched = {Listening} \cup OpenFds /\ OpenFds \subseteq Fds
  BY DEF Watched, AdmInv, SlotsAccount, OpenFds
<1>3. CASE readfds' = {fd \in Watched : Readable(fd)} /\ apc' = "check"
  <2>1. readfds' \subseteq {Listening} \cup OpenFds
    BY <1>2, <1>3
  <2>2. \A fd \in readfds' \cap Fds : inbox[fdtable[fd]] # <<>> \/ eof[fdtable[fd]]
    BY <1>3, Sizes DEF Readable
  <2> QED BY <1>1, <1>2, <1>3, <2>1, <2>2, QuietStep DEF Select
<1>4. CASE "eintr" \in Faults /\ readfds' = Watched /\ apc' = "check"
  BY <1>1, <1>2, <1>4, QuietStep DEF Select
<1>5. CASE UNCHANGED readfds /\ apc' = "dead"
  <2>1. readfds' \subseteq {Listening} \cup Fds
    BY <1>5 DEF AdmInv, TypeOK
  <2> QED BY <1>1, <1>5, <2>1, QuietStep DEF Select
<1> QED BY <1>3, <1>4, <1>5 DEF Select

LEMMA CheckSlavesStep ==
  ASSUME AdmInv, CheckSlaves
  PROVE  AdmInv'
<1>1. service' \in Stages /\ readfds' \subseteq {Listening} \cup Fds
  BY ServiceTypes DEF AdmInv, TypeOK, Stages, CheckSlaves
<1>2. /\ readfds' \subseteq {Listening} \cup OpenFds
      /\ "eintr" \notin Faults =>
           \A fd \in readfds' \cap Fds : inbox[fdtable[fd]] # <<>> \/ eof[fdtable[fd]]
  BY DEF AdmInv, ReadInv, GoodInv, CheckSlaves
<1> QED BY <1>1, <1>2, QuietStep DEF CheckSlaves

LEMMA NobodyToServeStep ==
  ASSUME AdmInv, NobodyToServe
  PROVE  AdmInv'
<1>1. service' \in Stages /\ readfds' \subseteq {Listening} \cup Fds
  BY DEF AdmInv, TypeOK, Stages, NobodyToServe
<1> QED BY <1>1, QuietStep DEF NobodyToServe

\* app_config_reload_all returns: the server has not moved.
LEMMA ReloadReturnsStep ==
  ASSUME AdmInv, ReloadReturns
  PROVE  AdmInv'
<1>1. service' \in Stages
  BY ServiceTypes DEF AdmInv, TypeOK, Stages, ReloadReturns
<1>2. TypeOK'
  BY <1>1 DEF AdmInv, TypeOK, peerVars, serverVars, Stages, ReloadReturns
<1>3. SlotsAccount' /\ InUse' = InUse /\ OpenFds' = OpenFds
  BY SameSlots DEF AdmInv, ReloadReturns, serverVars
<1>4. ConnInv'
  BY <1>3 DEF AdmInv, ConnInv, ReloadReturns, peerVars
<1>5. ReadInv'
  BY <1>3 DEF AdmInv, ReadInv, ReloadReturns, serverVars
<1>6. GoodInv'
  BY DEF AdmInv, GoodInv, ReloadReturns, peerVars, serverVars
<1>7. Chosen' = Chosen
  BY <1>3 DEF Chosen, ReloadReturns, serverVars
<1>8. Answers'
  BY <1>7 DEF AdmInv, Answers, Unanswered, ReloadReturns, peerVars, serverVars
<1> QED BY <1>2, <1>3, <1>4, <1>5, <1>6, <1>8 DEF AdmInv, Answers

\* What is left of a connection that is closed, and of a peer that behaves.
Clean ==
  \A p \in Peers : conn[p] = "closed" => /\ inbox[p] = <<>> /\ asked[p] = <<>>
                                         /\ answered[p] = <<>> /\ ~eof[p] /\ ~bad[p]
GoodPeers ==
  /\ \A p \in Peers : eof[p] => bad[p]
  /\ \A p \in Peers : ~bad[p] => Len(asked[p]) <= 1 /\ \A k \in DOMAIN asked[p] : asked[p][k] # "unknown"
PeerTypes ==
  /\ conn \in [Peers -> {"closed", "queued", "open"}]
  /\ inbox \in [Peers -> Seq(Queries)]
  /\ asked \in [Peers -> Seq(Queries)] /\ answered \in [Peers -> Seq(Queries)]
  /\ eof \in [Peers -> BOOLEAN] /\ bad \in [Peers -> BOOLEAN]

\* The connection of one peer is closed; the others are left alone.
LEMMA HangupEffect ==
  ASSUME AdmInv, NEW p \in Peers, Hangup({p}), apc' # "reload",
         \A q \in Peers \ {p} : Unanswered(q) = inbox[q]
  PROVE  /\ PeerTypes' /\ Clean' /\ GoodPeers' /\ Answers'
         /\ conn'[p] = "closed"
         /\ \A q \in Peers \ {p} : conn'[q] = conn[q] /\ inbox'[q] = inbox[q] /\ eof'[q] = eof[q]
<1>1. PeerTypes'
  BY EmptySeq DEF AdmInv, TypeOK, PeerTypes, Hangup
<1>2. /\ conn'[p] = "closed" /\ inbox'[p] = <<>> /\ asked'[p] = <<>> /\ answered'[p] = <<>>
      /\ ~eof'[p] /\ ~bad'[p]
  BY DEF Hangup
<1>3. ASSUME NEW q \in Peers \ {p}
      PROVE  /\ conn'[q] = conn[q] /\ inbox'[q] = inbox[q] /\ asked'[q] = asked[q]
             /\ answered'[q] = answered[q] /\ eof'[q] = eof[q] /\ bad'[q] = bad[q]
  BY DEF Hangup, AdmInv, TypeOK
<1>4. Clean'
  BY <1>2, <1>3 DEF Clean, AdmInv, ConnInv
<1>5. GoodPeers'
  <2>1. Len(asked'[p]) <= 1 /\ DOMAIN asked'[p] = {}
    BY <1>2
  <2> QED BY <1>2, <1>3, <2>1, SMTT(30) DEF GoodPeers, AdmInv, GoodInv
<1>6. Answers'
  <2>1. \A q \in Peers : Unanswered(q)' = inbox'[q]
    BY DEF Unanswered
  <2>2. asked'[p] = answered'[p] \o Unanswered(p)'
    BY <1>2, <2>1, ConcatEmptySeq, EmptySeq
  <2> QED BY <1>3, <2>1, <2>2 DEF Answers, AdmInv
<1> QED BY <1>1, <1>2, <1>3, <1>4, <1>5, <1>6

\* The first of the backlog leaves it.
LEMMA BacklogHead ==
  ASSUME TypeOK, ConnInv, backlog # <<>>
  PROVE  /\ Head(backlog) \in Peers /\ conn[Head(backlog)] = "queued"
         /\ Tail(backlog) \in Seq(Peers) /\ Len(Tail(backlog)) <= NATASHA_MAX_CLIENTS
         /\ \A j, k \in DOMAIN Tail(backlog) : Tail(backlog)[j] = Tail(backlog)[k] => j = k
         /\ \A p \in Peers : p # Head(backlog) /\ conn[p] = "queued"
                               <=> \E k \in DOMAIN Tail(backlog) : Tail(backlog)[k] = p
<1> DEFINE n == Len(backlog)  t == Tail(backlog)
<1>1. /\ n \in Nat \ {0} /\ n <= NATASHA_MAX_CLIENTS /\ DOMAIN backlog = 1 .. n
      /\ Head(backlog) = backlog[1] /\ Head(backlog) \in Peers
      /\ t \in Seq(Peers) /\ Len(t) = n - 1 /\ \A k \in 1 .. n - 1 : t[k] = backlog[k + 1]
  BY HeadTailProperties, LenProperties, EmptySeq DEF TypeOK
<1>2. DOMAIN t = 1 .. n - 1
  BY <1>1, LenProperties
<1> HIDE DEF n, t
<1>3. conn[Head(backlog)] = "queued"
  BY <1>1 DEF ConnInv
<1>4. Len(t) <= NATASHA_MAX_CLIENTS
  BY <1>1, Sizes
<1>5. \A j, k \in DOMAIN t : t[j] = t[k] => j = k
  <2>1. SUFFICES ASSUME NEW j \in 1 .. n - 1, NEW k \in 1 .. n - 1, t[j] = t[k]
                 PROVE  j = k
    BY <1>2
  <2>2. j + 1 \in 1 .. n /\ k + 1 \in 1 .. n /\ backlog[j + 1] = backlog[k + 1]
    BY <1>1, <2>1
  <2>3. j + 1 = k + 1
    BY <1>1, <2>2 DEF ConnInv
  <2> QED BY <2>3
<1>6. ASSUME NEW p \in Peers
      PROVE  p # Head(backlog) /\ conn[p] = "queued" <=> \E k \in DOMAIN t : t[k] = p
  <2>1. ASSUME p # Head(backlog), conn[p] = "queued" PROVE \E k \in DOMAIN t : t[k] = p
    <3>1. PICK k \in 1 .. n : backlog[k] = p
      BY <1>1, <2>1 DEF ConnInv
    <3>2. k # 1
      BY <1>1, <2>1, <3>1
    <3>3. k - 1 \in 1 .. n - 1 /\ (k - 1) + 1 = k
      BY <1>1, <3>1, <3>2
    <3>4. t[k - 1] = p
      BY <1>1, <3>1, <3>3
    <3> QED BY <1>2, <3>3, <3>4
  <2>2. ASSUME NEW k \in DOMAIN t, t[k] = p PROVE p # Head(backlog) /\ conn[p] = "queued"
    <3>1. k \in 1 .. n - 1 /\ k + 1 \in 1 .. n /\ 1 \in 1 .. n /\ k + 1 # 1
      BY <1>1, <1>2, <2>2
    <3>2. backlog[k + 1] = p
      BY <1>1, <2>2, <3>1
    <3> QED BY <1>1, <3>1, <3>2 DEF ConnInv
  <2> QED BY <2>1, <2>2
<1> QED BY <1>1, <1>3, <1>4, <1>5, <1>6 DEF t

\* The connection is closed at once.
LEMMA RefuseStep ==
  ASSUME AdmInv, apc = "accept", apc' = "read", backlog # <<>>, backlog' = Tail(backlog),
         Refuse(Head(backlog)), UNCHANGED <<readfds, service>>
  PROVE  AdmInv'
<1> DEFINE p == Head(backlog)
<1>1. /\ p \in Peers /\ conn[p] = "queued"
      /\ backlog' \in Seq(Peers) /\ Len(backlog') <= NATASHA_MAX_CLIENTS
      /\ \A j, k \in DOMAIN backlog' : backlog'[j] = backlog'[k] => j = k
      /\ \A q \in Peers : q # p /\ conn[q] = "queued" <=> \E k \in DOMAIN backlog' : backlog'[k] = q
  BY BacklogHead DEF AdmInv
<1>2. Hangup({p}) /\ UNCHANGED <<clients, cur_clients, fdtable>>
  BY DEF Refuse
<1> HIDE DEF p
<1>3. /\ PeerTypes' /\ Clean' /\ GoodPeers' /\ Answers' /\ conn'[p] = "closed"
      /\ \A q \in Peers \ {p} : conn'[q] = conn[q] /\ inbox'[q] = inbox[q] /\ eof'[q] = eof[q]
  <2>1. \A q \in Peers : Unanswered(q) = inbox[q]
    BY DEF Unanswered
  <2> QED BY <1>1, <1>2, <2>1, HangupEffect
<1>4. TypeOK'
  BY <1>1, <1>2, <1>3 DEF AdmInv, TypeOK, PeerTypes
<1>5. SlotsAccount' /\ InUse' = InUse /\ OpenFds' = OpenFds
  <2>1. \A q \in Peers : conn'[q] = "open" <=> conn[q] = "open"
    BY <1>1, <1>3
  <2> QED BY <1>2, <2>1, SameSlots DEF AdmInv
<1>6. ConnInv'
  <2>1. \A q \in Peers : conn'[q] = "queued" <=> \E k \in DOMAIN backlog' : backlog'[k] = q
    BY <1>1, <1>3
  <2> QED BY <1>1, <1>2, <1>3, <1>5, <2>1 DEF AdmInv, ConnInv, Clean
<1>7. ReadInv'
  BY <1>5 DEF AdmInv, ReadInv
<1>8. GoodInv'
  <2>1. ASSUME NEW fd \in readfds \cap Fds PROVE fdtable[fd] \in Peers \ {p}
    <3>1. fd \in OpenFds
      BY Sizes DEF AdmInv, ReadInv
    <3>2. fdtable[fd] \in Peers
      BY <3>1 DEF AdmInv, TypeOK, OpenFds
    <3>3. conn[fdtable[fd]] = "open"
      BY <3>1, <3>2 DEF AdmInv, SlotsAccount
    <3> QED BY <1>1, <3>2, <3>3
  <2> QED BY <1>2, <1>3, <2>1 DEF AdmInv, GoodInv, GoodPeers
<1> QED BY <1>3, <1>4, <1>5, <1>6, <1>7, <1>8 DEF AdmInv, Answers

\* The connection becomes a client.
LEMMA AdmitStep ==
  ASSUME AdmInv, apc = "accept", apc' = "read", backlog # <<>>, backlog' = Tail(backlog),
         cur_clients < NATASHA_MAX_CLIENTS, Admit(Head(backlog)), UNCHANGED <<readfds, service>>
  PROVE  AdmInv'
<1> DEFINE p == Head(backlog)
<1>1. /\ p \in Peers /\ conn[p] = "queued"
      /\ backlog' \in Seq(Peers) /\ Len(backlog') <= NATASHA_MAX_CLIENTS
      /\ \A j, k \in DOMAIN backlog' : backlog'[j] = backlog'[k] => j = k
      /\ \A q \in Peers : q # p /\ conn[q] = "queued" <=> \E k \in DOMAIN backlog' : backlog'[k] = q
  BY BacklogHead DEF AdmInv
<1>2. Admit(p)
  OBVIOUS
<1> HIDE DEF p
<1>3. /\ clients' \in [Slots -> {0} \cup Fds] /\ cur_clients' \in 0 .. NATASHA_MAX_CLIENTS
      /\ fdtable' \in [Fds -> {None} \cup Peers]
      /\ SlotsAccount' /\ OnePeerEach' /\ OpenFds \subseteq OpenFds'
      /\ \A fd \in OpenFds : fdtable'[fd] = fdtable[fd]
  BY <1>1, <1>2, AdmitEffect DEF AdmInv, ConnInv, OnePeerEach
<1>4. conn' = [conn EXCEPT ![p] = "open"] /\ UNCHANGED peerVars
  BY <1>2 DEF Admit
<1>5. TypeOK'
  BY <1>1, <1>3, <1>4 DEF AdmInv, TypeOK, peerVars
<1>6. ConnInv'
  <2>1. \A q \in Peers : conn'[q] = "queued" <=> \E k \in DOMAIN backlog' : backlog'[k] = q
    BY <1>1, <1>4 DEF AdmInv, TypeOK
  <2>2. Clean'
    BY <1>4 DEF AdmInv, ConnInv, TypeOK, Clean, peerVars
  <2> QED BY <1>1, <1>3, <2>1, <2>2 DEF ConnInv, Clean, OnePeerEach
<1>7. ReadInv'
  BY <1>3 DEF AdmInv, ReadInv
<1>8. GoodInv'
  <2>1. \A fd \in readfds \cap Fds : fdtable'[fd] = fdtable[fd]
    BY <1>3, Sizes DEF AdmInv, ReadInv
  <2> QED BY <1>4, <2>1 DEF AdmInv, GoodInv, peerVars
<1>9. Answers'
  BY <1>4 DEF AdmInv, Answers, Unanswered, peerVars
<1> QED BY <1>3, <1>5, <1>6, <1>7, <1>8, <1>9 DEF AdmInv, Answers

LEMMA AcceptStep ==
  ASSUME AdmInv, Accept
  PROVE  AdmInv'
<1>1. apc = "accept" /\ apc' = "read" /\ UNCHANGED <<readfds, service>>
  BY DEF Accept
<1>2. CASE backlog # <<>> /\ backlog' = Tail(backlog) /\ Refuse(Head(backlog))
  BY <1>1, <1>2, RefuseStep
<1>3. CASE /\ backlog # <<>> /\ backlog' = Tail(backlog)
           /\ cur_clients < NATASHA_MAX_CLIENTS /\ Admit(Head(backlog))
  BY <1>1, <1>3, AdmitStep
<1>4. CASE UNCHANGED <<backlog, conn, clients, cur_clients, fdtable, peerVars>>
  <2>1. service' \in Stages /\ readfds' \subseteq {Listening} \cup Fds
    BY <1>1 DEF AdmInv, TypeOK, Stages
  <2>2. /\ readfds' \subseteq {Listening} \cup OpenFds
        /\ "eintr" \notin Faults =>
             \A fd \in readfds' \cap Fds : inbox[fdtable[fd]] # <<>> \/ eof[fdtable[fd]]
    BY <1>1 DEF AdmInv, ReadInv, GoodInv
  <2> QED BY <1>1, <1>4, <2>1, <2>2, QuietStep
<1> QED BY <1>2, <1>3, <1>4 DEF Accept, AddClient

\* A client is disconnected and the loop starts again.
LEMMA DropStep ==
  ASSUME AdmInv, apc \in {"read", "reload"}, \E i \in InUse : clients[i] \in readfds,
         Drop(Chosen, fdtable[clients[Chosen]]), service' \in Stages, UNCHANGED <<readfds, backlog>>
  PROVE  AdmInv'
<1> DEFINE k == Chosen  p == fdtable[clients[k]]
<1>1. k \in InUse /\ p \in Peers /\ conn[p] = "open"
  BY ChosenClient DEF AdmInv
<1>2. Disconnect(k, p) /\ apc' = "select"
  BY DEF Drop
<1>3. \A q \in Peers \ {p} : Unanswered(q) = inbox[q]
  BY DEF Unanswered
<1>4. p = fdtable[clients[k]]
  OBVIOUS
<1> HIDE DEF k, p
<1>5. /\ clients' \in [Slots -> {0} \cup Fds] /\ cur_clients' \in 0 .. NATASHA_MAX_CLIENTS
      /\ fdtable' \in [Fds -> {None} \cup Peers]
      /\ SlotsAccount' /\ OnePeerEach'
  BY <1>1, <1>2, <1>4, DisconnectEffect DEF AdmInv, ConnInv, OnePeerEach
<1>6. Hangup({p})
  BY <1>2 DEF Disconnect
<1>7. /\ PeerTypes' /\ Clean' /\ GoodPeers' /\ Answers' /\ conn'[p] = "closed"
      /\ \A q \in Peers \ {p} : conn'[q] = conn[q] /\ inbox'[q] = inbox[q] /\ eof'[q] = eof[q]
  BY <1>1, <1>2, <1>3, <1>6, HangupEffect
<1>8. TypeOK'
  BY <1>2, <1>5, <1>7 DEF AdmInv, TypeOK, PeerTypes, Stages
<1>9. ConnInv'
  <2>1. \A q \in Peers : conn'[q] = "queued" <=> conn[q] = "queued"
    BY <1>1, <1>7
  <2> QED BY <1>5, <1>7, <2>1 DEF AdmInv, ConnInv, Clean, OnePeerEach
<1>10. ReadInv'
  BY <1>2 DEF ReadInv
<1>11. GoodInv'
  BY <1>2, <1>7 DEF GoodInv, GoodPeers
<1> QED BY <1>5, <1>7, <1>8, <1>9, <1>10, <1>11 DEF AdmInv, Answers

\* The client gets its reply.
LEMMA ReplyStep ==
  ASSUME AdmInv, NEW p \in Peers, conn[p] = "open", NEW q \in Queries, NEW unread \in Seq(Queries),
         Unanswered(p) = <<q>> \o unread, \A r \in Peers \ {p} : Unanswered(r) = inbox[r],
         NEW i, Reply(i, p, q, unread), apc' \in {"select", "exit"}, service' \in Stages,
         UNCHANGED <<readfds, backlog>>
  PROVE  AdmInv'
<1>1. /\ answered' = [answered EXCEPT ![p] = Append(@, q)]
      /\ inbox' = [inbox EXCEPT ![p] = unread]
      /\ UNCHANGED <<fdtable, clients, cur_clients, conn, eof, asked, bad>>
  BY DEF Reply
<1>2. TypeOK'
  <2>1. Append(answered[p], q) \in Seq(Queries)
    BY AppendProperties DEF AdmInv, TypeOK
  <2> QED BY <1>1, <2>1 DEF AdmInv, TypeOK, Stages
<1>3. SlotsAccount' /\ InUse' = InUse /\ OpenFds' = OpenFds
  BY <1>1, SameSlots DEF AdmInv
<1>4. ConnInv'
  <2>1. Clean'
    BY <1>1 DEF AdmInv, ConnInv, TypeOK, Clean
  <2> QED BY <1>1, <1>3, <2>1 DEF AdmInv, ConnInv, Clean
<1>5. ReadInv'
  BY DEF ReadInv
<1>6. GoodInv'
  BY <1>1 DEF AdmInv, GoodInv
<1>7. Answers'
  <2>1. \A r \in Peers : Unanswered(r)' = inbox'[r]
    BY DEF Unanswered
  <2>2. asked[p] = Append(answered[p], q) \o unread
    <3>1. answered[p] \in Seq(Queries)
      BY DEF AdmInv, TypeOK
    <3>2. asked[p] = answered[p] \o (<<q>> \o unread)
      BY DEF AdmInv
    <3>3. \A a \in Seq(Queries) : a \o (<<q>> \o unread) = Append(a, q) \o unread
      <4>1. TAKE a \in Seq(Queries)
      <4> QED BY MoveFirst
    <3>4. answered[p] \o (<<q>> \o unread) = Append(answered[p], q) \o unread
      BY <3>1, <3>3, Zenon
    <3> QED BY <3>2, <3>4
  <2>3. ASSUME NEW r \in Peers PROVE asked'[r] = answered'[r] \o inbox'[r]
    <3>1. CASE r = p
      BY <1>1, <2>2, <3>1 DEF AdmInv, TypeOK
    <3>2. CASE r # p
      BY <1>1, <3>2 DEF AdmInv, TypeOK
    <3> QED BY <3>1, <3>2
  <2> QED BY <2>1, <2>3 DEF Answers
<1> QED BY <1>2, <1>3, <1>4, <1>5, <1>6, <1>7 DEF AdmInv, Answers

\* What has been read is one query.
LEMMA OneQuery ==
  ASSUME NEW data \in Seq(Queries), IsQuery(data)
  PROVE  Head(data) \in Queries /\ data = <<Head(data)>> /\ data = <<Head(data)>> \o <<>>
<1>1. Len(data) = 1
  BY DEF IsQuery
<1>2. data # <<>> /\ Head(data) \in Queries /\ Head(data) = data[1]
  BY <1>1, HeadTailProperties, EmptySeq
<1>3. <<Head(data)>> \in Seq(Queries) /\ Len(<<Head(data)>>) = 1
  BY <1>2
<1>4. data = <<Head(data)>>
  <2>1. \A k \in 1 .. Len(data) : data[k] = <<Head(data)>>[k]
    BY <1>1, <1>2
  <2> QED BY <1>1, <1>3, <2>1, SeqEqual
<1> QED BY <1>2, <1>3, <1>4, ConcatEmptySeq

\* The query has been read and the server is in app_config_reload_all.
LEMMA ReloadStep ==
  ASSUME AdmInv, apc = "read", apc' = "reload", \E i \in InUse : clients[i] \in readfds,
         NEW p, p = fdtable[clients[Chosen]], inbox[p] = <<"reload">>,
         inbox' = [inbox EXCEPT ![p] = <<>>], service' \in Stages,
         UNCHANGED <<fdtable, clients, cur_clients, conn, eof, asked, answered, bad, readfds, backlog>>
  PROVE  AdmInv'
<1>1. p \in Peers /\ conn[p] = "open"
  BY ChosenClient DEF AdmInv
<1>2. "reload" \in Queries
  <2>1. inbox[p] \in Seq(Queries)
    BY <1>1 DEF AdmInv, TypeOK
  <2>2. Len(inbox[p]) = 1 /\ inbox[p][1] = "reload"
    OBVIOUS
  <2> QED BY <2>1, <2>2, ElementOfSeq
<1>3. TypeOK'
  BY <1>1, EmptySeq DEF AdmInv, TypeOK, Stages
<1>4. SlotsAccount' /\ InUse' = InUse /\ OpenFds' = OpenFds
  BY SameSlots DEF AdmInv
<1>5. ConnInv'
  <2>1. Clean'
    BY <1>1 DEF AdmInv, ConnInv, TypeOK, Clean
  <2> QED BY <1>4, <2>1 DEF AdmInv, ConnInv, Clean
<1>6. ReadInv'
  BY <1>2, <1>4 DEF AdmInv, ReadInv
<1>7. GoodInv'
  BY DEF AdmInv, GoodInv
<1>8. Chosen' = Chosen
  BY <1>4 DEF Chosen
<1>9. Answers'
  <2>1. ASSUME NEW r \in Peers PROVE Unanswered(r)' = Unanswered(r)
    <3>1. CASE r = p
      <4>1. inbox'[r] = <<>> /\ <<"reload">> \o <<>> = <<"reload">>
        BY <1>1, <1>2, <3>1, ConcatEmptySeq DEF AdmInv, TypeOK
      <4> QED BY <1>8, <3>1, <4>1 DEF Unanswered
    <3>2. CASE r # p
      <4>1. inbox'[r] = inbox[r]
        BY <3>2 DEF AdmInv, TypeOK
      <4> QED BY <1>8, <3>2, <4>1 DEF Unanswered
    <3> QED BY <3>1, <3>2
  <2> QED BY <2>1 DEF AdmInv, Answers
<1> QED BY <1>3, <1>4, <1>5, <1>6, <1>7, <1>9 DEF AdmInv, Answers

LEMMA ServeStep ==
  ASSUME AdmInv, Serve
  PROVE  AdmInv'
<1> DEFINE p == fdtable[clients[Chosen]]
<1>1. /\ apc = "read" /\ (\E i \in InUse : clients[i] \in readfds)
      /\ UNCHANGED <<readfds, backlog>> /\ service \in Stages
  BY DEF Serve, AdmInv, TypeOK, Stages
<1>2. p \in Peers /\ conn[p] = "open"
  BY <1>1, ChosenClient DEF AdmInv
<1>3. CASE Drop(Chosen, p) /\ UNCHANGED service
  BY <1>1, <1>3, DropStep
<1>4. CASE IsQuery(inbox[p]) /\ Handle(Chosen, p, Head(inbox[p])) /\ ~(Drop(Chosen, p) /\ UNCHANGED service)
  <2> DEFINE q == Head(inbox[p])
  <2>1. q \in Queries /\ inbox[p] = <<q>> /\ inbox[p] = <<q>> \o <<>>
    BY <1>2, <1>4, OneQuery DEF AdmInv, TypeOK
  <2>2. \A r \in Peers : Unanswered(r) = inbox[r]
    BY <1>1 DEF Unanswered
  <2>3. <<>> \in Seq(Queries)
    BY EmptySeq
  <2>4. CASE Reply(Chosen, p, q, <<>>) /\ apc' = "select" /\ UNCHANGED service
    <3> HIDE DEF p, q
    <3> QED BY <1>1, <1>2, <2>1, <2>2, <2>3, <2>4, ReplyStep
  <2>5. CASE Reply(Chosen, p, q, <<>>) /\ apc' = "exit" /\ Reload!Gone
    <3>1. service' \in Stages
      BY <1>1, <2>5, ServiceTypes
    <3> HIDE DEF p, q
    <3> QED BY <1>1, <1>2, <2>1, <2>2, <2>3, <2>5, <3>1, ReplyStep
  <2>6. CASE /\ q = "reload" /\ inbox' = [inbox EXCEPT ![p] = <<>>]
             /\ apc' = "reload" /\ Reload!Request
             /\ UNCHANGED <<fdtable, clients, cur_clients, conn, eof, asked, answered, bad>>
    <3>1. service' \in Stages
      BY <1>1, <2>6, ServiceTypes
    <3>2. p = fdtable[clients[Chosen]]
      OBVIOUS
    <3> HIDE DEF p, q
    <3> QED BY <1>1, <2>1, <2>6, <3>1, <3>2, ReloadStep
  <2> QED BY <1>4, <2>4, <2>5, <2>6 DEF Handle
<1> QED BY <1>3, <1>4 DEF Serve

LEMMA ReloadedStep ==
  ASSUME AdmInv, Reloaded
  PROVE  AdmInv'
<1> DEFINE p == fdtable[clients[Chosen]]
<1>1. /\ apc = "reload" /\ (\E i \in InUse : clients[i] \in readfds) /\ "reload" \in Queries
      /\ UNCHANGED <<readfds, backlog>>
  BY DEF Reloaded, AdmInv, ReadInv
<1>2. service' \in Stages
  BY ServiceTypes DEF Reloaded, AdmInv, TypeOK, Stages
<1>3. p \in Peers /\ conn[p] = "open"
  BY <1>1, ChosenClient DEF AdmInv
<1>4. CASE Drop(Chosen, p)
  BY <1>1, <1>2, <1>4, DropStep
<1>5. CASE Reply(Chosen, p, "reload", inbox[p]) /\ apc' = "select"
  <2>1. Unanswered(p) = <<"reload">> \o inbox[p] /\ \A r \in Peers \ {p} : Unanswered(r) = inbox[r]
    BY <1>1 DEF Unanswered
  <2>2. inbox[p] \in Seq(Queries)
    BY <1>3 DEF AdmInv, TypeOK
  <2> HIDE DEF p
  <2> QED BY <1>1, <1>2, <1>3, <1>5, <2>1, <2>2, ReplyStep
<1> QED BY <1>4, <1>5 DEF Reloaded

\* The process ends, and every connection with it.
LEMMA StopStep ==
  ASSUME AdmInv, Stop
  PROVE  AdmInv'
<1>1. service' \in Stages
  BY ServiceTypes DEF Stop, AdmInv, TypeOK, Stages
<1>2. \A p \in Peers : /\ conn'[p] = "closed" /\ inbox'[p] = <<>> /\ asked'[p] = <<>>
                       /\ answered'[p] = <<>> /\ ~eof'[p] /\ ~bad'[p]
  BY DEF Stop, Hangup
<1>3. TypeOK'
  <2>1. PeerTypes'
    BY EmptySeq DEF Stop, Hangup, PeerTypes
  <2> QED BY <1>1, <2>1, Sizes, EmptySeq DEF Stop, TypeOK, PeerTypes, Stages
<1>4. InUse' = {} /\ OpenFds' = {}
  BY DEF Stop, InUse, OpenFds
<1>5. SlotsAccount'
  BY <1>2, <1>4, FS_EmptySet DEF Stop, SlotsAccount
<1>6. ConnInv'
  <2>1. DOMAIN backlog' = {}
    BY DEF Stop
  <2> QED BY <1>2, <1>4, <2>1 DEF ConnInv
<1>7. ReadInv'
  BY DEF Stop, ReadInv
<1>8. GoodInv'
  <2>1. \A p \in Peers : Len(asked'[p]) <= 1 /\ DOMAIN asked'[p] = {}
    BY <1>2
  <2> QED BY <1>2, <2>1 DEF Stop, GoodInv
<1>9. Answers'
  <2>1. \A p \in Peers : Unanswered(p)' = <<>>
    BY <1>2 DEF Stop, Unanswered
  <2> QED BY <1>2, <2>1, ConcatEmptySeq, EmptySeq DEF Answers
<1> QED BY <1>3, <1>5, <1>6, <1>7, <1>8, <1>9 DEF AdmInv, Answers

\* A peer joins the backlog.
LEMMA ConnectStep ==
  ASSUME AdmInv, NEW p \in Peers, Connect(p)
  PROVE  AdmInv'
<1>1. /\ conn[p] = "closed" /\ conn' = [conn EXCEPT ![p] = "queued"]
      /\ Len(backlog) < NATASHA_MAX_CLIENTS /\ backlog' = Append(backlog, p)
      /\ UNCHANGED <<serverVars, service, fdtable, inbox, eof, asked, answered, bad>>
  BY DEF Connect
<1>2. /\ backlog' \in Seq(Peers) /\ Len(backlog) \in Nat /\ Len(backlog') = Len(backlog) + 1
      /\ DOMAIN backlog = 1 .. Len(backlog) /\ DOMAIN backlog' = 1 .. Len(backlog) + 1
      /\ backlog'[Len(backlog) + 1] = p /\ \A k \in 1 .. Len(backlog) : backlog'[k] = backlog[k]
  BY <1>1, AppendProperties, LenProperties DEF AdmInv, TypeOK
<1>3. TypeOK'
  BY <1>1, <1>2, Sizes DEF AdmInv, TypeOK, serverVars
<1>4. SlotsAccount' /\ InUse' = InUse /\ OpenFds' = OpenFds
  <2>1. \A q \in Peers : conn'[q] = "open" <=> conn[q] = "open"
    BY <1>1 DEF AdmInv, TypeOK
  <2> QED BY <1>1, <2>1, SameSlots DEF AdmInv, serverVars
<1>5. \A k \in 1 .. Len(backlog) : backlog[k] # p
  BY <1>1, <1>2 DEF AdmInv, ConnInv
<1>6. ConnInv'
  <2>1. ASSUME NEW j \in DOMAIN backlog', NEW k \in DOMAIN backlog', backlog'[j] = backlog'[k]
        PROVE  j = k
    <3>1. (j \in 1 .. Len(backlog) \/ j = Len(backlog) + 1) /\ (k \in 1 .. Len(backlog) \/ k = Len(backlog) + 1)
      BY <1>2, <2>1
    <3> QED BY <1>2, <1>5, <2>1, <3>1 DEF AdmInv, ConnInv
  <2>2. ASSUME NEW q \in Peers
        PROVE  conn'[q] = "queued" <=> \E k \in DOMAIN backlog' : backlog'[k] = q
    <3>1. CASE q = p
      <4>1. Len(backlog) + 1 \in DOMAIN backlog'
        BY <1>2
      <4> QED BY <1>1, <1>2, <3>1, <4>1 DEF AdmInv, TypeOK
    <3>2. CASE q # p
      <4>1. conn'[q] = conn[q]
        BY <1>1, <3>2 DEF AdmInv, TypeOK
      <4>2. \A k \in DOMAIN backlog' : k = Len(backlog) + 1 \/ k \in DOMAIN backlog
        BY <1>2
      <4>3. DOMAIN backlog \subseteq DOMAIN backlog'
        BY <1>2
      <4> QED BY <1>2, <3>2, <4>1, <4>2, <4>3 DEF AdmInv, ConnInv
    <3> QED BY <3>1, <3>2
  <2>3. Clean'
    BY <1>1 DEF AdmInv, ConnInv, TypeOK, Clean
  <2> QED BY <1>1, <1>4, <2>1, <2>2, <2>3 DEF AdmInv, ConnInv, Clean
<1>7. ReadInv'
  BY <1>1, <1>4 DEF AdmInv, ReadInv, serverVars
<1>8. GoodInv'
  BY <1>1 DEF AdmInv, GoodInv, serverVars
<1>9. Chosen' = Chosen
  BY <1>1, <1>4 DEF Chosen, serverVars
<1>10. Answers'
  BY <1>1, <1>9 DEF AdmInv, Answers, Unanswered, serverVars
<1> QED BY <1>3, <1>4, <1>6, <1>7, <1>8, <1>10 DEF AdmInv, Answers

\* A query goes behind those that are not answered.
LEMMA SendStep ==
  ASSUME AdmInv, NEW p \in Peers, NEW q \in Queries, Send(p, q)
  PROVE  AdmInv'
<1>1. /\ conn[p] \in {"queued", "open"} /\ ~eof[p]
      /\ inbox' = [inbox EXCEPT ![p] = Append(@, q)]
      /\ asked' = [asked EXCEPT ![p] = Append(@, q)]
      /\ bad' = [bad EXCEPT ![p] = @ \/ q = "unknown" \/ asked[p] # <<>>]
      /\ UNCHANGED <<serverVars, service, fdtable, backlog, conn, eof, answered>>
  BY DEF Send
<1>2. /\ inbox[p] \in Seq(Queries) /\ asked[p] \in Seq(Queries) /\ answered[p] \in Seq(Queries)
      /\ Append(inbox[p], q) \in Seq(Queries) /\ Append(asked[p], q) \in Seq(Queries)
      /\ Append(inbox[p], q) # <<>>
  <2>1. inbox[p] \in Seq(Queries) /\ asked[p] \in Seq(Queries) /\ answered[p] \in Seq(Queries)
    BY DEF AdmInv, TypeOK
  <2> QED BY <2>1, AppendProperties
<1>3. /\ inbox'[p] = Append(inbox[p], q) /\ asked'[p] = Append(asked[p], q)
      /\ bad'[p] = (bad[p] \/ q = "unknown" \/ asked[p] # <<>>)
      /\ \A r \in Peers \ {p} : inbox'[r] = inbox[r] /\ asked'[r] = asked[r] /\ bad'[r] = bad[r]
  BY <1>1 DEF AdmInv, TypeOK
<1>4. TypeOK'
  <2>1. inbox' \in [Peers -> Seq(Queries)] /\ asked' \in [Peers -> Seq(Queries)]
    BY <1>1, <1>2 DEF AdmInv, TypeOK
  <2>2. bad' \in [Peers -> BOOLEAN]
    BY <1>1 DEF AdmInv, TypeOK
  <2> QED BY <1>1, <2>1, <2>2 DEF AdmInv, TypeOK, serverVars
<1>5. SlotsAccount' /\ InUse' = InUse /\ OpenFds' = OpenFds
  BY <1>1, SameSlots DEF AdmInv, serverVars
<1>6. ConnInv'
  <2>1. Clean'
    BY <1>1, <1>3 DEF AdmInv, ConnInv, Clean
  <2> QED BY <1>1, <1>5, <2>1 DEF AdmInv, ConnInv, Clean
<1>7. ReadInv'
  BY <1>1, <1>5 DEF AdmInv, ReadInv, serverVars
<1>8. GoodPeers'
  <2>1. eof'[p] => bad'[p]
    BY <1>1
  <2>2. ASSUME ~bad'[p]
        PROVE  Len(asked'[p]) <= 1 /\ \A k \in DOMAIN asked'[p] : asked'[p][k] # "unknown"
    <3>1. asked[p] = <<>> /\ q # "unknown"
      BY <1>3, <2>2
    <3>2. asked'[p] = <<q>>
      BY <1>3, <3>1
    <3> QED BY <3>1, <3>2
  <2> QED BY <1>1, <1>3, <2>1, <2>2 DEF AdmInv, GoodInv, GoodPeers
<1>9. GoodInv'
  <2>1. ASSUME "eintr" \notin Faults, apc \in {"check", "accept", "read"}, NEW fd \in readfds \cap Fds
        PROVE  inbox'[fdtable[fd]] # <<>> \/ eof[fdtable[fd]]
    <3>1. fd \in OpenFds
      BY <2>1, Sizes DEF AdmInv, ReadInv
    <3>2. fdtable[fd] \in Peers
      BY <3>1 DEF AdmInv, TypeOK, OpenFds
    <3> QED BY <1>2, <1>3, <2>1, <3>2 DEF AdmInv, GoodInv
  <2> QED BY <1>1, <1>8, <2>1 DEF GoodInv, GoodPeers, serverVars
<1>10. Chosen' = Chosen
  BY <1>1, <1>5 DEF Chosen, serverVars
<1>11. Answers'
  <2>1. ASSUME NEW r \in Peers \ {p} PROVE asked'[r] = answered'[r] \o Unanswered(r)'
    BY <1>1, <1>3, <1>10 DEF AdmInv, Unanswered, serverVars
  <2>2. \A a, b \in Seq(Queries) : Append(a \o b, q) = a \o Append(b, q)
    BY MoveLast
  <2>3. asked'[p] = answered'[p] \o Unanswered(p)'
    <3>1. CASE apc = "reload" /\ fdtable[clients[Chosen]] = p
      <4>1. /\ "reload" \in Queries /\ <<"reload">> \in Seq(Queries)
            /\ <<"reload">> \o inbox[p] \in Seq(Queries)
        BY <1>2, <3>1, ConcatProperties DEF AdmInv, ReadInv
      <4>2. /\ Unanswered(p) = <<"reload">> \o inbox[p]
            /\ Unanswered(p)' = <<"reload">> \o Append(inbox[p], q)
        BY <1>1, <1>3, <1>10, <3>1 DEF Unanswered, serverVars
      <4>3. Unanswered(p)' = Append(<<"reload">> \o inbox[p], q)
        BY <1>2, <2>2, <4>1, <4>2
      <4>4. asked[p] = answered[p] \o (<<"reload">> \o inbox[p])
        BY <4>2 DEF AdmInv
      <4>5. Append(asked[p], q) = answered[p] \o Append(<<"reload">> \o inbox[p], q)
        <5>1. Append(answered[p] \o (<<"reload">> \o inbox[p]), q)
                = answered[p] \o Append(<<"reload">> \o inbox[p], q)
          BY <1>2, <2>2, <4>1, Zenon
        <5> QED BY <4>4, <5>1
      <4> QED BY <1>1, <1>3, <4>3, <4>5
    <3>2. CASE ~(apc = "reload" /\ fdtable[clients[Chosen]] = p)
      <4>1. Unanswered(p) = inbox[p] /\ Unanswered(p)' = Append(inbox[p], q)
        BY <1>1, <1>3, <1>10, <3>2 DEF Unanswered, serverVars
      <4>2. asked[p] = answered[p] \o inbox[p]
        BY <4>1 DEF AdmInv
      <4>3. Append(asked[p], q) = answered[p] \o Append(inbox[p], q)
        <5>1. Append(answered[p] \o inbox[p], q) = answered[p] \o Append(inbox[p], q)
          BY <1>2, <2>2, Zenon
        <5> QED BY <4>2, <5>1
      <4> QED BY <1>1, <1>3, <4>1, <4>3
    <3> QED BY <3>1, <3>2
  <2> QED BY <2>1, <2>3 DEF Answers
<1> QED BY <1>4, <1>5, <1>6, <1>7, <1>9, <1>11 DEF AdmInv, Answers

LEMMA UnansweredType ==
  ASSUME TypeOK, ReadInv, NEW p \in Peers
  PROVE  Unanswered(p) \in Seq(Queries)
<1>1. inbox[p] \in Seq(Queries)
  BY DEF TypeOK
<1>2. CASE apc = "reload" /\ fdtable[clients[Chosen]] = p
  <2>1. "reload" \in Queries /\ <<"reload">> \in Seq(Queries)
    BY <1>2 DEF ReadInv
  <2> QED BY <1>1, <1>2, <2>1, ConcatProperties DEF Unanswered
<1>3. CASE ~(apc = "reload" /\ fdtable[clients[Chosen]] = p)
  BY <1>1, <1>3 DEF Unanswered
<1> QED BY <1>2, <1>3

\* The peer reads a reply.
LEMMA ReceiveStep ==
  ASSUME AdmInv, NEW p \in Peers, Receive(p)
  PROVE  AdmInv'
<1>1. /\ answered[p] # <<>>
      /\ asked' = [asked EXCEPT ![p] = Tail(@)]
      /\ answered' = [answered EXCEPT ![p] = Tail(@)]
      /\ UNCHANGED <<serverVars, service, fdtable, backlog, conn, inbox, eof, bad>>
  BY DEF Receive
<1>2. InUse' = InUse /\ OpenFds' = OpenFds /\ SlotsAccount'
  BY <1>1, SameSlots DEF AdmInv, serverVars
<1>3. Chosen' = Chosen
  BY <1>1, <1>2 DEF Chosen, serverVars
<1>4. \A r \in Peers : Unanswered(r)' = Unanswered(r)
  BY <1>1, <1>3 DEF Unanswered, serverVars
<1>5. inbox[p] \in Seq(Queries) /\ asked[p] \in Seq(Queries) /\ answered[p] \in Seq(Queries)
  BY DEF AdmInv, TypeOK
<1>6. Unanswered(p) \in Seq(Queries)
  BY UnansweredType DEF AdmInv
<1> DEFINE u == Unanswered(p)
<1>7. asked[p] = answered[p] \o u
  BY DEF AdmInv
<1> HIDE DEF u
<1>8. asked[p] # <<>>
  BY <1>1, <1>5, <1>6, <1>7, ConcatProperties, LenProperties, EmptySeq DEF u
<1>9. /\ Tail(asked[p]) \in Seq(Queries) /\ Tail(answered[p]) \in Seq(Queries)
      /\ Len(Tail(asked[p])) = Len(asked[p]) - 1 /\ Len(asked[p]) \in Nat
      /\ \A k \in 1 .. Len(asked[p]) - 1 : Tail(asked[p])[k] = asked[p][k + 1]
  BY <1>1, <1>5, <1>8, HeadTailProperties, LenProperties
<1>10. /\ asked'[p] = Tail(asked[p]) /\ answered'[p] = Tail(answered[p])
       /\ \A r \in Peers \ {p} : asked'[r] = asked[r] /\ answered'[r] = answered[r]
  BY <1>1 DEF AdmInv, TypeOK
<1>11. TypeOK'
  <2>1. asked' \in [Peers -> Seq(Queries)] /\ answered' \in [Peers -> Seq(Queries)]
    BY <1>1, <1>9 DEF AdmInv, TypeOK
  <2> QED BY <1>1, <2>1 DEF AdmInv, TypeOK, serverVars
<1>12. ConnInv'
  <2>1. conn[p] # "closed"
    BY <1>1 DEF AdmInv, ConnInv
  <2>2. Clean'
    BY <1>1, <1>10, <2>1 DEF AdmInv, ConnInv, Clean
  <2> QED BY <1>1, <1>2, <2>2 DEF AdmInv, ConnInv, Clean
<1>13. ReadInv'
  BY <1>1, <1>2 DEF AdmInv, ReadInv, serverVars
<1>14. GoodInv'
  <2>1. ASSUME ~bad[p]
        PROVE  Len(asked'[p]) <= 1 /\ \A k \in DOMAIN asked'[p] : asked'[p][k] # "unknown"
    <3>1. Len(asked[p]) <= 1
      BY <2>1 DEF AdmInv, GoodInv
    <3>2. Len(asked'[p]) <= 0
      BY <1>9, <1>10, <3>1
    <3>3. DOMAIN asked'[p] = 1 .. Len(asked'[p])
      BY <1>9, <1>10, LenProperties
    <3> QED BY <1>9, <1>10, <3>2, <3>3
  <2>2. GoodPeers'
    BY <1>1, <1>10, <2>1 DEF AdmInv, GoodInv, GoodPeers
  <2> QED BY <1>1, <2>2 DEF AdmInv, GoodInv, GoodPeers, serverVars
<1>15. Answers'
  <2>1. Tail(asked[p]) = Tail(answered[p]) \o u
    <3>1. Tail(answered[p] \o u) = Tail(answered[p]) \o u
      BY <1>1, <1>5, <1>6, TakeFirst DEF u
    <3> QED BY <1>7, <3>1
  <2>2. asked'[p] = answered'[p] \o Unanswered(p)'
    BY <1>4, <1>10, <2>1 DEF u
  <2> QED BY <1>4, <1>10, <2>2 DEF AdmInv, Answers
<1> QED BY <1>2, <1>11, <1>12, <1>13, <1>14, <1>15 DEF AdmInv, Answers

\* The peer closes its end.
LEMMA CloseStep ==
  ASSUME AdmInv, NEW p \in Peers, Close(p)
  PROVE  AdmInv'
<1>1. /\ conn[p] \in {"queued", "open"}
      /\ eof' = [eof EXCEPT ![p] = TRUE] /\ bad' = [bad EXCEPT ![p] = TRUE]
      /\ UNCHANGED <<serverVars, service, fdtable, backlog, conn, inbox, asked, answered>>
  BY DEF Close
<1>2. /\ eof'[p] /\ bad'[p]
      /\ \A r \in Peers \ {p} : eof'[r] = eof[r] /\ bad'[r] = bad[r]
  BY <1>1 DEF AdmInv, TypeOK
<1>3. TypeOK'
  <2>1. eof' \in [Peers -> BOOLEAN] /\ bad' \in [Peers -> BOOLEAN]
    BY <1>1 DEF AdmInv, TypeOK
  <2> QED BY <1>1, <2>1 DEF AdmInv, TypeOK, serverVars
<1>4. InUse' = InUse /\ OpenFds' = OpenFds /\ SlotsAccount'
  BY <1>1, SameSlots DEF AdmInv, serverVars
<1>5. ConnInv'
  <2>1. Clean'
    BY <1>1, <1>2 DEF AdmInv, ConnInv, Clean
  <2> QED BY <1>1, <1>4, <2>1 DEF AdmInv, ConnInv, Clean
<1>6. ReadInv'
  BY <1>1, <1>4 DEF AdmInv, ReadInv, serverVars
<1>7. GoodInv'
  <2>1. GoodPeers'
    BY <1>1, <1>2 DEF AdmInv, GoodInv, GoodPeers
  <2>2. ASSUME "eintr" \notin Faults, apc \in {"check", "accept", "read"}, NEW fd \in readfds \cap Fds
        PROVE  inbox[fdtable[fd]] # <<>> \/ eof'[fdtable[fd]]
    <3>1. fd \in OpenFds
      BY <2>2, Sizes DEF AdmInv, ReadInv
    <3>2. fdtable[fd] \in Peers
      BY <3>1 DEF AdmInv, TypeOK, OpenFds
    <3> QED BY <1>2, <2>2, <3>2 DEF AdmInv, GoodInv
  <2> QED BY <1>1, <2>1, <2>2 DEF GoodInv, GoodPeers, serverVars
<1>8. Chosen' = Chosen
  BY <1>1, <1>4 DEF Chosen, serverVars
<1>9. Answers'
  BY <1>1, <1>8 DEF AdmInv, Answers, Unanswered, serverVars
<1> QED BY <1>3, <1>4, <1>5, <1>6, <1>7, <1>9 DEF AdmInv, Answers

LEMMA UnchangedStep ==
  ASSUME AdmInv, UNCHANGED vars
  PROVE  AdmInv'
<1>1. InUse' = InUse /\ OpenFds' = OpenFds /\ SlotsAccount'
  BY SameSlots DEF AdmInv, vars, serverVars
<1>2. Chosen' = Chosen
  BY <1>1 DEF Chosen, vars, serverVars
<1>3. TypeOK'
  BY DEF AdmInv, TypeOK, vars, serverVars, peerVars
<1>4. ConnInv' /\ ReadInv' /\ GoodInv'
  BY <1>1 DEF AdmInv, ConnInv, ReadInv, GoodInv, vars, serverVars, peerVars
<1>5. Answers'
  BY <1>2 DEF AdmInv, Answers, Unanswered, vars, serverVars, peerVars
<1> QED BY <1>1, <1>3, <1>4, <1>5 DEF AdmInv, Answers

LEMMA NextStep ==
  ASSUME AdmInv, [Next]_vars
  PROVE  AdmInv'
<1>1. CASE Server
  BY <1>1, ListenStep, SelectStep, CheckSlavesStep, AcceptStep, ServeStep, ReloadedStep,
     NobodyToServeStep DEF Server
<1>2. CASE \E p \in Peers : Peer(p)
  BY <1>2, ConnectStep, ReceiveStep, CloseStep, SendStep DEF Peer
<1> QED BY <1>1, <1>2, ReloadReturnsStep, StopStep, UnchangedStep DEF Next, Terminated

-----------------------------------------------------------------------------
(* The results. *)

\* Every state the server reaches satisfies the invariant.
THEOREM AdmInvariant == Spec => []AdmInv
<1>1. Init => AdmInv
  BY InitHolds
<1>2. AdmInv /\ [Next]_vars => AdmInv'
  BY NextStep
<1> QED BY <1>1, <1>2, PTL DEF Spec

\* The variables keep their types: at most NATASHA_MAX_CLIENTS clients are
\* counted, and the backlog is no longer than listen allows.
THEOREM AdmTypes == Spec => []TypeOK
<1>1. AdmInv => TypeOK
  BY DEF AdmInv
<1> QED BY <1>1, AdmInvariant, PTL

\* cur_clients, the slots, the descriptors and the connections always agree,
\* for any number of slots and peers, whichever system calls fail.
THEOREM SlotsAgree == Spec => []SlotsAccount
<1>1. AdmInv => SlotsAccount
  BY DEF AdmInv
<1> QED BY <1>1, AdmInvariant, PTL

\* A peer reads the replies to its own queries, in order.
THEOREM OwnReplies == Spec => []AnswersMatch
<1>1. ASSUME AdmInv, NEW p \in Peers
      PROVE  /\ Len(answered[p]) <= Len(asked[p])
             /\ answered[p] = SubSeq(asked[p], 1, Len(answered[p]))
  <2> DEFINE a == answered[p]  u == Unanswered(p)
  <2>1. a \in Seq(Queries) /\ u \in Seq(Queries) /\ asked[p] = a \o u
    <3>1. u \in Seq(Queries)
      BY <1>1, UnansweredType DEF AdmInv
    <3> QED BY <1>1, <3>1 DEF AdmInv, TypeOK
  <2> HIDE DEF a, u
  <2>2. /\ Len(a) \in Nat /\ Len(a \o u) = Len(a) + Len(u) /\ Len(u) \in Nat
        /\ \A k \in 1 .. Len(a) : (a \o u)[k] = a[k]
    BY <2>1, ConcatProperties, LenProperties
  <2>3. Len(a) <= Len(a \o u)
    BY <2>2
  <2>4. a = SubSeq(a \o u, 1, Len(a))
    <3>1. a \o u \in Seq(Queries)
      BY <2>1, ConcatProperties
    <3>2. CASE Len(a) = 0
      BY <2>1, <3>2, EmptySeq, SubSeqEmpty, <3>1
    <3>3. CASE Len(a) # 0
      <4>1. 1 \in 1 .. Len(a) + 1 /\ Len(a) \in 1 .. Len(a) /\ 1 \in 1 .. Len(a)
        BY <2>2, <3>3
      <4>2. SubSeq(a \o u, 1, Len(a)) = SubSeq(a, 1, Len(a))
        BY <2>1, <2>2, <4>1, SubSeqOfConcat1
      <4> QED BY <2>1, <4>2, SubSeqFull
    <3> QED BY <3>2, <3>3
  <2> QED BY <2>1, <2>3, <2>4 DEF a
<1>2. AdmInv => AnswersMatch
  BY <1>1 DEF AnswersMatch
<1> QED BY <1>2, AdmInvariant, PTL

\* Why the server closed the connection of a client it was serving.
LEMMA WhyDropped ==
  ASSUME AdmInv, "eintr" \notin Faults, "send" \notin Faults, Serve,
         NEW p \in Peers, conn[p] = "open", conn'[p] = "closed"
  PROVE  bad[p]
<1> DEFINE r == fdtable[clients[Chosen]]
<1>1. apc = "read" /\ \E i \in InUse : clients[i] \in readfds
  BY DEF Serve
<1>2. r \in Peers /\ clients[Chosen] \in readfds \cap Fds
  BY <1>1, ChosenClient DEF AdmInv, OpenFds
<1>3. inbox[r] # <<>> \/ eof[r]
  BY <1>1, <1>2 DEF AdmInv, GoodInv
<1>4. ~(UNCHANGED conn)
  BY Zenon
<1>5. Drop(Chosen, r) /\ (IsQuery(inbox[r]) => Head(inbox[r]) = "unknown")
  BY <1>4 DEF Serve, Handle, Reply
<1>6. p = r
  BY <1>5 DEF Drop, Disconnect, Hangup
<1> HIDE DEF r
<1>7. /\ inbox[r] \in Seq(Queries) /\ asked[r] \in Seq(Queries) /\ answered[r] \in Seq(Queries)
      /\ asked[r] = answered[r] \o inbox[r]
  BY <1>1, <1>2 DEF AdmInv, TypeOK, Unanswered
<1> DEFINE a == answered[r]  b == inbox[r]  c == asked[r]  n == Len(a)  m == Len(b)
<1>8. /\ n \in Nat /\ m \in Nat /\ Len(c) = n + m /\ DOMAIN c = 1 .. n + m
      /\ \A k \in 1 .. n + m : c[k] = IF k <= n THEN a[k] ELSE b[k - n]
  <2>1. a \in Seq(Queries) /\ b \in Seq(Queries) /\ c \in Seq(Queries) /\ c = a \o b
    BY <1>7
  <2> HIDE DEF a, b, c
  <2>2. /\ Len(a \o b) = Len(a) + Len(b)
        /\ \A k \in 1 .. Len(a) + Len(b) : (a \o b)[k] = IF k <= Len(a) THEN a[k] ELSE b[k - Len(a)]
    BY <2>1, ConcatProperties
  <2>3. Len(a) \in Nat /\ Len(b) \in Nat /\ DOMAIN c = 1 .. Len(c)
    BY <2>1, LenProperties
  <2> QED BY <2>1, <2>2, <2>3
<1>9. eof[r] => bad[r]
  BY <1>2 DEF AdmInv, GoodInv
<1>10. ~bad[r] => Len(c) <= 1 /\ \A k \in DOMAIN c : c[k] # "unknown"
  BY <1>2 DEF AdmInv, GoodInv
<1>11. CASE IsQuery(b)
  <2>1. m = 1 /\ b[1] = "unknown"
    BY <1>5, <1>7, <1>11, HeadTailProperties, EmptySeq DEF IsQuery
  <2> HIDE DEF a, b, c, n, m
  <2>2. n + 1 \in 1 .. n + m /\ (n + 1) - n = 1 /\ ~(n + 1 <= n)
    BY <1>8, <2>1
  <2>3. c[n + 1] = "unknown" /\ n + 1 \in DOMAIN c
    BY <1>8, <2>1, <2>2
  <2> QED BY <1>6, <1>10, <2>3
<1>12. CASE ~IsQuery(b) /\ b # <<>>
  <2>1. m # 1 /\ m # 0
    BY <1>7, <1>12, EmptySeq DEF IsQuery
  <2> HIDE DEF a, b, c, n, m
  <2>2. ~(Len(c) <= 1)
    BY <1>8, <2>1
  <2> QED BY <1>6, <1>10, <2>2
<1> QED BY <1>3, <1>6, <1>9, <1>11, <1>12

\* Unless select is interrupted or a reply cannot be sent, whatever other system
\* call fails: a client that sends one known query at a time and keeps its
\* connection is disconnected only by the end of the program.
THEOREM GoodPeersAreKept ==
  ASSUME "eintr" \notin Faults, "send" \notin Faults
  PROVE  Spec => GoodPeersStay
<1>1. ASSUME AdmInv, [Next]_vars, NEW p \in Peers, conn[p] = "open", conn'[p] = "closed"
      PROVE  bad[p] \/ apc' = "exit"
  <2>1. conn' # conn
    BY <1>1
  <2>2. CASE Serve
    BY <1>1, <2>2, WhyDropped
  <2>3. CASE Accept
    <3>1. backlog # <<>> /\ (Refuse(Head(backlog)) \/ Admit(Head(backlog)))
      BY <2>1, <2>3 DEF Accept, AddClient
    <3>2. Head(backlog) \in Peers /\ conn[Head(backlog)] = "queued"
      BY <1>1, <3>1, BacklogHead DEF AdmInv
    <3>3. Head(backlog) # p
      BY <1>1, <3>2
    <3>4. conn'[p] = conn[p]
      BY <1>1, <3>1, <3>2, <3>3 DEF Refuse, Hangup, Admit, AdmInv, TypeOK
    <3> QED BY <1>1, <3>4
  <2>4. CASE Stop
    BY <2>4 DEF Stop
  <2>5. CASE \E q \in Peers : Connect(q)
    <3>1. PICK q \in Peers : Connect(q)
      BY <2>5
    <3>2. q # p /\ conn' = [conn EXCEPT ![q] = "queued"]
      BY <1>1, <3>1 DEF Connect
    <3> QED BY <1>1, <3>2 DEF AdmInv, TypeOK
  <2> QED BY <1>1, <2>1, <2>2, <2>3, <2>4, <2>5
          DEF Next, Server, Listen, Select, CheckSlaves, NobodyToServe, Reloaded, Reply, ReloadReturns,
              Peer, Receive, Close, Send, Terminated, vars
<1>2. AdmInv /\ [Next]_vars =>
        [\A p \in Peers : conn[p] = "open" /\ conn'[p] = "closed" => bad[p] \/ apc' = "exit"]_vars
  BY <1>1
<1> QED BY <1>2, AdmInvariant, PTL DEF Spec, GoodPeersStay

=============================================================================
