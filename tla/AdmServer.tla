----------------------------- MODULE AdmServer -----------------------------
(* The administration server of adm.c: the select loop that the master      *)
(* lcore runs, its table of clients, the queries it answers, and the peers  *)
(* at the other end of the sockets.  A query is one byte; the peer reads    *)
(* one reply per query.  A reload is a request to ReloadService, which      *)
(* ConfigReload implements: the server blocks in app_config_reload_all and  *)
(* the peers go on meanwhile.                                               *)
EXTENDS Integers, Sequences, FiniteSets, FiniteSetsExt

CONSTANTS
  Peers,                 \* connections that are made in a behaviour
  NATASHA_MAX_CLIENTS,   \* 2 in the code; also the backlog given to listen
  Faults,                \* the system calls that may fail; "slaves": the workers
                         \* may all have returned from main_loop
  Queries,               \* the kinds of queries that are sent
  MaxAsked               \* bound: queries of a peer that are not yet answered

ASSUME ClientsAssumption == NATASHA_MAX_CLIENTS \in Nat \ {0} /\ MaxAsked \in Nat \ {0}
\* "status" stands for the queries that read or reset statistics too.
ASSUME QueriesAssumption == Queries \subseteq {"status", "reload", "exit", "unknown"}
ASSUME FaultsAssumption ==
  Faults \subseteq {"select", "eintr", "accept", "fcntl", "send", "slaves"}

Slots == 1 .. NATASHA_MAX_CLIENTS
Fds == 1 .. NATASHA_MAX_CLIENTS + 1   \* what accept returns; 0 marks a free slot
Listening == NATASHA_MAX_CLIENTS + 2  \* the descriptor s
None == "none"                        \* no peer
ASSUME PeersAssumption == None \notin Peers

VARIABLES
  apc,          \* where adm_loop is
  clients,      \* clients[i]: the descriptor in slot i, or 0
  cur_clients,
  readfds,      \* the set that select filled in
  fdtable,      \* fdtable[fd]: the peer behind an open descriptor, or None
  backlog,      \* peers waiting for accept
  conn,         \* conn[p]: "closed", "queued" (in the backlog), "open"
  inbox,        \* inbox[p]: queries that p sent and the server has not read
  eof,          \* eof[p]: p has closed its end
  asked,        \* asked[p]: queries p has sent and not seen answered
  answered,     \* answered[p]: replies sent to p, which p has not read
  service,      \* where ReloadService is
  bad           \* history: in this connection p sent a query before it had the
                \* last reply, or an unknown one, or closed its end

serverVars == <<apc, clients, cur_clients, readfds>>
peerVars == <<inbox, eof, asked, answered, bad>>
vars == <<serverVars, fdtable, backlog, conn, peerVars, service>>

Reload == INSTANCE ReloadService WITH stage <- service

InUse == {i \in Slots : clients[i] # 0}
OpenFds == {fd \in Fds : fdtable[fd] # None}

Init ==
  /\ apc = "start"
  /\ clients = [i \in Slots |-> 0]
  /\ cur_clients = 0
  /\ readfds = {}
  /\ fdtable = [fd \in Fds |-> None]
  /\ backlog = <<>>
  /\ conn = [p \in Peers |-> "closed"]
  /\ inbox = [p \in Peers |-> <<>>]
  /\ eof = [p \in Peers |-> FALSE]
  /\ asked = [p \in Peers |-> <<>>]
  /\ answered = [p \in Peers |-> <<>>]
  /\ bad = [p \in Peers |-> FALSE]
  /\ Reload!ServiceInit

-----------------------------------------------------------------------------
(* The server. *)

\* main: the set-up is done and the workers run; adm_server listens.
Listen ==
  /\ apc = "start" /\ apc' = "select"
  /\ Reload!Started
  /\ UNCHANGED <<clients, cur_clients, readfds, fdtable, backlog, conn, peerVars>>

\* Mutant: new connections are looked for only while a slot is free.
WatchedWhenRoom ==
  (IF cur_clients < NATASHA_MAX_CLIENTS THEN {Listening} ELSE {})
    \cup {clients[i] : i \in InUse}

Watched == {Listening} \cup {clients[i] : i \in InUse}

Readable(fd) ==
  IF fd = Listening THEN backlog # <<>>
                    ELSE inbox[fdtable[fd]] # <<>> \/ eof[fdtable[fd]]

\* Mutant: the set is used although select has timed out.
SelectTimeoutUsed ==
  /\ apc = "select"
  /\ readfds' = Watched /\ apc' = "check"
  /\ UNCHANGED <<clients, cur_clients, fdtable, backlog, conn, peerVars, service>>

\* FD_SET of the listening socket and of every client, then select: the
\* descriptors that can be read, none after one second.  When select is
\* interrupted the set is left as it was, with everything in it.
Select ==
  /\ apc = "select"
  /\ \/ /\ readfds' = {fd \in Watched : Readable(fd)}
        /\ apc' = "check" /\ UNCHANGED service
     \/ /\ "eintr" \in Faults /\ readfds' = Watched
        /\ apc' = "check" /\ UNCHANGED service
     \/ /\ "select" \in Faults /\ UNCHANGED readfds
        /\ apc' = "dead" /\ Reload!Gone
  /\ UNCHANGED <<clients, cur_clients, fdtable, backlog, conn, peerVars>>

\* check_slaves_alive: the process exits when no worker runs any more; when only
\* some have stopped, that is logged.
CheckSlaves ==
  /\ apc = "check"
  /\ \/ apc' = "accept" /\ UNCHANGED service
     \/ "slaves" \in Faults /\ apc' = "dead" /\ Reload!Gone
  /\ UNCHANGED <<clients, cur_clients, readfds, fdtable, backlog, conn, peerVars>>

FreeFd == Min(Fds \ OpenFds)
FreeSlot == Min(Slots \ InUse)

\* The server's ends of some connections are closed: what was under way is gone,
\* and the peers may connect again.
Hangup(gone) ==
  /\ conn' = [p \in Peers |-> IF p \in gone THEN "closed" ELSE conn[p]]
  /\ inbox' = [p \in Peers |-> IF p \in gone THEN <<>> ELSE inbox[p]]
  /\ asked' = [p \in Peers |-> IF p \in gone THEN <<>> ELSE asked[p]]
  /\ answered' = [p \in Peers |-> IF p \in gone THEN <<>> ELSE answered[p]]
  /\ eof' = [p \in Peers |-> eof[p] /\ p \notin gone]
  /\ bad' = [p \in Peers |-> bad[p] /\ p \notin gone]

Refuse(p) == Hangup({p}) /\ UNCHANGED <<clients, cur_clients, fdtable>>

\* The first free slot; if there is none, nobody remembers the descriptor.
Admit(p) ==
  /\ fdtable' = [fdtable EXCEPT ![FreeFd] = p]
  /\ conn' = [conn EXCEPT ![p] = "open"]
  /\ IF InUse = Slots THEN UNCHANGED <<clients, cur_clients>>
     ELSE /\ clients' = [clients EXCEPT ![FreeSlot] = FreeFd]
          /\ cur_clients' = cur_clients + 1
  /\ UNCHANGED peerVars

\* Mutant: the limit is tested with > instead of >=.
AddClientLimit(p) ==
  \/ cur_clients > NATASHA_MAX_CLIENTS /\ Refuse(p)
  \/ cur_clients <= NATASHA_MAX_CLIENTS /\ "fcntl" \in Faults /\ Refuse(p)
  \/ cur_clients <= NATASHA_MAX_CLIENTS /\ Admit(p)

\* What is done with an accepted connection: too many, or the socket cannot be
\* made non-blocking: close it.
AddClient(p) ==
  \/ cur_clients >= NATASHA_MAX_CLIENTS /\ Refuse(p)
  \/ cur_clients < NATASHA_MAX_CLIENTS /\ "fcntl" \in Faults /\ Refuse(p)
  \/ cur_clients < NATASHA_MAX_CLIENTS /\ Admit(p)

\* A new client, at most one per turn.  accept fails at once when nobody waits,
\* which select reports only when it was interrupted.  The length given to it
\* is not initialised: if it happens to be negative, accept takes the
\* connection, fails to store the address, and closes the connection.
Accept ==
  /\ apc = "accept"
  /\ apc' = "read"
  /\ \/ /\ Listening \in readfds /\ backlog # <<>>
        /\ backlog' = Tail(backlog)
        /\ AddClient(Head(backlog)) \/ Refuse(Head(backlog))
     \/ /\ Listening \in readfds => backlog = <<>> \/ "accept" \in Faults
        /\ UNCHANGED <<backlog, conn, clients, cur_clients, fdtable, peerVars>>
  /\ UNCHANGED <<readfds, service>>

\* Mutant: the count is decremented twice, in disconnect_client and after it.
DisconnectCountedTwice(i, p) ==
  /\ fdtable' = [fdtable EXCEPT ![clients[i]] = None]
  /\ clients' = [clients EXCEPT ![i] = 0]
  /\ cur_clients' = cur_clients - 2
  /\ Hangup({p})

\* disconnect_client and --cur_clients.
Disconnect(i, p) ==
  /\ fdtable' = [fdtable EXCEPT ![clients[i]] = None]
  /\ clients' = [clients EXCEPT ![i] = 0]
  /\ cur_clients' = cur_clients - 1
  /\ Hangup({p})

\* Mutant: every reply is sent twice.
ReplyTwice(i, p, q, unread) ==
  /\ answered' = [answered EXCEPT ![p] = @ \o <<q, q>>]
  /\ inbox' = [inbox EXCEPT ![p] = unread]
  /\ UNCHANGED <<fdtable, clients, cur_clients, conn, eof, asked, bad>>

\* The reply to query q of p, which has sent `unread' since.  Its header and its
\* data are sent one after the other; if one of them fails, Handle drops p and
\* with the connection whatever part of the reply was sent before.
Reply(i, p, q, unread) ==
  /\ answered' = [answered EXCEPT ![p] = Append(@, q)]
  /\ inbox' = [inbox EXCEPT ![p] = unread]
  /\ UNCHANGED <<fdtable, clients, cur_clients, conn, eof, asked, bad>>

\* Mutant: the last client whose descriptor is in the set.
ChosenLast == Max({i \in InUse : clients[i] \in readfds})

\* The first client whose descriptor is in the set; the loop ends with it.
Chosen == Min({i \in InUse : clients[i] \in readfds})

\* Exactly one query was read.  Nothing (end of file, or nothing to read after
\* an interrupted select), or more than one query, ends the connection.
IsQuery(data) == Len(data) = 1

\* handle_client_query returned -1 for p: it is unknown, or the reply could not
\* be sent, or only a part of it (SIGPIPE is ignored).
Drop(i, p) == Disconnect(i, p) /\ apc' = "select"

\* handle_client_query.  `exit' raises SIGTERM only if its reply was sent;
\* `reload' is in app_config_reload_all before there is a reply to send.
Handle(i, p, q) ==
  \/ /\ q = "unknown" \/ (q # "reload" /\ "send" \in Faults)
     /\ Drop(i, p) /\ UNCHANGED service
  \/ /\ q = "status" /\ Reply(i, p, q, <<>>)
     /\ apc' = "select" /\ UNCHANGED service
  \/ /\ q = "exit" /\ Reply(i, p, q, <<>>)
     /\ apc' = "exit" /\ Reload!Gone
  \/ /\ q = "reload" /\ inbox' = [inbox EXCEPT ![p] = <<>>]
     /\ apc' = "reload" /\ Reload!Request
     /\ UNCHANGED <<fdtable, clients, cur_clients, conn, eof, asked, answered, bad>>

\* read() takes everything that the client has sent.
Serve ==
  /\ apc = "read" /\ \E i \in InUse : clients[i] \in readfds
  /\ LET p == fdtable[clients[Chosen]] IN
       \/ IsQuery(inbox[p]) /\ Handle(Chosen, p, Head(inbox[p]))
       \/ ~IsQuery(inbox[p]) /\ Drop(Chosen, p) /\ UNCHANGED service
  /\ UNCHANGED <<readfds, backlog>>

\* handle_cmd_reload, when app_config_reload_all has returned: its status goes
\* to the client, which is still the first one in the set.
Reloaded ==
  /\ apc = "reload" /\ Reload!Taken
  /\ LET p == fdtable[clients[Chosen]] IN
       \/ Reply(Chosen, p, "reload", inbox[p]) /\ apc' = "select"
       \/ "send" \in Faults /\ Drop(Chosen, p)
  /\ UNCHANGED <<readfds, backlog>>

NobodyToServe ==
  /\ apc = "read" /\ \A i \in InUse : clients[i] \notin readfds
  /\ apc' = "select"
  /\ UNCHANGED <<clients, cur_clients, readfds, fdtable, backlog, conn, peerVars,
                 service>>

Server ==
  \/ Listen \/ Select \/ CheckSlaves \/ Accept
  \/ Serve \/ Reloaded \/ NobodyToServe

\* app_config_reload_all returns.
ReloadReturns ==
  /\ Reload!Answer
  /\ UNCHANGED <<serverVars, fdtable, backlog, conn, peerVars>>

\* A SIGTERM from outside, at any time; or the set-up fails.  The descriptors
\* go with the process.
Stop ==
  /\ apc \notin {"exit", "dead"}
  /\ apc' = "exit" /\ Reload!Gone
  /\ clients' = [i \in Slots |-> 0] /\ cur_clients' = 0
  /\ fdtable' = [fd \in Fds |-> None] /\ backlog' = <<>> /\ readfds' = {}
  /\ Hangup(Peers)

-----------------------------------------------------------------------------
(* The peers. *)

Connect(p) ==
  /\ conn[p] = "closed" /\ Len(backlog) < NATASHA_MAX_CLIENTS
  /\ conn' = [conn EXCEPT ![p] = "queued"]
  /\ backlog' = Append(backlog, p)
  /\ UNCHANGED <<serverVars, service, fdtable, inbox, eof, asked, answered, bad>>

\* A peer may write as soon as its connection is in the backlog.
Send(p, q) ==
  /\ conn[p] \in {"queued", "open"} /\ ~eof[p]
  /\ Len(asked[p]) < MaxAsked
  /\ inbox' = [inbox EXCEPT ![p] = Append(@, q)]
  /\ asked' = [asked EXCEPT ![p] = Append(@, q)]
  /\ bad' = [bad EXCEPT ![p] = @ \/ q = "unknown" \/ asked[p] # <<>>]
  /\ UNCHANGED <<serverVars, service, fdtable, backlog, conn, eof, answered>>

Receive(p) ==
  /\ answered[p] # <<>>
  /\ asked' = [asked EXCEPT ![p] = Tail(@)]
  /\ answered' = [answered EXCEPT ![p] = Tail(@)]
  /\ UNCHANGED <<serverVars, service, fdtable, backlog, conn, inbox, eof, bad>>

Close(p) ==
  /\ conn[p] \in {"queued", "open"} /\ ~eof[p]
  /\ eof' = [eof EXCEPT ![p] = TRUE]
  /\ bad' = [bad EXCEPT ![p] = TRUE]
  /\ UNCHANGED <<serverVars, service, fdtable, backlog, conn, inbox, asked, answered>>

Peer(p) ==
  /\ apc \notin {"start", "exit", "dead"}
  /\ Connect(p) \/ Receive(p) \/ Close(p) \/ \E q \in Queries : Send(p, q)

Terminated == apc \in {"exit", "dead"} /\ UNCHANGED vars

Next ==
  \/ Server \/ ReloadReturns \/ Stop
  \/ \E p \in Peers : Peer(p)
  \/ Terminated

\* The master lcore runs nothing else than this loop, and app_config_reload_all
\* keeps the promise EveryRequestEnds of ReloadService.
Spec == Init /\ [][Next]_vars
FairSpec == Spec /\ WF_vars(Server) /\ WF_vars(ReloadReturns)

-----------------------------------------------------------------------------
(* Properties. *)

TypeOK ==
  /\ apc \in {"start", "select", "check", "accept", "read", "reload", "exit", "dead"}
  /\ service \in {"start", "idle", "busy", "ok", "error", "gone"}
  /\ clients \in [Slots -> {0} \cup Fds]
  /\ cur_clients \in 0 .. NATASHA_MAX_CLIENTS
  /\ readfds \subseteq {Listening} \cup Fds
  /\ fdtable \in [Fds -> {None} \cup Peers]
  /\ backlog \in Seq(Peers) /\ Len(backlog) <= NATASHA_MAX_CLIENTS
  /\ conn \in [Peers -> {"closed", "queued", "open"}]
  /\ inbox \in [Peers -> Seq(Queries)]
  /\ asked \in [Peers -> Seq(Queries)] /\ answered \in [Peers -> Seq(Queries)]
  /\ eof \in [Peers -> BOOLEAN] /\ bad \in [Peers -> BOOLEAN]

\* The count, the slots, the open descriptors and the connections agree: no
\* descriptor leaks, none is in two slots, no slot holds a closed one, and the
\* limit is neither passed nor reached too early, after any sequence of
\* connections, errors and disconnections.
SlotsAccount ==
  /\ cur_clients = Cardinality(InUse)
  /\ \A i, j \in InUse : clients[i] = clients[j] => i = j
  /\ {clients[i] : i \in InUse} = OpenFds
  /\ \A p \in Peers : conn[p] = "open" <=> \E fd \in OpenFds : fdtable[fd] = p

\* What a peer reads answers its own queries, in the order in which it sent
\* them, though descriptors and slots are reused by other peers and a reload
\* lies between a query and its reply: the reply to one's query never goes to
\* another.
AnswersMatch ==
  \A p \in Peers : /\ Len(answered[p]) <= Len(asked[p])
                   /\ answered[p] = SubSeq(asked[p], 1, Len(answered[p]))

\* When select is not interrupted and replies can be sent, a client that sends one
\* known query at a time and keeps its connection is never disconnected while the
\* program runs.
GoodPeersStay ==
  [][\A p \in Peers :
       conn[p] = "open" /\ conn'[p] = "closed" => bad[p] \/ apc' = "exit"]_vars

\* Whoever connects is accepted or refused, also when a reload is under way.
NobodyWaitsForever ==
  \A p \in Peers : conn[p] = "queued" ~> (conn[p] # "queued" \/ apc \in {"exit", "dead"})

\* The client in the first slot gets its answer, or is disconnected, whatever the
\* others do.  (A client in a later slot may wait as long as the first ones keep
\* asking.)
FirstSlotServed ==
  \A p \in Peers :
    (clients[1] # 0 /\ fdtable[clients[1]] = p /\ inbox[p] # <<>>)
      ~> (answered[p] # <<>> \/ conn[p] # "open" \/ apc \in {"exit", "dead"})
=============================================================================
