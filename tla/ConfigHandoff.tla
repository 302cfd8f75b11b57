--------------------------- MODULE ConfigHandoff ---------------------------
(* What the configuration handoff promises, without saying how.            *)
(*                                                                         *)
(* Every worker core has one published configuration, core->app_config.    *)
(* The master publishes a replacement at any time; a worker picks up the   *)
(* published pointer whenever it likes and keeps using what it picked up   *)
(* for as long as it likes.  A configuration may be given back to the      *)
(* allocator only when it is published nowhere and no worker uses it.      *)
(* ConfigReload.tla, which models the flag protocol of config.c and        *)
(* core.c, is shown to implement this specification.                       *)
EXTENDS FiniteSets

CONSTANTS Workers,  \* the slave lcores
          Addrs,    \* addresses the allocator may return for a struct app_config
          NULL      \* the null pointer

VARIABLES current,    \* current[c]: the configuration published to core c
          held,       \* held[c]: the configurations core c still uses
          allocated   \* the configurations that are allocated

handoffVars == <<current, held, allocated>>

HandoffTypeOK ==
  /\ current \in [Workers -> Addrs \cup {NULL}]
  /\ held \in [Workers -> SUBSET Addrs]
  /\ allocated \in SUBSET Addrs

HandoffInit ==
  /\ current = [c \in Workers |-> NULL]
  /\ held = [c \in Workers |-> {}]
  /\ allocated = {}

Allocate(a) ==
  /\ a \notin allocated
  /\ allocated' = allocated \cup {a}
  /\ UNCHANGED <<current, held>>

\* A configuration is published to one core only, so that nobody but that
\* core can pick it up.
Publish(c, a) ==
  /\ a \in allocated
  /\ \A d \in Workers : current[d] # a
  /\ current' = [current EXCEPT ![c] = a]
  /\ UNCHANGED <<held, allocated>>

\* A worker may add the published configuration to what it uses, and may
\* stop using anything.  It may never go back to one it has dropped.
Access(c) ==
  /\ \E h \in SUBSET (held[c] \cup ({current[c]} \ {NULL})) :
        held' = [held EXCEPT ![c] = h]
  /\ UNCHANGED <<current, allocated>>

Reclaim(a) ==
  /\ a \in allocated
  /\ \A c \in Workers : current[c] # a /\ a \notin held[c]
  /\ allocated' = allocated \ {a}
  /\ UNCHANGED <<current, held>>

HandoffNext ==
  \/ \E a \in Addrs : Allocate(a) \/ Reclaim(a)
  \/ \E c \in Workers, a \in Addrs : Publish(c, a)
  \/ \E c \in Workers : Access(c)

HandoffSpec == HandoffInit /\ [][HandoffNext]_handoffVars
=============================================================================
