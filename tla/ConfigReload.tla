---------------------------- MODULE ConfigReload ----------------------------
(* The configuration handshake between the master lcore and the workers:   *)
(* app_config_load, app_config_free and app_config_reload_all (config.c),  *)
(* main_loop and the places where the packet path reads core->app_config   *)
(* (core.c, ipv4.c, arp.c, action_nat.c), start-up and SIGTERM (core.c).   *)
(*                                                                         *)
(* There is no lock.  The master publishes a new configuration by storing  *)
(* the pointer core->app_config, then spins until the worker has set       *)
(* NAT_FLAG_USED in it, and frees the old one.  A worker sets the flag     *)
(* once per turn of main_loop, and reads core->app_config again at every   *)
(* place that needs the configuration: each such read is a step of its own *)
(* here, apart from the use of what was read.                              *)
EXTENDS Integers, FiniteSets

CONSTANTS
  NCores,        \* number of slave lcores
  Addrs,         \* addresses rte_zmalloc may return for a struct app_config
  Contents,      \* what a configuration file may say
  Ruleless,      \* the contents whose `rules' section is missing
  NULL,          \* null pointer; content of a file that does not load
  StartPath,     \* the path used at start-up: the default one, or that of -f
  MaxBurst,      \* bound: packets a worker receives in one turn of main_loop
  MaxLookups     \* bound: NAT lookups made for one packet

DefaultPath == "/etc/natasha.conf"
Paths == {DefaultPath, "-f"}

ASSUME NCoresAssumption == NCores \in Nat \ {0}
ASSUME NullAssumption == NULL \notin Addrs /\ NULL \notin Contents
ASSUME ContentsAssumption == Ruleless \subseteq Contents
ASSUME StartPathAssumption == StartPath \in Paths
ASSUME BoundsAssumption == MaxBurst \in Nat /\ MaxLookups \in Nat

Cores == 1 .. NCores

VARIABLES
  (* The master lcore. *)
  mpc,            \* where the master is
  starting,       \* app_config_reload_all is called by setup_app
  core,           \* loop variable of RTE_LCORE_FOREACH_SLAVE
  master_config,  \* local of app_config_reload_all (app_config in setup_app)
  new_config,     \* local of app_config_reload_all
  old_config,     \* local of app_config_reload_all
  reply,          \* what the last reload returned
  (* Shared memory. *)
  app_config,     \* app_config[c]: the field of struct core
  live,           \* the configurations that are allocated
  used,           \* used[a]: NAT_FLAG_USED in the configuration at a
  content,        \* content[a]: what was parsed into the configuration at a
  force_quit,
  (* The workers. *)
  wpc,            \* where worker c is in main_loop
  reg,            \* the pointer c has just read from core->app_config
  tree,           \* the configuration whose rules c is walking
  pkts,           \* packets of the burst that are left
  lookups,        \* NAT lookups left for the packet being processed
  seen,           \* history: configurations read in this turn of main_loop
  (* The file system. *)
  files,          \* what the files contain; NULL if missing or invalid
  edited          \* history: the default file changed since the last request

masterVars == <<mpc, starting, core, master_config, new_config, old_config, reply>>
sharedVars == <<app_config, live, used, content, force_quit>>
workerVars == <<wpc, reg, tree, pkts, lookups, seen>>
fileVars == <<files, edited>>
vars == <<masterVars, sharedVars, workerVars, fileVars>>

MasterPCs == {"setup_load", "ports", "load_master", "load_core", "swap", "wait",
              "free_old", "done", "launch", "adm", "exit", "dead"}
WorkerPCs == {"off", "top", "mark", "rx", "dispatch", "addr", "rules", "walk",
              "nat", "tx", "stopped"}

TypeOK ==
  /\ mpc \in MasterPCs
  /\ starting \in BOOLEAN
  /\ core \in Cores
  /\ master_config \in Addrs \cup {NULL}
  /\ new_config \in Addrs \cup {NULL}
  /\ old_config \in Addrs \cup {NULL}
  /\ reply \in {"none", "ok", "error"}
  /\ app_config \in [Cores -> Addrs \cup {NULL}]
  /\ live \in SUBSET Addrs
  /\ used \in [Addrs -> BOOLEAN]
  /\ content \in [Addrs -> Contents \cup {NULL}]
  /\ force_quit \in BOOLEAN
  /\ wpc \in [Cores -> WorkerPCs]
  /\ reg \in [Cores -> Addrs \cup {NULL}]
  /\ tree \in [Cores -> Addrs \cup {NULL}]
  /\ pkts \in [Cores -> 0 .. MaxBurst]
  /\ lookups \in [Cores -> 0 .. MaxLookups]
  /\ seen \in [Cores -> SUBSET Addrs]
  /\ files \in [Paths -> Contents \cup {NULL}]
  /\ edited \in BOOLEAN

Init ==
  /\ mpc = "setup_load"
  /\ starting = TRUE
  /\ core = 1
  /\ master_config = NULL
  /\ new_config = NULL
  /\ old_config = NULL
  /\ reply = "none"
  /\ app_config = [c \in Cores |-> NULL]
  /\ live = {}
  /\ used = [a \in Addrs |-> FALSE]
  /\ content = [a \in Addrs |-> NULL]
  /\ force_quit = FALSE
  /\ wpc = [c \in Cores |-> "off"]
  /\ reg = [c \in Cores |-> NULL]
  /\ tree = [c \in Cores |-> NULL]
  /\ pkts = [c \in Cores |-> 0]
  /\ lookups = [c \in Cores |-> 0]
  /\ seen = [c \in Cores |-> {}]
  /\ files \in [Paths -> Contents \cup {NULL}]
  /\ edited = FALSE

-----------------------------------------------------------------------------
(* Allocation: app_config_load and app_config_free. *)

\* Mutant: a reload reads the file given at start-up.
PathOfStart == StartPath

\* The file read by the call in progress: argv at start-up, the default path
\* when the administration server calls app_config_reload_all(cores, 0, NULL).
Path == IF starting THEN StartPath ELSE DefaultPath

\* Mutant: rte_malloc in place of rte_zmalloc.
app_config_load_unzeroed(a) ==
  /\ files[Path] # NULL
  /\ a \in Addrs \ live
  /\ live' = live \cup {a}
  /\ used' = used
  /\ content' = [content EXCEPT ![a] = files[Path]]

\* A successful load: any address that is not allocated, zeroed.  An address
\* may be that of a configuration freed earlier.  A load may also fail
\* whatever the file says (rte_zmalloc, fopen, yylex_init), and must when the
\* file is invalid; then nothing remains allocated and the caller sees NULL.
app_config_load(a) ==
  /\ files[Path] # NULL
  /\ a \in Addrs \ live
  /\ live' = live \cup {a}
  /\ used' = [used EXCEPT ![a] = FALSE]
  /\ content' = [content EXCEPT ![a] = files[Path]]

app_config_free(a) == live' = live \ {a}

-----------------------------------------------------------------------------
(* The master lcore. *)

\* rte_exit, or a return from main: the process is gone.
Die ==
  /\ mpc' = "dead"
  /\ UNCHANGED <<starting, core, master_config, new_config, old_config, reply,
                 sharedVars, workerVars, fileVars>>

\* setup_app: "Configuration for the master core is only used to setup ports".
SetupLoad ==
  /\ mpc = "setup_load"
  /\ \E a \in Addrs : app_config_load(a) /\ master_config' = a
  /\ mpc' = "ports"
  /\ UNCHANGED <<starting, core, new_config, old_config, reply, app_config,
                 force_quit, workerVars, fileVars>>

\* Once the ports are configured, free the configuration, clear
\* core->app_config and call app_config_reload_all.
SetupPorts ==
  /\ mpc = "ports"
  /\ app_config_free(master_config)
  /\ master_config' = NULL
  /\ app_config' = [c \in Cores |-> NULL]
  /\ mpc' = "load_master"
  /\ UNCHANGED <<starting, core, new_config, old_config, reply, used, content,
                 force_quit, workerVars, fileVars>>

\* The first load fails; there is no Ethernet device, or only one lcore;
\* setup_port or the statistics fail; a worker cannot be launched: exit.
SetupFails == mpc \in {"setup_load", "ports", "launch"} /\ Die

\* Mutant: setup_app ignores the result.
ReloadReturnsUnchecked(status) ==
  /\ mpc' = IF ~starting THEN "adm" ELSE "launch"
  /\ core' = 1
  /\ reply' = IF starting THEN "none" ELSE status

\* What the callers of app_config_reload_all do with its result.
ReloadReturns(status) ==
  /\ mpc' = IF ~starting THEN "adm" ELSE IF status = "ok" THEN "launch" ELSE "dead"
  /\ core' = 1
  /\ reply' = IF starting THEN "none" ELSE status

\* "Ensure configuration is valid".
LoadMaster ==
  /\ mpc = "load_master"
  /\ \/ \E a \in Addrs :
          /\ app_config_load(a)
          /\ master_config' = a
          /\ mpc' = "load_core"
          /\ UNCHANGED <<core, reply>>
     \/ /\ ReloadReturns("error")
        /\ UNCHANGED <<master_config, live, used, content>>
  /\ UNCHANGED <<starting, new_config, old_config, app_config, force_quit,
                 workerVars, fileVars>>

\* Mutant: the error path of the per-core load forgets app_config_free.
LoadCoreLeaks ==
  /\ mpc = "load_core"
  /\ \/ \E a \in Addrs :
          /\ app_config_load(a)
          /\ new_config' = a
          /\ mpc' = "swap"
          /\ UNCHANGED <<master_config, core, reply>>
     \/ /\ ReloadReturns("error")
        /\ master_config' = NULL
        /\ UNCHANGED <<new_config, live, used, content>>
  /\ UNCHANGED <<starting, old_config, app_config, force_quit, workerVars, fileVars>>

\* Load the configuration of one core.  A failure stops the loop: the cores
\* already done keep the new configuration, the others keep the old one.
LoadCore ==
  /\ mpc = "load_core"
  /\ \/ \E a \in Addrs :
          /\ app_config_load(a)
          /\ new_config' = a
          /\ mpc' = "swap"
          /\ UNCHANGED <<master_config, core, reply>>
     \/ /\ app_config_free(master_config)
        /\ master_config' = NULL
        /\ ReloadReturns("error")
        /\ UNCHANGED <<new_config, used, content>>
  /\ UNCHANGED <<starting, old_config, app_config, force_quit, workerVars, fileVars>>

\* Mutant: one core too many.
NextCoreOffByOne ==
  IF core > NCores THEN mpc' = "done" /\ core' = core
                   ELSE mpc' = "load_core" /\ core' = core + 1

\* The head of RTE_LCORE_FOREACH_SLAVE.
NextCore ==
  IF core = NCores THEN mpc' = "done" /\ core' = core
                   ELSE mpc' = "load_core" /\ core' = core + 1

\* Mutant: the old configuration is forgotten instead of freed.
SwapForgets ==
  /\ mpc = "swap"
  /\ old_config' = NULL
  /\ app_config' = [app_config EXCEPT ![core] = new_config]
  /\ new_config' = NULL /\ NextCore
  /\ UNCHANGED <<starting, master_config, reply, live, used, content, force_quit,
                 workerVars, fileVars>>

\* "Switch to the new configuration".  Only the master writes the pointer, so
\* the read of the old one and the store of the new one are one step.
Swap ==
  /\ mpc = "swap"
  /\ old_config' = app_config[core]
  /\ app_config' = [app_config EXCEPT ![core] = new_config]
  /\ IF app_config[core] # NULL
       THEN mpc' = "wait" /\ UNCHANGED <<core, new_config>>
       ELSE new_config' = NULL /\ NextCore
  /\ UNCHANGED <<starting, master_config, reply, live, used, content, force_quit,
                 workerVars, fileVars>>

\* Mutant: the old configuration is freed without waiting.
WaitUsedNot ==
  /\ mpc = "wait"
  /\ mpc' = "free_old"
  /\ UNCHANGED <<starting, core, master_config, new_config, old_config, reply,
                 sharedVars, workerVars, fileVars>>

\* Mutant: the flag of the old configuration is tested.
WaitUsedOld ==
  /\ mpc = "wait"
  /\ used[old_config]
  /\ mpc' = "free_old"
  /\ UNCHANGED <<starting, core, master_config, new_config, old_config, reply,
                 sharedVars, workerVars, fileVars>>

\* while (!(new_config->flags & NAT_FLAG_USED)) continue;
WaitUsed ==
  /\ mpc = "wait"
  /\ used[new_config]
  /\ mpc' = "free_old"
  /\ UNCHANGED <<starting, core, master_config, new_config, old_config, reply,
                 sharedVars, workerVars, fileVars>>

FreeOld ==
  /\ mpc = "free_old"
  /\ app_config_free(old_config)
  /\ old_config' = NULL
  /\ new_config' = NULL
  /\ NextCore
  /\ UNCHANGED <<starting, master_config, reply, app_config, used, content,
                 force_quit, workerVars, fileVars>>

ReloadDone ==
  /\ mpc = "done"
  /\ app_config_free(master_config)
  /\ master_config' = NULL
  /\ ReloadReturns("ok")
  /\ UNCHANGED <<starting, new_config, old_config, app_config, used, content,
                 force_quit, workerVars, fileVars>>

\* run_workers: one rte_eal_remote_launch per core.
Launch ==
  /\ mpc = "launch"
  /\ wpc' = [wpc EXCEPT ![core] = "top"]
  /\ IF core = NCores
       THEN mpc' = "adm" /\ core' = 1 /\ starting' = FALSE
       ELSE mpc' = "launch" /\ core' = core + 1 /\ starting' = starting
  /\ UNCHANGED <<master_config, new_config, old_config, reply, sharedVars,
                 reg, tree, pkts, lookups, seen, fileVars>>

\* handle_cmd_reload.
RequestReload ==
  /\ mpc = "adm"
  /\ mpc' = "load_master"
  /\ reply' = "none"
  /\ edited' = FALSE
  /\ UNCHANGED <<starting, core, master_config, new_config, old_config,
                 sharedVars, workerVars, files>>

\* adm_server returns (a system call failed): so does main.
AdmFails == mpc = "adm" /\ Die

\* SIGTERM, sent from outside or raised by handle_cmd_exit: the handler runs on
\* the master, between any two of its steps, and never returns to them.
SigTerm ==
  /\ mpc \notin {"exit", "dead"}
  /\ mpc' = "exit"
  /\ force_quit' = TRUE
  /\ UNCHANGED <<starting, core, master_config, new_config, old_config, reply,
                 app_config, live, used, content, workerVars, fileVars>>

\* natasha_exit: rte_eal_wait_lcore for each core (which returns at once for a
\* core that was never launched), then the ports are stopped and the process
\* kills itself.  The configurations are never freed ("TODO").
ExitWait ==
  /\ mpc = "exit"
  /\ \A c \in Cores : wpc[c] \in {"off", "stopped"}
  /\ Die

MasterStep ==
  \/ SetupLoad \/ SetupPorts \/ SetupFails \/ LoadMaster \/ LoadCore \/ Swap
  \/ WaitUsed \/ FreeOld \/ ReloadDone \/ Launch \/ ExitWait

-----------------------------------------------------------------------------
(* A worker.  Its steps stop when the process is gone. *)

\* Worker c reads core->app_config.
ReadPointer(c) ==
  /\ reg' = [reg EXCEPT ![c] = app_config[c]]
  /\ seen' = [seen EXCEPT ![c] = @ \cup {app_config[c]}]

Goto(c, pc) == wpc' = [wpc EXCEPT ![c] = pc]

\* Mutant: force_quit is not tested.
LoopTopForever(c) ==
  /\ wpc[c] = "top"
  /\ Goto(c, "mark")
  /\ reg' = [reg EXCEPT ![c] = app_config[c]]
  /\ seen' = [seen EXCEPT ![c] = {app_config[c]}]
  /\ UNCHANGED <<tree, pkts, lookups, masterVars, sharedVars, fileVars>>

\* while (!force_quit), and the read of the pointer that the flag goes to.
LoopTop(c) ==
  /\ wpc[c] = "top"
  /\ IF force_quit
       THEN Goto(c, "stopped") /\ UNCHANGED <<reg, seen>>
       ELSE /\ Goto(c, "mark")
            /\ reg' = [reg EXCEPT ![c] = app_config[c]]
            /\ seen' = [seen EXCEPT ![c] = {app_config[c]}]
  /\ UNCHANGED <<tree, pkts, lookups, masterVars, sharedVars, fileVars>>

\* core->app_config->flags |= NAT_FLAG_USED
MarkUsed(c) ==
  /\ wpc[c] = "mark"
  /\ used' = [used EXCEPT ![reg[c]] = TRUE]
  /\ reg' = [reg EXCEPT ![c] = NULL]
  /\ Goto(c, "rx")
  /\ UNCHANGED <<tree, pkts, lookups, seen, app_config, live, content, force_quit,
                 masterVars, fileVars>>

\* rte_eth_rx_burst on the ports.
RxBurst(c) ==
  /\ wpc[c] = "rx"
  /\ \E n \in 0 .. MaxBurst : pkts' = [pkts EXCEPT ![c] = n]
  /\ Goto(c, "dispatch")
  /\ UNCHANGED <<reg, tree, lookups, seen, masterVars, sharedVars, fileVars>>

PacketDone(c) ==
  /\ Goto(c, "dispatch")
  /\ pkts' = [pkts EXCEPT ![c] = @ - 1]

\* dispatch_packet: a packet that needs no configuration is done; an ARP
\* request, an ICMP packet and any other IPv4 packet read core->app_config.
Dispatch(c) ==
  /\ wpc[c] = "dispatch"
  /\ \/ pkts[c] = 0 /\ Goto(c, "tx") /\ UNCHANGED <<reg, pkts, seen>>
     \/ pkts[c] > 0 /\ PacketDone(c) /\ UNCHANGED <<reg, seen>>
     \/ /\ pkts[c] > 0
        /\ ReadPointer(c)
        /\ \E pc \in {"addr", "rules"} : Goto(c, pc)
        /\ UNCHANGED pkts
  /\ UNCHANGED <<tree, lookups, masterVars, sharedVars, fileVars>>

\* is_natasha_ip and is_natasha_port_ip walk the address lists of the pointer
\* they were given.  Then the packet is answered or dropped, or, for an ICMP
\* packet that is not for us, goes through the rules.
AddressScan(c) ==
  /\ wpc[c] = "addr"
  /\ \/ PacketDone(c) /\ reg' = [reg EXCEPT ![c] = NULL] /\ UNCHANGED seen
     \/ Goto(c, "rules") /\ ReadPointer(c) /\ UNCHANGED pkts
  /\ UNCHANGED <<tree, lookups, masterVars, sharedVars, fileVars>>

\* ipv4_handle: no rules, the packet is dropped.  Otherwise core->app_config
\* is read a second time for the call of process_rules; the compiler may as
\* well keep the first value.  The rules found there decide how many NAT
\* lookups the walk makes (none if there are no rules).
EnterRules(c) ==
  /\ wpc[c] = "rules"
  /\ reg' = [reg EXCEPT ![c] = NULL]
  /\ \/ /\ content[reg[c]] \in Ruleless
        /\ PacketDone(c)
        /\ UNCHANGED <<tree, lookups, seen>>
     \/ /\ content[reg[c]] \notin Ruleless
        /\ \E a \in {reg[c], app_config[c]} :
             /\ seen' = [seen EXCEPT ![c] = @ \cup {a}]
             /\ IF content[a] \in Ruleless
                  THEN PacketDone(c) /\ UNCHANGED <<tree, lookups>>
                  ELSE /\ tree' = [tree EXCEPT ![c] = a]
                       /\ \E n \in 0 .. MaxLookups :
                            lookups' = [lookups EXCEPT ![c] = n]
                       /\ Goto(c, "walk")
                       /\ UNCHANGED pkts
  /\ UNCHANGED <<masterVars, sharedVars, fileVars>>

\* process_rules follows the nodes of the tree; a `nat rewrite' node reads
\* core->app_config again, for its nat_lookup.
Walk(c) ==
  /\ wpc[c] = "walk"
  /\ \/ /\ lookups[c] = 0
        /\ tree' = [tree EXCEPT ![c] = NULL]
        /\ PacketDone(c)
        /\ UNCHANGED <<reg, lookups, seen>>
     \/ /\ lookups[c] > 0
        /\ ReadPointer(c)
        /\ lookups' = [lookups EXCEPT ![c] = @ - 1]
        /\ Goto(c, "nat")
        /\ UNCHANGED <<tree, pkts>>
  /\ UNCHANGED <<masterVars, sharedVars, fileVars>>

\* nat_lookup_ip: a miss drops the packet and ends the walk.
NatLookup(c) ==
  /\ wpc[c] = "nat"
  /\ reg' = [reg EXCEPT ![c] = NULL]
  /\ \/ Goto(c, "walk") /\ UNCHANGED <<tree, pkts, lookups>>
     \/ /\ PacketDone(c)
        /\ tree' = [tree EXCEPT ![c] = NULL]
        /\ lookups' = [lookups EXCEPT ![c] = 0]
  /\ UNCHANGED <<seen, masterVars, sharedVars, fileVars>>

\* Mutant: the flag is set once, before the loop.
TxFlushNoMark(c) ==
  /\ wpc[c] = "tx"
  /\ Goto(c, "rx")
  /\ UNCHANGED <<reg, tree, pkts, lookups, seen, masterVars, sharedVars, fileVars>>

\* tx_flush on every port, and back to the head of the loop.
TxFlush(c) ==
  /\ wpc[c] = "tx"
  /\ Goto(c, "top")
  /\ UNCHANGED <<reg, tree, pkts, lookups, seen, masterVars, sharedVars, fileVars>>

WorkerStep(c) ==
  /\ mpc # "dead"
  /\ \/ LoopTop(c) \/ MarkUsed(c) \/ RxBurst(c) \/ Dispatch(c) \/ AddressScan(c)
     \/ EnterRules(c) \/ Walk(c) \/ NatLookup(c) \/ TxFlush(c)

-----------------------------------------------------------------------------
(* The environment. *)

\* Somebody replaces a configuration file that may still be read, by a valid
\* one or not.
EditFile ==
  /\ mpc # "dead"
  /\ \E p \in {Path, DefaultPath}, t \in Contents \cup {NULL} :
       /\ files' = [files EXCEPT ![p] = t]
       /\ edited' = (edited \/ p = DefaultPath)
  /\ UNCHANGED <<masterVars, sharedVars, workerVars>>

Terminated == mpc = "dead" /\ UNCHANGED vars

Next ==
  \/ MasterStep
  \/ RequestReload \/ AdmFails \/ SigTerm
  \/ \E c \in Cores : WorkerStep(c)
  \/ EditFile
  \/ Terminated

\* Every lcore is pinned to a CPU of its own and runs all the time: the
\* master's program and each worker's make progress.  Nobody has to send a
\* reload or a signal, or to edit a file.
Fairness ==
  /\ WF_vars(MasterStep)
  /\ \A c \in Cores : WF_vars(WorkerStep(c))

Spec == Init /\ [][Next]_vars
FairSpec == Spec /\ Fairness

-----------------------------------------------------------------------------
(* Properties. *)

\* The configurations worker c may dereference.
refs(c) == {reg[c], tree[c]} \ {NULL}

\* A worker never follows a pointer into a configuration that was freed, at
\* any of the places where main_loop, ipv4_handle, is_natasha_ip,
\* process_rules or the NAT lookup use one (config.c:204-208 frees it).
NoUseAfterFree == \A c \in Cores : refs(c) \subseteq live

\* The contract stated in natasha.h for NAT_FLAG_USED: once the flag is set in
\* the configuration published to a core, the core uses no other one.
UsedMeansOldIsGone ==
  \A c \in Cores :
    /\ app_config[c] # NULL
    /\ used[app_config[c]]
    => refs(c) \subseteq {app_config[c]}

\* Whenever the administration server waits for a command, exactly one
\* configuration per core is allocated, whatever the outcome of the reloads
\* before: app_config_reload_all leaks nothing and shares nothing.
NoLeak ==
  mpc = "adm" => /\ live = {app_config[c] : c \in Cores}
                 /\ Cardinality(live) = NCores

\* In one turn of main_loop a worker meets at most two configurations, the old
\* and the new one, even if reloads are requested back to back; every packet
\* of a turn is processed by these two only.
AtMostTwoVersions == \A c \in Cores : Cardinality(seen[c]) <= 2

\* When a reload has answered OK and the default file has not been touched
\* since it was requested, every core runs what the file says.
ReloadApplies ==
  (mpc = "adm" /\ reply = "ok" /\ ~edited) =>
     \A c \in Cores : content[app_config[c]] = files[DefaultPath]

\* A worker is running only with a configuration: main_loop dereferences
\* core->app_config without a test, so it must never be NULL there.
RunningWorkersConfigured ==
  \A c \in Cores : wpc[c] \notin {"off", "stopped"} => app_config[c] \in live

\* The answer of a reload is a barrier.  When app_config_reload_all returns,
\* even with an error half way through the cores, no worker is in a turn of
\* main_loop that met another configuration than the published one: no packet
\* in flight is still to be rewritten by the old one.  And after OK every
\* worker has taken the new one over, also the core that was served first and
\* whatever the loads for the later cores wrote since (config.c:190-215).
AnswerIsBarrier ==
  mpc = "adm" =>
     \A c \in Cores : /\ seen[c] \subseteq {app_config[c]}
                      /\ reply = "ok" => used[app_config[c]]

\* What handle_cmd_reload sees of the handshake.
ServiceStage ==
  IF mpc \in {"exit", "dead"} THEN "gone"
  ELSE IF starting THEN "start"
  ELSE IF mpc # "adm" THEN "busy"
  ELSE IF reply = "none" THEN "idle" ELSE reply

Service == INSTANCE ReloadService WITH stage <- ServiceStage

\* app_config_reload_all keeps the promise of ReloadService: one answer for each
\* request, never one from an earlier request, none during start-up; and the
\* spin on NAT_FLAG_USED ends, unless the process is being stopped.
ImplementsService == Service!ServiceSpec

\* SIGTERM ends the process, from any point of a reload too.
ExitTerminates == force_quit ~> mpc = "dead"

\* The handshake implements the abstract handoff.
Handoff == INSTANCE ConfigHandoff WITH
  Workers <- Cores,
  current <- app_config,
  held <- [c \in Cores |-> refs(c)],
  allocated <- live

\* Every step is one of the abstract steps: in particular the free in
\* app_config_reload_all is a Reclaim of what nobody can still reach.
ImplementsHandoff == Handoff!HandoffSpec
-----------------------------------------------------------------------------
(* The inductive invariant. *)

Loading == {"load_core", "swap", "wait", "free_old", "done"}

\* Which locals of the master hold a configuration, and how far its loop over
\* the cores has come.
MasterInv ==
  /\ mpc \in Loading \cup {"ports"} => master_config # NULL
  /\ mpc \in {"setup_load", "load_master", "launch", "adm"} => master_config = NULL
  /\ mpc \in {"swap", "wait", "free_old"} => new_config # NULL
  /\ mpc \in {"wait", "free_old"} => old_config # NULL /\ new_config = app_config[core]
  /\ mpc \notin {"swap", "wait", "free_old", "exit", "dead"} => new_config = NULL
  /\ mpc \notin {"wait", "free_old", "exit", "dead"} => old_config = NULL
  /\ mpc \in {"setup_load", "ports", "load_master", "adm"} => core = 1
  /\ mpc \in {"load_core", "swap"} => \A c \in 1 .. core - 1 : app_config[c] # NULL
  /\ mpc = "wait" => \A c \in 1 .. core : app_config[c] # NULL
  /\ mpc = "free_old" => \A c \in 1 .. core : app_config[c] # NULL
  /\ mpc \in {"done", "launch", "adm"} => \A c \in Cores : app_config[c] # NULL
  /\ mpc \in {"setup_load", "ports"} => starting /\ \A c \in Cores : app_config[c] = NULL
  /\ starting /\ mpc \notin {"launch", "exit", "dead"} => \A c \in Cores : wpc[c] = "off"
  /\ mpc = "launch" => \A c \in core .. NCores : wpc[c] = "off"
  /\ mpc = "adm" => ~starting
  /\ mpc = "launch" => starting
  /\ ~starting => \A c \in Cores : app_config[c] # NULL

\* Every allocated configuration is published to exactly one core or is held
\* by exactly one local of the master.
OwnersInv ==
  /\ live = ({app_config[c] : c \in Cores} \cup {master_config, new_config, old_config})
              \ {NULL}
  /\ \A c, d \in Cores : c # d /\ app_config[c] = app_config[d] => app_config[c] = NULL
  /\ \A c \in Cores : app_config[c] # NULL =>
        /\ app_config[c] # master_config
        /\ app_config[c] # old_config
        /\ app_config[c] = new_config => mpc # "swap"
  /\ master_config # NULL => master_config \notin {new_config, old_config}
  /\ old_config # NULL => old_config # new_config

\* What a worker's program counter says about the pointers it holds.
WorkerInv ==
  \A c \in Cores :
    /\ wpc[c] \in {"mark", "addr", "rules", "nat"} <=> reg[c] # NULL
    /\ wpc[c] \in {"walk", "nat"} <=> tree[c] # NULL
    /\ wpc[c] \in {"addr", "rules", "walk", "nat"} => pkts[c] > 0
    /\ wpc[c] \notin {"off", "stopped"} => app_config[c] # NULL
    /\ wpc[c] = "off" => seen[c] = {}
    /\ wpc[c] = "mark" => seen[c] = {reg[c]}
    /\ refs(c) \subseteq seen[c]

\* What a worker has read in this turn of main_loop is published, or is the
\* old configuration the master holds for it; and once the flag of the
\* published one is set, only that one.
HandshakeInv ==
  /\ \A c \in Cores :
       seen[c] \subseteq {app_config[c]} \cup (IF core = c THEN {old_config} ELSE {})
  /\ \A c \in Cores :
       app_config[c] # NULL /\ used[app_config[c]] => seen[c] \subseteq {app_config[c]}
  /\ mpc = "swap" => ~used[new_config]
  /\ mpc = "free_old" => used[new_config]

\* The conjunction is preserved by every step of app_config_reload_all and
\* main_loop, which the safety properties alone are not; it implies them.
IInv == TypeOK /\ MasterInv /\ OwnersInv /\ WorkerInv /\ HandshakeInv
=============================================================================
