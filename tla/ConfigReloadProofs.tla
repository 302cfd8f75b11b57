------------------------- MODULE ConfigReloadProofs -------------------------
(* Proofs about ConfigReload for any number of cores, any set of addresses  *)
(* and contents, and any bound on bursts and lookups.                       *)
EXTENDS ConfigReload, TLAPS, FiniteSetTheorems

\* The slave lcores are numbered from 1; there is at least one.
LEMMA CoresFacts == 1 \in Cores /\ NCores \in Cores /\ Cores \subseteq Nat
BY NCoresAssumption DEF Cores

\* The process image before setup_app satisfies the invariant.
LEMMA InitInv == Init => IInv
<1> SUFFICES ASSUME Init PROVE IInv
  OBVIOUS
<1> USE CoresFacts DEF Init
<1>1. TypeOK
  <2>1. pkts \in [Cores -> 0 .. MaxBurst] /\ lookups \in [Cores -> 0 .. MaxLookups]
    BY BoundsAssumption
  <2>2. used \in [Addrs -> BOOLEAN]
    OBVIOUS
  <2>3. mpc \in MasterPCs /\ wpc \in [Cores -> WorkerPCs]
    BY DEF MasterPCs, WorkerPCs
  <2> QED
    BY <2>1, <2>2, <2>3 DEF TypeOK
<1>2. MasterInv
  BY DEF MasterInv, Loading
<1>3. OwnersInv
  BY DEF OwnersInv
<1>4. WorkerInv
  BY DEF WorkerInv, refs
<1>5. HandshakeInv
  BY DEF HandshakeInv
<1> QED
  BY <1>1, <1>2, <1>3, <1>4, <1>5 DEF IInv

\* app_config_load reads one of the two files the model has.
LEMMA PathType == Path \in Paths
BY StartPathAssumption DEF Path, Paths, DefaultPath

(* One lemma per step: the invariant is preserved. *)

\* rte_exit, or a return from main, preserves the invariant.
LEMMA DieInv ==
  ASSUME IInv, Die
  PROVE  IInv'
<1> USE CoresFacts, NullAssumption DEF IInv, Die, masterVars, sharedVars,
        workerVars, fileVars
<1>1. TypeOK'
  BY DEF TypeOK, MasterPCs, WorkerPCs
<1>2. MasterInv'
  BY DEF TypeOK, MasterInv, Loading
<1>3. OwnersInv'
  BY DEF TypeOK, MasterInv, OwnersInv, Loading
<1>4. WorkerInv'
  BY DEF TypeOK, WorkerInv, refs, MasterInv
<1>5. HandshakeInv'
  BY DEF TypeOK, MasterInv, OwnersInv, WorkerInv, HandshakeInv, Loading
<1> QED
  BY <1>1, <1>2, <1>3, <1>4, <1>5 DEF IInv

\* The load in setup_app preserves the invariant.
LEMMA SetupLoadInv ==
  ASSUME IInv, SetupLoad
  PROVE  IInv'
<1> USE CoresFacts, NullAssumption DEF IInv, SetupLoad, app_config_load, masterVars, sharedVars,
        workerVars, fileVars
<1>1. TypeOK'
  <2>1. files[Path] \in Contents \cup {NULL}
    BY PathType DEF TypeOK
  <2>2. live' \in SUBSET Addrs /\ master_config' \in Addrs \cup {NULL}
    BY DEF TypeOK
  <2>3. content' \in [Addrs -> Contents \cup {NULL}]
    BY <2>1 DEF TypeOK
  <2>4. used' \in [Addrs -> BOOLEAN]
    BY DEF TypeOK
  <2>5. mpc' \in MasterPCs /\ wpc' \in [Cores -> WorkerPCs]
    BY DEF TypeOK, MasterPCs, WorkerPCs
  <2> QED
    BY <2>1, <2>2, <2>3, <2>4, <2>5 DEF TypeOK
<1>2. MasterInv'
  BY DEF TypeOK, MasterInv, Loading
<1>3. OwnersInv'
  BY DEF TypeOK, MasterInv, OwnersInv, Loading
<1>4. WorkerInv'
  BY DEF TypeOK, WorkerInv, refs, MasterInv
<1>5. HandshakeInv'
  BY DEF TypeOK, MasterInv, OwnersInv, WorkerInv, HandshakeInv, Loading
<1> QED
  BY <1>1, <1>2, <1>3, <1>4, <1>5 DEF IInv

\* Freeing the configuration used to set up the ports preserves it.
LEMMA SetupPortsInv ==
  ASSUME IInv, SetupPorts
  PROVE  IInv'
<1> USE CoresFacts, NullAssumption DEF IInv, SetupPorts, app_config_free, masterVars, sharedVars,
        workerVars, fileVars
<1>1. TypeOK'
  BY DEF TypeOK, MasterPCs, WorkerPCs
<1>2. MasterInv'
  BY DEF TypeOK, MasterInv, Loading
<1>3. OwnersInv'
  BY DEF TypeOK, MasterInv, OwnersInv, Loading
<1>4. WorkerInv'
  BY DEF TypeOK, WorkerInv, refs, MasterInv
<1>5. HandshakeInv'
  BY DEF TypeOK, MasterInv, OwnersInv, WorkerInv, HandshakeInv, Loading
<1> QED
  BY <1>1, <1>2, <1>3, <1>4, <1>5 DEF IInv

\* The validating load of app_config_reload_all preserves it.
LEMMA LoadMasterInv ==
  ASSUME IInv, LoadMaster
  PROVE  IInv'
<1> USE CoresFacts, NullAssumption DEF IInv, LoadMaster, ReloadReturns, app_config_load, masterVars, sharedVars,
        workerVars, fileVars
<1>1. TypeOK'
  <2>1. files[Path] \in Contents \cup {NULL}
    BY PathType DEF TypeOK
  <2>2. live' \in SUBSET Addrs /\ master_config' \in Addrs \cup {NULL}
    BY DEF TypeOK
  <2>3. content' \in [Addrs -> Contents \cup {NULL}]
    BY <2>1 DEF TypeOK
  <2>4. used' \in [Addrs -> BOOLEAN]
    BY DEF TypeOK
  <2>5. mpc' \in MasterPCs /\ wpc' \in [Cores -> WorkerPCs]
    BY DEF TypeOK, MasterPCs, WorkerPCs
  <2> QED
    BY <2>1, <2>2, <2>3, <2>4, <2>5 DEF TypeOK
<1>2. MasterInv'
  BY DEF TypeOK, MasterInv, Loading
<1>3. OwnersInv'
  BY DEF TypeOK, MasterInv, OwnersInv, Loading
<1>4. WorkerInv'
  BY DEF TypeOK, WorkerInv, refs, MasterInv
<1>5. HandshakeInv'
  BY DEF TypeOK, MasterInv, OwnersInv, WorkerInv, HandshakeInv, Loading
<1> QED
  BY <1>1, <1>2, <1>3, <1>4, <1>5 DEF IInv

\* The load for one core, or its failure, preserves it: an address it
\* returns is owned by nobody, and its flag is clear.
LEMMA LoadCoreInv ==
  ASSUME IInv, LoadCore
  PROVE  IInv'
<1> USE CoresFacts, NullAssumption DEF IInv, LoadCore, ReloadReturns, app_config_load, app_config_free, masterVars, sharedVars,
        workerVars, fileVars
<1>1. TypeOK'
  <2>1. files[Path] \in Contents \cup {NULL}
    BY PathType DEF TypeOK
  <2>2. live' \in SUBSET Addrs /\ new_config' \in Addrs \cup {NULL}
    BY DEF TypeOK
  <2>3. content' \in [Addrs -> Contents \cup {NULL}]
    BY <2>1 DEF TypeOK
  <2>4. used' \in [Addrs -> BOOLEAN]
    BY DEF TypeOK
  <2>5. mpc' \in MasterPCs /\ wpc' \in [Cores -> WorkerPCs]
    BY DEF TypeOK, MasterPCs, WorkerPCs
  <2> QED
    BY <2>1, <2>2, <2>3, <2>4, <2>5 DEF TypeOK
<1>2. MasterInv'
  BY DEF TypeOK, MasterInv, Loading
<1>3. OwnersInv'
  BY DEF TypeOK, MasterInv, OwnersInv, Loading
<1>4. WorkerInv'
  BY DEF TypeOK, WorkerInv, refs, MasterInv
<1>5. HandshakeInv'
  BY DEF TypeOK, MasterInv, OwnersInv, WorkerInv, HandshakeInv, Loading
<1> QED
  BY <1>1, <1>2, <1>3, <1>4, <1>5 DEF IInv

\* The store of the new pointer preserves it: the old configuration
\* becomes the one that the core may still use.
LEMMA SwapInv ==
  ASSUME IInv, Swap
  PROVE  IInv'
<1> USE CoresFacts, NullAssumption DEF IInv, Swap, NextCore, masterVars, sharedVars,
        workerVars, fileVars
<1>1. TypeOK'
  <2>1. core' \in Cores
    BY NCoresAssumption DEF TypeOK, Cores
  <2>2. app_config' \in [Cores -> Addrs \cup {NULL}]
    BY DEF TypeOK
  <2>3. mpc' \in MasterPCs
    BY DEF TypeOK, MasterPCs
  <2>4. new_config' \in Addrs \cup {NULL} /\ old_config' \in Addrs \cup {NULL}
    BY DEF TypeOK
  <2> QED
    BY <2>1, <2>2, <2>3, <2>4 DEF TypeOK
<1>2. MasterInv'
  <2> DEFINE NextPC == IF core = NCores THEN "done" ELSE "load_core"
  <2>1. core \in Nat /\ 1 <= core /\ core <= NCores /\ Cores = 1 .. NCores
    BY NCoresAssumption DEF TypeOK, Cores
  <2>2. new_config \in Addrs /\ master_config # NULL
    BY DEF TypeOK, MasterInv, Loading
  <2>3. \A d \in 1 .. core : app_config'[d] # NULL
    BY <2>1, <2>2 DEF TypeOK, MasterInv
  <2>4. app_config'[core] = new_config /\ \A d \in Cores : app_config[d] # NULL => app_config'[d] # NULL
    BY <2>1, <2>2 DEF TypeOK
  <2>5. CASE app_config[core] # NULL
    BY <2>1, <2>2, <2>3, <2>4, <2>5 DEF TypeOK, MasterInv, Loading
  <2>6. CASE app_config[core] = NULL
    <3>1. mpc' = NextPC /\ core' = (IF core = NCores THEN core ELSE core + 1)
          /\ new_config' = NULL /\ old_config' = NULL
      BY <2>6
    <3>2. core # NCores => core' - 1 = core
      BY <2>1, <3>1
    <3> QED
      BY <2>1, <2>2, <2>3, <2>4, <3>1, <3>2 DEF TypeOK, MasterInv, Loading
  <2> QED
    BY <2>5, <2>6
<1>3. OwnersInv'
  BY DEF TypeOK, MasterInv, OwnersInv, Loading
<1>4. WorkerInv'
  BY DEF TypeOK, WorkerInv, refs, MasterInv
<1>5. HandshakeInv'
  BY DEF TypeOK, MasterInv, OwnersInv, WorkerInv, HandshakeInv, Loading
<1> QED
  BY <1>1, <1>2, <1>3, <1>4, <1>5 DEF IInv

\* Leaving the spin preserves it: the flag is set.
LEMMA WaitUsedInv ==
  ASSUME IInv, WaitUsed
  PROVE  IInv'
<1> USE CoresFacts, NullAssumption DEF IInv, WaitUsed, masterVars, sharedVars,
        workerVars, fileVars
<1>1. TypeOK'
  BY DEF TypeOK, MasterPCs, WorkerPCs
<1>2. MasterInv'
  BY DEF TypeOK, MasterInv, Loading
<1>3. OwnersInv'
  BY DEF TypeOK, MasterInv, OwnersInv, Loading
<1>4. WorkerInv'
  BY DEF TypeOK, WorkerInv, refs, MasterInv
<1>5. HandshakeInv'
  BY DEF TypeOK, MasterInv, OwnersInv, WorkerInv, HandshakeInv, Loading
<1> QED
  BY <1>1, <1>2, <1>3, <1>4, <1>5 DEF IInv

\* Freeing the old configuration preserves it: the flag is set, so the
\* core uses the new one only.
LEMMA FreeOldInv ==
  ASSUME IInv, FreeOld
  PROVE  IInv'
<1> USE CoresFacts, NullAssumption DEF IInv, FreeOld, NextCore, app_config_free, masterVars, sharedVars,
        workerVars, fileVars
<1>1. TypeOK'
  <2>1. core' \in Cores
    BY NCoresAssumption DEF TypeOK, Cores
  <2>2. mpc' \in MasterPCs
    BY DEF TypeOK, MasterPCs
  <2>3. live' \in SUBSET Addrs
    BY DEF TypeOK
  <2> QED
    BY <2>1, <2>2, <2>3 DEF TypeOK
<1>2. MasterInv'
  <2> DEFINE NextPC == IF core = NCores THEN "done" ELSE "load_core"
  <2>1. core \in Nat /\ 1 <= core /\ core <= NCores /\ Cores = 1 .. NCores
    BY NCoresAssumption DEF TypeOK, Cores
  <2>2. new_config \in Addrs /\ master_config # NULL
    BY DEF TypeOK, MasterInv, Loading
  <2>3. mpc' = NextPC /\ core' = (IF core = NCores THEN core ELSE core + 1)
    OBVIOUS
  <2>4. core # NCores => core' - 1 = core
    BY <2>1, <2>3
  <2> QED
    BY <2>1, <2>2, <2>3, <2>4 DEF TypeOK, MasterInv, Loading
<1>3. OwnersInv'
  BY DEF TypeOK, MasterInv, OwnersInv, Loading
<1>4. WorkerInv'
  BY DEF TypeOK, WorkerInv, refs, MasterInv
<1>5. HandshakeInv'
  BY DEF TypeOK, MasterInv, OwnersInv, WorkerInv, HandshakeInv, Loading
<1> QED
  BY <1>1, <1>2, <1>3, <1>4, <1>5 DEF IInv

\* The successful end of app_config_reload_all preserves it.
LEMMA ReloadDoneInv ==
  ASSUME IInv, ReloadDone
  PROVE  IInv'
<1> USE CoresFacts, NullAssumption DEF IInv, ReloadDone, ReloadReturns, app_config_free, masterVars, sharedVars,
        workerVars, fileVars
<1>1. TypeOK'
  BY DEF TypeOK, MasterPCs, WorkerPCs
<1>2. MasterInv'
  <2>1. 1 .. NCores = Cores
    BY DEF Cores
  <2> QED
    BY <2>1 DEF TypeOK, MasterInv, Loading
<1>3. OwnersInv'
  BY DEF TypeOK, MasterInv, OwnersInv, Loading
<1>4. WorkerInv'
  BY DEF TypeOK, WorkerInv, refs, MasterInv
<1>5. HandshakeInv'
  BY DEF TypeOK, MasterInv, OwnersInv, WorkerInv, HandshakeInv, Loading
<1> QED
  BY <1>1, <1>2, <1>3, <1>4, <1>5 DEF IInv

\* Launching a worker that was off preserves it.
LEMMA LaunchInv ==
  ASSUME IInv, Launch
  PROVE  IInv'
<1> USE CoresFacts, NullAssumption DEF IInv, Launch, masterVars, sharedVars,
        workerVars, fileVars
<1>1. TypeOK'
  <2>1. core' \in Cores
    BY NCoresAssumption DEF TypeOK, Cores
  <2>2. mpc' \in MasterPCs /\ wpc' \in [Cores -> WorkerPCs]
    BY DEF TypeOK, MasterPCs, WorkerPCs
  <2>3. starting' \in BOOLEAN
    BY DEF TypeOK
  <2> QED
    BY <2>1, <2>2, <2>3 DEF TypeOK
<1>2. MasterInv'
  <2>1. \A d \in Cores : app_config[d] # NULL
    BY DEF MasterInv
  <2>2. \A d \in core + 1 .. NCores : wpc'[d] = "off"
    BY NCoresAssumption DEF TypeOK, MasterInv, Cores
  <2> QED
    BY <2>1, <2>2, NCoresAssumption DEF TypeOK, MasterInv, Loading, Cores
<1>3. OwnersInv'
  BY DEF TypeOK, MasterInv, OwnersInv, Loading
<1>4. WorkerInv'
  <2>1. core \in Cores /\ app_config[core] # NULL /\ wpc[core] = "off"
    BY NCoresAssumption DEF TypeOK, MasterInv, Cores
  <2>2. \A d \in Cores : refs(d)' = refs(d)
    BY DEF refs
  <2>3. \A d \in Cores : wpc'[d] = IF d = core THEN "top" ELSE wpc[d]
    BY <2>1 DEF TypeOK
  <2> QED
    BY <2>1, <2>2, <2>3 DEF TypeOK, WorkerInv
<1>5. HandshakeInv'
  <2>1. \A d \in Cores : seen[d] \subseteq {app_config[d]}
    BY DEF TypeOK, MasterInv, HandshakeInv
  <2> QED
    BY <2>1 DEF TypeOK, MasterInv, HandshakeInv
<1> QED
  BY <1>1, <1>2, <1>3, <1>4, <1>5 DEF IInv

\* The start of a reload command preserves it.
LEMMA RequestReloadInv ==
  ASSUME IInv, RequestReload
  PROVE  IInv'
<1> USE CoresFacts, NullAssumption DEF IInv, RequestReload, masterVars, sharedVars,
        workerVars, fileVars
<1>1. TypeOK'
  BY DEF TypeOK, MasterPCs, WorkerPCs
<1>2. MasterInv'
  BY DEF TypeOK, MasterInv, Loading
<1>3. OwnersInv'
  BY DEF TypeOK, MasterInv, OwnersInv, Loading
<1>4. WorkerInv'
  BY DEF TypeOK, WorkerInv, refs, MasterInv
<1>5. HandshakeInv'
  BY DEF TypeOK, MasterInv, OwnersInv, WorkerInv, HandshakeInv, Loading
<1> QED
  BY <1>1, <1>2, <1>3, <1>4, <1>5 DEF IInv

\* SIGTERM at any point of the master preserves it.
LEMMA SigTermInv ==
  ASSUME IInv, SigTerm
  PROVE  IInv'
<1> USE CoresFacts, NullAssumption DEF IInv, SigTerm, masterVars, sharedVars,
        workerVars, fileVars
<1>1. TypeOK'
  BY DEF TypeOK, MasterPCs, WorkerPCs
<1>2. MasterInv'
  BY DEF TypeOK, MasterInv, Loading
<1>3. OwnersInv'
  BY DEF TypeOK, MasterInv, OwnersInv, Loading
<1>4. WorkerInv'
  BY DEF TypeOK, WorkerInv, refs, MasterInv
<1>5. HandshakeInv'
  BY DEF TypeOK, MasterInv, OwnersInv, WorkerInv, HandshakeInv, Loading
<1> QED
  BY <1>1, <1>2, <1>3, <1>4, <1>5 DEF IInv

\* Editing a configuration file preserves it.
LEMMA EditFileInv ==
  ASSUME IInv, EditFile
  PROVE  IInv'
<1> USE CoresFacts, NullAssumption DEF IInv, EditFile, masterVars, sharedVars,
        workerVars, fileVars
<1>1. TypeOK'
  <2>1. edited' \in BOOLEAN
    BY DEF TypeOK
  <2>2. files' \in [Paths -> Contents \cup {NULL}]
    BY PathType DEF TypeOK, Paths, DefaultPath
  <2> QED
    BY <2>1, <2>2 DEF TypeOK
<1>2. MasterInv'
  BY DEF TypeOK, MasterInv, Loading
<1>3. OwnersInv'
  BY DEF TypeOK, MasterInv, OwnersInv, Loading
<1>4. WorkerInv'
  BY DEF TypeOK, WorkerInv, refs, MasterInv
<1>5. HandshakeInv'
  BY DEF TypeOK, MasterInv, OwnersInv, WorkerInv, HandshakeInv, Loading
<1> QED
  BY <1>1, <1>2, <1>3, <1>4, <1>5 DEF IInv

\* The head of main_loop preserves it: it starts a new turn.
LEMMA LoopTopInv ==
  ASSUME IInv, NEW c \in Cores, LoopTop(c)
  PROVE  IInv'
<1> USE CoresFacts, NullAssumption DEF IInv, LoopTop, Goto, masterVars, sharedVars,
        workerVars, fileVars
<1>1. TypeOK'
  <2>1. seen' \in [Cores -> SUBSET Addrs]
    BY DEF TypeOK, WorkerInv
  <2>2. wpc' \in [Cores -> WorkerPCs]
    BY DEF TypeOK, WorkerPCs
  <2>3. reg' \in [Cores -> Addrs \cup {NULL}]
    BY DEF TypeOK
  <2> QED
    BY <2>1, <2>2, <2>3 DEF TypeOK
<1>2. MasterInv'
  <2>1. \A d \in Cores : wpc[d] = "off" => wpc'[d] = "off"
    BY DEF TypeOK
  <2>2. core .. NCores \subseteq Cores
    BY NCoresAssumption DEF TypeOK, Cores
  <2> QED
    BY <2>1, <2>2 DEF TypeOK, MasterInv
<1>3. OwnersInv'
  BY DEF TypeOK, MasterInv, OwnersInv, Loading
<1>4. WorkerInv'
  BY DEF TypeOK, WorkerInv, refs
<1>5. HandshakeInv'
  BY DEF TypeOK, MasterInv, OwnersInv, WorkerInv, HandshakeInv
<1> QED
  BY <1>1, <1>2, <1>3, <1>4, <1>5 DEF IInv

\* Setting NAT_FLAG_USED preserves it: the only configuration read in
\* this turn is the one whose flag is set.
LEMMA MarkUsedInv ==
  ASSUME IInv, NEW c \in Cores, MarkUsed(c)
  PROVE  IInv'
<1> USE CoresFacts, NullAssumption DEF IInv, MarkUsed, Goto, masterVars, sharedVars,
        workerVars, fileVars
<1>1. TypeOK'
  <2>1. used' \in [Addrs -> BOOLEAN]
    BY DEF TypeOK
  <2>2. wpc' \in [Cores -> WorkerPCs]
    BY DEF TypeOK, WorkerPCs
  <2>3. reg' \in [Cores -> Addrs \cup {NULL}]
    BY DEF TypeOK
  <2> QED
    BY <2>1, <2>2, <2>3 DEF TypeOK
<1>2. MasterInv'
  BY DEF TypeOK, MasterInv, Loading, WorkerInv
<1>3. OwnersInv'
  BY DEF TypeOK, MasterInv, OwnersInv, Loading
<1>4. WorkerInv'
  BY DEF TypeOK, WorkerInv, refs
<1>5. HandshakeInv'
  <2>1. reg[c] \in Addrs /\ seen[c] = {reg[c]} /\ seen' = seen
    BY DEF TypeOK, WorkerInv
  <2>6. reg[c] = app_config[c] \/ reg[c] = old_config
    BY <2>1 DEF HandshakeInv
  <2>2. \A d \in Cores : seen'[d] \subseteq {app_config'[d]} \cup (IF core' = d THEN {old_config'} ELSE {})
    BY DEF HandshakeInv
  <2>3. ASSUME NEW d \in Cores, app_config'[d] # NULL, used'[app_config'[d]]
        PROVE  seen'[d] \subseteq {app_config'[d]}
    <3>1. CASE d = c
      <4>1. CASE app_config[c] = reg[c]
        BY <2>1, <3>1, <4>1
      <4>2. CASE app_config[c] # reg[c]
        BY <2>1, <2>3, <3>1, <4>2 DEF TypeOK, HandshakeInv
      <4> QED
        BY <4>1, <4>2
    <3>2. CASE d # c
      <4>1. app_config[d] # reg[c]
        BY <2>1, <2>3, <2>6, <3>2 DEF TypeOK, OwnersInv
      <4> QED
        BY <2>1, <2>3, <4>1 DEF TypeOK, HandshakeInv
    <3> QED
      BY <3>1, <3>2
  <2>4. mpc' = "swap" => ~used'[new_config']
    <3>1. mpc = "swap" => new_config \in Addrs /\ new_config # reg[c]
      BY <2>1, <2>6 DEF TypeOK, MasterInv, OwnersInv
    <3> QED
      BY <2>1, <3>1 DEF TypeOK, HandshakeInv
  <2>5. mpc' = "free_old" => used'[new_config']
    BY <2>1 DEF TypeOK, MasterInv, HandshakeInv
  <2> QED
    BY <2>2, <2>3, <2>4, <2>5 DEF HandshakeInv
<1> QED
  BY <1>1, <1>2, <1>3, <1>4, <1>5 DEF IInv

\* Receiving a burst preserves it.
LEMMA RxBurstInv ==
  ASSUME IInv, NEW c \in Cores, RxBurst(c)
  PROVE  IInv'
<1> USE CoresFacts, NullAssumption DEF IInv, RxBurst, Goto, masterVars, sharedVars,
        workerVars, fileVars
<1>1. TypeOK'
  BY DEF TypeOK, MasterPCs, WorkerPCs
<1>2. MasterInv'
  BY DEF TypeOK, MasterInv, Loading, WorkerInv
<1>3. OwnersInv'
  BY DEF TypeOK, MasterInv, OwnersInv, Loading
<1>4. WorkerInv'
  BY DEF TypeOK, WorkerInv, refs
<1>5. HandshakeInv'
  BY DEF TypeOK, MasterInv, OwnersInv, WorkerInv, HandshakeInv
<1> QED
  BY <1>1, <1>2, <1>3, <1>4, <1>5 DEF IInv

\* dispatch_packet preserves it.
LEMMA DispatchInv ==
  ASSUME IInv, NEW c \in Cores, Dispatch(c)
  PROVE  IInv'
<1> USE CoresFacts, NullAssumption DEF IInv, Dispatch, Goto, PacketDone, ReadPointer, masterVars, sharedVars,
        workerVars, fileVars
<1>1. TypeOK'
  <2>1. seen' \in [Cores -> SUBSET Addrs]
    BY DEF TypeOK, WorkerInv
  <2>2. pkts' \in [Cores -> 0 .. MaxBurst]
    BY BoundsAssumption DEF TypeOK, WorkerInv
  <2>3. wpc' \in [Cores -> WorkerPCs]
    BY DEF TypeOK, WorkerPCs
  <2>4. reg' \in [Cores -> Addrs \cup {NULL}]
    BY DEF TypeOK
  <2> QED
    BY <2>1, <2>2, <2>3, <2>4 DEF TypeOK
<1>2. MasterInv'
  <2>1. \A d \in Cores : wpc[d] = "off" => wpc'[d] = "off"
    BY DEF TypeOK
  <2>2. core .. NCores \subseteq Cores
    BY NCoresAssumption DEF TypeOK, Cores
  <2> QED
    BY <2>1, <2>2 DEF TypeOK, MasterInv
<1>3. OwnersInv'
  BY DEF TypeOK, MasterInv, OwnersInv, Loading
<1>4. WorkerInv'
  BY DEF TypeOK, WorkerInv, refs
<1>5. HandshakeInv'
  BY DEF TypeOK, MasterInv, OwnersInv, WorkerInv, HandshakeInv
<1> QED
  BY <1>1, <1>2, <1>3, <1>4, <1>5 DEF IInv

\* The walk of the address lists preserves it.
LEMMA AddressScanInv ==
  ASSUME IInv, NEW c \in Cores, AddressScan(c)
  PROVE  IInv'
<1> USE CoresFacts, NullAssumption DEF IInv, AddressScan, Goto, PacketDone, ReadPointer, masterVars, sharedVars,
        workerVars, fileVars
<1>1. TypeOK'
  <2>1. seen' \in [Cores -> SUBSET Addrs]
    BY DEF TypeOK, WorkerInv
  <2>2. pkts' \in [Cores -> 0 .. MaxBurst]
    BY BoundsAssumption DEF TypeOK, WorkerInv
  <2>3. wpc' \in [Cores -> WorkerPCs]
    BY DEF TypeOK, WorkerPCs
  <2>4. reg' \in [Cores -> Addrs \cup {NULL}]
    BY DEF TypeOK
  <2> QED
    BY <2>1, <2>2, <2>3, <2>4 DEF TypeOK
<1>2. MasterInv'
  <2>1. \A d \in Cores : wpc[d] = "off" => wpc'[d] = "off"
    BY DEF TypeOK
  <2>2. core .. NCores \subseteq Cores
    BY NCoresAssumption DEF TypeOK, Cores
  <2> QED
    BY <2>1, <2>2 DEF TypeOK, MasterInv
<1>3. OwnersInv'
  BY DEF TypeOK, MasterInv, OwnersInv, Loading
<1>4. WorkerInv'
  BY DEF TypeOK, WorkerInv, refs
<1>5. HandshakeInv'
  BY DEF TypeOK, MasterInv, OwnersInv, WorkerInv, HandshakeInv
<1> QED
  BY <1>1, <1>2, <1>3, <1>4, <1>5 DEF IInv

\* The two reads of core->app_config in ipv4_handle preserve it.
LEMMA EnterRulesInv ==
  ASSUME IInv, NEW c \in Cores, EnterRules(c)
  PROVE  IInv'
<1> USE CoresFacts, NullAssumption DEF IInv, EnterRules, Goto, PacketDone, masterVars, sharedVars,
        workerVars, fileVars
<1>1. TypeOK'
  <2>1. seen' \in [Cores -> SUBSET Addrs]
    BY DEF TypeOK, WorkerInv
  <2>2. pkts' \in [Cores -> 0 .. MaxBurst]
    BY BoundsAssumption DEF TypeOK, WorkerInv
  <2>3. lookups' \in [Cores -> 0 .. MaxLookups]
    BY BoundsAssumption DEF TypeOK, WorkerInv
  <2>4. wpc' \in [Cores -> WorkerPCs]
    BY DEF TypeOK, WorkerPCs
  <2>5. reg' \in [Cores -> Addrs \cup {NULL}]
    BY DEF TypeOK
  <2>6. tree' \in [Cores -> Addrs \cup {NULL}]
    BY DEF TypeOK
  <2> QED
    BY <2>1, <2>2, <2>3, <2>4, <2>5, <2>6 DEF TypeOK
<1>2. MasterInv'
  <2>1. \A d \in Cores : wpc[d] = "off" => wpc'[d] = "off"
    BY DEF TypeOK
  <2>2. core .. NCores \subseteq Cores
    BY NCoresAssumption DEF TypeOK, Cores
  <2> QED
    BY <2>1, <2>2 DEF TypeOK, MasterInv
<1>3. OwnersInv'
  BY DEF TypeOK, MasterInv, OwnersInv, Loading
<1>4. WorkerInv'
  BY DEF TypeOK, WorkerInv, refs
<1>5. HandshakeInv'
  <2>1. reg[c] \in seen[c] /\ reg[c] \in Addrs /\ app_config[c] \in Addrs
    BY DEF TypeOK, WorkerInv, refs
  <2>2. seen'[c] \subseteq seen[c] \cup {app_config[c]}
    BY <2>1 DEF TypeOK
  <2>3. \A d \in Cores : d # c => seen'[d] = seen[d]
    BY DEF TypeOK
  <2> QED
    BY <2>1, <2>2, <2>3 DEF HandshakeInv
<1> QED
  BY <1>1, <1>2, <1>3, <1>4, <1>5 DEF IInv

\* A step of process_rules preserves it.
LEMMA WalkInv ==
  ASSUME IInv, NEW c \in Cores, Walk(c)
  PROVE  IInv'
<1> USE CoresFacts, NullAssumption DEF IInv, Walk, Goto, PacketDone, ReadPointer, masterVars, sharedVars,
        workerVars, fileVars
<1>1. TypeOK'
  <2>1. seen' \in [Cores -> SUBSET Addrs]
    BY DEF TypeOK, WorkerInv
  <2>2. pkts' \in [Cores -> 0 .. MaxBurst]
    BY BoundsAssumption DEF TypeOK, WorkerInv
  <2>3. lookups' \in [Cores -> 0 .. MaxLookups]
    BY BoundsAssumption DEF TypeOK, WorkerInv
  <2>4. wpc' \in [Cores -> WorkerPCs]
    BY DEF TypeOK, WorkerPCs
  <2>5. reg' \in [Cores -> Addrs \cup {NULL}]
    BY DEF TypeOK
  <2>6. tree' \in [Cores -> Addrs \cup {NULL}]
    BY DEF TypeOK
  <2> QED
    BY <2>1, <2>2, <2>3, <2>4, <2>5, <2>6 DEF TypeOK
<1>2. MasterInv'
  <2>1. \A d \in Cores : wpc[d] = "off" => wpc'[d] = "off"
    BY DEF TypeOK
  <2>2. core .. NCores \subseteq Cores
    BY NCoresAssumption DEF TypeOK, Cores
  <2> QED
    BY <2>1, <2>2 DEF TypeOK, MasterInv
<1>3. OwnersInv'
  BY DEF TypeOK, MasterInv, OwnersInv, Loading
<1>4. WorkerInv'
  BY DEF TypeOK, WorkerInv, refs
<1>5. HandshakeInv'
  BY DEF TypeOK, MasterInv, OwnersInv, WorkerInv, HandshakeInv
<1> QED
  BY <1>1, <1>2, <1>3, <1>4, <1>5 DEF IInv

\* A NAT lookup preserves it.
LEMMA NatLookupInv ==
  ASSUME IInv, NEW c \in Cores, NatLookup(c)
  PROVE  IInv'
<1> USE CoresFacts, NullAssumption DEF IInv, NatLookup, Goto, PacketDone, masterVars, sharedVars,
        workerVars, fileVars
<1>1. TypeOK'
  <2>1. seen' \in [Cores -> SUBSET Addrs]
    BY DEF TypeOK, WorkerInv
  <2>2. pkts' \in [Cores -> 0 .. MaxBurst]
    BY BoundsAssumption DEF TypeOK, WorkerInv
  <2>3. lookups' \in [Cores -> 0 .. MaxLookups]
    BY BoundsAssumption DEF TypeOK, WorkerInv
  <2>4. wpc' \in [Cores -> WorkerPCs]
    BY DEF TypeOK, WorkerPCs
  <2>5. reg' \in [Cores -> Addrs \cup {NULL}]
    BY DEF TypeOK
  <2>6. tree' \in [Cores -> Addrs \cup {NULL}]
    BY DEF TypeOK
  <2> QED
    BY <2>1, <2>2, <2>3, <2>4, <2>5, <2>6 DEF TypeOK
<1>2. MasterInv'
  <2>1. \A d \in Cores : wpc[d] = "off" => wpc'[d] = "off"
    BY DEF TypeOK
  <2>2. core .. NCores \subseteq Cores
    BY NCoresAssumption DEF TypeOK, Cores
  <2> QED
    BY <2>1, <2>2 DEF TypeOK, MasterInv
<1>3. OwnersInv'
  BY DEF TypeOK, MasterInv, OwnersInv, Loading
<1>4. WorkerInv'
  BY DEF TypeOK, WorkerInv, refs
<1>5. HandshakeInv'
  BY DEF TypeOK, MasterInv, OwnersInv, WorkerInv, HandshakeInv
<1> QED
  BY <1>1, <1>2, <1>3, <1>4, <1>5 DEF IInv

\* The end of a turn of main_loop preserves it.
LEMMA TxFlushInv ==
  ASSUME IInv, NEW c \in Cores, TxFlush(c)
  PROVE  IInv'
<1> USE CoresFacts, NullAssumption DEF IInv, TxFlush, Goto, masterVars, sharedVars,
        workerVars, fileVars
<1>1. TypeOK'
  BY DEF TypeOK, MasterPCs, WorkerPCs
<1>2. MasterInv'
  BY DEF TypeOK, MasterInv, Loading, WorkerInv
<1>3. OwnersInv'
  BY DEF TypeOK, MasterInv, OwnersInv, Loading
<1>4. WorkerInv'
  BY DEF TypeOK, WorkerInv, refs
<1>5. HandshakeInv'
  BY DEF TypeOK, MasterInv, OwnersInv, WorkerInv, HandshakeInv
<1> QED
  BY <1>1, <1>2, <1>3, <1>4, <1>5 DEF IInv

-----------------------------------------------------------------------------
(* The invariant holds in every reachable state. *)

\* Every step of the system preserves the invariant.
LEMMA NextInv == IInv /\ [Next]_vars => IInv'
<1> SUFFICES ASSUME IInv, [Next]_vars PROVE IInv'
  OBVIOUS
<1>1. CASE MasterStep
  <2>1. CASE SetupLoad
    BY <2>1, SetupLoadInv
  <2>2. CASE SetupPorts
    BY <2>2, SetupPortsInv
  <2>3. CASE SetupFails
    BY <2>3, DieInv DEF SetupFails
  <2>4. CASE LoadMaster
    BY <2>4, LoadMasterInv
  <2>5. CASE LoadCore
    BY <2>5, LoadCoreInv
  <2>6. CASE Swap
    BY <2>6, SwapInv
  <2>7. CASE WaitUsed
    BY <2>7, WaitUsedInv
  <2>8. CASE FreeOld
    BY <2>8, FreeOldInv
  <2>9. CASE ReloadDone
    BY <2>9, ReloadDoneInv
  <2>10. CASE Launch
    BY <2>10, LaunchInv
  <2>11. CASE ExitWait
    BY <2>11, DieInv DEF ExitWait
  <2> QED
    BY <1>1, <2>1, <2>2, <2>3, <2>4, <2>5, <2>6, <2>7, <2>8, <2>9, <2>10, <2>11
       DEF MasterStep
<1>2. CASE RequestReload
  BY <1>2, RequestReloadInv
<1>3. CASE AdmFails
  BY <1>3, DieInv DEF AdmFails
<1>4. CASE SigTerm
  BY <1>4, SigTermInv
<1>5. ASSUME NEW c \in Cores, WorkerStep(c)
      PROVE  IInv'
  BY <1>5, LoopTopInv, MarkUsedInv, RxBurstInv, DispatchInv, AddressScanInv,
     EnterRulesInv, WalkInv, NatLookupInv, TxFlushInv DEF WorkerStep
<1>6. CASE EditFile
  BY <1>6, EditFileInv
<1>7. CASE Terminated \/ UNCHANGED vars
  <2>1. UNCHANGED vars
    BY <1>7 DEF Terminated
  <2> USE <2>1 DEF vars, masterVars, sharedVars, workerVars, fileVars
  <2>2. TypeOK' /\ MasterInv' /\ OwnersInv'
    BY DEF IInv, TypeOK, MasterInv, OwnersInv
  <2>3. WorkerInv' /\ HandshakeInv'
    BY DEF IInv, WorkerInv, HandshakeInv, refs
  <2> QED
    BY <2>2, <2>3 DEF IInv
<1> QED
  BY <1>1, <1>2, <1>3, <1>4, <1>5, <1>6, <1>7 DEF Next

\* Every reachable state of the handshake satisfies the inductive invariant.
THEOREM Invariance == Spec => []IInv
<1>1. IInv /\ [Next]_vars => IInv'
  BY NextInv
<1> QED
  BY InitInv, <1>1, PTL DEF Spec

\* No variable of the model ever leaves its type.
THEOREM TypeCorrect == Spec => []TypeOK
<1>1. IInv => TypeOK
  BY DEF IInv
<1> QED
  BY Invariance, <1>1, PTL

-----------------------------------------------------------------------------
(* The safety properties. *)

\* What a worker has read in this turn of main_loop is still allocated.
LEMMA SeenLive == ASSUME IInv, NEW c \in Cores PROVE seen[c] \subseteq live
<1>1. seen[c] \subseteq {app_config[c], old_config} \ {NULL}
  BY NullAssumption DEF IInv, TypeOK, HandshakeInv
<1>2. {app_config[c], old_config} \ {NULL} \subseteq live
  BY DEF IInv, OwnersInv
<1> QED
  BY <1>1, <1>2

\* The pointers a worker holds into a configuration never dangle, however the
\* steps of app_config_reload_all fall between those of main_loop.
THEOREM NeverUseAfterFree == Spec => []NoUseAfterFree
<1>1. IInv => NoUseAfterFree
  BY SeenLive DEF IInv, WorkerInv, NoUseAfterFree
<1> QED
  BY Invariance, <1>1, PTL

\* NAT_FLAG_USED means what natasha.h says it means.
THEOREM FlagContract == Spec => []UsedMeansOldIsGone
<1>1. IInv => UsedMeansOldIsGone
  BY DEF IInv, WorkerInv, HandshakeInv, UsedMeansOldIsGone
<1> QED
  BY Invariance, <1>1, PTL

\* main_loop never dereferences a null core->app_config.
THEOREM WorkersConfigured == Spec => []RunningWorkersConfigured
<1>1. IInv => RunningWorkersConfigured
  BY DEF IInv, TypeOK, OwnersInv, WorkerInv, RunningWorkersConfigured
<1> QED
  BY Invariance, <1>1, PTL

\* A worker meets at most two configurations in one turn of main_loop.
THEOREM TwoVersions == Spec => []AtMostTwoVersions
<1>1. ASSUME IInv, NEW c \in Cores
      PROVE  Cardinality(seen[c]) <= 2
  <2>1. seen[c] \subseteq {app_config[c], old_config}
    BY <1>1 DEF IInv, HandshakeInv
  <2>2. IsFiniteSet({app_config[c]}) /\ Cardinality({app_config[c]}) = 1
    BY FS_Singleton
  <2>3. /\ IsFiniteSet({app_config[c]} \cup {old_config})
        /\ Cardinality({app_config[c]} \cup {old_config}) <= 2
    BY <2>2, FS_AddElement
  <2>4. {app_config[c], old_config} = {app_config[c]} \cup {old_config}
    OBVIOUS
  <2>5. /\ Cardinality(seen[c]) <= Cardinality({app_config[c]} \cup {old_config})
        /\ Cardinality(seen[c]) \in Nat
        /\ Cardinality({app_config[c]} \cup {old_config}) \in Nat
    BY <2>1, <2>3, <2>4, FS_Subset, FS_CardinalityType
  <2> QED
    BY <2>3, <2>5
<1>2. IInv => AtMostTwoVersions
  BY <1>1 DEF AtMostTwoVersions
<1> QED
  BY Invariance, <1>2, PTL

\* Whatever the reloads before did, the idle administration server leaves
\* exactly one allocated configuration per core.
THEOREM ReloadLeaksNothing == Spec => []NoLeak
<1>1. ASSUME IInv, mpc = "adm"
      PROVE  live = {app_config[c] : c \in Cores} /\ Cardinality(live) = NCores
  <2>1. live = {app_config[c] : c \in Cores}
    BY <1>1 DEF IInv, MasterInv, OwnersInv
  <2>2. app_config \in Bijection(Cores, live)
    BY <1>1, <2>1 DEF IInv, TypeOK, MasterInv, OwnersInv, Bijection, Injection,
       Surjection, IsInjective
  <2>3. IsFiniteSet(Cores) /\ Cardinality(Cores) = NCores
    BY NCoresAssumption, FS_Interval DEF Cores
  <2>4. ExistsBijection(Cores, live)
    BY <2>2 DEF ExistsBijection
  <2>5. Cardinality(live) = Cardinality(Cores)
    BY <2>3, <2>4, FS_Bijection
  <2> QED
    BY <2>1, <2>3, <2>5
<1>2. IInv => NoLeak
  BY <1>1 DEF NoLeak
<1> QED
  BY Invariance, <1>2, PTL

-----------------------------------------------------------------------------
(* The handshake implements the abstract handoff. *)

\* Before setup_app nothing is published, used or allocated.
LEMMA InitRefines == Init => Handoff!HandoffInit
BY DEF Init, Handoff!HandoffInit, refs

\* A worker's step changes neither what is published nor what is allocated,
\* and only adds the published configuration to what it uses.
LEMMA WorkerRefines ==
  ASSUME IInv, NEW c \in Cores, WorkerStep(c)
  PROVE  Handoff!Access(c)
<1>1. UNCHANGED <<app_config, live>>
  BY DEF WorkerStep, LoopTop, MarkUsed, RxBurst, Dispatch, AddressScan, EnterRules,
     Walk, NatLookup, TxFlush, sharedVars
<1>2. /\ \A d \in Cores \ {c} : reg'[d] = reg[d] /\ tree'[d] = tree[d]
      /\ reg'[c] \in {reg[c], app_config[c], NULL}
      /\ tree'[c] \in {tree[c], reg[c], app_config[c], NULL}
  BY DEF IInv, TypeOK, WorkerStep, LoopTop, MarkUsed, RxBurst, Dispatch, AddressScan,
     EnterRules, Walk, NatLookup, TxFlush, ReadPointer
<1>3. /\ refs(c)' \subseteq refs(c) \cup ({app_config[c]} \ {NULL})
      /\ \A d \in Cores \ {c} : refs(d)' = refs(d)
  BY <1>2 DEF refs
<1>4. [d \in Cores |-> refs(d)]' = [[d \in Cores |-> refs(d)] EXCEPT ![c] = refs(c)']
  BY <1>3
<1> QED
  BY <1>1, <1>3, <1>4 DEF Handoff!Access

\* A step of the master leaves the workers' pointers alone.
LEMMA MasterKeepsRefs ==
  ASSUME IInv, UNCHANGED <<reg, tree>>
  PROVE  UNCHANGED [d \in Cores |-> refs(d)]
BY DEF refs

\* A successful app_config_load is an allocation.
LEMMA LoadRefines ==
  ASSUME IInv, NEW a \in Addrs, app_config_load(a),
         UNCHANGED <<app_config, reg, tree>>
  PROVE  Handoff!Allocate(a)
BY MasterKeepsRefs DEF app_config_load, Handoff!Allocate

\* What the master frees is published nowhere and used by nobody.
LEMMA FreeRefines ==
  ASSUME IInv, NEW a \in Addrs, a \in live, app_config_free(a),
         \A c \in Cores : app_config[c] # a /\ a \notin refs(c),
         UNCHANGED <<app_config, reg, tree>>
  PROVE  Handoff!Reclaim(a)
BY MasterKeepsRefs DEF app_config_free, Handoff!Reclaim

\* The validation copy is freed when nobody can reach it.
LEMMA FreeMasterRefines ==
  ASSUME IInv, mpc \in {"ports", "load_core", "done"}, app_config_free(master_config),
         UNCHANGED <<app_config, reg, tree>>
  PROVE  Handoff!Reclaim(master_config)
<1>1. master_config \in Addrs /\ master_config \in live
  BY DEF IInv, TypeOK, MasterInv, OwnersInv, Loading
<1>2. \A c \in Cores : app_config[c] # master_config
  BY <1>1, NullAssumption DEF IInv, OwnersInv
<1>3. \A c \in Cores : seen[c] \subseteq {app_config[c]}
  BY NullAssumption DEF IInv, TypeOK, MasterInv, HandshakeInv
<1>4. \A c \in Cores : master_config \notin refs(c)
  BY <1>2, <1>3 DEF IInv, WorkerInv
<1> QED
  BY <1>1, <1>2, <1>4, FreeRefines

\* The old configuration is freed when nobody can reach it.
LEMMA FreeOldRefines ==
  ASSUME IInv, FreeOld
  PROVE  Handoff!Reclaim(old_config)
<1>1. old_config \in Addrs /\ old_config \in live
  BY DEF FreeOld, IInv, TypeOK, MasterInv, OwnersInv
<1>2. \A c \in Cores : app_config[c] # old_config
  BY <1>1, NullAssumption DEF IInv, OwnersInv
<1>3. core \in Cores /\ app_config[core] # NULL /\ used[app_config[core]]
  BY DEF FreeOld, IInv, TypeOK, MasterInv, HandshakeInv
<1>4. \A c \in Cores : seen[c] \subseteq {app_config[c]}
  BY <1>3 DEF IInv, HandshakeInv
<1>5. \A c \in Cores : old_config \notin refs(c)
  BY <1>2, <1>4 DEF IInv, WorkerInv
<1>6. app_config_free(old_config) /\ UNCHANGED <<app_config, reg, tree>>
  BY DEF FreeOld, workerVars
<1> QED
  BY <1>1, <1>2, <1>5, <1>6, FreeRefines

\* The store of core->app_config publishes an unpublished configuration.
LEMMA SwapRefines ==
  ASSUME IInv, Swap
  PROVE  Handoff!Publish(core, new_config)
<1>1. new_config \in live /\ \A c \in Cores : app_config[c] # new_config
  BY DEF Swap, IInv, MasterInv, OwnersInv
<1>2. UNCHANGED <<live, reg, tree>> /\ app_config' = [app_config EXCEPT ![core] = new_config]
  BY DEF Swap, workerVars
<1> QED
  BY <1>1, <1>2, MasterKeepsRefs DEF Handoff!Publish

\* A step that leaves the pointers and the allocator alone is invisible.
LEMMA StutterRefines ==
  ASSUME IInv, UNCHANGED <<app_config, live, reg, tree>>
  PROVE  UNCHANGED Handoff!handoffVars
BY MasterKeepsRefs DEF Handoff!handoffVars

\* Every step of the handshake is a step of the handoff, or invisible.
LEMMA NextRefines ==
  IInv /\ [Next]_vars => [Handoff!HandoffNext]_(Handoff!handoffVars)
<1> SUFFICES ASSUME IInv, [Next]_vars
             PROVE  Handoff!HandoffNext \/ UNCHANGED Handoff!handoffVars
  OBVIOUS
<1>1. CASE SetupLoad
  <2>1. PICK a \in Addrs : app_config_load(a)
    BY <1>1 DEF SetupLoad
  <2> QED
    BY <1>1, <2>1, LoadRefines DEF SetupLoad, workerVars, Handoff!HandoffNext
<1>2. CASE SetupPorts
  <2>1. app_config' = app_config
    BY <1>2 DEF SetupPorts, IInv, TypeOK, MasterInv
  <2>2. Handoff!Reclaim(master_config)
    BY <1>2, <2>1, FreeMasterRefines DEF SetupPorts, workerVars
  <2>3. master_config \in Addrs
    BY <1>2 DEF SetupPorts, IInv, TypeOK, MasterInv
  <2> QED
    BY <2>2, <2>3 DEF Handoff!HandoffNext
<1>3. CASE LoadMaster
  <2>1. UNCHANGED <<app_config, reg, tree>>
    BY <1>3 DEF LoadMaster, workerVars
  <2>2. CASE \E a \in Addrs : app_config_load(a)
    BY <2>1, <2>2, LoadRefines DEF Handoff!HandoffNext
  <2>3. CASE live' = live
    BY <2>1, <2>3, StutterRefines
  <2> QED
    BY <1>3, <2>2, <2>3 DEF LoadMaster
<1>4. CASE LoadCore
  <2>1. UNCHANGED <<app_config, reg, tree>>
    BY <1>4 DEF LoadCore, workerVars
  <2>2. CASE \E a \in Addrs : app_config_load(a)
    BY <2>1, <2>2, LoadRefines DEF Handoff!HandoffNext
  <2>3. CASE app_config_free(master_config)
    <3>1. master_config \in Addrs
      BY <1>4 DEF LoadCore, IInv, TypeOK, MasterInv, Loading
    <3> QED
      BY <1>4, <2>1, <2>3, <3>1, FreeMasterRefines DEF LoadCore, Handoff!HandoffNext
  <2> QED
    BY <1>4, <2>2, <2>3 DEF LoadCore
<1>5. CASE Swap
  <2>1. core \in Cores /\ new_config \in Addrs
    BY <1>5 DEF Swap, IInv, TypeOK, MasterInv
  <2> QED
    BY <1>5, <2>1, SwapRefines DEF Handoff!HandoffNext
<1>6. CASE FreeOld
  <2>1. old_config \in Addrs
    BY <1>6 DEF FreeOld, IInv, TypeOK, MasterInv
  <2> QED
    BY <1>6, <2>1, FreeOldRefines DEF Handoff!HandoffNext
<1>7. CASE ReloadDone
  <2>1. Handoff!Reclaim(master_config)
    BY <1>7, FreeMasterRefines DEF ReloadDone, workerVars
  <2>2. master_config \in Addrs
    BY <1>7 DEF ReloadDone, IInv, TypeOK, MasterInv, Loading
  <2> QED
    BY <2>1, <2>2 DEF Handoff!HandoffNext
<1>8. ASSUME NEW c \in Cores, WorkerStep(c)
      PROVE  Handoff!HandoffNext
  BY <1>8, WorkerRefines DEF Handoff!HandoffNext
<1>9. CASE \/ SetupFails \/ WaitUsed \/ Launch \/ ExitWait \/ RequestReload
           \/ AdmFails \/ SigTerm \/ EditFile \/ Terminated \/ UNCHANGED vars
  <2>1. UNCHANGED <<app_config, live, reg, tree>>
    BY <1>9 DEF SetupFails, WaitUsed, Launch, ExitWait, RequestReload, AdmFails,
       SigTerm, EditFile, Terminated, Die, vars, sharedVars, workerVars
  <2> QED
    BY <2>1, StutterRefines
<1> QED
  BY <1>1, <1>2, <1>3, <1>4, <1>5, <1>6, <1>7, <1>8, <1>9 DEF Next, MasterStep

\* Every behaviour of the flag protocol of config.c and core.c is one of the
\* abstract handoff: nothing is reclaimed while it is published or in use.
THEOREM Refinement == Spec => ImplementsHandoff
<1>1. Init => Handoff!HandoffInit
  BY InitRefines
<1>2. IInv /\ [Next]_vars => [Handoff!HandoffNext]_(Handoff!handoffVars)
  BY NextRefines
<1> QED
  BY <1>1, <1>2, Invariance, PTL DEF Spec, ImplementsHandoff, Handoff!HandoffSpec
-----------------------------------------------------------------------------
(* The safety part of ReloadService. *)

\* No request has been answered during start-up.
ReplyInv == starting => reply = "none"

\* A step that is not one of the master's own leaves the caller where it was.
LEMMA OthersKeepStage ==
  ASSUME \/ \E c \in Cores : WorkerStep(c)
         \/ EditFile \/ Terminated \/ UNCHANGED vars
  PROVE  UNCHANGED <<mpc, starting, reply>>
<1>1. ASSUME NEW c \in Cores, WorkerStep(c)
      PROVE  UNCHANGED masterVars
  BY <1>1 DEF WorkerStep, LoopTop, MarkUsed, RxBurst, Dispatch, AddressScan, EnterRules,
     Walk, NatLookup, TxFlush
<1> QED
  BY <1>1 DEF EditFile, Terminated, vars, masterVars

\* The answer of a reload is not seen by setup_app, which has its own check.
LEMMA ReplyInvKept ==
  ASSUME ReplyInv, [Next]_vars
  PROVE  ReplyInv'
<1>1. CASE \/ SetupLoad \/ SetupPorts \/ SetupFails \/ Swap \/ WaitUsed \/ FreeOld \/ Launch
           \/ ExitWait \/ AdmFails \/ SigTerm
  BY <1>1 DEF ReplyInv, SetupLoad, SetupPorts, SetupFails, Swap, WaitUsed, FreeOld, Launch,
     ExitWait, AdmFails, SigTerm, Die, NextCore
<1>2. CASE LoadMaster \/ LoadCore \/ ReloadDone \/ RequestReload
  BY <1>2 DEF ReplyInv, LoadMaster, LoadCore, ReloadDone, RequestReload, ReloadReturns
<1>3. CASE \/ \E c \in Cores : WorkerStep(c)
           \/ EditFile \/ Terminated \/ UNCHANGED vars
  BY <1>3, OthersKeepStage DEF ReplyInv
<1> QED
  BY <1>1, <1>2, <1>3 DEF Next, MasterStep

\* Every step of the handshake is a step of the service, or none.
LEMMA StepServes ==
  ASSUME IInv, ReplyInv, [Next]_vars
  PROVE  [Service!ServiceNext]_ServiceStage
<1> USE DEF ServiceStage, Service!ServiceNext
<1>1. CASE SetupLoad \/ SetupPorts \/ Swap \/ WaitUsed \/ FreeOld
  BY <1>1 DEF IInv, MasterInv, SetupLoad, SetupPorts, Swap, WaitUsed, FreeOld, NextCore
<1>2. CASE SetupFails \/ AdmFails \/ SigTerm \/ ExitWait
  BY <1>2 DEF SetupFails, AdmFails, SigTerm, ExitWait, Die, IInv, TypeOK, Service!Gone
<1>3. CASE LoadMaster \/ LoadCore \/ ReloadDone
  BY <1>3 DEF LoadMaster, LoadCore, ReloadDone, ReloadReturns, ReplyInv, IInv, TypeOK,
     Service!Gone, Service!Answer, Service!Status
<1>4. CASE Launch
  BY <1>4 DEF Launch, ReplyInv, IInv, MasterInv, Service!Started
<1>5. CASE RequestReload
  BY <1>5 DEF RequestReload, IInv, TypeOK, MasterInv, Service!Request, Service!Ready, Service!Status
<1>6. CASE \/ \E c \in Cores : WorkerStep(c)
           \/ EditFile \/ Terminated \/ UNCHANGED vars
  BY <1>6, OthersKeepStage
<1> QED
  BY <1>1, <1>2, <1>3, <1>4, <1>5, <1>6 DEF Next, MasterStep

\* app_config_reload_all, for any number of cores: one answer for each request,
\* none during start-up and none after the end (that there is one is liveness).
THEOREM ReloadServed == Spec => Service!ServiceSafety
<1>1. Init => Service!ServiceInit /\ ReplyInv
  BY DEF Init, Service!ServiceInit, ServiceStage, ReplyInv
<1>2. ReplyInv /\ [Next]_vars => ReplyInv'
  BY ReplyInvKept
<1>3. IInv /\ ReplyInv /\ [Next]_vars => [Service!ServiceNext]_ServiceStage
  BY StepServes
<1> QED
  BY <1>1, <1>2, <1>3, Invariance, PTL DEF Spec, Service!ServiceSafety

-----------------------------------------------------------------------------
(* What the cores run after a reload. *)

\* Core c runs what the default file says.
Current(c) == content[app_config[c]] = files[DefaultPath]

\* How far a reload that nobody disturbed has come: the cores that are done run
\* the file, and their configurations are not written again.  With IInv it is
\* preserved by every step, and implies ReloadApplies.
ContentInv ==
  /\ starting => reply = "none"
  /\ ~starting /\ ~edited =>
       /\ mpc \in {"load_core", "swap"} => \A c \in 1 .. core - 1 : Current(c)
       /\ mpc = "swap" => content[new_config] = files[DefaultPath]
       /\ mpc \in {"wait", "free_old"} => \A c \in 1 .. core : Current(c)
       /\ mpc = "done" \/ (mpc = "adm" /\ reply = "ok") => \A c \in Cores : Current(c)

\* A published configuration is allocated: a load writes another one.
LEMMA LoadKeepsContent ==
  ASSUME IInv, NEW a \in Addrs, app_config_load(a), UNCHANGED <<app_config, files>>,
         NEW c \in Cores, app_config[c] # NULL
  PROVE  Current(c)' = Current(c)
<1>1. app_config[c] \in live /\ a \notin live
  BY DEF IInv, OwnersInv, app_config_load
<1>2. content'[app_config[c]] = content[app_config[c]]
  BY <1>1 DEF app_config_load, IInv, TypeOK
<1> QED BY <1>2 DEF Current

\* The steps that touch neither what is published nor what the files say, and
\* leave the master where it is.
LEMMA ContentUntouched ==
  ASSUME ContentInv,
         UNCHANGED <<mpc, starting, core, new_config, reply, app_config, content, files, edited>>
  PROVE  ContentInv'
BY DEF ContentInv, Current

\* LoadMaster, LoadCore: the first or the next configuration of a reload.
LEMMA LoadContent ==
  ASSUME IInv, ContentInv, LoadMaster \/ LoadCore
  PROVE  ContentInv'
<1> USE CoresFacts
<1>1. UNCHANGED <<starting, app_config, files, edited>>
  BY DEF LoadMaster, LoadCore, fileVars
<1>2. CASE UNCHANGED content /\ ReloadReturns("error")
  BY <1>1, <1>2 DEF ContentInv, ReloadReturns
<1>3. CASE /\ mpc = "load_master" /\ mpc' = "load_core" /\ UNCHANGED <<core, reply>>
  <2>1. core' = 1
    BY <1>3 DEF IInv, MasterInv
  <2>2. 1 .. core' - 1 = {}
    BY <2>1
  <2> QED BY <1>1, <1>3, <2>2 DEF ContentInv
<1>4. CASE /\ mpc = "load_core" /\ mpc' = "swap" /\ UNCHANGED <<core, reply>>
           /\ \E a \in Addrs : app_config_load(a) /\ new_config' = a
  <2>1. PICK a \in Addrs : app_config_load(a) /\ new_config' = a
    BY <1>4
  <2>2. core \in Cores /\ \A c \in 1 .. core - 1 : c \in Cores /\ app_config[c] # NULL
    BY <1>4, NCoresAssumption DEF IInv, TypeOK, MasterInv, Cores
  <2>3. \A c \in 1 .. core - 1 : Current(c)' = Current(c)
    BY <1>1, <2>1, <2>2, LoadKeepsContent
  <2>4. ~starting => content'[new_config'] = files'[DefaultPath]
    BY <1>1, <2>1 DEF app_config_load, Path, IInv, TypeOK
  <2>5. ~starting' /\ ~edited' => \A c \in 1 .. core' - 1 : Current(c)'
    BY <1>1, <1>4, <2>3 DEF ContentInv
  <2> QED BY <1>1, <1>4, <2>4, <2>5 DEF ContentInv
<1> QED BY <1>2, <1>3, <1>4 DEF LoadMaster, LoadCore

\* The cores before `core' and `core' itself are all the cores when it is the last.
LEMMA CoresSoFar ==
  ASSUME core \in Cores
  PROVE  /\ core = NCores => Cores = 1 .. core
         /\ (core + 1) - 1 = core
         /\ 1 .. core = (1 .. core - 1) \cup {core}
BY NCoresAssumption DEF Cores

\* Swap, and FreeOld, the ends of a turn of the loop over the cores.
LEMMA SwapContent ==
  ASSUME IInv, ContentInv, Swap
  PROVE  ContentInv'
<1>1. /\ core \in Cores /\ app_config' = [app_config EXCEPT ![core] = new_config]
      /\ app_config \in [Cores -> Addrs \cup {NULL}]
      /\ UNCHANGED <<starting, reply, content, files, edited>> /\ mpc = "swap"
  BY DEF Swap, IInv, TypeOK, fileVars
<1>2. ASSUME ~starting, ~edited, NEW c \in 1 .. core PROVE Current(c)'
  <2>1. CASE c = core
    BY <1>1, <1>2, <2>1 DEF Current, ContentInv
  <2>2. CASE c # core
    <3>1. c \in 1 .. core - 1 /\ c \in Cores
      BY <1>1, <2>2, NCoresAssumption DEF Cores
    <3>2. app_config'[c] = app_config[c] /\ Current(c)
      BY <1>1, <1>2, <2>2, <3>1 DEF ContentInv
    <3> QED BY <1>1, <3>2 DEF Current
  <2> QED BY <2>1, <2>2
<1>3. CASE mpc' = "wait" /\ core' = core
  BY <1>1, <1>2, <1>3 DEF ContentInv
<1>4. CASE NextCore
  <2>1. CASE core = NCores /\ mpc' = "done"
    BY <1>1, <1>2, <2>1, CoresSoFar DEF ContentInv
  <2>2. CASE mpc' = "load_core" /\ core' = core + 1
    <3>1. 1 .. core' - 1 = 1 .. core
      BY <1>1, <2>2, CoresSoFar
    <3> QED BY <1>1, <1>2, <2>2, <3>1 DEF ContentInv
  <2> QED BY <1>4, <2>1, <2>2 DEF NextCore
<1> QED BY <1>3, <1>4 DEF Swap

LEMMA FreeOldContent ==
  ASSUME IInv, ContentInv, FreeOld
  PROVE  ContentInv'
<1>1. /\ core \in Cores /\ mpc = "free_old" /\ NextCore
      /\ UNCHANGED <<starting, reply, app_config, content, files, edited>>
  BY DEF FreeOld, IInv, TypeOK, fileVars
<1>2. ASSUME ~starting, ~edited, NEW c \in 1 .. core PROVE Current(c)'
  BY <1>1, <1>2 DEF ContentInv, Current
<1>3. CASE core = NCores /\ mpc' = "done"
  BY <1>1, <1>2, <1>3, CoresSoFar DEF ContentInv
<1>4. CASE mpc' = "load_core" /\ core' = core + 1
  <2>1. 1 .. core' - 1 = 1 .. core
    BY <1>1, <1>4, CoresSoFar
  <2> QED BY <1>1, <1>2, <1>4, <2>1 DEF ContentInv
<1> QED BY <1>1, <1>3, <1>4 DEF NextCore

LEMMA ContentStep ==
  ASSUME IInv, ContentInv, [Next]_vars
  PROVE  ContentInv'
<1>1. CASE LoadMaster \/ LoadCore
  BY <1>1, LoadContent
<1>2. CASE Swap
  BY <1>2, SwapContent
<1>3. CASE FreeOld
  BY <1>3, FreeOldContent
<1>4. CASE WaitUsed
  BY <1>4 DEF WaitUsed, ContentInv, Current, sharedVars, fileVars
<1>5. CASE ReloadDone
  BY <1>5 DEF ReloadDone, ReloadReturns, ContentInv, Current, fileVars
<1>6. CASE SetupLoad \/ SetupPorts
  <2>1. starting /\ starting' /\ UNCHANGED reply
    BY <1>6 DEF SetupLoad, SetupPorts, IInv, MasterInv
  <2> QED BY <2>1 DEF ContentInv
<1>7. CASE Launch
  <2>1. starting /\ UNCHANGED reply /\ mpc' \in {"adm", "launch"}
    BY <1>7 DEF Launch, IInv, MasterInv
  <2> QED BY <2>1 DEF ContentInv
<1>8. CASE SetupFails \/ AdmFails \/ ExitWait
  BY <1>8 DEF SetupFails, AdmFails, ExitWait, Die, ContentInv
<1>9. CASE SigTerm
  BY <1>9 DEF SigTerm, ContentInv
<1>10. CASE RequestReload
  <2>1. mpc' = "load_master" /\ reply' = "none"
    BY <1>10 DEF RequestReload
  <2> QED BY <2>1 DEF ContentInv
<1>11. CASE EditFile
  <2>1. UNCHANGED <<mpc, starting, core, new_config, reply, app_config, content>>
    BY <1>11 DEF EditFile, masterVars, sharedVars
  <2>2. ~edited' => ~edited /\ files'[DefaultPath] = files[DefaultPath]
    BY <1>11 DEF EditFile, IInv, TypeOK, Paths
  <2> QED BY <2>1, <2>2 DEF ContentInv, Current
<1>12. CASE (\E c \in Cores : WorkerStep(c)) \/ Terminated \/ UNCHANGED vars
  <2>1. UNCHANGED <<mpc, starting, core, new_config, reply, app_config, content, files, edited>>
    BY <1>12 DEF WorkerStep, LoopTop, MarkUsed, RxBurst, Dispatch, AddressScan, EnterRules, Walk,
       NatLookup, TxFlush, Terminated, vars, masterVars, sharedVars, fileVars
  <2> QED BY <2>1, ContentUntouched
<1> QED BY <1>1, <1>2, <1>3, <1>4, <1>5, <1>6, <1>7, <1>8, <1>9, <1>10, <1>11, <1>12
        DEF Next, MasterStep

\* A reload that has answered OK leaves every core with what the default file
\* says, unless the file was touched since the request: no core is skipped, and
\* no load for a later core overwrites the configuration of an earlier one.
THEOREM ReloadIsApplied == Spec => []ReloadApplies
<1>1. Init => ContentInv
  BY DEF Init, ContentInv
<1>2. IInv /\ ContentInv /\ [Next]_vars => ContentInv'
  BY ContentStep
<1>3. IInv /\ ContentInv => ReloadApplies
  BY DEF IInv, MasterInv, ContentInv, ReloadApplies, Current
<1> QED BY <1>1, <1>2, <1>3, Invariance, PTL DEF Spec

-----------------------------------------------------------------------------
(* The answer of a reload as a barrier for the workers. *)

\* How far a reload has come: the cores that are done have taken their new
\* configuration over.  With IInv it is preserved by every step, and implies
\* AnswerIsBarrier.
BarrierInv ==
  /\ starting => reply = "none"
  /\ ~starting =>
       /\ mpc \in {"load_core", "swap", "wait", "free_old"} =>
            \A c \in 1 .. core - 1 : used[app_config[c]]
       /\ mpc = "done" \/ (mpc = "adm" /\ reply = "ok") =>
            \A c \in Cores : used[app_config[c]]

\* The steps that clear no flag, publish nothing and leave the master where it
\* is, or where the loop over the cores has come no further.
LEMMA BarrierUntouched ==
  ASSUME IInv, BarrierInv, UNCHANGED <<mpc, starting, core, reply, app_config>>,
         \A a \in Addrs : used[a] => used'[a]
  PROVE  BarrierInv'
<1>1. ~starting => \A c \in Cores : app_config[c] \in Addrs
  BY DEF IInv, TypeOK, MasterInv
<1>2. \A c \in 1 .. core - 1 : c \in Cores
  BY NCoresAssumption DEF IInv, TypeOK, Cores
<1> QED BY <1>1, <1>2 DEF BarrierInv

\* LoadMaster, LoadCore: a load clears the flag of no published configuration.
LEMMA LoadBarrier ==
  ASSUME IInv, BarrierInv, LoadMaster \/ LoadCore
  PROVE  BarrierInv'
<1> USE CoresFacts
<1>1. UNCHANGED <<starting, app_config>>
  BY DEF LoadMaster, LoadCore
<1>2. CASE ReloadReturns("error")
  BY <1>1, <1>2 DEF BarrierInv, ReloadReturns
<1>3. CASE /\ mpc = "load_master" /\ mpc' = "load_core" /\ UNCHANGED <<core, reply>>
  <2>1. core' = 1
    BY <1>3 DEF IInv, MasterInv
  <2>2. 1 .. core' - 1 = {}
    BY <2>1
  <2> QED BY <1>1, <1>3, <2>2 DEF BarrierInv
<1>4. CASE /\ mpc = "load_core" /\ mpc' = "swap" /\ UNCHANGED <<core, reply>>
           /\ \E a \in Addrs : app_config_load(a)
  <2>1. PICK a \in Addrs : app_config_load(a)
    BY <1>4
  <2>2. ASSUME NEW c \in 1 .. core - 1
        PROVE  c \in Cores /\ app_config[c] \in live
    BY <1>4, NCoresAssumption DEF IInv, TypeOK, MasterInv, OwnersInv, Cores
  <2>3. ASSUME NEW c \in 1 .. core - 1
        PROVE  used'[app_config[c]] = used[app_config[c]]
    BY <2>1, <2>2 DEF app_config_load, IInv, TypeOK
  <2> QED BY <1>1, <1>4, <2>3 DEF BarrierInv
<1> QED BY <1>2, <1>3, <1>4 DEF LoadMaster, LoadCore

\* Swap: during a reload every core has a configuration to wait for.
LEMMA SwapBarrier ==
  ASSUME IInv, BarrierInv, Swap
  PROVE  BarrierInv'
<1>1. /\ core \in Cores /\ app_config' = [app_config EXCEPT ![core] = new_config]
      /\ app_config \in [Cores -> Addrs \cup {NULL}]
      /\ UNCHANGED <<starting, reply, used>> /\ mpc = "swap"
  BY DEF Swap, IInv, TypeOK
<1>2. ~starting => mpc' = "wait" /\ core' = core
  BY <1>1 DEF Swap, IInv, MasterInv
<1>3. ASSUME NEW c \in 1 .. core - 1 PROVE app_config'[c] = app_config[c]
  <2>1. c \in Cores /\ c # core
    BY <1>1, NCoresAssumption DEF Cores
  <2> QED BY <1>1, <2>1
<1> QED BY <1>1, <1>2, <1>3 DEF BarrierInv

\* FreeOld: the core just served has set the flag of what is published to it.
LEMMA FreeOldBarrier ==
  ASSUME IInv, BarrierInv, FreeOld
  PROVE  BarrierInv'
<1>1. /\ core \in Cores /\ mpc = "free_old" /\ NextCore
      /\ UNCHANGED <<starting, reply, app_config, used>>
  BY DEF FreeOld, IInv, TypeOK
<1>2. used[app_config[core]]
  BY <1>1 DEF IInv, MasterInv, HandshakeInv
<1>3. ASSUME ~starting, NEW c \in 1 .. core PROVE used'[app_config'[c]]
  BY <1>1, <1>2, <1>3, CoresSoFar DEF BarrierInv
<1>4. CASE core = NCores /\ mpc' = "done"
  BY <1>1, <1>3, <1>4, CoresSoFar DEF BarrierInv
<1>5. CASE mpc' = "load_core" /\ core' = core + 1
  <2>1. 1 .. core' - 1 = 1 .. core
    BY <1>1, <1>5, CoresSoFar
  <2> QED BY <1>1, <1>3, <1>5, <2>1 DEF BarrierInv
<1> QED BY <1>1, <1>4, <1>5 DEF NextCore

LEMMA BarrierStep ==
  ASSUME IInv, BarrierInv, [Next]_vars
  PROVE  BarrierInv'
<1>1. CASE LoadMaster \/ LoadCore
  BY <1>1, LoadBarrier
<1>2. CASE Swap
  BY <1>2, SwapBarrier
<1>3. CASE FreeOld
  BY <1>3, FreeOldBarrier
<1>4. CASE WaitUsed
  BY <1>4 DEF WaitUsed, BarrierInv, sharedVars
<1>5. CASE ReloadDone
  BY <1>5 DEF ReloadDone, ReloadReturns, BarrierInv
<1>6. CASE SetupLoad \/ SetupPorts
  <2>1. starting /\ starting' /\ UNCHANGED reply
    BY <1>6 DEF SetupLoad, SetupPorts, IInv, MasterInv
  <2> QED BY <2>1 DEF BarrierInv
<1>7. CASE Launch
  <2>1. starting /\ UNCHANGED reply /\ mpc' \in {"adm", "launch"}
    BY <1>7 DEF Launch, IInv, MasterInv
  <2> QED BY <2>1 DEF BarrierInv
<1>8. CASE SetupFails \/ AdmFails \/ ExitWait \/ SigTerm
  BY <1>8 DEF SetupFails, AdmFails, ExitWait, SigTerm, Die, BarrierInv
<1>9. CASE RequestReload
  <2>1. mpc' = "load_master" /\ reply' = "none"
    BY <1>9 DEF RequestReload
  <2> QED BY <2>1 DEF BarrierInv
<1>10. CASE (\E c \in Cores : WorkerStep(c)) \/ EditFile \/ Terminated \/ UNCHANGED vars
  <2>1. UNCHANGED <<mpc, starting, core, reply, app_config>>
    BY <1>10 DEF WorkerStep, LoopTop, MarkUsed, RxBurst, Dispatch, AddressScan, EnterRules, Walk,
       NatLookup, TxFlush, EditFile, Terminated, vars, masterVars, sharedVars
  <2>2. \A a \in Addrs : used[a] => used'[a]
    BY <1>10 DEF WorkerStep, LoopTop, MarkUsed, RxBurst, Dispatch, AddressScan, EnterRules, Walk,
       NatLookup, TxFlush, EditFile, Terminated, vars, sharedVars, IInv, TypeOK
  <2> QED BY <2>1, <2>2, BarrierUntouched
<1> QED BY <1>1, <1>2, <1>3, <1>4, <1>5, <1>6, <1>7, <1>8, <1>9, <1>10
        DEF Next, MasterStep

\* When app_config_reload_all returns, whatever its result, no worker is still
\* in a turn of main_loop that met an old configuration, and after OK every
\* worker has set NAT_FLAG_USED in its new one: the flags seen by the master
\* for the first cores are not undone by the loads for the later ones.
THEOREM AnswersAreBarriers == Spec => []AnswerIsBarrier
<1>1. Init => BarrierInv
  BY DEF Init, BarrierInv
<1>2. IInv /\ BarrierInv /\ [Next]_vars => BarrierInv'
  BY BarrierStep
<1>3. ASSUME IInv, BarrierInv, mpc = "adm", NEW c \in Cores
      PROVE  seen[c] \subseteq {app_config[c]} /\ (reply = "ok" => used[app_config[c]])
  <2>1. old_config = NULL /\ ~starting
    BY <1>3 DEF IInv, MasterInv
  <2>2. seen[c] \subseteq Addrs /\ NULL \notin Addrs
    BY <1>3, NullAssumption DEF IInv, TypeOK
  <2>3. seen[c] \subseteq {app_config[c], NULL}
    BY <1>3, <2>1 DEF IInv, HandshakeInv
  <2> QED BY <1>3, <2>1, <2>2, <2>3 DEF BarrierInv
<1>4. IInv /\ BarrierInv => AnswerIsBarrier
  BY <1>3 DEF AnswerIsBarrier
<1> QED BY <1>1, <1>2, <1>4, Invariance, PTL DEF Spec

=============================================================================
