--------------------------- MODULE PortSetupProofs ---------------------------
(* Proofs about PortSetup, for any number of cores and any kinds of devices. *)
EXTENDS PortSetup, TLAPS

-----------------------------------------------------------------------------
(* The inductive invariant. *)

SetupPCs == {"load", "check", "port", "vlans", "queues", "start", "links", "free",
             "stats", "reload", "launch", "adm", "exit"}

QueueConfs == {"unset", "vlan", "vlan+cksum"}

StatsMappings == {"rx", "tx"} \X Nat \X Nat

DeviceState ==
  [queues : Nat, vlans : SUBSET Nat, rxq : SUBSET Nat, txq : SUBSET Nat,
   stats : SUBSET StatsMappings, confs : SUBSET QueueConfs, started : BOOLEAN]

SetupTypeOK ==
  /\ machine \in Machines
  /\ spc \in SetupPCs
  /\ app_config \in [Ports -> Seq(Nat)] /\ addrs \in Seq(Nat)
  /\ port \in Nat /\ core \in Nat \ {0} /\ queue_id \in Nat
  /\ vlan_offload \in BOOLEAN
  /\ conf \in QueueConfs /\ count \in Nat
  /\ device \in [Ports -> DeviceState]
  /\ rx_id \in [Ports -> [Cores -> Nat]] /\ tx_id \in [Ports -> [Cores -> Nat]]
  /\ has_stats \subseteq Cores /\ launched \subseteq Cores

\* The first n queues of port p belong to the first n cores, in that order.
Numbered(p, n) ==
  /\ device[p].rxq = 0 .. n - 1 /\ device[p].txq = 0 .. n - 1
  /\ \A c \in 1 .. n : rx_id[p][c] = c - 1 /\ tx_id[p][c] = c - 1
  /\ \A s \in device[p].stats : \E q \in 0 .. n - 1 : s \in Mapping(q)

\* How far the loops over ports and cores have come, and what they have left.
QueuesInv ==
  /\ port <= machine.nports
  /\ spc \in {"vlans", "queues", "start"} => port < machine.nports
  /\ spc \in {"load", "check"} => port = 0
  /\ spc \in {"links", "free", "stats", "reload", "launch", "adm"} => port = machine.nports
  /\ \A p \in Ports :
       /\ p < port => device[p].started /\ device[p].queues = NSlaves /\ Numbered(p, NSlaves)
       /\ p > port /\ spc # "exit" => device[p] = Fresh
       /\ p = port /\ spc \in {"load", "check", "port"} => device[p] = Fresh
       /\ p = port /\ spc \in {"vlans", "queues", "start"} =>
            device[p].queues = NSlaves /\ ~device[p].started
       /\ p = port /\ spc = "vlans" => Numbered(p, 0)
       /\ p = port /\ spc = "queues" => Numbered(p, queue_id)
       /\ p = port /\ spc = "start" => Numbered(p, NSlaves)
  /\ spc = "queues" => core = queue_id + 1 /\ queue_id <= NSlaves

\* Nobody is launched before the ports and the statistics are complete.
LaunchInv ==
  /\ spc \in {"load", "check", "port", "vlans", "queues", "start", "links", "free"} =>
       has_stats = {}
  /\ spc = "stats" => has_stats = 1 .. core - 1 /\ core <= NSlaves + 1
  /\ spc \in {"reload", "launch", "adm"} => has_stats = UsedCores
  /\ spc \in {"load", "check", "port", "vlans", "queues", "start", "links", "free",
              "stats", "reload"} => launched = {}
  /\ launched # {} =>
       port = machine.nports /\ has_stats = UsedCores /\ launched \subseteq UsedCores

Wanted(s) == {s[i] : i \in DOMAIN s} \ {0}

\* The filters of a port are those of the addresses that were walked.
VlansInv ==
  \A p \in Ports :
    /\ device[p].started =>
         /\ spc \notin {"load", "check"}
         /\ device[p].vlans = Wanted(app_config[p])
         /\ Wanted(app_config[p]) # {} => device[p].confs \subseteq {"vlan", "vlan+cksum"}
    /\ p = port /\ spc = "vlans" =>
         /\ device[p].vlans \cup Wanted(addrs) = Wanted(app_config[p])
         /\ vlan_offload <=> device[p].vlans # {}
         /\ device[p].confs = {}
    /\ p = port /\ spc \in {"queues", "start"} =>
         /\ device[p].vlans = Wanted(app_config[p])
         /\ Wanted(app_config[p]) # {} =>
              device[p].confs \cup {conf} \subseteq {"vlan", "vlan+cksum"}

\* Preserved by every step of the set-up; implies QueueOwners and VlansAccepted.
SetupInv == SetupTypeOK /\ QueuesInv /\ LaunchInv /\ VlansInv

-----------------------------------------------------------------------------
(* The proofs. *)

\* The numbers of ports and cores are natural numbers, within the bounds.
LEMMA MachineFacts ==
  ASSUME SetupTypeOK
  PROVE  /\ machine.nports \in Nat /\ NSlaves \in Nat
         /\ \A p \in Nat : p < machine.nports => p \in Ports
         /\ \A c \in Nat \ {0} : c <= NSlaves => c \in Cores
         /\ Ports \subseteq Nat
<1>1. machine.nports \in 0 .. MaxPorts /\ machine.ncores \in 1 .. MaxCores
  BY DEF SetupTypeOK, Machines
<1>2. MaxPorts \in Nat /\ MaxCores \in Nat
  BY PortsAssumption, CoresAssumption
<1> QED
  BY <1>1, <1>2 DEF NSlaves, Cores, Ports

\* An empty list of addresses wants no VLAN.
LEMMA WantedEmpty == Wanted(<<>>) = {}
BY DEF Wanted

\* The VLANs of a list are those of its head and of its tail.
LEMMA WantedCons ==
  ASSUME NEW s \in Seq(Nat), s # <<>>
  PROVE  Wanted(s) = Wanted(Tail(s)) \cup ({Head(s)} \ {0})
<1>1. Len(s) \in Nat \ {0} /\ DOMAIN s = 1 .. Len(s)
  OBVIOUS
<1>2. DOMAIN Tail(s) = 1 .. Len(s) - 1 /\ \A i \in 1 .. Len(s) - 1 : Tail(s)[i] = s[i + 1]
  OBVIOUS
<1>3. Head(s) = s[1]
  OBVIOUS
<1>4. ASSUME NEW v \in Wanted(s)
      PROVE  v \in Wanted(Tail(s)) \cup ({Head(s)} \ {0})
  <2>1. PICK i \in 1 .. Len(s) : v = s[i] /\ v # 0
    BY <1>1, <1>4 DEF Wanted
  <2>2. CASE i = 1
    BY <1>3, <2>1, <2>2
  <2>3. CASE i # 1
    <3>1. i - 1 \in 1 .. Len(s) - 1 /\ Tail(s)[i - 1] = s[i]
      BY <1>1, <1>2, <2>3
    <3> QED
      BY <1>2, <2>1, <3>1 DEF Wanted
  <2> QED
    BY <2>2, <2>3
<1>5. ASSUME NEW v \in Wanted(Tail(s)) \cup ({Head(s)} \ {0})
      PROVE  v \in Wanted(s)
  <2>1. CASE v \in {Head(s)} \ {0}
    BY <1>1, <1>3, <2>1 DEF Wanted
  <2>2. CASE v \in Wanted(Tail(s))
    <3>1. PICK i \in 1 .. Len(s) - 1 : v = Tail(s)[i] /\ v # 0
      BY <1>2, <2>2 DEF Wanted
    <3>2. i + 1 \in 1 .. Len(s) /\ v = s[i + 1]
      BY <1>1, <1>2, <3>1
    <3> QED
      BY <1>1, <3>1, <3>2 DEF Wanted
  <2> QED
    BY <1>5, <2>1, <2>2
<1> QED
  BY <1>4, <1>5

\* What rte_eth_dev_configure and rte_eth_dev_start do to the state of a device.
LEMMA DeviceConfigured ==
  ASSUME NEW d \in DeviceState, NEW n \in Nat
  PROVE  [d EXCEPT !.queues = n] \in DeviceState /\ [d EXCEPT !.started = TRUE] \in DeviceState
BY DEF DeviceState

\* What a VLAN filter does to it.
LEMMA DeviceFilters ==
  ASSUME NEW d \in DeviceState, NEW v \in Nat
  PROVE  [d EXCEPT !.vlans = d.vlans \cup {v}] \in DeviceState
BY DEF DeviceState

\* What the set-up of a queue does to it.
LEMMA DeviceQueues ==
  ASSUME NEW d \in DeviceState, NEW q \in Nat,
         NEW c \in QueueConfs, NEW s \in SUBSET StatsMappings
  PROVE  [d EXCEPT !.rxq = d.rxq \cup {q}, !.txq = d.txq \cup {q},
                   !.confs = d.confs \cup {c}, !.stats = d.stats \cup s] \in DeviceState
BY DEF DeviceState

\* The numbering of a port depends on the device and on the cores' queues only.
LEMMA NumberedKept ==
  ASSUME UNCHANGED <<machine, device, rx_id, tx_id>>
  PROVE  \A p, n : Numbered(p, n)' <=> Numbered(p, n)
BY DEF Numbered, Mapping

\* Before the first call nothing is configured.
LEMMA SetupInitInv == SetupInit => SetupInv
<1> SUFFICES ASSUME SetupInit PROVE SetupInv
  OBVIOUS
<1>1. machine \in Machines
  <2>1. PICK d \in Devices : TRUE
    BY DevicesAssumption
  <2>2. [nports |-> 0, ncores |-> 1, dev |-> [p \in Ports |-> d]] \in Machines
    BY PortsAssumption, CoresAssumption DEF Machines
  <2> QED
    BY <2>2 DEF SetupInit
<1>2. SetupTypeOK
  <2>1. Fresh \in DeviceState
    BY DEF Fresh, DeviceState
  <2>2. rx_id \in [Ports -> [Cores -> Nat]] /\ tx_id \in [Ports -> [Cores -> Nat]]
    BY DEF SetupInit
  <2>3. app_config \in [Ports -> Seq(Nat)] /\ addrs \in Seq(Nat)
    BY DEF SetupInit
  <2>4. device \in [Ports -> DeviceState]
    BY <2>1 DEF SetupInit
  <2>5. has_stats \subseteq Cores /\ launched \subseteq Cores /\ conf \in QueueConfs
    BY DEF SetupInit, QueueConfs
  <2>6. vlan_offload \in BOOLEAN
    BY Zenon DEF SetupInit
  <2>7. port \in Nat /\ core \in Nat \ {0} /\ queue_id \in Nat /\ count \in Nat
    BY DEF SetupInit
  <2>8. spc \in SetupPCs
    BY DEF SetupInit, SetupPCs
  <2> QED
    BY <1>1, <2>2, <2>3, <2>4, <2>5, <2>8, <2>6, <2>7 DEF SetupTypeOK
<1>3. QueuesInv
  BY <1>2, MachineFacts DEF SetupInit, QueuesInv
<1>4. LaunchInv
  BY DEF SetupInit, LaunchInv
<1>5. VlansInv
  BY DEF SetupInit, VlansInv, Fresh
<1> QED
  BY <1>2, <1>3, <1>4, <1>5 DEF SetupInv

(* One lemma per step: the invariant is preserved. *)

\* A call that fails, and rte_exit preserves the invariant.
LEMMA FailInv ==
  ASSUME SetupInv, Fail
  PROVE  SetupInv'
<1> USE MachineFacts DEF SetupInv, Fail, loopVars, coreVars
<1>1. SetupTypeOK'
  BY DEF SetupTypeOK, SetupPCs
<1>2. QueuesInv'
  BY DEF SetupTypeOK, QueuesInv, Numbered, Mapping, NSlaves, Ports
<1>3. LaunchInv'
  BY DEF SetupTypeOK, QueuesInv, LaunchInv, UsedCores, NSlaves
<1>4. VlansInv'
  BY DEF SetupTypeOK, QueuesInv, VlansInv
<1> QED
  BY <1>1, <1>2, <1>3, <1>4 DEF SetupInv

\* app_config_load preserves the invariant.
LEMMA LoadConfigInv ==
  ASSUME SetupInv, LoadConfig
  PROVE  SetupInv'
<1> USE MachineFacts DEF SetupInv, LoadConfig, loopVars, coreVars
<1>1. SetupTypeOK'
  BY DEF SetupTypeOK, SetupPCs
<1>2. QueuesInv'
  BY DEF SetupTypeOK, QueuesInv, Numbered, Mapping, NSlaves, Ports
<1>3. LaunchInv'
  BY DEF SetupTypeOK, QueuesInv, LaunchInv, UsedCores, NSlaves
<1>4. VlansInv'
  BY DEF SetupTypeOK, QueuesInv, VlansInv
<1> QED
  BY <1>1, <1>2, <1>3, <1>4 DEF SetupInv

\* The count of devices and lcores preserves the invariant.
LEMMA CheckMachineInv ==
  ASSUME SetupInv, CheckMachine
  PROVE  SetupInv'
<1> USE MachineFacts DEF SetupInv, CheckMachine, loopVars, coreVars
<1>1. SetupTypeOK'
  BY DEF SetupTypeOK, SetupPCs
<1>2. QueuesInv'
  <2>1. port' = 0 /\ port = 0 /\ device' = device /\ machine'.nports \in Nat /\ spc' \in {"exit", "port"}
    BY PortsAssumption DEF SetupTypeOK, QueuesInv, Machines
  <2>2. \A p \in Ports : p \in Nat /\ device[p] = Fresh
    BY DEF SetupTypeOK, QueuesInv, Ports
  <2> QED
    BY <2>1, <2>2 DEF QueuesInv
<1>3. LaunchInv'
  BY DEF SetupTypeOK, QueuesInv, LaunchInv, UsedCores, NSlaves
<1>4. VlansInv'
  BY DEF SetupTypeOK, QueuesInv, VlansInv
<1> QED
  BY <1>1, <1>2, <1>3, <1>4 DEF SetupInv

\* rte_eth_dev_configure preserves the invariant.
LEMMA ConfigurePortInv ==
  ASSUME SetupInv, ConfigurePort
  PROVE  SetupInv'
<1> USE MachineFacts DEF SetupInv, ConfigurePort, loopVars, coreVars
<1>a. port \in Ports /\ NSlaves \in Nat /\ NSlaves' = NSlaves /\ machine' = machine
  <2>1. port \in Nat /\ port < machine.nports
    BY DEF SetupTypeOK, QueuesInv
  <2>2. NSlaves' = NSlaves /\ machine' = machine
    BY DEF NSlaves
  <2> QED
    BY <2>1, <2>2
<1>b. device[port] = Fresh
  BY <1>a DEF QueuesInv
<1>c. /\ device'[port].rxq = {} /\ device'[port].txq = {} /\ device'[port].stats = {}
      /\ device'[port].vlans = {} /\ device'[port].confs = {} /\ ~device'[port].started
      /\ spc' = "vlans" => device'[port].queues = NSlaves
  <2>3. CASE machine.dev[port].tx_cksum /\ app_config[port] # <<>>
    <3>1. device' = [device EXCEPT ![port].queues = NSlaves]
      BY <2>3
    <3> QED
      BY <1>a, <1>b, <3>1 DEF SetupTypeOK, DeviceState, Fresh
  <2>4. CASE ~(machine.dev[port].tx_cksum /\ app_config[port] # <<>>)
    <3>1. device' = device /\ spc' = "exit"
      BY <2>4
    <3> QED
      BY <1>b, <3>1 DEF Fresh
  <2> QED
    BY <2>3, <2>4
<1>1. SetupTypeOK'
  <2>1. device' \in [Ports -> DeviceState]
    <3>1. [device[port] EXCEPT !.queues = NSlaves] \in DeviceState
      BY <1>a, DeviceConfigured DEF SetupTypeOK
    <3> QED
      BY <1>a, <3>1 DEF SetupTypeOK
  <2>2. addrs' \in Seq(Nat)
    BY <1>a DEF SetupTypeOK
  <2> QED
    BY <2>1, <2>2 DEF SetupTypeOK, SetupPCs
<1>2. QueuesInv'
  <2>1. \A p \in Ports : p # port => device'[p] = device[p]
    BY <1>a DEF SetupTypeOK
  <2>2. \A p \in Ports, n \in Nat : p # port /\ Numbered(p, n) => Numbered(p, n)'
    BY <1>a, <2>1 DEF Numbered, Mapping
  <2>3. Numbered(port, 0)'
    BY <1>c DEF Numbered
  <2> QED
    BY <1>a, <2>1, <1>c, <2>2, <2>3, SMTT(30) DEF SetupTypeOK, QueuesInv
<1>3. LaunchInv'
  BY DEF SetupTypeOK, QueuesInv, LaunchInv, UsedCores, NSlaves
<1>4. VlansInv'
  <2>1. \A p \in Ports : p # port => device'[p] = device[p]
    BY <1>a DEF SetupTypeOK
  <2>2. spc' = "vlans" => addrs' = app_config[port] /\ vlan_offload' = FALSE
    OBVIOUS
  <2>3. \A p \in Ports : Wanted(app_config[p])' = Wanted(app_config[p])
    BY DEF Wanted
  <2>4. Wanted(addrs)' = Wanted(addrs')
    BY DEF Wanted
  <2> QED
    BY <1>a, <2>1, <1>c, <2>2, <2>3, <2>4 DEF VlansInv
<1> QED
  BY <1>1, <1>2, <1>3, <1>4 DEF SetupInv

\* One address of a port preserves the invariant.
LEMMA AcceptVlanInv ==
  ASSUME SetupInv, AcceptVlan
  PROVE  SetupInv'
<1> USE MachineFacts DEF SetupInv, AcceptVlan, loopVars, coreVars
<1>a. port \in Ports /\ NSlaves \in Nat /\ NSlaves' = NSlaves /\ machine' = machine
  <2>1. port \in Nat /\ port < machine.nports
    BY DEF SetupTypeOK, QueuesInv
  <2>2. NSlaves' = NSlaves /\ machine' = machine
    BY DEF NSlaves
  <2> QED
    BY <2>1, <2>2
<1>1. SetupTypeOK'
  <2>1. Head(addrs) \in Nat /\ addrs' \in Seq(Nat)
    BY DEF SetupTypeOK
  <2>2. device' \in [Ports -> DeviceState]
    <3>1. [device[port] EXCEPT !.vlans = @ \cup {Head(addrs)}] \in DeviceState
      BY <1>a, <2>1, DeviceFilters DEF SetupTypeOK
    <3> QED
      BY <1>a, <3>1 DEF SetupTypeOK
  <2> QED
    BY <2>1, <2>2 DEF SetupTypeOK, SetupPCs
<1>2. QueuesInv'
  <2>1. \A p \in Ports : p # port => device'[p] = device[p]
    BY <1>a DEF SetupTypeOK
  <2>2. /\ device'[port].rxq = device[port].rxq /\ device'[port].txq = device[port].txq
        /\ device'[port].stats = device[port].stats
        /\ device'[port].started = device[port].started
        /\ device'[port].queues = device[port].queues
    BY <1>a DEF SetupTypeOK, DeviceState
  <2>3. \A p \in Ports, n \in Nat : Numbered(p, n) => Numbered(p, n)'
    BY <1>a, <2>1, <2>2 DEF Numbered, Mapping
  <2> QED
    BY <1>a, <2>1, <2>2, <2>3 DEF SetupTypeOK, QueuesInv
<1>3. LaunchInv'
  BY DEF SetupTypeOK, QueuesInv, LaunchInv, UsedCores, NSlaves
<1>4. VlansInv'
  <2>1. \A p \in Ports : p # port => device'[p] = device[p]
    BY <1>a DEF SetupTypeOK
  <2>2. /\ device'[port].vlans = device[port].vlans \cup ({Head(addrs)} \ {0})
        /\ device'[port].confs = device[port].confs
        /\ device'[port].started = device[port].started
    BY <1>a, SMTT(30) DEF SetupTypeOK, DeviceState
  <2>3. vlan_offload' <=> vlan_offload \/ Head(addrs) # 0
    BY DEF SetupTypeOK
  <2>4. Wanted(addrs) = Wanted(addrs') \cup ({Head(addrs)} \ {0})
    BY WantedCons DEF SetupTypeOK
  <2>5. /\ \A p \in Ports : Wanted(app_config[p])' = Wanted(app_config[p])
        /\ Wanted(addrs)' = Wanted(addrs')
    BY DEF Wanted
  <2>6. /\ device'[port].vlans \cup Wanted(addrs)' = Wanted(app_config[port])'
        /\ vlan_offload' <=> device'[port].vlans # {}
        /\ device'[port].confs = {}
    BY <1>a, <2>2, <2>3, <2>4, <2>5 DEF VlansInv
  <2> QED
    BY <1>a, <2>1, <2>2, <2>5, <2>6 DEF VlansInv, QueuesInv
<1> QED
  BY <1>1, <1>2, <1>3, <1>4 DEF SetupInv

\* set_vlan_offload preserves the invariant.
LEMMA BeginQueuesInv ==
  ASSUME SetupInv, BeginQueues
  PROVE  SetupInv'
<1> USE MachineFacts DEF SetupInv, BeginQueues, loopVars, coreVars
<1>1. SetupTypeOK'
  BY DEF SetupTypeOK, SetupPCs, VlanOffload, QueueConf, QueueConfs
<1>2. QueuesInv'
  BY DEF SetupTypeOK, QueuesInv, Numbered, Mapping, NSlaves, Ports, VlanOffload, QueueConf, QueueConfs
<1>3. LaunchInv'
  BY DEF SetupTypeOK, QueuesInv, LaunchInv, UsedCores, NSlaves, VlanOffload, QueueConf, QueueConfs
<1>4. VlansInv'
  <2>1. \A p \in Ports : Wanted(app_config[p])' = Wanted(app_config[p])
    BY DEF Wanted
  <2>2. Wanted(addrs) = {}
    BY WantedEmpty
  <2>3. conf' = QueueConf(machine.dev[port]) /\ device' = device /\ port' = port /\ spc' \in {"queues", "exit"}
    BY DEF VlanOffload
  <2>4. vlan_offload => conf' \in {"vlan", "vlan+cksum"}
    BY <2>3 DEF QueueConf
  <2> QED
    BY <2>1, <2>2, <2>3, <2>4 DEF VlansInv
<1> QED
  BY <1>1, <1>2, <1>3, <1>4 DEF SetupInv

\* One turn of setup_queues preserves the invariant.
LEMMA SetupQueueInv ==
  ASSUME SetupInv, SetupQueue
  PROVE  SetupInv'
<1> USE MachineFacts DEF SetupInv, SetupQueue, loopVars, coreVars
<1>a. port \in Ports /\ NSlaves \in Nat /\ NSlaves' = NSlaves /\ machine' = machine
  <2>1. port \in Nat /\ port < machine.nports
    BY DEF SetupTypeOK, QueuesInv
  <2>2. NSlaves' = NSlaves /\ machine' = machine
    BY DEF NSlaves
  <2> QED
    BY <2>1, <2>2
<1>b. core \in Cores /\ core = queue_id + 1 /\ queue_id \in Nat /\ queue_id + 1 <= NSlaves
  BY DEF SetupTypeOK, QueuesInv
<1>1. SetupTypeOK'
  <2>1. Mapping(queue_id) \subseteq StatsMappings
    <3>1. queue_id + machine.ncores - 1 \in Nat
      BY <1>a, <1>b, SMTT(30) DEF NSlaves, SetupTypeOK, Machines
    <3> QED
      BY <1>b, <3>1 DEF Mapping, StatsMappings
  <2>2. device' \in [Ports -> DeviceState]
    <3> DEFINE new == IF machine.dev[port].queue_stats THEN Mapping(queue_id) ELSE {}
    <3>1. new \in SUBSET StatsMappings
      BY <2>1
    <3> HIDE DEF new
    <3>2. [device[port] EXCEPT !.rxq = @ \cup {queue_id}, !.txq = @ \cup {queue_id},
             !.confs = @ \cup {conf}, !.stats = @ \cup new] \in DeviceState
      BY <1>a, <1>b, <3>1, DeviceQueues DEF SetupTypeOK
    <3> QED
      BY <1>a, <3>2 DEF SetupTypeOK, new
  <2>3. rx_id' \in [Ports -> [Cores -> Nat]] /\ tx_id' \in [Ports -> [Cores -> Nat]]
    BY <1>a, <1>b DEF SetupTypeOK
  <2>4. /\ queue_id' = queue_id + 1 /\ core' = core + 1
        /\ UNCHANGED <<machine, spc, app_config, port, addrs, vlan_offload, conf, count,
                       has_stats, launched>>
    OBVIOUS
  <2> HIDE DEF SetupQueue
  <2>5. queue_id' \in Nat /\ core' \in Nat \ {0}
    BY <1>b, <2>4
  <2> QED
    BY <2>2, <2>3, <2>4, <2>5 DEF SetupTypeOK
<1>2. QueuesInv'
  <2>1. \A p \in Ports : p # port => device'[p] = device[p]
    BY <1>a DEF SetupTypeOK
  <2>2. /\ device'[port].rxq = device[port].rxq \cup {queue_id}
        /\ device'[port].txq = device[port].txq \cup {queue_id}
        /\ device'[port].stats \subseteq device[port].stats \cup Mapping(queue_id)
        /\ device'[port].started = device[port].started
        /\ device'[port].queues = device[port].queues
    BY <1>a DEF SetupTypeOK, DeviceState
  <2>3. /\ \A p \in Ports : p # port => rx_id'[p] = rx_id[p] /\ tx_id'[p] = tx_id[p]
        /\ \A c \in Cores : c # core => rx_id'[port][c] = rx_id[port][c] /\ tx_id'[port][c] = tx_id[port][c]
        /\ rx_id'[port][core] = queue_id /\ tx_id'[port][core] = queue_id
    BY <1>a, <1>b DEF SetupTypeOK
  <2>4. \A p \in Ports, n \in Nat : p # port /\ Numbered(p, n) => Numbered(p, n)'
    BY <1>a, <2>1, <2>3 DEF Numbered, Mapping
  <2>5. Numbered(port, queue_id)
    BY <1>a DEF QueuesInv
  <2>6. Numbered(port, queue_id)'
    <3>1. device'[port].rxq = 0 .. (queue_id + 1) - 1 /\ device'[port].txq = 0 .. (queue_id + 1) - 1
      <4>1. 0 .. (queue_id + 1) - 1 = (0 .. queue_id - 1) \cup {queue_id}
        BY <1>b
      <4> QED
        BY <2>2, <2>5, <4>1 DEF Numbered
    <3>2. ASSUME NEW c \in 1 .. queue_id + 1
          PROVE  rx_id'[port][c] = c - 1 /\ tx_id'[port][c] = c - 1
      <4>1. c \in Cores /\ (c # core => c \in 1 .. queue_id)
        BY <1>a, <1>b, <3>2
      <4> QED
        BY <1>b, <2>3, <2>5, <4>1 DEF Numbered
    <3>3. ASSUME NEW s \in device'[port].stats
          PROVE  \E q \in 0 .. (queue_id + 1) - 1 : s \in Mapping(q)
      <4>1. CASE s \in device[port].stats
        <5>1. PICK q \in 0 .. queue_id - 1 : s \in Mapping(q)
          BY <2>5, <4>1 DEF Numbered
        <5> QED
          BY <1>b, <5>1
      <4>2. CASE s \in Mapping(queue_id)
        BY <1>b, <4>2
      <4> QED
        BY <2>2, <3>3, <4>1, <4>2
    <3> QED
      BY <1>a, <3>1, <3>2, <3>3 DEF Numbered, Mapping
  <2>7. queue_id' = queue_id + 1 /\ core' = core + 1
    OBVIOUS
  <2>8. spc = "queues" /\ spc' = "queues" /\ port' = port
    OBVIOUS
  <2> HIDE DEF SetupQueue
  <2>9. /\ port < machine.nports /\ port <= machine.nports
        /\ \A p \in Ports :
             /\ p < port => device[p].started /\ device[p].queues = NSlaves /\ Numbered(p, NSlaves)
             /\ p > port => device[p] = Fresh
        /\ device[port].queues = NSlaves /\ ~device[port].started
    BY <1>a, <2>8 DEF QueuesInv
  <2>10. ASSUME NEW p \in Ports, p # port
         PROVE  /\ p < port => /\ device'[p].started /\ device'[p].queues = NSlaves
                               /\ Numbered(p, NSlaves)'
                /\ p > port => device'[p] = Fresh
    <3>1. device'[p] = device[p]
      BY <2>1, <2>10
    <3>2. Numbered(p, NSlaves) => Numbered(p, NSlaves)'
      BY <1>a, <2>4, <2>10
    <3> QED
      BY <2>9, <3>1, <3>2
  <2>11. device'[port].queues = NSlaves /\ ~device'[port].started
    BY <2>2, <2>9
  <2>12. port \in Nat /\ \A p \in Ports : p < port \/ p > port => p # port
    BY <1>a
  <2> QED
    BY <1>a, <1>b, <2>6, <2>7, <2>8, <2>9, <2>10, <2>11, <2>12 DEF QueuesInv
<1>3. LaunchInv'
  BY DEF SetupTypeOK, QueuesInv, LaunchInv, UsedCores, NSlaves
<1>4. VlansInv'
  <2>1. \A p \in Ports : p # port => device'[p] = device[p]
    BY <1>a DEF SetupTypeOK
  <2>2. /\ device'[port].vlans = device[port].vlans
        /\ device'[port].confs = device[port].confs \cup {conf}
        /\ device'[port].started = device[port].started
    BY <1>a DEF SetupTypeOK, DeviceState
  <2>3. \A p \in Ports : Wanted(app_config[p])' = Wanted(app_config[p])
    BY DEF Wanted
  <2>4. ~device[port].started
    BY <1>a DEF QueuesInv
  <2> QED
    BY <1>a, <2>1, <2>2, <2>3, <2>4 DEF VlansInv
<1> QED
  BY <1>1, <1>2, <1>3, <1>4 DEF SetupInv

\* The end of setup_queues preserves the invariant.
LEMMA QueuesDoneInv ==
  ASSUME SetupInv, QueuesDone
  PROVE  SetupInv'
<1> USE MachineFacts DEF SetupInv, QueuesDone, loopVars, coreVars
<1>1. SetupTypeOK'
  BY DEF SetupTypeOK, SetupPCs
<1>2. QueuesInv'
  <2>1. queue_id = NSlaves
    BY DEF SetupTypeOK, QueuesInv
  <2> QED
    BY <2>1, NumberedKept DEF SetupTypeOK, QueuesInv, NSlaves
<1>3. LaunchInv'
  BY DEF SetupTypeOK, QueuesInv, LaunchInv, UsedCores, NSlaves
<1>4. VlansInv'
  BY DEF SetupTypeOK, QueuesInv, VlansInv
<1> QED
  BY <1>1, <1>2, <1>3, <1>4 DEF SetupInv

\* rte_eth_dev_start preserves the invariant.
LEMMA StartPortInv ==
  ASSUME SetupInv, StartPort
  PROVE  SetupInv'
<1> USE MachineFacts DEF SetupInv, StartPort, loopVars, coreVars
<1>a. port \in Ports /\ NSlaves \in Nat /\ NSlaves' = NSlaves /\ machine' = machine
  <2>1. port \in Nat /\ port < machine.nports
    BY DEF SetupTypeOK, QueuesInv
  <2>2. NSlaves' = NSlaves /\ machine' = machine
    BY DEF NSlaves
  <2> QED
    BY <2>1, <2>2
<1>1. SetupTypeOK'
  <2>1. device' \in [Ports -> DeviceState]
    <3>1. [device[port] EXCEPT !.started = TRUE] \in DeviceState
      BY <1>a, DeviceConfigured DEF SetupTypeOK
    <3> QED
      BY <1>a, <3>1 DEF SetupTypeOK
  <2> QED
    BY <2>1 DEF SetupTypeOK, SetupPCs
<1>2. QueuesInv'
  BY DEF SetupTypeOK, QueuesInv, Numbered, Mapping, NSlaves, Ports
<1>3. LaunchInv'
  BY DEF SetupTypeOK, QueuesInv, LaunchInv, UsedCores, NSlaves
<1>4. VlansInv'
  <2>1. \A p \in Ports : p # port => device'[p] = device[p]
    BY <1>a DEF SetupTypeOK
  <2>2. /\ device'[port].vlans = device[port].vlans /\ device'[port].confs = device[port].confs
    BY <1>a DEF SetupTypeOK, DeviceState
  <2>3. \A p \in Ports : Wanted(app_config[p])' = Wanted(app_config[p])
    BY DEF Wanted
  <2>4. spc' = "port"
    OBVIOUS
  <2> QED
    BY <1>a, <2>1, <2>2, <2>3, <2>4 DEF VlansInv
<1> QED
  BY <1>1, <1>2, <1>3, <1>4 DEF SetupInv

\* The end of the loop over the ports preserves the invariant.
LEMMA PortsDoneInv ==
  ASSUME SetupInv, PortsDone
  PROVE  SetupInv'
<1> USE MachineFacts DEF SetupInv, PortsDone, loopVars, coreVars
<1>1. SetupTypeOK'
  BY DEF SetupTypeOK, SetupPCs
<1>2. QueuesInv'
  BY DEF SetupTypeOK, QueuesInv, Numbered, Mapping, NSlaves, Ports
<1>3. LaunchInv'
  BY DEF SetupTypeOK, QueuesInv, LaunchInv, UsedCores, NSlaves
<1>4. VlansInv'
  BY DEF SetupTypeOK, QueuesInv, VlansInv
<1> QED
  BY <1>1, <1>2, <1>3, <1>4 DEF SetupInv

\* A poll of the links preserves the invariant.
LEMMA CheckLinksInv ==
  ASSUME SetupInv, CheckLinks
  PROVE  SetupInv'
<1> USE MachineFacts DEF SetupInv, CheckLinks, loopVars, coreVars
<1>1. SetupTypeOK'
  BY DEF SetupTypeOK, SetupPCs
<1>2. QueuesInv'
  BY DEF SetupTypeOK, QueuesInv, Numbered, Mapping, NSlaves, Ports
<1>3. LaunchInv'
  BY DEF SetupTypeOK, QueuesInv, LaunchInv, UsedCores, NSlaves
<1>4. VlansInv'
  BY DEF SetupTypeOK, QueuesInv, VlansInv
<1> QED
  BY <1>1, <1>2, <1>3, <1>4 DEF SetupInv

\* The release of the first configuration preserves the invariant.
LEMMA FreeConfigInv ==
  ASSUME SetupInv, FreeConfig
  PROVE  SetupInv'
<1> USE MachineFacts DEF SetupInv, FreeConfig, loopVars, coreVars
<1>1. SetupTypeOK'
  BY DEF SetupTypeOK, SetupPCs
<1>2. QueuesInv'
  BY DEF SetupTypeOK, QueuesInv, Numbered, Mapping, NSlaves, Ports
<1>3. LaunchInv'
  <2>1. has_stats' = {} /\ launched' = {} /\ spc' = "stats" /\ core' = 1
    BY DEF SetupTypeOK, LaunchInv
  <2>2. NSlaves' = NSlaves /\ NSlaves \in Nat
    BY DEF NSlaves
  <2>3. has_stats' = 1 .. core' - 1 /\ core' <= NSlaves' + 1
    BY <2>1, <2>2
  <2> QED
    BY <2>1, <2>3, Zenon DEF LaunchInv
<1>4. VlansInv'
  BY DEF SetupTypeOK, QueuesInv, VlansInv
<1> QED
  BY <1>1, <1>2, <1>3, <1>4 DEF SetupInv

\* The statistics of one core preserves the invariant.
LEMMA InitStatsInv ==
  ASSUME SetupInv, InitStats
  PROVE  SetupInv'
<1> USE MachineFacts DEF SetupInv, InitStats, loopVars, coreVars
<1>1. SetupTypeOK'
  <2>1. core \in Cores
    BY DEF SetupTypeOK
  <2> QED
    BY <2>1 DEF SetupTypeOK, SetupPCs
<1>2. QueuesInv'
  BY NumberedKept DEF SetupTypeOK, QueuesInv, NSlaves
<1>3. LaunchInv'
  BY DEF SetupTypeOK, QueuesInv, LaunchInv, UsedCores, NSlaves
<1>4. VlansInv'
  BY DEF SetupTypeOK, QueuesInv, VlansInv
<1> QED
  BY <1>1, <1>2, <1>3, <1>4 DEF SetupInv

\* The end of the statistics preserves the invariant.
LEMMA StatsDoneInv ==
  ASSUME SetupInv, StatsDone
  PROVE  SetupInv'
<1> USE MachineFacts DEF SetupInv, StatsDone, loopVars, coreVars
<1>1. SetupTypeOK'
  BY DEF SetupTypeOK, SetupPCs
<1>2. QueuesInv'
  BY NumberedKept DEF SetupTypeOK, QueuesInv, NSlaves
<1>3. LaunchInv'
  BY DEF SetupTypeOK, QueuesInv, LaunchInv, UsedCores, NSlaves
<1>4. VlansInv'
  BY DEF SetupTypeOK, QueuesInv, VlansInv
<1> QED
  BY <1>1, <1>2, <1>3, <1>4 DEF SetupInv

\* app_config_reload_all preserves the invariant.
LEMMA LoadWorkersInv ==
  ASSUME SetupInv, LoadWorkers
  PROVE  SetupInv'
<1> USE MachineFacts DEF SetupInv, LoadWorkers, loopVars, coreVars
<1>1. SetupTypeOK'
  BY DEF SetupTypeOK, SetupPCs
<1>2. QueuesInv'
  BY DEF SetupTypeOK, QueuesInv, Numbered, Mapping, NSlaves, Ports
<1>3. LaunchInv'
  BY DEF SetupTypeOK, QueuesInv, LaunchInv, UsedCores, NSlaves
<1>4. VlansInv'
  BY DEF SetupTypeOK, QueuesInv, VlansInv
<1> QED
  BY <1>1, <1>2, <1>3, <1>4 DEF SetupInv

\* rte_eal_remote_launch of one core preserves the invariant.
LEMMA LaunchWorkerInv ==
  ASSUME SetupInv, LaunchWorker
  PROVE  SetupInv'
<1> USE MachineFacts DEF SetupInv, LaunchWorker, loopVars, coreVars
<1>1. SetupTypeOK'
  <2>1. core \in Cores
    BY DEF SetupTypeOK
  <2> QED
    BY <2>1 DEF SetupTypeOK, SetupPCs
<1>2. QueuesInv'
  BY NumberedKept DEF SetupTypeOK, QueuesInv, NSlaves
<1>3. LaunchInv'
  BY DEF SetupTypeOK, QueuesInv, LaunchInv, UsedCores, NSlaves
<1>4. VlansInv'
  BY DEF SetupTypeOK, QueuesInv, VlansInv
<1> QED
  BY <1>1, <1>2, <1>3, <1>4 DEF SetupInv

\* The call of adm_server preserves the invariant.
LEMMA RunningInv ==
  ASSUME SetupInv, Running
  PROVE  SetupInv'
<1> USE MachineFacts DEF SetupInv, Running, loopVars, coreVars
<1>1. SetupTypeOK'
  BY DEF SetupTypeOK, SetupPCs
<1>2. QueuesInv'
  BY NumberedKept DEF SetupTypeOK, QueuesInv, NSlaves
<1>3. LaunchInv'
  BY DEF SetupTypeOK, QueuesInv, LaunchInv, UsedCores, NSlaves
<1>4. VlansInv'
  BY DEF SetupTypeOK, QueuesInv, VlansInv
<1> QED
  BY <1>1, <1>2, <1>3, <1>4 DEF SetupInv

\* Every step of setup_app preserves the invariant.
LEMMA SetupNextInv ==
  ASSUME SetupInv, [SetupNext]_setupVars
  PROVE  SetupInv'
<1>1. CASE Fail
  BY <1>1, FailInv
<1>2. CASE LoadConfig
  BY <1>2, LoadConfigInv
<1>3. CASE CheckMachine
  BY <1>3, CheckMachineInv
<1>4. CASE ConfigurePort
  BY <1>4, ConfigurePortInv
<1>5. CASE AcceptVlan
  BY <1>5, AcceptVlanInv
<1>6. CASE BeginQueues
  BY <1>6, BeginQueuesInv
<1>7. CASE SetupQueue
  BY <1>7, SetupQueueInv
<1>8. CASE QueuesDone
  BY <1>8, QueuesDoneInv
<1>9. CASE StartPort
  BY <1>9, StartPortInv
<1>10. CASE PortsDone
  BY <1>10, PortsDoneInv
<1>11. CASE CheckLinks
  BY <1>11, CheckLinksInv
<1>12. CASE FreeConfig
  BY <1>12, FreeConfigInv
<1>13. CASE InitStats
  BY <1>13, InitStatsInv
<1>14. CASE StatsDone
  BY <1>14, StatsDoneInv
<1>15. CASE LoadWorkers
  BY <1>15, LoadWorkersInv
<1>16. CASE LaunchWorker
  BY <1>16, LaunchWorkerInv
<1>17. CASE Running
  BY <1>17, RunningInv
<1>18. CASE UNCHANGED setupVars
  <2> USE <1>18 DEF setupVars, loopVars, coreVars, SetupInv
  <2>1. SetupTypeOK'
    BY DEF SetupTypeOK
  <2>2. QueuesInv'
    BY NumberedKept DEF QueuesInv, NSlaves
  <2>3. LaunchInv'
    BY DEF LaunchInv, UsedCores, NSlaves
  <2>4. VlansInv'
    BY DEF VlansInv
  <2> QED
    BY <2>1, <2>2, <2>3, <2>4
<1> QED
  BY <1>1, <1>2, <1>3, <1>4, <1>5, <1>6, <1>7, <1>8, <1>9, <1>10, <1>11, <1>12, <1>13, <1>14, <1>15, <1>16, <1>17, <1>18 DEF SetupNext, SetupStep

\* How far setup_app has come is what the invariant says.
THEOREM SetupInvariance == SetupSpec => []SetupInv
BY SetupInitInv, SetupNextInv, PTL DEF SetupSpec

\* core.c, setup_queues and run_workers: for any number of cores, when a worker
\* runs every queue of every port is polled by exactly one core.
THEOREM QueuesOwned == SetupSpec => []QueueOwners
<1>1. SetupInv => QueueOwners
  <2> SUFFICES ASSUME SetupInv, launched # {} PROVE QueueOwners
    BY DEF QueueOwners
  <2>1. SetupTypeOK /\ NSlaves \in Nat
    BY MachineFacts DEF SetupInv
  <2>2. launched \subseteq has_stats
    BY DEF SetupInv, LaunchInv
  <2>3. ASSUME NEW p \in UsedPorts
        PROVE  /\ device[p].started /\ device[p].queues = NSlaves /\ Numbered(p, NSlaves)
               /\ NSlaves \in Nat
    <3>1. p \in Ports /\ p < port /\ NSlaves \in Nat
      BY <2>1, <2>3, MachineFacts DEF SetupInv, LaunchInv, UsedPorts
    <3> QED
      BY <3>1 DEF SetupInv, QueuesInv
  <2>4. ASSUME NEW p \in UsedPorts, NEW q \in device[p].rxq
        PROVE  \E c \in UsedCores : rx_id[p][c] = q /\ tx_id[p][c] = q
    <3>1. q + 1 \in UsedCores /\ rx_id[p][q + 1] = q /\ tx_id[p][q + 1] = q
      BY <2>3, <2>4 DEF Numbered, UsedCores
    <3> QED
      BY <3>1
  <2>5. ASSUME NEW p \in UsedPorts, NEW c \in UsedCores, NEW d \in UsedCores,
               rx_id[p][c] = rx_id[p][d] \/ tx_id[p][c] = tx_id[p][d]
        PROVE  c = d
    BY <2>3, <2>5 DEF Numbered, UsedCores
  <2>6. ASSUME NEW p \in UsedPorts, NEW s \in device[p].stats, NEW t \in device[p].stats,
               s[3] = t[3]
        PROVE  s = t
    <3>1. PICK q \in 0 .. NSlaves - 1 : s = <<"rx", q, q>> \/ s = <<"tx", q, q + NSlaves>>
      BY <2>1, <2>3, MachineFacts DEF Numbered, Mapping, NSlaves
    <3>2. PICK r \in 0 .. NSlaves - 1 : t = <<"rx", r, r>> \/ t = <<"tx", r, r + NSlaves>>
      BY <2>1, <2>3, MachineFacts DEF Numbered, Mapping, NSlaves
    <3> QED
      BY <2>3, <2>6, <3>1, <3>2
  <2> QED
    BY <2>2, <2>3, <2>4, <2>5, <2>6 DEF QueueOwners, Numbered
<1> QED
  BY <1>1, SetupInvariance, PTL

\* core.c, setup_port: a started port accepts exactly the VLANs of its addresses.
THEOREM VlansFiltered == SetupSpec => []VlansAccepted
<1>1. SetupInv => VlansAccepted
  BY DEF SetupInv, VlansInv, VlansAccepted, Wanted
<1> QED
  BY <1>1, SetupInvariance, PTL
=============================================================================
