------------------------------ MODULE PortSetup ------------------------------
(* setup_app, setup_port and setup_queues of core.c, up to the launch of    *)
(* the workers: the order of the calls to DPDK, each of which may fail, and *)
(* what they leave in the devices and in struct core.  A failure ends in    *)
(* rte_exit, so what a call leaves half done is not seen.  How the          *)
(* configuration comes about is in ParseConfig.tla, what the second load    *)
(* (app_config_reload_all) does in ConfigReload.tla.                        *)
EXTENDS Integers, Sequences

CONSTANTS
  MaxPorts,         \* bound: Ethernet devices
  MaxCores,         \* bound: lcores, the master included
  Devices,          \* the kinds of devices: what dev_info says of them
  MAX_CHECK_TIME    \* 90 in the code

\* More devices than config->ports has elements are read behind its end.
ASSUME PortsAssumption == MaxPorts \in 0 .. 2
ASSUME CoresAssumption == MaxCores \in Nat \ {0}
ASSUME CheckTimeAssumption == MAX_CHECK_TIME \in Nat \ {0}
ASSUME DevicesAssumption ==
  Devices # {} /\
  Devices \subseteq [tx_cksum : BOOLEAN, rx_cksum : BOOLEAN, vlan_insert : BOOLEAN,
                     qinq : BOOLEAN, queue_stats : BOOLEAN]

Ports == 0 .. MaxPorts - 1
Cores == 1 .. MaxCores - 1     \* the slaves, in the order of RTE_LCORE_FOREACH_SLAVE

VARIABLES
  machine,         \* what EAL found: devices, lcores
  spc,             \* where the master is
  app_config,      \* app_config[p]: the VLANs (0: none) of the addresses of port p
  port, core,      \* loop variables
  addrs,           \* the addresses of the port that are left
  vlan_offload,    \* enable_vlan_offload
  conf,            \* the locals rxq_conf and txq_conf
  queue_id,
  count,           \* of check_ports_link_status
  device,          \* device[p]: what the NIC was told
  rx_id, tx_id,    \* rx_id[p][c] stands for cores[c].rx_queues[p].id
  has_stats,       \* the cores whose statistics are allocated
  launched         \* the cores that run main_loop

loopVars == <<port, core, addrs, vlan_offload, conf, queue_id, count>>
coreVars == <<rx_id, tx_id, has_stats, launched>>
setupVars == <<machine, spc, app_config, loopVars, device, coreVars>>

Fresh == [queues |-> 0, vlans |-> {}, rxq |-> {}, txq |-> {}, stats |-> {},
          confs |-> {}, started |-> FALSE]

Machines == [nports : 0 .. MaxPorts, ncores : 1 .. MaxCores, dev : [Ports -> Devices]]

SetupInit ==
  /\ machine = CHOOSE m \in Machines : TRUE     \* not asked for yet
  /\ spc = "load"
  /\ app_config = [p \in Ports |-> <<>>]
  /\ port = 0 /\ core = 1 /\ addrs = <<>> /\ vlan_offload = FALSE
  /\ conf = "unset" /\ queue_id = 0 /\ count = 0
  /\ device = [p \in Ports |-> Fresh]
  /\ rx_id = [p \in Ports |-> [c \in Cores |-> 0]]
  /\ tx_id = [p \in Ports |-> [c \in Cores |-> 0]]
  /\ has_stats = {} /\ launched = {}

NSlaves == machine.ncores - 1

-----------------------------------------------------------------------------

\* rte_exit.  Every call to DPDK that returns a status may fail.
Fail ==
  /\ spc \in {"load", "port", "vlans", "queues", "start", "stats", "reload", "launch"}
  /\ spc' = "exit"
  /\ UNCHANGED <<machine, app_config, loopVars, device, coreVars>>

\* app_config_load.
LoadConfig ==
  /\ spc = "load"
  /\ app_config' \in [Ports -> Seq(Nat)]
  /\ spc' = "check"
  /\ UNCHANGED <<machine, loopVars, device, coreVars>>

\* rte_eth_dev_count, rte_lcore_count: at least one device, and one core beside
\* the master.
CheckMachine ==
  /\ spc = "check"
  /\ machine' \in Machines
  /\ spc' = IF machine'.nports = 0 \/ machine'.ncores < 2 THEN "exit" ELSE "port"
  /\ UNCHANGED <<app_config, loopVars, device, coreVars>>

\* The first part of setup_port: checksums, the addresses, rte_eth_dev_configure.
ConfigurePort ==
  /\ spc = "port" /\ port < machine.nports
  /\ IF machine.dev[port].tx_cksum /\ app_config[port] # <<>>
     THEN /\ spc' = "vlans"
          /\ device' = [device EXCEPT ![port].queues = NSlaves]
          /\ addrs' = app_config[port]
          /\ vlan_offload' = FALSE
     ELSE spc' = "exit" /\ UNCHANGED <<device, addrs, vlan_offload>>
  /\ UNCHANGED <<machine, app_config, port, core, conf, queue_id, count, coreVars>>

\* Mutant: the walk ends at the first address without a VLAN.
AcceptVlanUntilNone ==
  /\ spc = "vlans" /\ addrs # <<>>
  /\ addrs' = IF Head(addrs) = 0 THEN <<>> ELSE Tail(addrs)
  /\ IF Head(addrs) = 0 THEN UNCHANGED <<device, vlan_offload>>
     ELSE /\ device' = [device EXCEPT ![port].vlans = @ \cup {Head(addrs)}]
          /\ vlan_offload' = TRUE
  /\ UNCHANGED <<machine, spc, app_config, port, core, conf, queue_id, count, coreVars>>

\* "Accept traffic for VLANs", one address after the other.
AcceptVlan ==
  /\ spc = "vlans" /\ addrs # <<>>
  /\ addrs' = Tail(addrs)
  /\ IF Head(addrs) = 0 THEN UNCHANGED <<device, vlan_offload>>
     ELSE /\ device' = [device EXCEPT ![port].vlans = @ \cup {Head(addrs)}]
          /\ vlan_offload' = TRUE
  /\ UNCHANGED <<machine, spc, app_config, port, core, conf, queue_id, count, coreVars>>

\* set_vlan_offload starts from the defaults of the device.  Without a VLAN it
\* is not called, and the two structures are never initialised.
VlanOffload(d) == IF vlan_offload THEN (~d.qinq /\ d.vlan_insert) ELSE TRUE
QueueConf(d) ==
  IF ~vlan_offload THEN "unset" ELSE IF d.rx_cksum THEN "vlan+cksum" ELSE "vlan"

\* The head of setup_queues.
BeginQueues ==
  /\ spc = "vlans" /\ addrs = <<>>
  /\ LET d == machine.dev[port] IN
       /\ spc' = IF VlanOffload(d) THEN "queues" ELSE "exit"
       /\ conf' = QueueConf(d)
  /\ queue_id' = 0 /\ core' = 1
  /\ UNCHANGED <<machine, app_config, port, addrs, vlan_offload, count, device, coreVars>>

\* Mutant: the queue takes the number of the core.
SetupQueueByCore ==
  /\ spc = "queues" /\ core <= NSlaves
  /\ device' = [device EXCEPT ![port].rxq = @ \cup {core},
                              ![port].txq = @ \cup {core}]
  /\ rx_id' = [rx_id EXCEPT ![port][core] = core]
  /\ tx_id' = [tx_id EXCEPT ![port][core] = core]
  /\ queue_id' = queue_id + 1 /\ core' = core + 1
  /\ UNCHANGED <<machine, spc, app_config, port, addrs, vlan_offload, conf, count,
                 has_stats, launched>>

\* The statistics indexes of the RX and of the TX queue.
Mapping(queue) ==
  {<<"rx", queue, queue>>, <<"tx", queue, queue + machine.ncores - 1>>}

\* One turn of setup_queues: memory pool, RX queue, TX queue, their statistics.
SetupQueue ==
  /\ spc = "queues" /\ core <= NSlaves
  /\ device' = [device EXCEPT
       ![port].rxq = @ \cup {queue_id},
       ![port].txq = @ \cup {queue_id},
       ![port].confs = @ \cup {conf},
       ![port].stats = @ \cup (IF machine.dev[port].queue_stats THEN Mapping(queue_id) ELSE {})]
  /\ rx_id' = [rx_id EXCEPT ![port][core] = queue_id]
  /\ tx_id' = [tx_id EXCEPT ![port][core] = queue_id]
  /\ queue_id' = queue_id + 1 /\ core' = core + 1
  /\ UNCHANGED <<machine, spc, app_config, port, addrs, vlan_offload, conf, count,
                 has_stats, launched>>

QueuesDone ==
  /\ spc = "queues" /\ core > NSlaves
  /\ spc' = "start"
  /\ UNCHANGED <<machine, app_config, loopVars, device, coreVars>>

\* rte_eth_dev_start, and the next port.
StartPort ==
  /\ spc = "start"
  /\ device' = [device EXCEPT ![port].started = TRUE]
  /\ port' = port + 1
  /\ spc' = "port"
  /\ UNCHANGED <<machine, app_config, core, addrs, vlan_offload, conf, queue_id, count, coreVars>>

PortsDone ==
  /\ spc = "port" /\ port = machine.nports
  /\ spc' = "links" /\ count' = 0
  /\ UNCHANGED <<machine, app_config, port, core, addrs, vlan_offload, conf, queue_id,
                 device, coreVars>>

\* check_ports_link_status: until all links are up, but not forever.
CheckLinks ==
  /\ spc = "links"
  /\ \/ spc' = "free" /\ UNCHANGED count
     \/ /\ count' = count + 1
        /\ spc' = IF count = MAX_CHECK_TIME - 1 THEN "free" ELSE "links"
  /\ UNCHANGED <<machine, app_config, port, core, addrs, vlan_offload, conf, queue_id,
                 device, coreVars>>

\* "Configuration for the master core is only used to setup ports."
FreeConfig ==
  /\ spc = "free"
  /\ spc' = "stats" /\ core' = 1
  /\ UNCHANGED <<machine, app_config, port, addrs, vlan_offload, conf, queue_id, count,
                 device, coreVars>>

\* cores[core].stats = init_natasha_app_stats(), and so for each core.
InitStats ==
  /\ spc = "stats" /\ core <= NSlaves
  /\ has_stats' = has_stats \cup {core}
  /\ core' = core + 1
  /\ UNCHANGED <<machine, spc, app_config, port, addrs, vlan_offload, conf, queue_id, count,
                 device, rx_id, tx_id, launched>>

StatsDone ==
  /\ spc = "stats" /\ core > NSlaves
  /\ spc' = "reload" /\ core' = 1
  /\ UNCHANGED <<machine, app_config, port, addrs, vlan_offload, conf, queue_id, count,
                 device, coreVars>>

\* Each worker gets its own configuration.
LoadWorkers ==
  /\ spc = "reload"
  /\ spc' = "launch"
  /\ UNCHANGED <<machine, app_config, loopVars, device, coreVars>>

\* run_workers, and adm_server.
LaunchWorker ==
  /\ spc = "launch" /\ core <= NSlaves
  /\ launched' = launched \cup {core}
  /\ core' = core + 1
  /\ UNCHANGED <<machine, spc, app_config, port, addrs, vlan_offload, conf, queue_id, count,
                 device, rx_id, tx_id, has_stats>>

Running ==
  /\ spc = "launch" /\ core > NSlaves
  /\ spc' = "adm"
  /\ UNCHANGED <<machine, app_config, loopVars, device, coreVars>>

\* What happens between the load and the release of the configuration.
SetupStep ==
  \/ CheckMachine \/ ConfigurePort \/ AcceptVlan \/ BeginQueues \/ SetupQueue
  \/ QueuesDone \/ StartPort \/ PortsDone \/ CheckLinks
  \/ InitStats \/ StatsDone \/ LoadWorkers \/ LaunchWorker \/ Running

SetupNext == LoadConfig \/ FreeConfig \/ Fail \/ SetupStep

SetupSpec == SetupInit /\ [][SetupNext]_setupVars

-----------------------------------------------------------------------------
(* Properties. *)

UsedPorts == 0 .. machine.nports - 1
UsedCores == 1 .. NSlaves

\* "Each core has one rx queue and one tx queue per port" (natasha.h): when a
\* worker runs, every port is started, each of the queues over which the NIC
\* spreads the packets is set up and polled by exactly one core (a queue that no
\* core polls swallows packets, one that two cores poll is a race, for the
\* rings take no lock) and counted at an index of its own (setup_port's
\* comment), and every worker has its statistics.
QueueOwners ==
  launched # {} =>
    /\ \A p \in UsedPorts :
         /\ device[p].started
         /\ device[p].rxq = 0 .. device[p].queues - 1 /\ device[p].txq = device[p].rxq
         /\ \A q \in device[p].rxq : \E c \in UsedCores : rx_id[p][c] = q /\ tx_id[p][c] = q
         /\ \A c, d \in UsedCores :
              rx_id[p][c] = rx_id[p][d] \/ tx_id[p][c] = tx_id[p][d] => c = d
         /\ \A s, t \in device[p].stats : s[3] = t[3] => s = t
    /\ launched \subseteq has_stats

\* A port that is started accepts exactly the VLANs of its addresses, and has all
\* of its queues set up with the VLAN offloads when there is one.
VlansAccepted ==
  \A p \in Ports : device[p].started =>
    LET wanted == {app_config[p][i] : i \in DOMAIN app_config[p]} \ {0} IN
      /\ device[p].vlans = wanted
      /\ wanted # {} => device[p].confs \subseteq {"vlan", "vlan+cksum"}
=============================================================================
