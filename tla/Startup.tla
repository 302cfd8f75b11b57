------------------------------- MODULE Startup -------------------------------
(* The start of the program, with the configuration that setup_app loads:   *)
(* ParseConfig reads the text, PortSetup configures the devices by what was *)
(* parsed, and the configuration is freed.                                  *)
EXTENDS ParseConfig, PortSetup

vars == <<parseVars, setupVars>>

Init == ParseInit /\ SetupInit

\* The VLANs of a list of addresses.
VlansOf(ip) == [n \in 1 .. ListLength(ip) |-> ip[[i \in 1 .. n - 1 |-> 2]].tok.vlan]

Load == spc = "load" /\ ParseNext /\ UNCHANGED setupVars

\* app_config_load has returned a configuration.
Configured ==
  /\ phase = "loaded"
  /\ app_config' = [p \in Ports |-> VlansOf(config.ports[p])]
  /\ LoadConfig
  /\ UNCHANGED parseVars

\* app_config_load has returned NULL, or a call to DPDK fails.
Exit ==
  /\ spc = "load" => phase = "failed"
  /\ Fail
  /\ UNCHANGED parseVars

SetUp == phase # "crashed" /\ SetupStep /\ UNCHANGED parseVars

Free == FreeConfig /\ app_config_free

Terminated ==
  /\ spc \in {"exit", "adm"} \/ phase = "crashed"
  /\ UNCHANGED vars

Next == Load \/ Configured \/ Exit \/ SetUp \/ Free \/ Terminated

Spec == Init /\ [][Next]_vars
=============================================================================
