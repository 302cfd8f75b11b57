# Verification of NATASHA

NATASHA is a stateless 1:1 NAT on top of DPDK. One *master* lcore sets the ports up,
then runs an administration server; every other lcore is a *worker* that polls its
receive queues, rewrites packets according to the rules of its own copy of the
configuration, and sends them. This directory holds TLA+ modules that model the program
(`src/src/` in the repository), TLC configurations that check them on small instances,
and TLAPS proofs of the main theorems for all values of the constants. `PROJECT.json`
lists components, runs, mutants, the line of source every definition stands for,
findings, hazards and theorems.

    tlc -workers 2 -config PacketPath.cfg MCPacketPath     # a run
    tlapm ConfigReloadProofs.tla                           # a proof

## 1. Inventory

| component (source) | state | operations | interacts with | what makes it correct |
|---|---|---|---|---|
| configuration reload (`config.c`, `core.c`) | `core->app_config` per core, the flag `NAT_FLAG_USED`, locals of `app_config_reload_all`, the configurations on the heap | load, free, reload all cores, mark used | the administration server calls it; workers read the pointer without a lock | nobody uses a freed configuration; nothing leaks; a reload ends and applies the file |
| worker loop and packet path (`core.c`, `arp.c`, `ipv4.c`, `pkt.c`, `action_*.c`, `cond_*.c`) | burst array, transmit queues, counters, the packet | receive, dispatch, ARP/ICMP answers, walk of the rules, NAT, out, drop, flush | reads its configuration; NIC through DPDK | each mbuf has one owner; each drop is counted once; checksums and translation are right; queues never overflow |
| incremental checksums (`network_headers.h`) | three checksums of a packet | `cksum_update` | NAT action | equal to a full computation, with 32-bit overflow |
| NAT lookup table (`action_nat.c`) | three levels of arrays | insert a rule, look up, count, free | parser fills it, workers look up | behaves as a two-way map; nothing invented, lost or leaked |
| administration server (`adm.c`) | client slots, `cur_clients`, descriptors, `readfds` | select, accept, read, reply, disconnect | clients; triggers reload and exit | count, slots and descriptors agree; answers go to who asked; nobody waits forever |
| start-up and shutdown (`core.c`) | `force_quit`, lcore states | load, ports, launch, SIGTERM handler | everything else | workers start configured; ports stop after the workers |
| configuration language (`parseconfig.y`, `parseconfig.lex`, `config.c`) | stack of semantic values, stack of included files, the configuration that is filled in | tokens, includes, grammar actions, errors, `app_config_load`, `app_config_free` | produces rules, table, port addresses | trees mean what the text says; every file is closed; everything that can still be reached is freed |
| port and queue set-up (`core.c`) | queue numbers, VLAN filters, offload flags | sequence of DPDK calls | reads the first configuration; NIC | every queue the NIC fills is polled by exactly one core; the VLANs of the addresses are accepted |
| printing, padding fix, statistics layout | none | format or clear bytes | - | layout |

What is hard to test here: the lock-free handshake between master and workers; a reload
that fails half way; a signal in the middle of a reload; ownership of a packet over
nested rules and partially accepted bursts; carries that are lost for a few addresses
only; allocation failures in the table; descriptors and slots that are reused in the
administration server, and what its clients do while it is blocked in a reload; the
starvation its loop allows; a parse that ends anywhere in a nest of files and of rules. `PROJECT.json` has them as
"hazards", each at its line, with the properties that would catch it.

## 2. Modules

**ConfigHandoff** is the abstract promise: a worker may pick up what is published to it
and keep it as long as it likes; `Reclaim` gives back only what is published nowhere and
used by nobody.

**ConfigReload** is the protocol of the code. The master's program counter `mpc` follows
`setup_app`, `app_config_reload_all` (`LoadMaster`, `LoadCore`, `Swap`, `WaitUsed`,
`FreeOld`, `ReloadDone`), `run_workers`, the administration server (`RequestReload`), and
the SIGTERM handler (`SigTerm`, `ExitWait`), which may start between any two steps and
never returns. A worker's `wpc` follows `main_loop`. The point of the model is the grain
of the reads: every place that reads `core->app_config` (head of the loop, address
lists, the test of `rules`, the second read for `process_rules`, every NAT lookup) is a
step apart from the use of what was read, held in `reg` and `tree`. Loads fail at will;
an allocation returns any free address, also one used before; files change at any time.
The configuration itself is a content (`Contents`), of which the model only asks whether
it has rules.

**PacketPath** is one worker under one configuration: receive, dispatch, ARP, ICMP, the
recursive `process_rules` as a walk with an explicit stack (`Descend`, `Execute`,
`Resume`, `RulesDone`), all actions and conditions, `tx_send` and `tx_flush` with a NIC
that takes any prefix of a burst, and the counters. A packet is the record of the fields
the code reads. In this module a checksum is the sum it attests; the arithmetic is in
**Checksum**, which has `cksum_update` as written, with `uint32_t` overflow, for words of
any size `M` (2^16 in the code), and the order of the updates of outer, inner and ICMP
checksum. The rules are any tree with the shapes the grammar builds (`RulesAssumption`), whose
`out` names a port that exists: the code checks that nowhere. `FramesAssumption` and
`NatAssumption` keep apart the checksum 0 that the code leaves for the NIC from the sum of
two addresses: a received packet is not from 0.0.0.0 to 0.0.0.0, and 0.0.0.0, which marks an empty entry of
the table, is no translation. A tree is the sequence of its nodes in the order of the text, so that a
node stands before all that is below it. `out` of a packet is the port `tx_send` was given for it, -1 until then,
for packets that are forwarded and for answers alike. The rules of the documentation, in MCPacketPath, are
written for any two networks with a prefix of at least one bit (`NetworksAssumption`; finding 3 is about
prefixes of length 0). `ChecksumsRightOnWire` says of each checksum of a packet that it is right
when sent if it was right when received: the program does not repair what came in wrong.

**NatTable** is the lookup table: which arrays exist, the entries, and every way
`add_rule_to_table` can end, with its error paths. **NatMap** is the abstract map.

**ReloadService** is what a caller of `app_config_reload_all` may rely on: one request at a
time, one answer to each, and no request without an answer unless the program ends.
ConfigReload implements it (`ImplementsService`, with the mapping `ServiceStage` of the
master's program counter and the last reply to the stages of the service), and AdmServer
is built on it: this is how the two compose without multiplying their states.

**AdmServer** is `adm_loop` and its clients: the client table, descriptors given out
lowest first, backlog, end of file, several queries in one read, and a set `Faults` of
steps that may fail: system calls, and `check_slaves_alive`, which ends the program when all workers
have returned. A `reload` query blocks the server (`apc = "reload"`) until the
service answers; clients connect, write and close meanwhile. SIGTERM (`Stop`) may come at
any time. `PeersAssumption` only says that the mark of a closed descriptor is no client.

**ParseConfig** is the way from a text to a `struct app_config`. The text is chosen token by
token as the scanner asks for it, so every text within the bounds occurs, the wrong ones
too. The parser is the shift-reduce automaton bison makes: a stack of symbols with semantic
values, one definition per production (`ConfigPort`, `ConfigNatRule`, `RulesSection`,
`RulesContent`, `RulesStmt`, `Cond`), reductions that allocate and may fail, and an error
that abandons the stack, since the grammar has neither `error` productions nor
`%destructor`s. Below it the scanner's stack of included files. A token of the model is a
phrase that builds nothing before it is complete (`out port N mac M;` is one). A tree is a
function from the paths below its root to the nodes they lead to. Blocks are
counted (`heap`), and so are those to which nothing points any more (`lost`).

**ConfigText** is the reference for the parser: a top-down reading of the same text
(`RulesMeant`, `PortMeant`), which shares with the parser only the constructors of nodes. Its
operators are RECURSIVE, which is why it is a module of its own: ParseConfig, without them,
can be proved about.

**PortSetup** is `setup_app`, `setup_port`, `setup_queues`, `check_ports_link_status` and
`run_workers`: what each call leaves in the device (`device[p]`) and in `struct core` (`rx_id`, `tx_id`).
**Startup** composes the two: the configuration that was parsed is the one by which ports are
set up, and it is freed before the workers get their own.

`MC*` modules hold instances for TLC, `*Proofs` modules the proofs and the inductive
invariants they need (but for `IInv` of ConfigReload, which a run checks too).

Reading order: ConfigHandoff, ConfigReload, ConfigReloadProofs; PacketPath, PacketPathProofs,
MCPacketPath, ForwardingProofs; Checksum, ChecksumProofs; NatMap, NatTable, NatTableProofs;
ReloadService, AdmServer, AdmServerProofs; ParseConfig, ConfigText, PortSetup, PortSetupProofs,
Startup, StartupProofs, MCStartup.

## 3. Runs

| run | instance | distinct states | shows |
|---|---|---|---|
| ConfigReloadSafety | 2 workers, 5 addresses, 1 content | 150 000 | safety of the handshake, the inductive invariant, the refinement |
| ConfigReloadContents | 1 worker, 3 addresses, 2 contents (one without rules), `-f`, fairness | 272 000 | a reload answered OK has applied the default file; the protocol implements ReloadService, liveness included; the exit ends |
| PacketPath | 23 kinds of frames, 4 sets of rules, 2 packets | 247 000 | ownership, counters, checksums, translation, meaning of the rules, termination of the walk |
| Checksum | words of 2 bits, all packets | 16 000 | checksums stay right and canonical |
| NatTable | 8 addresses, 2 rules, 1 failed allocation | 32 000 | the table is a two-way map, nothing invented, leaks only where an allocation failed |
| AdmServerFaults | 3 clients, 2 slots, all faults, `status` and `reload` | 1 350 000 | accounting of slots and descriptors, answers, with reloads and SIGTERM in between |
| AdmServerLive | 3 clients, 2 slots, no fault, `reload`, `exit` and unknown queries, fairness | 338 000 | good clients stay, nobody waits forever, first slot answered |
| Startup | 5 profiles of texts, 2 files, up to 2 ports and 3 workers, 3 kinds of devices | 387 000 | texts mean their trees, files and blocks released, one owner per queue, VLANs accepted |
| PacketPathShortError, PacketPathDefaultRoute, NatTableFailure, StartupPorts | as above | - | four disagreements between code and comment or test (section 6) |

**Why the bounds are enough.** ConfigReload: the master holds at most two configurations
beside one per core, so the five addresses of the first run leave a fresh one at every
allocation, and the three of the second force reuse; two cores give "one core switched, the other not"; reloads are not
bounded. `MaxBurst` and `MaxLookups` only repeat the same reads; the proofs cover all of
these constants. PacketPath: two packets can be in every pair of places (queue, hand,
burst), and in any two of the four rule sets' branches; the rule trees have the shapes
the grammar builds and reach every node type, including nested `else { if }`, a rewrite of both
addresses and the missing final `drop`. Checksum: with `M = 4` every carry pattern of the two additions and the
two folds occurs, and the theorem is for `M = 65536`. NatTable: two bytes per level make
shared and separate arrays; two rules overlap in every way. AdmServer: one client more
than slots, so that refusal and reuse of slot and descriptor happen; two outstanding
queries make a read of two queries. Startup: a profile bounds how often each kind of token
occurs in a text, and the five of `MCStartup` are for conditions with and without
parentheses, an `else`, an `if` in an `if`, lines that repeat a port, and sections that repeat;
`MaxDepth = 2` makes an inclusion that may end or fail anywhere; three workers make queue
numbers differ from core numbers and from port numbers; `MAX_CHECK_TIME` (90 in the code)
only repeats a poll. The theorems about the set-up hold for any number of workers.

**Symmetry** is used for addresses and for peers in runs without liveness properties, where
all constants that mention them are symmetric.

**Fairness.** Every lcore is a thread pinned to a CPU of its own that never blocks, so
ConfigReload assumes weak fairness of the master's own steps and of each worker; nothing is
assumed of requests, signals and file changes. PacketPath assumes that the worker goes
on, AdmServer that the master goes on and that a reload returns (`WF_vars(ReloadReturns)`),
which is the promise `EveryRequestEnds` that ConfigReloadContents checks of ConfigReload;
clients owe nothing.

**Deadlock** is checked in all runs; a finished process is a stuttering step
(`Terminated`).

**Mutants.** For every property of a passing run `PROJECT.json` names a plausible bug (the
operators marked `Mutant` in the modules) under which the property fails.

## 4. Proofs

`ConfigReloadProofs` proves, for every number of cores, every set of addresses and
contents and every bound: `TypeOK`, `NoUseAfterFree`, `UsedMeansOldIsGone`,
`RunningWorkersConfigured`, `AtMostTwoVersions`, `NoLeak`, `AnswerIsBarrier`, and that the
protocol implements ConfigHandoff and the safety part of ReloadService. None of these is inductive alone. The invariant `IInv`
adds: which locals of the master hold a configuration at each step (`MasterInv`); that each
allocated configuration has exactly one owner, a core or a local (`OwnersInv`); what a
worker's program counter says of its pointers (`WorkerInv`); and the heart of the protocol
(`HandshakeInv`): what a worker has read in this turn is the published configuration or the old
one that the master still holds for this core, and once the flag of the published one is
set, only that one. The last part holds because a worker sets the flag only at the head
of its loop, when it holds nothing else, and because a new configuration is published
with its flag clear (`rte_zmalloc`). There is one lemma per action and `Next` is combined in
`Invariance`. `ReloadApplies` needs another strengthening, `ContentInv`, about what the
configurations hold and not who holds them: while nobody edits the file, the cores that the
loop has done run what the file says. It is preserved because, by `IInv`, an address that
`LoadCore` fills belongs to no core that is done. `AnswerIsBarrier` says that when a reload has
returned, with OK or with an error, no worker is in a turn that met another configuration than its published
one, and after OK each worker has taken its new one over. The first half is `HandshakeInv`, since the master then holds
no old configuration. The second rests on `BarrierInv`: the cores that the loop has done have set the flag of
their new configuration. A later load does not undo this, because it clears the flag of an address that no core owns. Assumptions: those named in `ConfigReload` (at least one core, null is no address).

`ChecksumProofs` proves for `M = 65536` that any sequence of rewrites keeps all three
checksums valid (the invariant `ChecksumInv` is inductive), and that no update produces
0xffff. The argument: `AddCarry` and a fold preserve the sum modulo `M - 1` and keep it
positive, two folds are enough for one word, hence `cksum_update(c, f, t)` is congruent to `c + f - t`.

`NatTableProofs` proves for any sets of bytes that the table is linked (`WellFormed`), invents
no translation (`OnlyConfigured`), translates both ways (`BothWays`), and implements NatMap.
Two theorems count. `NothingLeaks`: each array that an insertion allocates is linked into the
table unless a later allocation of it fails (`AddRuleArrays` counts the levels one by one).
`RulesCounted`: rules that do not overlap make the entries of the table two disjoint sets, one for each
direction, each as large as the set of rules (`OneSide`), so half of the entries is their number.

`PacketPathProofs` proves for every set of rules the grammar can build, every set of frames, every
number of ports and every bound: `TypeOK`, `OneOwner`, `DropsAreCounted`, `ChecksumsRightOnWire`,
`InnerFollowsOuter`, `QueuesDrained` and `AnswersAreOurs` (the answer has our address and leaves by
the port of the question). The run has four sets of rules; the
theorems have all of them. The invariant `PathInv` has five parts. `ControlInv`: there is a packet in hand exactly
while one is dispatched or under the rules, and a negative return value occurs only on the
way out of a breaking action. `TxInv`: no packet is twice in the queues, or queued and
released; the counters agree with what was released. `PlacesInv`: burst, hand, queues, lost
and released packets are disjoint, and together all that were received. A breaking
action is the delicate point: it gives the packet away inside the walk, while `cur` still
names it until the walk has returned, so `InHand` depends on the return value. `FlushInv`: the queues that
`main_loop` has passed are empty. `PacketsInv`: what a packet in the program's hands keeps of the one received (`Kept`); for
the L4 checksum this is weaker than on the wire (`L4Kept`), since a rewrite leaves a checksum to the NIC
before `out` marks the packet. One lemma per action and part; `OneOwner` counts places, and the
proof shows that the set of places of a packet is a singleton. Assumptions: those named
in `PacketPath` (section 2).

`RulesEnd`, in the same module, is the safety half of termination: every step of the walk
decreases `StepsLeft`, a natural number that is at most `4 * Len(rules) + 1` when the walk starts. It
is four for each node that may still be visited (`ToCome`), two for each caller that waits for its
left child, one for each caller, and one for a call that is due. A return to a caller may call its
right child, so the nodes to come must already count that child; that they do, and that
no node is counted as new twice, is `WalkInv`: the stack follows a branch of the tree, and what
remains of a caller lies, in the order of the text, behind what remains of the callers it has
called. Nothing is assumed of what conditions and actions return.

`ForwardingProofs` proves that under the rules of the documentation (`OneWayTree` of MCPacketPath)
packets are forwarded as the text says (`ForwardedAsConfigured`), for addresses of any width, any two
networks of at least one prefix bit, any frames, translation table, own addresses, number of ports and bursts.
The code compares shifted addresses where the text names a block of addresses; `NetworkIsBlock` shows that
the two agree (that 2^n is positive, which the division needs, comes from the number of subsets of n numbers,
`PowerPositive`). The property compares a packet that has left with the one
received; the invariant `OneWayInv` says what holds on the way. `Before` has for each node what the
tests so far say of the packet when the node is called, and which of its fields are already rewritten;
`After` what holds when the node has returned, and that the nodes which always break never return
to a caller that goes on. Since the stack is a path of the tree (`OnPath`), the node on
top determines its context, and one table over the nodes is enough. `Refused` counts the
packets that no condition selects, which the final `drop` has to account for.

`AdmServerProofs` proves for any number of clients and slots and any set of failing system
calls: `TypeOK`, `SlotsAccount` and `AnswersMatch`, and the action property `GoodPeersStay`
when neither `select` is interrupted nor a `send` fails (with either fault TLC finds a client that is
disconnected without having misbehaved). The invariant `AdmInv` adds: a connection is in the backlog once,
or behind one descriptor, or nothing of it is left (`ConnInv`); what `select` reported is still open when
it is read, and the client whose `reload` is under way keeps its slot (`ReadInv`); what a peer
asked is what was answered to it followed by what it still waits for, which is more than its unread
queries while a reload is under way (`Unanswered`); and a client that behaves has at most one known query
under way, so that a ready descriptor has something to read (`GoodInv`).

`PortSetupProofs` proves for any number of lcores, any kinds of devices and any configuration
that a worker runs only on ports whose queues each have one owner and one place in the
statistics (`QueueOwners`), and that a started port accepts the VLANs of its addresses
(`VlansAccepted`), for up to two ports, the size of the array in the code. The two speak of
complete ports; the invariant `SetupInv` says how far the loops have come: the first n
queues of the port at hand belong to the first n cores in order (`Numbered`), what the
walk over the addresses has still to accept is what the filters lack (`VlansInv`), later
ports are untouched, and nobody is launched before all of it is done (`LaunchInv`). The
proof leaves open what `app_config_load` returns, so it covers every text.

`StartupProofs` proves, for texts of any length, any depth of inclusion and any allocation that
fails, that a load closes every file and that a failed load, or the free after a successful
one, leaves exactly the blocks that an abandoned stack and repeated lines and sections had
(`LoadReleases`). The invariant `ParseInv` has two parts. `ShapeInv`: the semantic values on the parser's
stack and the fields of the configuration are trees, that is, sets of paths closed under prefixes
which start at the root; so `reset_rules` and the loop over addresses, which follow pointers
from the root, reach every block; and the files that are open are those on the scanner's stack.
`AccountInv`: until the configuration is freed the heap is what is lost,
what the stack holds, what the configuration holds and the configuration itself. Each reduction moves blocks from the stack into a larger tree or
into the configuration; the lemmas count the paths of a node from those of its children.
The module also composes: `StartupSetsUp` shows that Startup, parser and free included,
implements the specification of PortSetup, so `QueueOwners` and `VlansAccepted` hold of it.

Every invariant that a run checks is proved, but for one. Only model-checked are:

- the liveness properties (of `ImplementsService`, `ExitTerminates`, `PacketsFinish`,
  `NobodyWaitsForever`, `FirstSlotServed`): fairness is out of the prover's reach;
- the invariant `ParsedAsWritten`: its reference reading is recursive, and that the parser agrees
  with it for every text would need an induction over texts.

For `PacketsFinish` the theorem `RulesEnd` is what is left of it without fairness: a walk cannot go on forever.

## 5. What is not modelled

- In the configuration language: the characters of a token, numbers and addresses (only the
  port number and the VLAN matter to a property), an `!include` in the middle of a phrase
  that is one token here, line numbers in messages.
- In the set-up: ring sizes, NUMA sockets, RSS keys, memory pools beyond their success; more
  devices than `NATASHA_MAX_ETHPORTS`.
- `print`'s text, the padding fix for Nexus 9000 switches (it clears bytes behind the packet),
  layout and byte order of statistics: they change bytes no other part reads.
- MAC addresses (`action_out` writes the address of the port the packet came in on, not of
  the one it leaves on), payloads, the packet quoted in an ICMP error beyond its addresses and
  its header checksum.
- Relaxed memory: loads and stores happen in the order of the source, as on x86. The pointer
  `core->app_config` is not volatile; that the compiler stores it before the spin and reads it
  again in each turn is assumed. (A worker that kept an older value of the pointer between
  the reads of one packet is covered: `EnterRules` allows both.)
- Locks inside DPDK that the signal handler might meet.

## 6. Findings

1. `add_rules_to_table` never reports a failed allocation (`action_nat.c:324`, run
   NatTableFailure): it tests the pointer it was given, not the one it stored.
2. The length test of `icmp_nat_handle` is an unsigned comparison with 0 (`action_nat.c:77`, run
   PacketPathShortError).
3. `ipv4_in_network` with mask 0 shifts by 32 (`cond_network.c:16`, run PacketPathDefaultRoute).
4. `port 2` in a configuration is accepted (`parseconfig.y:139` compares with
   `RTE_MAX_ETHPORTS`) and stored behind `ports[]`, over `nat_lookup` and `rules` (run StartupPorts);
   `test_config` has a file that does it.

Observed and in the models, but contradicting no comment or test: a packet that falls
through the rules is lost (`lost` in PacketPath; the documentation tells to end with
`drop`); an interrupted `select` disconnects an idle client; one client of the
administration server can keep later ones waiting; a reload ignores `-f`; an aborted
parse and a repeated line or section lose the blocks they had (`lost` in ParseConfig); without a VLAN
the queues are set up with uninitialised structures; a reload does not change the
VLAN filters. `drop_unhandled_ethertype` also counts ARP packets and IPv4 packets that
their handler refuses, where `docs/CONFIGURATION.md:180` speaks of other protocols.

## 7. Plan

Done: the modules above, in the order of section 2, and the proofs of section 4. Left: a
model of the UDP checksum that a rewrite may turn into 0 (`action_nat.c:203`), which would need
the arithmetic of Checksum in the packets of PacketPath; and a proof of `ParsedAsWritten`, by an induction on the
text that the provers at hand cannot do.
