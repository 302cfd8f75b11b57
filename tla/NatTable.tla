------------------------------ MODULE NatTable ------------------------------
(* The NAT lookup table of action_nat.c: three levels of arrays indexed by  *)
(* the first byte, the second byte and the last two bytes of an address,    *)
(* allocated when a rule needs them.  Any allocation may fail.              *)
EXTENDS Integers, FiniteSets

CONSTANTS
  Fst, Snd, Low,   \* values of the three parts of an address
  Zero,            \* the address 0.0.0.0: an entry that holds it is free
  MaxRules,        \* bound: rules of one configuration
  MaxFailures      \* bound: allocations that fail

Address == Fst \X Snd \X Low

ASSUME FiniteAssumption == IsFiniteSet(Fst) /\ IsFiniteSet(Snd)
ASSUME ZeroAssumption == Zero \in Address
ASSUME BoundsAssumption == MaxRules \in Nat /\ MaxFailures \in Nat

\* A table: whether the first array exists, the indices at which it points to a
\* second array and those to a third one, and the entries.  Arrays are zeroed
\* when allocated, so an entry that is not reachable counts as Zero.
Tables == [root : BOOLEAN, snd : SUBSET Fst, thr : SUBSET (Fst \X Snd),
           entry : [Address -> Address]]
NoTable == [root |-> FALSE, snd |-> {}, thr |-> {}, entry |-> [ip \in Address |-> Zero]]

VARIABLES
  nat_lookup,   \* the table of the configuration
  status,       \* what add_rules_to_table returned last
  failed,       \* history: an allocation failed in that call
  failures,     \* number of allocations that failed
  allocated,    \* number of arrays that are allocated
  lost,         \* history: an allocation failed since the table was created
  configured    \* history: the rules given since the table was created

vars == <<nat_lookup, status, failed, failures, allocated, lost, configured>>

Init ==
  /\ nat_lookup = NoTable
  /\ status = 0 /\ failed = FALSE
  /\ failures = 0 /\ allocated = 0
  /\ lost = FALSE /\ configured = {}

-----------------------------------------------------------------------------
fstb(key) == key[1]

\* Mutant: the two bytes are swapped.
sndb_swapped(key) == <<key[2], key[1]>>

sndb(key) == <<key[1], key[2]>>

\* Mutant: the third array is shared by all second bytes.
nat_lookup_ip_coarse(t, ip) ==
  IF t.root /\ fstb(ip) \in t.snd THEN t.entry[<<ip[1], CHOOSE s \in Snd : TRUE, ip[3]>>]
                                  ELSE Zero

\* The translation of ip; Zero stands for the result -1.
nat_lookup_ip(t, ip) ==
  IF t.root /\ fstb(ip) \in t.snd /\ sndb(ip) \in t.thr THEN t.entry[ip] ELSE Zero

\* Mutant: the new third array is not linked to the second.
StoreUnlinked(t, key, value) ==
  [root |-> TRUE, snd |-> t.snd \cup {fstb(key)}, thr |-> t.thr,
   entry |-> [t.entry EXCEPT ![key] = value]]

Store(t, key, value) ==
  [root |-> TRUE, snd |-> t.snd \cup {fstb(key)}, thr |-> t.thr \cup {sndb(key)},
   entry |-> [t.entry EXCEPT ![key] = value]]

One(b) == IF b THEN 1 ELSE 0
Arrays(t) == One(t.root) + Cardinality(t.snd) + Cardinality(t.thr)

\* The outcomes of add_rule_to_table: the table it returns, whether an allocation
\* failed, and how many arrays more are allocated.  The error paths free the
\* first array, and the second one when the third is missing, and no other.
add_rule_to_table(t, key, value) ==
  LET stored == Store(t, key, value)
      fails(more) == [t |-> NoTable, failed |-> TRUE, more |-> more]
  IN  {[t |-> stored, failed |-> FALSE, more |-> Arrays(stored) - Arrays(t)]}
      \cup (IF t.root THEN {} ELSE {fails(0)})
      \cup (IF fstb(key) \in t.snd THEN {} ELSE {fails(-One(t.root))})
      \cup (IF sndb(key) \in t.thr THEN {}
            ELSE {fails(-One(t.root) - One(fstb(key) \in t.snd))})

\* Mutant: only one direction is stored.
add_rules_to_table_one_way(int_ip, ext_ip) ==
  \E one \in add_rule_to_table(nat_lookup, int_ip, ext_ip) :
       /\ nat_lookup' = one.t
       /\ failed' = one.failed
       /\ failures' = failures + One(one.failed)
       /\ failures' <= MaxFailures
       /\ allocated' = allocated + one.more
       /\ lost' = (lost \/ failed')
       /\ status' = 0
       /\ configured' = configured \cup {<<int_ip, ext_ip>>}

\* Both directions.  The test after each of the two calls is on nat_lookup, the
\* address of the caller's variable, not on what was stored there: it never
\* fails, and a call that returned NULL is followed by the next one.
add_rules_to_table(int_ip, ext_ip) ==
  \E one \in add_rule_to_table(nat_lookup, int_ip, ext_ip) :
    \E two \in add_rule_to_table(one.t, ext_ip, int_ip) :
       /\ nat_lookup' = two.t
       /\ failed' = (one.failed \/ two.failed)
       /\ failures' = failures + One(one.failed) + One(two.failed)
       /\ failures' <= MaxFailures
       /\ allocated' = allocated + one.more + two.more
       /\ lost' = (lost \/ failed')
       /\ status' = 0
       /\ configured' = configured \cup {<<int_ip, ext_ip>>}

\* One `nat rule' line of the configuration file.
NatRule ==
  /\ Cardinality(configured) < MaxRules
  /\ \E int_ip, ext_ip \in Address : add_rules_to_table(int_ip, ext_ip)

\* Mutant: the table is left to the next configuration.
nat_reset_lookup_table_keeps ==
  /\ configured # {}
  /\ nat_lookup' = nat_lookup
  /\ status' = 0 /\ failed' = FALSE
  /\ lost' = FALSE /\ configured' = {}
  /\ allocated' = allocated - Arrays(nat_lookup)
  /\ UNCHANGED failures

\* Mutant: the third arrays are not freed.
nat_reset_lookup_table_two_levels ==
  /\ configured # {}
  /\ nat_lookup' = NoTable
  /\ status' = 0 /\ failed' = FALSE
  /\ lost' = FALSE /\ configured' = {}
  /\ allocated' = allocated - One(nat_lookup.root) - Cardinality(nat_lookup.snd)
  /\ UNCHANGED failures

\* app_config_free frees every array that is reachable; the next configuration
\* starts with a null pointer.
nat_reset_lookup_table ==
  /\ configured # {}
  /\ nat_lookup' = NoTable
  /\ status' = 0 /\ failed' = FALSE
  /\ lost' = FALSE /\ configured' = {}
  /\ allocated' = allocated - Arrays(nat_lookup)
  /\ UNCHANGED failures

Next == NatRule \/ nat_reset_lookup_table

Spec == Init /\ [][Next]_vars

\* Mutant: entries are rules.
nat_number_of_rules_twice(t) == Cardinality({ip \in Address : nat_lookup_ip(t, ip) # Zero})

\* nat_iter: the entries of the arrays that exist, divided by 2.
nat_number_of_rules(t) ==
  Cardinality({ip \in Address : nat_lookup_ip(t, ip) # Zero}) \div 2

-----------------------------------------------------------------------------
TypeOK ==
  /\ nat_lookup \in Tables
  /\ status \in {0, -1}
  /\ failed \in BOOLEAN /\ lost \in BOOLEAN
  /\ failures \in 0 .. MaxFailures
  /\ allocated \in Int
  /\ configured \subseteq Address \X Address

\* An array is reachable only through the one above it, and an entry that is not
\* Zero is in an array that exists: nat_lookup_ip and nat_iter, which test the
\* three levels in turn, meet every entry.
Linked(t) ==
  /\ ~t.root => t.snd = {}
  /\ \A p \in t.thr : p[1] \in t.snd
  /\ \A ip \in Address : t.entry[ip] # Zero => sndb(ip) \in t.thr

WellFormed == Linked(nat_lookup)

\* The rules that share an address with no other rule and are no self-map.
Separate ==
  {r \in configured :
     /\ r[1] # r[2]
     /\ \A q \in configured : q # r => {q[1], q[2]} \cap {r[1], r[2]} = {}}

\* A translation found in the table is one that some rule of the configuration
\* asked for, whatever was lost and in whatever order rules came.
OnlyConfigured ==
  \A ip \in Address :
    nat_lookup_ip(nat_lookup, ip) # Zero =>
      \/ <<ip, nat_lookup_ip(nat_lookup, ip)>> \in configured
      \/ <<nat_lookup_ip(nat_lookup, ip), ip>> \in configured

\* Unless an allocation failed, a rule that shares its addresses with no other
\* one translates both ways.
BothWays ==
  ~lost => \A r \in Separate : /\ nat_lookup_ip(nat_lookup, r[1]) = r[2]
                               /\ nat_lookup_ip(nat_lookup, r[2]) = r[1]

\* nat_iter: "Since each rule is stored twice, one time for each direction, there
\* are actually n / 2 NAT rules": so when no two rules overlap and 0.0.0.0 is
\* not used, the number logged after a reload is the number of rules given.
RulesCounted ==
  /\ ~lost
  /\ Separate = configured
  /\ \A r \in configured : Zero \notin {r[1], r[2]}
  => nat_number_of_rules(nat_lookup) = Cardinality(configured)

\* Every array of the table is allocated, and every allocated array is in the
\* table, so that freeing the configuration gives everything back
\* (tests/test_config_leaks), as long as no allocation has failed: the error
\* paths do leak, but free nothing twice.
NothingLeaks ==
  /\ allocated >= Arrays(nat_lookup)
  /\ failures = 0 => allocated = Arrays(nat_lookup)

\* add_rules_to_table, the comment above it: "@return -1 on failure".
FailureReported == failed => status = -1

\* The three arrays implement a map.
Map == INSTANCE NatMap WITH
  map <- [ip \in Address |-> nat_lookup_ip(nat_lookup, ip)],
  intact <- ~lost

\* Every step of the table is a step of the map.
ImplementsMap == Map!MapSpec
=============================================================================
