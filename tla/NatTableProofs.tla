--------------------------- MODULE NatTableProofs ---------------------------
(* The lookup table of action_nat.c implements a map, for every set of      *)
(* rules and every allocation that fails.                                   *)
EXTENDS NatTable, FiniteSetTheorems, TLAPS

\* The parts of an address, as the code computes them.
LEMMA Parts ==
  ASSUME NEW ip \in Address
  PROVE  fstb(ip) \in Fst /\ sndb(ip) \in Fst \X Snd /\ sndb(ip)[1] = fstb(ip)
  BY DEF Address, fstb, sndb

\* The null table is well formed and empty.
LEMMA NoTableLinked ==
  /\ NoTable \in Tables /\ Linked(NoTable)
  /\ \A ip \in Address : NoTable.entry[ip] = Zero
  BY ZeroAssumption DEF NoTable, Tables, Linked

\* Writing an entry keeps a table well formed, and changes that entry only.
LEMMA StoreLinked ==
  ASSUME NEW t \in Tables, Linked(t), NEW key \in Address, NEW value \in Address
  PROVE  /\ Store(t, key, value) \in Tables
         /\ Linked(Store(t, key, value))
         /\ Store(t, key, value).entry = [t.entry EXCEPT ![key] = value]
<1>1. fstb(key) \in Fst /\ sndb(key) \in Fst \X Snd /\ sndb(key)[1] = fstb(key)
  BY Parts
<1>2. Store(t, key, value) \in Tables
  BY <1>1 DEF Store, Tables
<1>3. Linked(Store(t, key, value))
  BY <1>1 DEF Store, Tables, Linked
<1> QED BY <1>2, <1>3 DEF Store

\* In a well-formed table nat_lookup_ip finds every entry.
LEMMA LookupEntry ==
  ASSUME NEW t \in Tables, Linked(t), NEW ip \in Address
  PROVE  nat_lookup_ip(t, ip) = t.entry[ip]
<1>1. sndb(ip)[1] = fstb(ip)
  BY Parts
<1> QED BY <1>1 DEF nat_lookup_ip, Linked, Tables

\* The number of arrays of a table.
LEMMA ArraysType == \A t \in Tables : Arrays(t) \in Int
<1> SUFFICES ASSUME NEW t \in Tables
             PROVE  Arrays(t) \in Int
  OBVIOUS
<1>1. t.snd \subseteq Fst /\ t.thr \subseteq Fst \X Snd
  BY DEF Tables
<1>2. IsFiniteSet(t.snd)
  BY <1>1, FiniteAssumption, FS_Subset
<1>3. IsFiniteSet(Fst \X Snd)
  BY FiniteAssumption, FS_Product
<1>4. IsFiniteSet(t.thr)
  BY <1>1, <1>3, FS_Subset
<1>5. Cardinality(t.snd) \in Nat /\ Cardinality(t.thr) \in Nat
  BY <1>2, <1>4, FS_CardinalityType
<1> QED BY <1>5 DEF Arrays, One

\* What a call of add_rule_to_table may do: store, or fail and return NULL.
LEMMA AddRuleOutcome ==
  ASSUME NEW t \in Tables, Linked(t), NEW key \in Address, NEW value \in Address,
         NEW o \in add_rule_to_table(t, key, value)
  PROVE  /\ o.failed \in BOOLEAN /\ o.more \in Int
         /\ o.t \in Tables /\ Linked(o.t)
         /\ ~o.failed => o.t.entry = [t.entry EXCEPT ![key] = value]
         /\ o.failed => o.t = NoTable
<1>1. /\ Store(t, key, value) \in Tables
      /\ Linked(Store(t, key, value))
      /\ Store(t, key, value).entry = [t.entry EXCEPT ![key] = value]
  BY StoreLinked
<1>2. Arrays(Store(t, key, value)) \in Int /\ Arrays(t) \in Int
  BY <1>1, ArraysType
<1>3. \A b : One(b) \in Int
  BY DEF One
<1>4. \/ o = [t |-> Store(t, key, value), failed |-> FALSE,
              more |-> Arrays(Store(t, key, value)) - Arrays(t)]
      \/ \E m \in Int : o = [t |-> NoTable, failed |-> TRUE, more |-> m]
  <2>1. -One(t.root) \in Int /\ -One(t.root) - One(fstb(key) \in t.snd) \in Int
    BY <1>3
  <2> QED BY <2>1 DEF add_rule_to_table
<1>5. CASE o = [t |-> Store(t, key, value), failed |-> FALSE,
                more |-> Arrays(Store(t, key, value)) - Arrays(t)]
  BY <1>1, <1>2, <1>5
<1>6. CASE \E m \in Int : o = [t |-> NoTable, failed |-> TRUE, more |-> m]
  BY <1>6, NoTableLinked
<1> QED BY <1>4, <1>5, <1>6

-----------------------------------------------------------------------------
\* A `nat rule' line: both directions are stored, or an allocation failed and at
\* most the second direction of this rule is left.
LEMMA NatRuleEffect ==
  ASSUME TypeOK, WellFormed, NEW int_ip \in Address, NEW ext_ip \in Address,
         add_rules_to_table(int_ip, ext_ip)
  PROVE  /\ TypeOK' /\ WellFormed'
         /\ configured' = configured \cup {<<int_ip, ext_ip>>}
         /\ \/ /\ lost' = lost
               /\ nat_lookup'.entry =
                    [nat_lookup.entry EXCEPT ![int_ip] = ext_ip, ![ext_ip] = int_ip]
            \/ /\ lost' = TRUE
               /\ nat_lookup'.entry \in
                    {NoTable.entry, [NoTable.entry EXCEPT ![ext_ip] = int_ip]}
<1>1. nat_lookup \in Tables /\ Linked(nat_lookup)
  BY DEF TypeOK, WellFormed
<1>2. PICK one \in add_rule_to_table(nat_lookup, int_ip, ext_ip) :
      \E two \in add_rule_to_table(one.t, ext_ip, int_ip) :
         /\ nat_lookup' = two.t
         /\ failed' = (one.failed \/ two.failed)
         /\ failures' = failures + One(one.failed) + One(two.failed)
         /\ failures' <= MaxFailures
         /\ allocated' = allocated + one.more + two.more
         /\ lost' = (lost \/ failed')
         /\ status' = 0
         /\ configured' = configured \cup {<<int_ip, ext_ip>>}
  BY DEF add_rules_to_table
<1>3. PICK two \in add_rule_to_table(one.t, ext_ip, int_ip) :
         /\ nat_lookup' = two.t
         /\ failed' = (one.failed \/ two.failed)
         /\ failures' = failures + One(one.failed) + One(two.failed)
         /\ failures' <= MaxFailures
         /\ allocated' = allocated + one.more + two.more
         /\ lost' = (lost \/ failed')
         /\ status' = 0
         /\ configured' = configured \cup {<<int_ip, ext_ip>>}
  BY <1>2
<1>4. /\ one.failed \in BOOLEAN /\ one.more \in Int
      /\ one.t \in Tables /\ Linked(one.t)
      /\ ~one.failed => one.t.entry = [nat_lookup.entry EXCEPT ![int_ip] = ext_ip]
      /\ one.failed => one.t = NoTable
  BY <1>1, AddRuleOutcome
<1>5. /\ two.failed \in BOOLEAN /\ two.more \in Int
      /\ two.t \in Tables /\ Linked(two.t)
      /\ ~two.failed => two.t.entry = [one.t.entry EXCEPT ![ext_ip] = int_ip]
      /\ two.failed => two.t = NoTable
  BY <1>4, AddRuleOutcome
<1>6. TypeOK'
  <2>1. failures' \in 0 .. MaxFailures
    BY <1>3, BoundsAssumption DEF TypeOK, One
  <2>2. allocated' \in Int
    BY <1>3, <1>4, <1>5 DEF TypeOK
  <2>3. configured' \subseteq Address \X Address
    BY <1>3 DEF TypeOK
  <2>4. failed' \in BOOLEAN /\ lost' \in BOOLEAN
    BY <1>3, <1>4, <1>5 DEF TypeOK
  <2> QED BY <1>3, <1>5, <2>1, <2>2, <2>3, <2>4 DEF TypeOK
<1>7. WellFormed'
  <2>1. Linked(nat_lookup')
    BY <1>3, <1>5
  <2> QED BY <2>1 DEF WellFormed, Linked
<1>8. CASE ~one.failed /\ ~two.failed
  <2>1. lost' = lost
    BY <1>3, <1>8 DEF TypeOK
  <2> QED BY <1>3, <1>4, <1>5, <1>6, <1>7, <1>8, <2>1
<1>9. CASE one.failed \/ two.failed
  <2>1. lost' = TRUE
    BY <1>3, <1>9 DEF TypeOK
  <2>2. CASE two.failed
    BY <1>3, <1>5, <1>6, <1>7, <2>1, <2>2
  <2>3. CASE ~two.failed
    BY <1>3, <1>4, <1>5, <1>6, <1>7, <1>9, <2>1, <2>3
  <2> QED BY <1>5, <2>2, <2>3
<1> QED BY <1>4, <1>5, <1>8, <1>9

\* Types and links are preserved by every step.
LEMMA TableStep == TypeOK /\ WellFormed /\ [Next]_vars => TypeOK' /\ WellFormed'
<1> SUFFICES ASSUME TypeOK, WellFormed, [Next]_vars
             PROVE  TypeOK' /\ WellFormed'
  OBVIOUS
<1>1. CASE NatRule
  BY <1>1, NatRuleEffect DEF NatRule
<1>2. CASE nat_reset_lookup_table
  <2>1. nat_lookup' = NoTable
    BY <1>2 DEF nat_reset_lookup_table
  <2>2. Arrays(nat_lookup) \in Int
    BY ArraysType DEF TypeOK
  <2>3. WellFormed'
    BY <2>1, NoTableLinked DEF WellFormed, Linked
  <2>4. TypeOK'
    <3>1. failed' \in BOOLEAN /\ lost' \in BOOLEAN /\ status' \in {0, -1}
      BY <1>2 DEF nat_reset_lookup_table
    <3>2. allocated' \in Int /\ failures' \in 0 .. MaxFailures
      BY <1>2, <2>2 DEF TypeOK, nat_reset_lookup_table
    <3>3. configured' \subseteq Address \X Address
      BY <1>2 DEF nat_reset_lookup_table
    <3>4. nat_lookup' \in Tables
      BY <2>1, NoTableLinked
    <3> QED BY <3>1, <3>2, <3>3, <3>4 DEF TypeOK
  <2> QED BY <2>3, <2>4
<1>3. CASE UNCHANGED vars
  BY <1>3 DEF vars, TypeOK, WellFormed, Linked
<1> QED BY <1>1, <1>2, <1>3 DEF Next

\* The table is initially well formed.
LEMMA TableInit == Init => TypeOK /\ WellFormed
<1> SUFFICES ASSUME Init
             PROVE  TypeOK /\ WellFormed
  OBVIOUS
<1>1. failed \in BOOLEAN /\ lost \in BOOLEAN /\ status \in {0, -1}
  BY DEF Init
<1>2. allocated \in Int /\ failures \in 0 .. MaxFailures
  BY BoundsAssumption DEF Init
<1>3. nat_lookup \in Tables /\ Linked(nat_lookup)
  BY NoTableLinked DEF Init
<1>4. configured \subseteq Address \X Address
  BY DEF Init
<1> QED BY <1>1, <1>2, <1>3, <1>4 DEF TypeOK, WellFormed

\* Types of the table and its history.
THEOREM TypeCorrect == Spec => []TypeOK
  BY TableInit, TableStep, PTL DEF Spec

\* No entry is ever out of reach of nat_lookup_ip and nat_iter, whichever
\* allocations fail.
THEOREM AlwaysWellFormed == Spec => []WellFormed
  BY TableInit, TableStep, PTL DEF Spec

-----------------------------------------------------------------------------
\* In a well-formed table the translation of every address is its entry.
LEMMA Translation ==
  ASSUME TypeOK, WellFormed
  PROVE  /\ \A ip \in Address : nat_lookup_ip(nat_lookup, ip) = nat_lookup.entry[ip]
         /\ nat_lookup.entry \in [Address -> Address]
         /\ [ip \in Address |-> nat_lookup_ip(nat_lookup, ip)] = nat_lookup.entry
<1>1. nat_lookup \in Tables /\ Linked(nat_lookup)
  BY DEF TypeOK, WellFormed
<1>2. \A ip \in Address : nat_lookup_ip(nat_lookup, ip) = nat_lookup.entry[ip]
  BY <1>1, LookupEntry
<1>3. nat_lookup.entry \in [Address -> Address]
  BY <1>1 DEF Tables
<1> QED BY <1>2, <1>3

\* The same in the next state.
LEMMA TranslationNext ==
  ASSUME TypeOK', WellFormed'
  PROVE  /\ \A ip \in Address : nat_lookup_ip(nat_lookup', ip) = nat_lookup'.entry[ip]
         /\ nat_lookup'.entry \in [Address -> Address]
         /\ [ip \in Address |-> nat_lookup_ip(nat_lookup', ip)] = nat_lookup'.entry
<1>1. nat_lookup' \in Tables /\ Linked(nat_lookup')
  BY DEF TypeOK, WellFormed, Linked
<1>2. \A ip \in Address : nat_lookup_ip(nat_lookup', ip) = nat_lookup'.entry[ip]
  BY <1>1, LookupEntry
<1>3. nat_lookup'.entry \in [Address -> Address]
  BY <1>1 DEF Tables
<1> QED BY <1>2, <1>3

\* A table stays a map with both directions of every rule, or says that it lost
\* some: the three levels of arrays implement NatMap.
THEOREM Refinement == Spec => ImplementsMap
<1> DEFINE theMap == [ip \in Address |-> nat_lookup_ip(nat_lookup, ip)]
<1>1. Init => Map!MapInit
  <2> SUFFICES ASSUME Init
               PROVE  theMap = Map!Empty /\ (~lost) = TRUE
    BY DEF Map!MapInit
  <2>1. TypeOK /\ WellFormed
    BY TableInit
  <2>2. theMap = nat_lookup.entry
    BY <2>1, Translation
  <2>3. nat_lookup.entry = [ip \in Address |-> Zero]
    BY DEF Init, NoTable
  <2> QED BY <2>2, <2>3 DEF Init, Map!Empty
<1>2. TypeOK /\ WellFormed /\ [Next]_vars => [Map!MapNext]_<<theMap, ~lost>>
  <2> SUFFICES ASSUME TypeOK, WellFormed, [Next]_vars
               PROVE  [Map!MapNext]_<<theMap, ~lost>>
    OBVIOUS
  <2>1. TypeOK' /\ WellFormed'
    BY TableStep
  <2>2. theMap = nat_lookup.entry /\ theMap' = nat_lookup'.entry
    BY <2>1, Translation, TranslationNext
  <2>3. NoTable.entry = Map!Empty
    BY DEF NoTable, Map!Empty
  <2> HIDE DEF theMap
  <2>4. CASE NatRule
    <3>1. PICK int_ip \in Address, ext_ip \in Address : add_rules_to_table(int_ip, ext_ip)
      BY <2>4 DEF NatRule
    <3>2. \/ /\ lost' = lost
             /\ nat_lookup'.entry =
                  [nat_lookup.entry EXCEPT ![int_ip] = ext_ip, ![ext_ip] = int_ip]
          \/ /\ lost' = TRUE
             /\ nat_lookup'.entry \in
                  {NoTable.entry, [NoTable.entry EXCEPT ![ext_ip] = int_ip]}
      BY <3>1, NatRuleEffect
    <3>3. Map!AddRule(int_ip, ext_ip)
      BY <2>2, <2>3, <3>2 DEF Map!AddRule, theMap
    <3> QED BY <3>3 DEF Map!MapNext
  <2>5. CASE nat_reset_lookup_table
    <3>1. theMap' = Map!Empty
      BY <2>2, <2>3, <2>5 DEF nat_reset_lookup_table
    <3>2. (~lost)' = TRUE
      BY <2>5 DEF nat_reset_lookup_table
    <3>3. Map!Clear
      BY <3>1, <3>2 DEF Map!Clear, theMap
    <3> QED BY <3>3 DEF Map!MapNext
  <2>6. CASE UNCHANGED vars
    BY <2>2, <2>6 DEF vars
  <2> QED BY <2>4, <2>5, <2>6 DEF Next
<1>3. Spec => [](TypeOK /\ WellFormed)
  BY TableInit, TableStep, PTL DEF Spec
<1> QED BY <1>1, <1>2, <1>3, PTL DEF Spec, ImplementsMap, Map!MapSpec

-----------------------------------------------------------------------------
\* OnlyConfigured and BothWays, stated about the entries themselves.
EntriesConfigured ==
  \A ip \in Address :
    nat_lookup.entry[ip] # Zero =>
      \/ <<ip, nat_lookup.entry[ip]>> \in configured
      \/ <<nat_lookup.entry[ip], ip>> \in configured

EntriesBothWays ==
  ~lost => \A r \in Separate : /\ nat_lookup.entry[r[1]] = r[2]
                               /\ nat_lookup.entry[r[2]] = r[1]

\* A rule that is separate after another one was added was so before.
LEMMA SeparateBefore ==
  ASSUME NEW int_ip \in Address, NEW ext_ip \in Address, TypeOK,
         configured' = configured \cup {<<int_ip, ext_ip>>},
         NEW r \in Separate'
  PROVE  \/ r = <<int_ip, ext_ip>> /\ int_ip # ext_ip
         \/ /\ r \in Separate
            /\ r[1] \in Address /\ r[2] \in Address
            /\ int_ip \notin {r[1], r[2]} /\ ext_ip \notin {r[1], r[2]}
<1>1. CASE r = <<int_ip, ext_ip>>
  BY <1>1 DEF Separate
<1>2. CASE r # <<int_ip, ext_ip>>
  <2>1. r \in configured /\ r \in configured' /\ r[1] # r[2]
    BY <1>2 DEF Separate
  <2>2. r \in Separate
    BY <2>1 DEF Separate
  <2>3. {int_ip, ext_ip} \cap {r[1], r[2]} = {}
    <3>1. <<int_ip, ext_ip>> \in configured'
      OBVIOUS
    <3>2. \A q \in configured' : q # r => {q[1], q[2]} \cap {r[1], r[2]} = {}
      BY DEF Separate
    <3>3. <<int_ip, ext_ip>>[1] = int_ip /\ <<int_ip, ext_ip>>[2] = ext_ip
      OBVIOUS
    <3> QED BY <1>2, <3>1, <3>2, <3>3
  <2>4. r[1] \in Address /\ r[2] \in Address
    BY <2>1 DEF TypeOK
  <2> QED BY <2>2, <2>3, <2>4
<1> QED BY <1>1, <1>2

\* Both facts are preserved by every step.
LEMMA EntriesStep ==
  ASSUME TypeOK, WellFormed, EntriesConfigured, EntriesBothWays, [Next]_vars
  PROVE  EntriesConfigured' /\ EntriesBothWays'
<1>1. CASE NatRule
  <2>1. PICK int_ip \in Address, ext_ip \in Address : add_rules_to_table(int_ip, ext_ip)
    BY <1>1 DEF NatRule
  <2>2. configured' = configured \cup {<<int_ip, ext_ip>>}
    BY <2>1, NatRuleEffect
  <2>3. /\ nat_lookup.entry \in [Address -> Address]
        /\ NoTable.entry = [ip \in Address |-> Zero]
    BY Translation DEF NoTable
  <2>4. CASE /\ lost' = lost
             /\ nat_lookup'.entry =
                  [nat_lookup.entry EXCEPT ![int_ip] = ext_ip, ![ext_ip] = int_ip]
    <3>1. EntriesConfigured'
      BY <2>2, <2>3, <2>4 DEF EntriesConfigured
    <3>2. ASSUME ~lost', NEW r \in Separate'
          PROVE  nat_lookup'.entry[r[1]] = r[2] /\ nat_lookup'.entry[r[2]] = r[1]
      <4>1. CASE r = <<int_ip, ext_ip>> /\ int_ip # ext_ip
        BY <2>3, <2>4, <4>1
      <4>2. CASE /\ r \in Separate
                 /\ r[1] \in Address /\ r[2] \in Address
                 /\ int_ip \notin {r[1], r[2]} /\ ext_ip \notin {r[1], r[2]}
        BY <2>3, <2>4, <3>2, <4>2 DEF EntriesBothWays
      <4> QED BY <2>2, <4>1, <4>2, SeparateBefore
    <3>3. EntriesBothWays'
      BY <3>2 DEF EntriesBothWays
    <3> QED BY <3>1, <3>3
  <2>5. CASE /\ lost' = TRUE
             /\ nat_lookup'.entry \in
                  {NoTable.entry, [NoTable.entry EXCEPT ![ext_ip] = int_ip]}
    <3>1. EntriesConfigured'
      BY <2>2, <2>3, <2>5 DEF EntriesConfigured
    <3>2. EntriesBothWays'
      BY <2>5 DEF EntriesBothWays
    <3> QED BY <3>1, <3>2
  <2> QED BY <2>1, <2>4, <2>5, NatRuleEffect
<1>2. CASE nat_reset_lookup_table
  <2>1. /\ configured' = {}
        /\ \A ip \in Address : nat_lookup'.entry[ip] = Zero
    BY <1>2, NoTableLinked DEF nat_reset_lookup_table
  <2> QED BY <2>1 DEF EntriesConfigured, EntriesBothWays, Separate
<1>3. CASE UNCHANGED vars
  BY <1>3 DEF vars, EntriesConfigured, EntriesBothWays, Separate
<1> QED BY <1>1, <1>2, <1>3 DEF Next

\* The strengthened invariant holds in every state.
LEMMA EntriesInvariant ==
  Spec => [](TypeOK /\ WellFormed /\ EntriesConfigured /\ EntriesBothWays)
<1>1. Init => TypeOK /\ WellFormed /\ EntriesConfigured /\ EntriesBothWays
  <2> SUFFICES ASSUME Init
               PROVE  EntriesConfigured /\ EntriesBothWays
    BY TableInit
  <2>1. configured = {} /\ \A ip \in Address : nat_lookup.entry[ip] = Zero
    BY NoTableLinked DEF Init
  <2> QED BY <2>1 DEF EntriesConfigured, EntriesBothWays, Separate
<1>2. TypeOK /\ WellFormed /\ EntriesConfigured /\ EntriesBothWays /\ [Next]_vars
        => (TypeOK /\ WellFormed /\ EntriesConfigured /\ EntriesBothWays)'
  BY TableStep, EntriesStep
<1> QED BY <1>1, <1>2, PTL DEF Spec

\* A translation found in the table was asked for by a rule of the configuration
\* in use, whatever allocations have failed before.
THEOREM NeverInventsTranslation == Spec => []OnlyConfigured
<1>1. TypeOK /\ WellFormed /\ EntriesConfigured => OnlyConfigured
  <2> SUFFICES ASSUME TypeOK, WellFormed, EntriesConfigured
               PROVE  OnlyConfigured
    OBVIOUS
  <2>1. \A ip \in Address : nat_lookup_ip(nat_lookup, ip) = nat_lookup.entry[ip]
    BY Translation
  <2> QED BY <2>1 DEF OnlyConfigured, EntriesConfigured
<1> QED BY <1>1, EntriesInvariant, PTL

\* As long as no allocation has failed, a rule whose addresses occur in no other
\* one translates in both directions.
THEOREM RulesTranslateBothWays == Spec => []BothWays
<1>1. TypeOK /\ WellFormed /\ EntriesBothWays => BothWays
  <2> SUFFICES ASSUME TypeOK, WellFormed, EntriesBothWays, ~lost, NEW r \in Separate
               PROVE  /\ nat_lookup_ip(nat_lookup, r[1]) = r[2]
                      /\ nat_lookup_ip(nat_lookup, r[2]) = r[1]
    BY DEF BothWays
  <2>1. \A ip \in Address : nat_lookup_ip(nat_lookup, ip) = nat_lookup.entry[ip]
    BY Translation
  <2>2. r[1] \in Address /\ r[2] \in Address
    BY DEF Separate, TypeOK
  <2> QED BY <2>1, <2>2 DEF EntriesBothWays
<1> QED BY <1>1, EntriesInvariant, PTL

-----------------------------------------------------------------------------
(* The arrays that are allocated. *)

\* The parts of Arrays are natural numbers.
LEMMA LevelSizes ==
  ASSUME NEW t \in Tables
  PROVE  /\ IsFiniteSet(t.snd) /\ IsFiniteSet(t.thr)
         /\ Cardinality(t.snd) \in Nat /\ Cardinality(t.thr) \in Nat
         /\ \A s \in t.snd : Cardinality(t.snd) >= 1
<1>1. t.snd \subseteq Fst /\ t.thr \subseteq Fst \X Snd
  BY DEF Tables
<1>2. IsFiniteSet(t.snd) /\ IsFiniteSet(t.thr)
  BY <1>1, FiniteAssumption, FS_Subset, FS_Product
<1>3. Cardinality(t.snd) \in Nat /\ Cardinality(t.thr) \in Nat
  BY <1>2, FS_CardinalityType
<1>4. t.snd # {} => Cardinality(t.snd) # 0
  BY <1>2, FS_EmptySet
<1> QED BY <1>2, <1>3, <1>4

\* The table that is not there has no array.
LEMMA NoArrays == Arrays(NoTable) = 0
  BY FS_EmptySet DEF Arrays, NoTable, One

\* An error path frees arrays of the table, and none that it has not.
LEMMA AddRuleArrays ==
  ASSUME NEW t \in Tables, Linked(t), NEW key \in Address, NEW value \in Address,
         NEW o \in add_rule_to_table(t, key, value)
  PROVE  /\ o.more \in Int /\ Arrays(o.t) \in Int /\ Arrays(t) \in Int
         /\ Arrays(o.t) <= Arrays(t) + o.more
         /\ ~o.failed => Arrays(o.t) = Arrays(t) + o.more
<1> DEFINE st == Store(t, key, value)
           m2 == -One(t.root)
           m3 == -One(t.root) - One(fstb(key) \in t.snd)
<1>1. st \in Tables
  BY StoreLinked
<1>2. Arrays(st) \in Int /\ Arrays(t) \in Int
  BY <1>1, ArraysType
<1>3. /\ Cardinality(t.snd) \in Nat /\ Cardinality(t.thr) \in Nat
      /\ fstb(key) \in t.snd => Cardinality(t.snd) >= 1
  BY LevelSizes
<1>4. /\ m2 \in Int /\ m3 \in Int
      /\ 0 <= Arrays(t) + m2 /\ 0 <= Arrays(t) + m3 /\ 0 <= Arrays(t)
  BY <1>3 DEF Arrays, One
<1>5. \/ o = [t |-> st, failed |-> FALSE, more |-> Arrays(st) - Arrays(t)]
      \/ \E m \in {0, m2, m3} : o = [t |-> NoTable, failed |-> TRUE, more |-> m]
  BY DEF add_rule_to_table
<1> HIDE DEF st, m2, m3
<1>6. CASE o = [t |-> st, failed |-> FALSE, more |-> Arrays(st) - Arrays(t)]
  BY <1>2, <1>6
<1>7. ASSUME NEW m \in {0, m2, m3}, o = [t |-> NoTable, failed |-> TRUE, more |-> m]
      PROVE  /\ o.more \in Int /\ Arrays(o.t) = 0 /\ o.failed
             /\ 0 <= Arrays(t) + o.more
  BY <1>2, <1>4, <1>7, NoArrays
<1> QED BY <1>2, <1>5, <1>6, <1>7

\* A step keeps the account of the arrays.
LEMMA ArraysStep ==
  ASSUME TypeOK, WellFormed, NothingLeaks, [Next]_vars
  PROVE  NothingLeaks'
<1>1. nat_lookup \in Tables /\ Linked(nat_lookup) /\ allocated \in Int /\ failures \in Nat
  BY BoundsAssumption DEF TypeOK, WellFormed
<1>2. Arrays(nat_lookup) \in Int
  BY <1>1, ArraysType
<1>3. CASE NatRule
  <2>1. PICK int_ip \in Address, ext_ip \in Address : add_rules_to_table(int_ip, ext_ip)
    BY <1>3 DEF NatRule
  <2>2. PICK one \in add_rule_to_table(nat_lookup, int_ip, ext_ip) :
        \E two \in add_rule_to_table(one.t, ext_ip, int_ip) :
           /\ nat_lookup' = two.t
           /\ failures' = failures + One(one.failed) + One(two.failed)
           /\ allocated' = allocated + one.more + two.more
    BY <2>1 DEF add_rules_to_table
  <2>3. PICK two \in add_rule_to_table(one.t, ext_ip, int_ip) :
           /\ nat_lookup' = two.t
           /\ failures' = failures + One(one.failed) + One(two.failed)
           /\ allocated' = allocated + one.more + two.more
    BY <2>2
  <2>4. one.t \in Tables /\ Linked(one.t) /\ one.failed \in BOOLEAN
    BY <1>1, AddRuleOutcome
  <2>5. /\ one.more \in Int /\ Arrays(one.t) \in Int
        /\ Arrays(one.t) <= Arrays(nat_lookup) + one.more
        /\ ~one.failed => Arrays(one.t) = Arrays(nat_lookup) + one.more
    BY <1>1, AddRuleArrays
  <2>6. /\ two.more \in Int /\ Arrays(two.t) \in Int
        /\ Arrays(two.t) <= Arrays(one.t) + two.more
        /\ ~two.failed => Arrays(two.t) = Arrays(one.t) + two.more
    BY <2>4, AddRuleArrays
  <2>7. two.failed \in BOOLEAN
    BY <2>4, AddRuleOutcome
  <2>8. allocated' >= Arrays(two.t)
    BY <1>1, <1>2, <2>3, <2>5, <2>6 DEF NothingLeaks
  <2>9. failures' = 0 => allocated' = Arrays(two.t)
    <3>1. failures' = 0 => failures = 0 /\ ~one.failed /\ ~two.failed
      BY <1>1, <2>3, <2>4, <2>7 DEF One
    <3> QED BY <1>1, <1>2, <2>3, <2>5, <2>6, <3>1 DEF NothingLeaks
  <2>10. Arrays(nat_lookup') = Arrays(two.t)
    BY <2>3
  <2> QED BY <2>8, <2>9, <2>10 DEF NothingLeaks, Arrays
<1>4. CASE nat_reset_lookup_table
  <2>1. Arrays(nat_lookup') = 0
    BY <1>4, NoArrays DEF nat_reset_lookup_table
  <2>2. allocated' = allocated - Arrays(nat_lookup) /\ failures' = failures
    BY <1>4 DEF nat_reset_lookup_table
  <2>3. allocated' >= 0 /\ (failures' = 0 => allocated' = 0)
    BY <1>1, <1>2, <2>2 DEF NothingLeaks
  <2> QED BY <2>1, <2>3 DEF NothingLeaks, Arrays
<1>5. CASE UNCHANGED vars
  BY <1>5 DEF vars, NothingLeaks, Arrays
<1> QED BY <1>3, <1>4, <1>5 DEF Next

\* Freeing the configuration gives every array back when no allocation has
\* failed, and never frees one that is not allocated, whichever fail.
THEOREM ArraysAccounted == Spec => []NothingLeaks
<1>1. Init => NothingLeaks
  BY NoArrays DEF Init, NothingLeaks
<1>2. TypeOK /\ WellFormed /\ NothingLeaks /\ [Next]_vars => NothingLeaks'
  BY ArraysStep
<1>3. Spec => [](TypeOK /\ WellFormed)
  BY TableInit, TableStep, PTL DEF Spec
<1> QED BY <1>1, <1>2, <1>3, PTL DEF Spec

-----------------------------------------------------------------------------
(* The number of rules. *)

FiniteRules == IsFiniteSet(configured)

\* A configuration has finitely many rules.
LEMMA RulesFinite == Spec => []FiniteRules
<1>1. Init => FiniteRules
  BY FS_EmptySet DEF Init, FiniteRules
<1>2. FiniteRules /\ [Next]_vars => FiniteRules'
  <2> SUFFICES ASSUME FiniteRules, [Next]_vars
               PROVE  IsFiniteSet(configured')
    BY DEF FiniteRules
  <2>1. CASE NatRule
    <3>1. PICK r : configured' = configured \cup {r}
      BY <2>1 DEF NatRule, add_rules_to_table
    <3> QED BY <3>1, FS_AddElement DEF FiniteRules
  <2>2. CASE nat_reset_lookup_table
    BY <2>2, FS_EmptySet DEF nat_reset_lookup_table
  <2>3. CASE UNCHANGED vars
    BY <2>3 DEF vars, FiniteRules
  <2> QED BY <2>1, <2>2, <2>3 DEF Next
<1> QED BY <1>1, <1>2, PTL DEF Spec

\* One side of the rules has as many addresses as there are rules.
LEMMA OneSide ==
  ASSUME NEW S, IsFiniteSet(S), NEW T, NEW k,
         \A r, q \in S : r[k] = q[k] => r = q,
         \A a : a \in T <=> \E r \in S : a = r[k]
  PROVE  IsFiniteSet(T) /\ Cardinality(T) = Cardinality(S)
<1> DEFINE f == [r \in S |-> r[k]]
<1>1. f \in [S -> T]
  OBVIOUS
<1>2. f \in Injection(S, T)
  BY <1>1 DEF Injection, IsInjective
<1>3. f \in Surjection(S, T)
  BY <1>1 DEF Surjection
<1> HIDE DEF f
<1> QED BY <1>2, <1>3, FS_Surjection

\* When no rule was lost, rules do not overlap and 0.0.0.0 is not used, the
\* entries are the two addresses of every rule, so half of them is the number
\* of rules, whatever the configuration.
THEOREM NumberOfRules == Spec => []RulesCounted
<1>1. ASSUME TypeOK, WellFormed, EntriesConfigured, EntriesBothWays, FiniteRules
      PROVE  RulesCounted
  <2> SUFFICES ASSUME ~lost, Separate = configured, \A r \in configured : Zero \notin {r[1], r[2]}
               PROVE  nat_number_of_rules(nat_lookup) = Cardinality(configured)
    BY DEF RulesCounted
  <2> DEFINE n == Cardinality(configured)
             Used == {ip \in Address : nat_lookup_ip(nat_lookup, ip) # Zero}
             Ints == {r[1] : r \in configured}
             Exts == {r[2] : r \in configured}
  <2>1. ASSUME NEW r \in configured
        PROVE  /\ r[1] \in Address /\ r[2] \in Address /\ r[1] # Zero /\ r[2] # Zero /\ r[1] # r[2]
               /\ nat_lookup.entry[r[1]] = r[2] /\ nat_lookup.entry[r[2]] = r[1]
    BY <1>1 DEF TypeOK, Separate, EntriesBothWays
  <2>2. \A r, q \in configured : r # q => /\ r[1] # q[1] /\ r[2] # q[2]
                                          /\ r[1] # q[2] /\ r[2] # q[1]
    BY DEF Separate
  <2>3. \A ip \in Address : ip \in Used <=> nat_lookup.entry[ip] # Zero
    BY <1>1, Translation
  <2>4. Used = Ints \cup Exts
    <3>1. ASSUME NEW ip \in Used PROVE ip \in Ints \cup Exts
      <4>1. \/ <<ip, nat_lookup.entry[ip]>> \in configured
            \/ <<nat_lookup.entry[ip], ip>> \in configured
        BY <1>1, <2>3 DEF EntriesConfigured
      <4> QED BY <4>1
    <3>2. Ints \subseteq Used /\ Exts \subseteq Used
      BY <2>1, <2>3
    <3> QED BY <3>1, <3>2
  <2>5. Ints \cap Exts = {}
    BY <2>1, <2>2
  <2>6. IsFiniteSet(Ints) /\ Cardinality(Ints) = n
    <3>1. (\A r, q \in configured : r[1] = q[1] => r = q)
      BY <2>2
    <3>2. \A a : a \in Ints <=> \E r \in configured : a = r[1]
      OBVIOUS
    <3> HIDE DEF Ints
    <3> QED BY <1>1, <3>1, <3>2, OneSide DEF FiniteRules
  <2>7. IsFiniteSet(Exts) /\ Cardinality(Exts) = n
    <3>1. (\A r, q \in configured : r[2] = q[2] => r = q)
      BY <2>2
    <3>2. \A a : a \in Exts <=> \E r \in configured : a = r[2]
      OBVIOUS
    <3> HIDE DEF Exts
    <3> QED BY <1>1, <3>1, <3>2, OneSide DEF FiniteRules
  <2>8. n \in Nat
    BY <1>1, FS_CardinalityType DEF FiniteRules
  <2> HIDE DEF Ints, Exts, n
  <2>9. Cardinality(Ints \cup Exts) = n + n - 0
    BY <2>5, <2>6, <2>7, FS_Union, FS_EmptySet
  <2>10. Cardinality(Used) \div 2 = n
    <3>1. (n + n - 0) \div 2 = n
      BY <2>8
    <3> HIDE DEF Used
    <3> QED BY <2>4, <2>9, <3>1
  <2> QED BY <2>10 DEF nat_number_of_rules, n
<1>2. TypeOK /\ WellFormed /\ EntriesConfigured /\ EntriesBothWays /\ FiniteRules => RulesCounted
  BY <1>1
<1> QED BY <1>2, EntriesInvariant, RulesFinite, PTL

=============================================================================
