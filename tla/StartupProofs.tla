---------------------------- MODULE StartupProofs ----------------------------
(* Proofs about the start of the program: loading and freeing a             *)
(* configuration loses no block that is not known to be lost and leaves no  *)
(* file open, for every text, and the set-up of the ports is that of        *)
(* PortSetup.                                                               *)
EXTENDS Startup, PortSetupProofs, FiniteSetTheorems, SequenceTheorems

-----------------------------------------------------------------------------
(* The inductive invariant. *)

Nonterminals == {"config_file", "config_lines", "extra_ips", "rules_content", "rules_stmt",
                 "cond"}

\* The symbols with a semantic value.
Valued == {"extra_ips", "rules_content", "rules_stmt", "cond"}

\* A tree: the paths are finitely many and hold with a node all nodes above it.
IsTree(t) ==
  /\ IsFiniteSet(DOMAIN t) /\ DOMAIN t \subseteq Seq({1, 2})
  /\ \A p \in DOMAIN t : /\ \A n \in 0 .. Len(p) : SubSeq(p, 1, n) \in DOMAIN t
                         /\ t[p].type # "wild"

IsList(t) == \A p \in DOMAIN t : t[p].type = "IP" /\ \A i \in DOMAIN p : p[i] = 2

GoodSymbol(sym) ==
  /\ IsTree(sym.v)
  /\ sym.tok.t = "extra_ips" => IsList(sym.v)
  /\ sym.tok.t \notin Valued => sym.v = NULL
  /\ sym.tok.t = "port" => sym.tok.n \in PortNumbers

IsStack(s) ==
  /\ s \in Seq({s[i] : i \in DOMAIN s})
  /\ \A i \in DOMAIN s : GoodSymbol(s[i])

\* Only the lowest symbol is config_file.
OnConfigFile(s) ==
  Len(s) > 0 /\ \A i \in 1 .. Len(s) : s[i].tok.t = "config_file" <=> i = 1

\* The parser works on a stack above config_file, app_config_free on a whole
\* configuration; files are closed as often as they are opened.
ShapeInv ==
  /\ IsStack(stack)
  /\ phase = "parsing" => OnConfigFile(stack)
  /\ phase # "parsing" => stack = <<>>
  /\ look.t # "config_file" /\ (look.t = "port" => look.n \in PortNumbers)
  /\ config = [ports |-> [n \in 0 .. 1 |-> config.ports[n]],
               nat_lookup |-> config.nat_lookup, rules |-> config.rules]
  /\ \A n \in 0 .. 1 : IsTree(config.ports[n]) /\ IsList(config.ports[n])
  /\ config.rules = Wild \/ IsTree(config.rules)
  /\ files \in Int /\ open = files
  /\ phase \in {"start", "failed", "loaded", "freed"} => files = 0

\* The blocks of a configuration, but for the structure itself.
Held(c) == Blocks(c.ports[0]) + Blocks(c.ports[1]) + Blocks(c.rules)

\* Every block that is allocated is lost, or on the stack, or part of the
\* configuration.
AccountInv ==
  /\ heap \in Int /\ lost \in Int
  /\ phase = "start" => config = EmptyConfig /\ heap = 0 /\ lost = 0
  /\ phase \in {"failed", "freed"} => heap = lost
  /\ phase \in {"parsing", "accepted", "aborted", "loaded"} =>
       heap = lost + OnStack + Held(config) + 1

ParseInv == ShapeInv /\ AccountInv

-----------------------------------------------------------------------------
(* Trees. *)

\* A path with one step more at its start.
LEMMA Prepend ==
  ASSUME NEW a \in {1, 2}, NEW p \in Seq({1, 2})
  PROVE  /\ <<a>> \o p \in Seq({1, 2}) /\ <<a>> \o p # <<>>
         /\ Len(<<a>> \o p) = Len(p) + 1
         /\ (<<a>> \o p)[1] = a
         /\ Tail(<<a>> \o p) = p
         /\ \A i \in 1 .. Len(p) : (<<a>> \o p)[i + 1] = p[i]
<1>1. <<a>> \in Seq({1, 2}) /\ Len(<<a>>) = 1 /\ <<a>>[1] = a
  OBVIOUS
<1> DEFINE q == <<a>> \o p
<1>2. /\ q \in Seq({1, 2}) /\ Len(q) = Len(p) + 1 /\ q[1] = a
      /\ \A i \in 1 .. Len(p) : q[i + 1] = p[i]
  BY <1>1, ConcatProperties
<1>3. q # <<>>
  BY <1>2
<1>4. Tail(q) = p
  BY <1>1, HeadTailProperties, ConcatProperties
<1> QED BY <1>2, <1>3, <1>4

\* Its prefixes are the root and the prefixes of the path, with the step before.
LEMMA PrependPrefix ==
  ASSUME NEW a \in {1, 2}, NEW p \in Seq({1, 2}), NEW n \in 0 .. Len(p)
  PROVE  SubSeq(<<a>> \o p, 1, n + 1) = <<a>> \o SubSeq(p, 1, n)
<1> DEFINE q == <<a>> \o p
           r == SubSeq(p, 1, n)
<1>1. /\ q \in Seq({1, 2}) /\ Len(q) = Len(p) + 1 /\ q[1] = a /\ Len(p) \in Nat
      /\ \A i \in 1 .. Len(p) : q[i + 1] = p[i]
  BY Prepend
<1>2. r \in Seq({1, 2}) /\ Len(r) = n /\ \A i \in 1 .. n : r[i] = p[i]
  <2>1. \A i \in 1 .. n : p[i] \in {1, 2}
    BY <1>1
  <2> QED BY <2>1, SubSeqProperties
<1>3. /\ <<a>> \o r \in Seq({1, 2}) /\ Len(<<a>> \o r) = n + 1 /\ (<<a>> \o r)[1] = a
      /\ \A i \in 1 .. n : (<<a>> \o r)[i + 1] = r[i]
  BY <1>2, Prepend
<1>4. /\ SubSeq(q, 1, n + 1) \in Seq({1, 2}) /\ Len(SubSeq(q, 1, n + 1)) = n + 1
      /\ \A i \in 1 .. n + 1 : SubSeq(q, 1, n + 1)[i] = q[i]
  <2>1. \A i \in 1 .. n + 1 : q[i] \in {1, 2}
    BY <1>1
  <2> QED BY <1>1, <2>1, SubSeqProperties
<1>5. \A i \in 1 .. n + 1 : SubSeq(q, 1, n + 1)[i] = (<<a>> \o r)[i]
  <2> SUFFICES ASSUME NEW i \in 1 .. n + 1 PROVE q[i] = (<<a>> \o r)[i]
    BY <1>4
  <2>1. CASE i = 1
    BY <1>1, <1>3, <2>1
  <2>2. CASE i # 1
    <3>1. i - 1 \in 1 .. n /\ i - 1 \in 1 .. Len(p) /\ (i - 1) + 1 = i
      BY <1>1, <2>2
    <3>2. q[(i - 1) + 1] = p[i - 1] /\ (<<a>> \o r)[(i - 1) + 1] = r[i - 1]
          /\ r[i - 1] = p[i - 1]
      BY <1>1, <1>2, <1>3, <3>1
    <3> QED BY <3>1, <3>2
  <2> QED BY <2>1, <2>2
<1> HIDE DEF q, r
<1>6. SubSeq(q, 1, n + 1) = <<a>> \o r
  BY <1>3, <1>4, <1>5, SeqEqual
<1> QED BY <1>6 DEF q, r

-----------------------------------------------------------------------------
(* Counting. *)

\* A set onto which another is mapped one to one has as many elements.
LEMMA SameCount ==
  ASSUME NEW S, NEW T, NEW f \in [S -> T], IsFiniteSet(S),
         \A x, y \in S : f[x] = f[y] => x = y,
         \A y \in T : \E x \in S : f[x] = y
  PROVE  IsFiniteSet(T) /\ Cardinality(T) = Cardinality(S)
<1>1. f \in Bijection(S, T)
  BY DEF Bijection, Injection, Surjection, IsInjective
<1> QED BY <1>1, FS_Bijection DEF ExistsBijection

LEMMA DisjointCount ==
  ASSUME NEW S, NEW T, IsFiniteSet(S), IsFiniteSet(T), S \cap T = {}
  PROVE  /\ IsFiniteSet(S \cup T)
         /\ Cardinality(S \cup T) = Cardinality(S) + Cardinality(T)
         /\ Cardinality(S) \in Nat /\ Cardinality(T) \in Nat
BY FS_Union, FS_EmptySet, FS_CardinalityType

\* Pairs with a fixed component are as many as there are other components.
LEMMA PairCount ==
  ASSUME NEW S, NEW c, IsFiniteSet(S)
  PROVE  /\ IsFiniteSet({<<x, c>> : x \in S}) /\ Cardinality({<<x, c>> : x \in S}) = Cardinality(S)
         /\ IsFiniteSet({<<c, x>> : x \in S}) /\ Cardinality({<<c, x>> : x \in S}) = Cardinality(S)
<1>1. PICK T : T = {<<x, c>> : x \in S}
  OBVIOUS
<1>2. PICK U : U = {<<c, x>> : x \in S}
  OBVIOUS
<1>3. PICK f : f = [x \in S |-> <<x, c>>]
  OBVIOUS
<1>4. PICK g : g = [x \in S |-> <<c, x>>]
  OBVIOUS
<1>5. f \in [S -> T] /\ (\A y \in T : \E x \in S : f[x] = y)
      /\ (\A x, y \in S : f[x] = f[y] => x = y)
  BY <1>1, <1>3
<1>6. g \in [S -> U] /\ (\A y \in U : \E x \in S : g[x] = y)
      /\ (\A x, y \in S : g[x] = g[y] => x = y)
  BY <1>2, <1>4
<1>7. IsFiniteSet(T) /\ Cardinality(T) = Cardinality(S)
  BY <1>5, SameCount
<1>8. IsFiniteSet(U) /\ Cardinality(U) = Cardinality(S)
  BY <1>6, SameCount
<1> QED BY <1>1, <1>2, <1>7, <1>8

\* Blocks of a subtree, seen from the node above.
Below(a, B) == {<< <<a>> \o b[1], b[2] >> : b \in B}

Places == {<<path, kind>> : path \in Seq({1, 2}), kind \in {"node", "data"}}

LEMMA BelowCount ==
  ASSUME NEW a \in {1, 2}, NEW B, B \subseteq Places, IsFiniteSet(B)
  PROVE  /\ IsFiniteSet(Below(a, B)) /\ Cardinality(Below(a, B)) = Cardinality(B)
         /\ \A c \in Below(a, B) : c[1] # <<>> /\ c[1][1] = a
<1> DEFINE f == [b \in B |-> << <<a>> \o b[1], b[2] >>]
<1>1. \A b \in B : /\ b = <<b[1], b[2]>> /\ b[1] \in Seq({1, 2})
  BY DEF Places
<1>2. \A b \in B : /\ <<a>> \o b[1] # <<>> /\ (<<a>> \o b[1])[1] = a
                   /\ Tail(<<a>> \o b[1]) = b[1]
  BY <1>1, Prepend
<1>3. f \in [B -> Below(a, B)] /\ \A y \in Below(a, B) : \E x \in B : f[x] = y
  BY DEF Below
<1>4. \A x, y \in B : f[x] = f[y] => x = y
  <2> SUFFICES ASSUME NEW x \in B, NEW y \in B, f[x] = f[y] PROVE x = y
    OBVIOUS
  <2>1. <<a>> \o x[1] = <<a>> \o y[1] /\ x[2] = y[2]
    OBVIOUS
  <2>2. Tail(<<a>> \o x[1]) = Tail(<<a>> \o y[1])
    BY <2>1
  <2>3. Tail(<<a>> \o x[1]) = x[1] /\ Tail(<<a>> \o y[1]) = y[1]
    BY <1>2
  <2> QED BY <2>1, <2>2, <2>3, <1>1
<1>5. \A c \in Below(a, B) : c[1] # <<>> /\ c[1][1] = a
  BY <1>2 DEF Below
<1> HIDE DEF f
<1> QED BY <1>3, <1>4, <1>5, SameCount

-----------------------------------------------------------------------------
(* Blocks of trees. *)

LEMMA NoBlocks ==
  /\ IsTree(NULL) /\ IsList(NULL) /\ BlocksOf(NULL) = {} /\ Blocks(NULL) = 0
  /\ BlocksOf(Wild) = {} /\ Blocks(Wild) = 0
<1>1. DOMAIN NULL = {}
  BY DEF NULL
<1>2. BlocksOf(NULL) = {}
  BY <1>1 DEF BlocksOf, BlocksAt
<1>3. BlocksOf(Wild) = {}
  <2>1. {path \in DOMAIN Wild : Wild[path].type # "wild"} = {}
    BY DEF Wild, Label
  <2> QED BY <2>1 DEF BlocksOf, BlocksAt
<1> QED BY <1>1, <1>2, <1>3, FS_EmptySet DEF Blocks, IsTree, IsList

\* The blocks of a tree are finitely many.
LEMMA TreeBlocks ==
  ASSUME NEW t, IsTree(t)
  PROVE  /\ BlocksOf(t) = BlocksAt(t, DOMAIN t)
         /\ IsFiniteSet(BlocksOf(t)) /\ BlocksOf(t) \subseteq Places
         /\ Blocks(t) \in Nat
<1>1. {path \in DOMAIN t : t[path].type # "wild"} = DOMAIN t
  BY DEF IsTree
<1>2. BlocksOf(t) = BlocksAt(t, DOMAIN t)
  BY <1>1 DEF BlocksOf
<1>3. PICK D : D = {path \in DOMAIN t : HasData(t[path])}
  OBVIOUS
<1>4. D \subseteq DOMAIN t /\ IsFiniteSet(DOMAIN t) /\ DOMAIN t \subseteq Seq({1, 2})
  BY <1>3 DEF IsTree
<1>5. IsFiniteSet(D)
  BY <1>4, FS_Subset
<1>6. /\ IsFiniteSet({<<path, "node">> : path \in DOMAIN t})
      /\ IsFiniteSet({<<path, "data">> : path \in D})
  BY <1>4, <1>5, PairCount, Zenon
<1>7. BlocksOf(t) = {<<path, "node">> : path \in DOMAIN t} \cup {<<path, "data">> : path \in D}
  BY <1>2, <1>3, Zenon DEF BlocksAt
<1>8. IsFiniteSet(BlocksOf(t))
  BY <1>6, <1>7, FS_Union, Zenon
<1>9. BlocksOf(t) \subseteq Places
  BY <1>4, <1>7 DEF Places
<1> QED BY <1>2, <1>8, <1>9, FS_CardinalityType DEF Blocks

\* A block is a node, or the data of a node.
IsBlock(t, a, c) ==
  \E p \in DOMAIN t : c = <<a \o p, "node">> \/ (c = <<a \o p, "data">> /\ HasData(t[p]))

LEMMA InBlocks ==
  ASSUME NEW t, IsTree(t), NEW c
  PROVE  c \in BlocksOf(t) <=> IsBlock(t, <<>>, c)
<1>1. BlocksOf(t) = BlocksAt(t, DOMAIN t)
  BY TreeBlocks
<1>2. PICK D : D = {p \in DOMAIN t : HasData(t[p])}
  OBVIOUS
<1>3. BlocksOf(t) = {<<path, "node">> : path \in DOMAIN t} \cup {<<path, "data">> : path \in D}
  BY <1>1, <1>2, Zenon DEF BlocksAt
<1>4. \A p : p \in D <=> p \in DOMAIN t /\ HasData(t[p])
  BY <1>2, Zenon
<1>5. \A p \in DOMAIN t : <<>> \o p = p
  BY EmptySeq, ConcatEmptySeq DEF IsTree
<1>6. c \in BlocksOf(t) <=>
        \E p \in DOMAIN t : c = <<p, "node">> \/ (c = <<p, "data">> /\ HasData(t[p]))
  BY <1>3, <1>4, Zenon
<1> QED BY <1>5, <1>6, Zenon DEF IsBlock

LEMMA InBelow ==
  ASSUME NEW a, NEW t, IsTree(t), NEW c
  PROVE  c \in Below(a, BlocksOf(t)) <=> IsBlock(t, <<a>>, c)
<1>1. c \in Below(a, BlocksOf(t)) <=> \E b \in BlocksOf(t) : c = << <<a>> \o b[1], b[2] >>
  BY DEF Below
<1>2. \A p \in DOMAIN t : <<>> \o p = p
  BY EmptySeq, ConcatEmptySeq DEF IsTree
<1>3. ASSUME NEW b \in BlocksOf(t), c = << <<a>> \o b[1], b[2] >>
      PROVE  IsBlock(t, <<a>>, c)
  <2>1. IsBlock(t, <<>>, b)
    BY InBlocks
  <2>2. PICK p \in DOMAIN t : b = <<p, "node">> \/ (b = <<p, "data">> /\ HasData(t[p]))
    BY <1>2, <2>1 DEF IsBlock
  <2> QED BY <2>2, <1>3 DEF IsBlock
<1>4. ASSUME NEW p \in DOMAIN t, NEW kind \in {"node", "data"}, c = << <<a>> \o p, kind >>,
             kind = "data" => HasData(t[p])
      PROVE  \E b \in BlocksOf(t) : c = << <<a>> \o b[1], b[2] >>
  <2>1. IsBlock(t, <<>>, <<p, kind>>)
    BY <1>2, <1>4 DEF IsBlock
  <2>2. <<p, kind>> \in BlocksOf(t) /\ <<p, kind>>[1] = p /\ <<p, kind>>[2] = kind
    BY <2>1, InBlocks
  <2> QED BY <1>4, <2>2
<1>5. ASSUME IsBlock(t, <<a>>, c)
      PROVE  \E b \in BlocksOf(t) : c = << <<a>> \o b[1], b[2] >>
  BY <1>4, <1>5 DEF IsBlock
<1> QED BY <1>1, <1>3, <1>5

\* The paths of a node are the root and those of its subtrees.
Joins(t, label, l, r) ==
  /\ DOMAIN t = {<<>>} \cup {<<1>> \o p : p \in DOMAIN l} \cup {<<2>> \o p : p \in DOMAIN r}
  /\ t[<<>>] = label
  /\ \A p \in DOMAIN l : t[<<1>> \o p] = l[p]
  /\ \A p \in DOMAIN r : t[<<2>> \o p] = r[p]

LEMMA NodePaths ==
  ASSUME NEW l, NEW r, IsTree(l), IsTree(r), NEW type, NEW tok
  PROVE  Joins(Node(type, l, r, tok), Label(type, tok), l, r)
<1>1. PICK D : D = {<<>>} \cup {<<1>> \o p : p \in DOMAIN l} \cup {<<2>> \o p : p \in DOMAIN r}
  OBVIOUS
<1>2. PICK t : t = Node(type, l, r, tok)
  OBVIOUS
<1>3. t = [path \in D |-> IF path = <<>> THEN Label(type, tok)
                          ELSE IF path[1] = 1 THEN l[Tail(path)] ELSE r[Tail(path)]]
  BY <1>1, <1>2, Zenon DEF Node
<1>4. DOMAIN t = D /\ <<>> \in D /\ t[<<>>] = Label(type, tok)
  BY <1>1, <1>3
<1>5. ASSUME NEW p \in DOMAIN l PROVE t[<<1>> \o p] = l[p]
  <2>1. p \in Seq({1, 2})
    BY DEF IsTree
  <2>2. <<1>> \o p # <<>> /\ (<<1>> \o p)[1] = 1 /\ Tail(<<1>> \o p) = p
    BY <2>1, Prepend
  <2>3. <<1>> \o p \in D
    BY <1>1
  <2>4. PICK q : q = <<1>> \o p
    OBVIOUS
  <2>5. t[q] = l[Tail(q)]
    BY <1>3, <2>2, <2>3, <2>4
  <2> QED BY <2>2, <2>4, <2>5
<1>6. ASSUME NEW p \in DOMAIN r PROVE t[<<2>> \o p] = r[p]
  <2>1. p \in Seq({1, 2})
    BY DEF IsTree
  <2>2. <<2>> \o p # <<>> /\ (<<2>> \o p)[1] = 2 /\ Tail(<<2>> \o p) = p
    BY <2>1, Prepend
  <2>3. <<2>> \o p \in D
    BY <1>1
  <2>4. PICK q : q = <<2>> \o p
    OBVIOUS
  <2>5. q \in D /\ q # <<>> /\ q[1] # 1
    BY <2>2, <2>3, <2>4
  <2>6. t[q] = r[Tail(q)]
    BY <1>3, <2>5
  <2> QED BY <2>2, <2>4, <2>6
<1>7. Joins(t, Label(type, tok), l, r)
  BY <1>1, <1>4, <1>5, <1>6, Zenon DEF Joins
<1> QED BY <1>2, <1>7

\* A subtree's paths from the root on are finitely many, and their prefixes
\* belong to the node above.
LEMMA SubPaths ==
  ASSUME NEW a \in {1, 2}, NEW t, IsTree(t)
  PROVE  /\ IsFiniteSet({<<a>> \o p : p \in DOMAIN t})
         /\ {<<a>> \o p : p \in DOMAIN t} \subseteq Seq({1, 2})
         /\ \A q \in {<<a>> \o p : p \in DOMAIN t} : \A n \in 0 .. Len(q) :
              SubSeq(q, 1, n) \in {<<>>} \cup {<<a>> \o p : p \in DOMAIN t}
<1>1. PICK S : S = {<<a>> \o p : p \in DOMAIN t}
  OBVIOUS
<1>2. DOMAIN t \subseteq Seq({1, 2}) /\ IsFiniteSet(DOMAIN t)
      /\ \A p \in DOMAIN t : \A n \in 0 .. Len(p) : SubSeq(p, 1, n) \in DOMAIN t
  BY DEF IsTree
<1>3. IsFiniteSet(S)
  <2>1. PICK f : f = [p \in DOMAIN t |-> <<a>> \o p]
    OBVIOUS
  <2>2. f \in [DOMAIN t -> S] /\ \A y \in S : \E x \in DOMAIN t : f[x] = y
    BY <1>1, <2>1
  <2>3. ASSUME NEW x \in DOMAIN t, NEW y \in DOMAIN t, f[x] = f[y] PROVE x = y
    <3>1. <<a>> \o x = <<a>> \o y
      BY <2>1, <2>3
    <3>2. Tail(<<a>> \o x) = x /\ Tail(<<a>> \o y) = y
      BY <1>2, Prepend
    <3> QED BY <3>1, <3>2
  <2> QED BY <2>2, <2>3, <1>2, SameCount
<1>4. S \subseteq Seq({1, 2})
  BY <1>1, <1>2, Prepend
<1>5. ASSUME NEW p \in DOMAIN t, NEW n \in 0 .. Len(<<a>> \o p)
      PROVE  SubSeq(<<a>> \o p, 1, n) \in {<<>>} \cup S
  <2>1. p \in Seq({1, 2}) /\ Len(p) \in Nat /\ Len(<<a>> \o p) = Len(p) + 1
    BY <1>2, Prepend
  <2>2. CASE n = 0
    BY <2>2
  <2>3. CASE n # 0
    <3>1. n - 1 \in 0 .. Len(p) /\ (n - 1) + 1 = n
      BY <2>1, <2>3
    <3>2. SubSeq(<<a>> \o p, 1, (n - 1) + 1) = <<a>> \o SubSeq(p, 1, n - 1)
      BY <2>1, <3>1, PrependPrefix
    <3>3. SubSeq(p, 1, n - 1) \in DOMAIN t
      BY <1>2, <3>1
    <3> QED BY <1>1, <3>1, <3>2, <3>3
  <2> QED BY <2>2, <2>3
<1> QED BY <1>1, <1>3, <1>4, <1>5

LEMMA NodeIsTree ==
  ASSUME NEW l, NEW r, IsTree(l), IsTree(r), NEW type, type # "wild", NEW tok
  PROVE  IsTree(Node(type, l, r, tok))
<1>1. PICK t : t = Node(type, l, r, tok)
  OBVIOUS
<1>2. PICK L : L = {<<1>> \o p : p \in DOMAIN l}
  OBVIOUS
<1>3. PICK R : R = {<<2>> \o p : p \in DOMAIN r}
  OBVIOUS
<1>4. /\ DOMAIN t = {<<>>} \cup L \cup R
      /\ t[<<>>] = Label(type, tok)
      /\ \A p \in DOMAIN l : t[<<1>> \o p] = l[p]
      /\ \A p \in DOMAIN r : t[<<2>> \o p] = r[p]
  <2>1. Joins(t, Label(type, tok), l, r)
    BY <1>1, NodePaths
  <2> QED BY <2>1, <1>2, <1>3, Zenon DEF Joins
<1>5. /\ IsFiniteSet(L) /\ L \subseteq Seq({1, 2})
      /\ \A q \in L : \A n \in 0 .. Len(q) : SubSeq(q, 1, n) \in {<<>>} \cup L
  BY <1>2, SubPaths
<1>6. /\ IsFiniteSet(R) /\ R \subseteq Seq({1, 2})
      /\ \A q \in R : \A n \in 0 .. Len(q) : SubSeq(q, 1, n) \in {<<>>} \cup R
  BY <1>3, SubPaths
<1>7. IsFiniteSet(DOMAIN t)
  <2>1. IsFiniteSet({<<>>} \cup L)
    BY <1>5, FS_Union, FS_Singleton
  <2> QED BY <1>4, <1>6, <2>1, FS_Union
<1>8. DOMAIN t \subseteq Seq({1, 2})
  <2>1. <<>> \in Seq({1, 2})
    OBVIOUS
  <2> QED BY <1>4, <1>5, <1>6, <2>1
<1>9. ASSUME NEW p \in DOMAIN t, NEW n \in 0 .. Len(p) PROVE SubSeq(p, 1, n) \in DOMAIN t
  <2>1. CASE p = <<>>
    <3>1. n = 0 /\ SubSeq(p, 1, n) = <<>>
      BY <2>1
    <3> QED BY <3>1, <1>4
  <2> QED BY <1>4, <1>5, <1>6, <2>1
<1>10. ASSUME NEW p \in DOMAIN t PROVE t[p].type # "wild"
  <2>1. CASE p = <<>>
    BY <2>1, <1>4 DEF Label
  <2>2. CASE p \in L
    BY <2>2, <1>2, <1>4 DEF IsTree
  <2>3. CASE p \in R
    BY <2>3, <1>3, <1>4 DEF IsTree
  <2> QED BY <2>1, <2>2, <2>3, <1>4
<1> QED BY <1>1, <1>7, <1>8, <1>9, <1>10 DEF IsTree

\* The blocks of a node are its own and those of its subtrees.
LEMMA NodeBlocks ==
  ASSUME NEW l, NEW r, IsTree(l), IsTree(r), NEW type, type # "wild", NEW tok
  PROVE  Blocks(Node(type, l, r, tok)) =
           Blocks(l) + Blocks(r) + (IF HasData(Label(type, tok)) THEN 2 ELSE 1)
<1>1. PICK t : t = Node(type, l, r, tok)
  OBVIOUS
<1>2. IsTree(t)
  BY <1>1, NodeIsTree
<1>3. PICK own : own = {<< <<>>, "node" >>} \cup
                       (IF HasData(Label(type, tok)) THEN {<< <<>>, "data" >>} ELSE {})
  OBVIOUS
<1>4. PICK L : L = Below(1, BlocksOf(l))
  OBVIOUS
<1>5. PICK R : R = Below(2, BlocksOf(r))
  OBVIOUS
<1>6. /\ IsFiniteSet(L) /\ Cardinality(L) = Blocks(l) /\ Blocks(l) \in Nat
      /\ \A c \in L : c[1] # <<>> /\ c[1][1] = 1
  BY <1>4, TreeBlocks, BelowCount DEF Blocks
<1>7. /\ IsFiniteSet(R) /\ Cardinality(R) = Blocks(r) /\ Blocks(r) \in Nat
      /\ \A c \in R : c[1] # <<>> /\ c[1][1] = 2
  BY <1>5, TreeBlocks, BelowCount DEF Blocks
<1>8. /\ IsFiniteSet(own) /\ Cardinality(own) = IF HasData(Label(type, tok)) THEN 2 ELSE 1
      /\ \A c \in own : c[1] = <<>>
  <2>1. << <<>>, "node" >> # << <<>>, "data" >>
    OBVIOUS
  <2>2. IsFiniteSet({<< <<>>, "node" >>}) /\ Cardinality({<< <<>>, "node" >>}) = 1
    BY FS_Singleton
  <2>3. PICK one : one = {<< <<>>, "node" >>}
    OBVIOUS
  <2>4. /\ IsFiniteSet(one \cup {<< <<>>, "data" >>})
        /\ Cardinality(one \cup {<< <<>>, "data" >>}) = 2
    <3>1. << <<>>, "data" >> \notin one
      BY <2>1, <2>3
    <3>2. IsFiniteSet(one) /\ Cardinality(one) = 1
      BY <2>2, <2>3
    <3> QED BY <3>1, <3>2, FS_AddElement
  <2>5. CASE HasData(Label(type, tok))
    <3>1. own = one \cup {<< <<>>, "data" >>}
      BY <1>3, <2>3, <2>5
    <3> QED BY <2>3, <2>4, <2>5, <3>1
  <2>6. CASE ~HasData(Label(type, tok))
    <3>1. own = one
      BY <1>3, <2>3, <2>6
    <3> QED BY <2>2, <2>3, <2>6, <3>1
  <2> QED BY <2>5, <2>6
<1>9. BlocksOf(t) = (L \cup R) \cup own
  <2>1. Joins(t, Label(type, tok), l, r)
    BY <1>1, NodePaths
  <2>2. \A c : c \in own <=>
           c = << <<>>, "node" >> \/ (c = << <<>>, "data" >> /\ HasData(t[<<>>]))
    BY <1>3, <2>1 DEF Joins
  <2>3. ASSUME NEW c PROVE c \in L <=> IsBlock(l, <<1>>, c)
    BY <1>4, InBelow
  <2>4. ASSUME NEW c PROVE c \in R <=> IsBlock(r, <<2>>, c)
    BY <1>5, InBelow
  <2>5. ASSUME NEW c PROVE c \in BlocksOf(t) <=> IsBlock(t, <<>>, c)
    BY <1>2, InBlocks
  <2>6. \A p \in DOMAIN t : <<>> \o p = p
    BY <1>2, EmptySeq, ConcatEmptySeq DEF IsTree
  <2>7. ASSUME NEW c, NEW p \in DOMAIN t, NEW kind, c = <<p, kind>>,
               kind = "node" \/ (kind = "data" /\ HasData(t[p]))
        PROVE  c \in (L \cup R) \cup own
    <3>1. CASE p = <<>>
      BY <2>2, <2>7, <3>1
    <3>2. ASSUME NEW q \in DOMAIN l, p = << 1 >> \o q PROVE c \in L
      <4>1. t[p] = l[q]
        BY <2>1, <3>2 DEF Joins
      <4>2. IsBlock(l, <<1>>, c)
        BY <2>7, <3>2, <4>1 DEF IsBlock
      <4> QED BY <4>2, <2>3
    <3>3. ASSUME NEW q \in DOMAIN r, p = << 2 >> \o q PROVE c \in R
      <4>1. t[p] = r[q]
        BY <2>1, <3>3 DEF Joins
      <4>2. IsBlock(r, <<2>>, c)
        BY <2>7, <3>3, <4>1 DEF IsBlock
      <4> QED BY <4>2, <2>4
    <3> QED BY <2>1, <3>1, <3>2, <3>3 DEF Joins
  <2>8. ASSUME NEW c \in BlocksOf(t) PROVE c \in (L \cup R) \cup own
    <3>1. IsBlock(t, <<>>, c)
      BY <2>5
    <3>2. PICK p \in DOMAIN t : c = <<p, "node">> \/ (c = <<p, "data">> /\ HasData(t[p]))
      BY <2>6, <3>1 DEF IsBlock
    <3> QED BY <2>7, <3>2
  <2>9. ASSUME NEW c, NEW p \in DOMAIN t, c = <<p, "node">> \/ (c = <<p, "data">> /\ HasData(t[p]))
        PROVE  c \in BlocksOf(t)
    <3>1. IsBlock(t, <<>>, c)
      BY <2>6, <2>9 DEF IsBlock
    <3> QED BY <2>5, <3>1
  <2>10. ASSUME NEW c \in own PROVE c \in BlocksOf(t)
    <3>1. <<>> \in DOMAIN t
      BY <2>1 DEF Joins
    <3> QED BY <2>2, <2>9, <3>1
  <2>11. ASSUME NEW c \in L PROVE c \in BlocksOf(t)
    <3>1. PICK q \in DOMAIN l : c = << <<1>> \o q, "node">> \/ (c = << <<1>> \o q, "data">> /\ HasData(l[q]))
      BY <2>3 DEF IsBlock
    <3>2. <<1>> \o q \in DOMAIN t /\ t[<<1>> \o q] = l[q]
      BY <2>1 DEF Joins
    <3> QED BY <2>9, <3>1, <3>2
  <2>12. ASSUME NEW c \in R PROVE c \in BlocksOf(t)
    <3>1. PICK q \in DOMAIN r : c = << <<2>> \o q, "node">> \/ (c = << <<2>> \o q, "data">> /\ HasData(r[q]))
      BY <2>4 DEF IsBlock
    <3>2. <<2>> \o q \in DOMAIN t /\ t[<<2>> \o q] = r[q]
      BY <2>1 DEF Joins
    <3> QED BY <2>9, <3>1, <3>2
  <2> QED BY <2>8, <2>10, <2>11, <2>12
<1>10. /\ IsFiniteSet(L \cup R) /\ Cardinality(L \cup R) = Blocks(l) + Blocks(r)
  <2>1. L \cap R = {}
    BY <1>6, <1>7
  <2> QED BY <2>1, <1>6, <1>7, DisjointCount
<1>11. Cardinality((L \cup R) \cup own) = Blocks(l) + Blocks(r) + Cardinality(own)
  <2>1. (L \cup R) \cap own = {}
    BY <1>6, <1>7, <1>8
  <2> QED BY <2>1, <1>8, <1>10, DisjointCount
<1>12. Blocks(t) = Blocks(l) + Blocks(r) + Cardinality(own)
  BY <1>9, <1>11 DEF Blocks
<1> QED BY <1>1, <1>8, <1>12

\* A list grows at its head.
LEMMA NodeIsList ==
  ASSUME NEW r, IsTree(r), IsList(r), NEW tok
  PROVE  IsList(Node("IP", NULL, r, tok))
<1>1. PICK t : t = Node("IP", NULL, r, tok)
  OBVIOUS
<1>2. Joins(t, Label("IP", tok), NULL, r)
  BY <1>1, NodePaths, NoBlocks
<1>3. ASSUME NEW p \in DOMAIN t PROVE t[p].type = "IP" /\ \A i \in DOMAIN p : p[i] = 2
  <2>1. CASE p = <<>>
    BY <1>2, <2>1 DEF Joins, Label
  <2>2. ASSUME NEW q \in DOMAIN r, p = << 2 >> \o q PROVE t[p].type = "IP" /\ \A i \in DOMAIN p : p[i] = 2
    <3>1. q \in Seq({1, 2}) /\ DOMAIN q = 1 .. Len(q) /\ Len(q) \in Nat
      BY LenProperties DEF IsTree
    <3>2. /\ p \in Seq({1, 2}) /\ Len(p) = Len(q) + 1 /\ p[1] = 2
          /\ \A i \in 1 .. Len(q) : p[i + 1] = q[i]
      BY <2>2, <3>1, Prepend
    <3>3. DOMAIN p = 1 .. Len(q) + 1
      BY <3>2
    <3>4. ASSUME NEW i \in 1 .. Len(q) + 1, i # 1 PROVE p[i] = 2
      <4>1. i - 1 \in 1 .. Len(q) /\ (i - 1) + 1 = i
        BY <3>1, <3>4
      <4>2. p[(i - 1) + 1] = q[i - 1] /\ q[i - 1] = 2
        BY <3>1, <3>2, <4>1 DEF IsList
      <4> QED BY <4>1, <4>2
    <3>5. t[p] = r[q] /\ r[q].type = "IP"
      BY <1>2, <2>2 DEF Joins, IsList
    <3> QED BY <3>2, <3>3, <3>4, <3>5
  <2>3. DOMAIN NULL = {}
    BY DEF NULL
  <2> QED BY <1>2, <2>1, <2>2, <2>3 DEF Joins
<1> QED BY <1>1, <1>3 DEF IsList

\* reset_rules arrives at every node, and the loop over a list at every address.
LEMMA WholeFreed ==
  ASSUME NEW t, IsTree(t)
  PROVE  /\ reset_rules(t) = Blocks(t)
         /\ IsList(t) => ListLength(t) = Blocks(t)
<1>1. Reached(t) = DOMAIN t
  BY DEF Reached, IsTree
<1>2. BlocksOf(t) = BlocksAt(t, DOMAIN t)
  BY TreeBlocks
<1>3. reset_rules(t) = Blocks(t)
  BY <1>1, <1>2 DEF reset_rules, Blocks
<1>4. ASSUME IsList(t) PROVE ListLength(t) = Blocks(t)
  <2>1. {path \in DOMAIN t : \A i \in DOMAIN path : path[i] = 2} = DOMAIN t
    BY <1>4 DEF IsList
  <2>2. ListLength(t) = Cardinality(DOMAIN t)
    BY <1>1, <2>1 DEF ListLength
  <2>3. {p \in DOMAIN t : HasData(t[p])} = {}
    BY <1>4 DEF IsList, HasData
  <2>4. BlocksAt(t, DOMAIN t) = {<<path, "node">> : path \in DOMAIN t}
    BY <2>3 DEF BlocksAt
  <2>5. IsFiniteSet(DOMAIN t)
    BY DEF IsTree
  <2>6. Cardinality({<<path, "node">> : path \in DOMAIN t}) = Cardinality(DOMAIN t)
    BY <2>5, PairCount, Zenon
  <2> QED BY <1>2, <2>2, <2>4, <2>6, Zenon DEF Blocks
<1> QED BY <1>3, <1>4

-----------------------------------------------------------------------------
(* The parser's stack. *)

LEMMA StackIntro ==
  ASSUME NEW S, NEW s \in Seq(S), \A i \in 1 .. Len(s) : GoodSymbol(s[i])
  PROVE  IsStack(s)
<1>1. Len(s) \in Nat /\ s \in [1 .. Len(s) -> S] /\ DOMAIN s = 1 .. Len(s)
  BY LenProperties
<1>2. PICK R : R = {s[i] : i \in DOMAIN s}
  OBVIOUS
<1>3. s \in [1 .. Len(s) -> R]
  BY <1>1, <1>2
<1>4. s \in Seq(R)
  BY <1>1, <1>3, SeqDef
<1> QED BY <1>1, <1>2, <1>4 DEF IsStack

LEMMA StackElim ==
  ASSUME NEW s, IsStack(s)
  PROVE  /\ Len(s) \in Nat /\ DOMAIN s = 1 .. Len(s)
         /\ \E S : s \in Seq(S)
         /\ \A i \in 1 .. Len(s) : GoodSymbol(s[i]) /\ IsTree(s[i].v)
<1>1. PICK R : R = {s[i] : i \in DOMAIN s}
  OBVIOUS
<1>2. s \in Seq(R)
  BY <1>1 DEF IsStack
<1>3. Len(s) \in Nat /\ DOMAIN s = 1 .. Len(s)
  BY <1>2, LenProperties
<1> QED BY <1>2, <1>3 DEF IsStack, GoodSymbol

\* What a symbol owns, and what the first k of them do.
OwnedAt(s, i) == {<<i, b>> : b \in BlocksOf(s[i].v)}
OwnedTo(s, k) == UNION {OwnedAt(s, i) : i \in 1 .. k}

LEMMA OwnedIs ==
  ASSUME NEW s, IsStack(s)
  PROVE  Owned(s) = Cardinality(OwnedTo(s, Len(s)))
<1>1. DOMAIN s = 1 .. Len(s)
  BY StackElim
<1>2. {{<<i, b>> : b \in BlocksOf(s[i].v)} : i \in 1 .. Len(s)} = {OwnedAt(s, i) : i \in 1 .. Len(s)}
  BY Zenon DEF OwnedAt
<1> QED BY <1>1, <1>2, Zenon DEF Owned, OwnedTo

LEMMA OwnedAtCount ==
  ASSUME NEW s, IsStack(s), NEW i \in 1 .. Len(s)
  PROVE  /\ IsFiniteSet(OwnedAt(s, i)) /\ Cardinality(OwnedAt(s, i)) = Blocks(s[i].v)
         /\ \A c \in OwnedAt(s, i) : c[1] = i
<1>1. IsFiniteSet(BlocksOf(s[i].v))
  BY StackElim, TreeBlocks
<1>2. \A c \in OwnedAt(s, i) : c[1] = i
  BY DEF OwnedAt
<1>3. IsFiniteSet(OwnedAt(s, i)) /\ Cardinality(OwnedAt(s, i)) = Cardinality(BlocksOf(s[i].v))
  <2>1. PICK B : B = BlocksOf(s[i].v)
    OBVIOUS
  <2>2. OwnedAt(s, i) = {<<i, x>> : x \in B}
    BY <2>1, Zenon DEF OwnedAt
  <2>3. IsFiniteSet({<<i, x>> : x \in B}) /\ Cardinality({<<i, x>> : x \in B}) = Cardinality(B)
    <3>1. IsFiniteSet(B)
      BY <1>1, <2>1
    <3> QED BY <3>1, PairCount, ZenonT(60)
  <2> QED BY <2>1, <2>2, <2>3
<1> QED BY <1>2, <1>3 DEF Blocks

LEMMA OwnedToCount ==
  ASSUME NEW s, IsStack(s), NEW k \in 0 .. Len(s)
  PROVE  /\ IsFiniteSet(OwnedTo(s, k)) /\ Cardinality(OwnedTo(s, k)) \in Nat
         /\ \A c \in OwnedTo(s, k) : c[1] \in 1 .. k
<1>1. Len(s) \in Nat /\ 1 .. k \subseteq 1 .. Len(s)
  BY StackElim
<1>2. PICK F : F = {OwnedAt(s, i) : i \in 1 .. k}
  OBVIOUS
<1>3. PICK f : f = [i \in 1 .. k |-> OwnedAt(s, i)]
  OBVIOUS
<1>4. f \in Surjection(1 .. k, F)
  BY <1>2, <1>3 DEF Surjection
<1>5. IsFiniteSet(1 .. k)
  BY <1>1, FS_Interval
<1>6. IsFiniteSet(F)
  BY <1>4, <1>5, FS_Surjection
<1>7. \A T \in F : IsFiniteSet(T)
  BY <1>1, <1>2, OwnedAtCount
<1>8. IsFiniteSet(UNION F)
  BY <1>6, <1>7, FS_UNION
<1>9. OwnedTo(s, k) = UNION F
  BY <1>2, Zenon DEF OwnedTo
<1>10. \A c \in UNION F : c[1] \in 1 .. k
  BY <1>1, <1>2, OwnedAtCount
<1> QED BY <1>8, <1>9, <1>10, FS_CardinalityType

LEMMA OwnedToStep ==
  ASSUME NEW s, IsStack(s), NEW k \in 0 .. Len(s) - 1
  PROVE  /\ Cardinality(OwnedTo(s, k + 1)) = Cardinality(OwnedTo(s, k)) + Blocks(s[k + 1].v)
         /\ Cardinality(OwnedTo(s, k)) \in Nat /\ Blocks(s[k + 1].v) \in Nat
<1>1. Len(s) \in Nat /\ k + 1 \in 1 .. Len(s) /\ k \in 0 .. Len(s)
  BY StackElim
<1>2. \A i : i \in 1 .. k + 1 <=> i \in 1 .. k \/ i = k + 1
  BY <1>1
<1>3. PICK j : j = k + 1
  OBVIOUS
<1>4. OwnedTo(s, j) = OwnedTo(s, k) \cup OwnedAt(s, j)
  BY <1>2, <1>3, Zenon DEF OwnedTo
<1>5. OwnedTo(s, k) \cap OwnedAt(s, j) = {}
  BY <1>1, <1>3, OwnedToCount, OwnedAtCount
<1>6. IsFiniteSet(OwnedTo(s, k)) /\ IsFiniteSet(OwnedAt(s, j))
      /\ Cardinality(OwnedAt(s, j)) = Blocks(s[j].v)
  BY <1>1, <1>3, OwnedToCount, OwnedAtCount
<1>7. /\ Cardinality(OwnedTo(s, j)) = Cardinality(OwnedTo(s, k)) + Blocks(s[j].v)
      /\ Cardinality(OwnedTo(s, k)) \in Nat /\ Blocks(s[j].v) \in Nat
  BY <1>4, <1>5, <1>6, DisjointCount
<1> QED BY <1>3, <1>7

\* Only the symbols up to k matter.
LEMMA OwnedToSame ==
  ASSUME NEW s, NEW t, NEW k \in Nat, \A i \in 1 .. k : s[i] = t[i]
  PROVE  OwnedTo(s, k) = OwnedTo(t, k)
<1>1. \A i \in 1 .. k : OwnedAt(s, i) = OwnedAt(t, i)
  BY DEF OwnedAt
<1>2. {OwnedAt(s, i) : i \in 1 .. k} = {OwnedAt(t, i) : i \in 1 .. k}
  BY <1>1, Zenon
<1> QED BY <1>2, Zenon DEF OwnedTo

-----------------------------------------------------------------------------
(* Push and pop. *)

LEMMA EmptyStack == IsStack(<<>>) /\ Owned(<<>>) = 0
<1>1. IsStack(<<>>)
  <2>1. <<>> \in Seq({}) /\ Len(<<>>) = 0
    BY EmptySeq
  <2>2. \A i \in 1 .. Len(<<>>) : GoodSymbol(<<>>[i])
    BY <2>1
  <2> QED BY <2>1, <2>2, StackIntro
<1>2. OwnedTo(<<>>, 0) = {}
  BY DEF OwnedTo
<1> QED BY <1>1, <1>2, OwnedIs, FS_EmptySet

Pushed(u, s, sym) ==
  /\ IsStack(u) /\ Len(u) = Len(s) + 1 /\ u[Len(s) + 1] = sym
  /\ \A i \in 1 .. Len(s) : u[i] = s[i]
  /\ Owned(u) = Owned(s) + Blocks(sym.v)
  /\ Owned(s) \in Nat /\ Blocks(sym.v) \in Nat

LEMMA PushStack ==
  ASSUME NEW s, IsStack(s), NEW sym, GoodSymbol(sym)
  PROVE  Pushed(Append(s, sym), s, sym)
<1>1. PICK S : s \in Seq(S)
  BY StackElim
<1>2. PICK T : T = S \cup {sym}
  OBVIOUS
<1>3. s \in Seq(T) /\ sym \in T
  BY <1>1, <1>2, SeqMonotonic
<1>4. PICK u : u = Append(s, sym)
  OBVIOUS
<1>5. u \in Seq(T) /\ Len(u) = Len(s) + 1 /\ u[Len(s) + 1] = sym
      /\ \A i \in 1 .. Len(s) : u[i] = s[i]
  BY <1>3, <1>4, AppendProperties
<1>6. Len(s) \in Nat /\ \A i \in 1 .. Len(s) : GoodSymbol(s[i])
  BY StackElim
<1>7. \A i \in 1 .. Len(u) : GoodSymbol(u[i])
  BY <1>5, <1>6
<1>8. IsStack(u)
  BY <1>5, <1>7, StackIntro
<1>9. PICK k : k = Len(s)
  OBVIOUS
<1>10. k \in 0 .. Len(u) - 1
  BY <1>5, <1>6, <1>9
<1>11. /\ Cardinality(OwnedTo(u, k + 1)) = Cardinality(OwnedTo(u, k)) + Blocks(u[k + 1].v)
      /\ Cardinality(OwnedTo(u, k)) \in Nat /\ Blocks(u[k + 1].v) \in Nat
  BY <1>8, <1>10, OwnedToStep
<1>12. OwnedTo(u, Len(s)) = OwnedTo(s, Len(s))
  BY <1>5, <1>6, OwnedToSame
<1>13. Owned(u) = Owned(s) + Blocks(sym.v) /\ Owned(s) \in Nat /\ Blocks(sym.v) \in Nat
  BY <1>5, <1>8, <1>11, <1>12, <1>9, OwnedIs
<1> QED BY <1>4, <1>5, <1>8, <1>13 DEF Pushed

LEMMA PrefixStack ==
  ASSUME NEW s, IsStack(s), NEW k \in 0 .. Len(s)
  PROVE  LET u == SubSeq(s, 1, k) IN
         /\ IsStack(u) /\ Len(u) = k /\ \A i \in 1 .. k : u[i] = s[i]
         /\ Owned(u) = Cardinality(OwnedTo(s, k)) /\ Owned(u) \in Nat
<1>1. PICK S : s \in Seq(S)
  BY StackElim
<1>2. Len(s) \in Nat /\ \A i \in 1 .. Len(s) : GoodSymbol(s[i]) /\ s[i] \in S
  BY <1>1, StackElim
<1>3. PICK u : u = SubSeq(s, 1, k)
  OBVIOUS
<1>4. u \in Seq(S) /\ Len(u) = k /\ \A i \in 1 .. k : u[i] = s[i]
  <2>1. \A i \in 1 .. k : s[i] \in S
    BY <1>2
  <2> QED BY <1>2, <1>3, <2>1, SubSeqProperties
<1>5. IsStack(u)
  BY <1>2, <1>4, StackIntro
<1>6. OwnedTo(u, k) = OwnedTo(s, k)
  BY <1>2, <1>4, OwnedToSame
<1>7. Owned(u) = Cardinality(OwnedTo(s, k)) /\ Cardinality(OwnedTo(s, k)) \in Nat
  BY <1>4, <1>5, <1>6, OwnedIs, OwnedToCount
<1> QED BY <1>3, <1>4, <1>5, <1>7

LEMMA PopStack ==
  ASSUME IsStack(stack), NEW n \in 0 .. Len(stack)
  PROVE  /\ IsStack(Pop(n)) /\ Len(Pop(n)) = Len(stack) - n /\ Len(stack) \in Nat
         /\ \A i \in 1 .. Len(stack) - n : Pop(n)[i] = stack[i]
         /\ Owned(Pop(n)) = Cardinality(OwnedTo(stack, Len(stack) - n))
         /\ Owned(Pop(n)) \in Nat
<1>1. Len(stack) \in Nat
  BY StackElim
<1>2. PICK k : k = Len(stack) - n
  OBVIOUS
<1>3. k \in 0 .. Len(stack)
  BY <1>1, <1>2
<1>4. PICK u : u = SubSeq(stack, 1, k)
  OBVIOUS
<1>5. /\ IsStack(u) /\ Len(u) = k /\ \A i \in 1 .. k : u[i] = stack[i]
      /\ Owned(u) = Cardinality(OwnedTo(stack, k)) /\ Owned(u) \in Nat
  BY <1>3, <1>4, PrefixStack
<1>6. Pop(n) = u
  BY <1>2, <1>4 DEF Pop
<1> QED BY <1>1, <1>2, <1>5, <1>6

\* What a symbol that is popped owned.
LEMMA PopOne ==
  ASSUME IsStack(stack), NEW n \in 1 .. Len(stack)
  PROVE  /\ Owned(Pop(n - 1)) = Owned(Pop(n)) + Blocks(Top(n).v)
         /\ Owned(Pop(n)) \in Nat /\ Blocks(Top(n).v) \in Nat
         /\ GoodSymbol(Top(n)) /\ IsTree(Top(n).v)
<1>1. Len(stack) \in Nat
  BY StackElim
<1>2. PICK k : k = Len(stack) - n
  OBVIOUS
<1>3. k \in 0 .. Len(stack) - 1 /\ k + 1 = Len(stack) - (n - 1) /\ k + 1 = Len(stack) + 1 - n
      /\ n \in 0 .. Len(stack) /\ n - 1 \in 0 .. Len(stack) /\ k + 1 \in 1 .. Len(stack)
  BY <1>1, <1>2
<1>4. Owned(Pop(n)) = Cardinality(OwnedTo(stack, k)) /\ Owned(Pop(n)) \in Nat
  BY <1>2, <1>3, PopStack
<1>5. Owned(Pop(n - 1)) = Cardinality(OwnedTo(stack, k + 1))
  BY <1>3, PopStack
<1>6. Top(n) = stack[k + 1]
  BY <1>3 DEF Top
<1>7. /\ Cardinality(OwnedTo(stack, k + 1)) = Cardinality(OwnedTo(stack, k)) + Blocks(stack[k + 1].v)
      /\ Blocks(stack[k + 1].v) \in Nat
  BY <1>3, OwnedToStep
<1>8. GoodSymbol(stack[k + 1]) /\ IsTree(stack[k + 1].v)
  BY <1>3, StackElim
<1> QED BY <1>4, <1>5, <1>6, <1>7, <1>8

LEMMA PopNone ==
  ASSUME IsStack(stack) PROVE Owned(Pop(0)) = OnStack /\ OnStack \in Nat
<1>1. Len(stack) \in Nat /\ 0 \in 0 .. Len(stack) /\ Len(stack) - 0 = Len(stack)
  BY StackElim
<1>2. Owned(Pop(0)) = Cardinality(OwnedTo(stack, Len(stack))) /\ Owned(Pop(0)) \in Nat
  BY <1>1, PopStack
<1> QED BY <1>2, OwnedIs DEF OnStack

\* What n symbols that are popped owned.
LEMMA PopSum ==
  ASSUME IsStack(stack)
  PROVE  /\ Len(stack) \in Nat
         /\ \A n \in 0 .. Len(stack) : Owned(Pop(n)) \in Nat
         /\ \A n \in 1 .. Len(stack) :
              GoodSymbol(Top(n)) /\ IsTree(Top(n).v) /\ Blocks(Top(n).v) \in Nat
         /\ OnStack = Owned(Pop(0))
         /\ Len(stack) >= 1 => Owned(Pop(0)) = Owned(Pop(1)) + Blocks(Top(1).v)
         /\ Len(stack) >= 2 => Owned(Pop(1)) = Owned(Pop(2)) + Blocks(Top(2).v)
         /\ Len(stack) >= 3 => Owned(Pop(2)) = Owned(Pop(3)) + Blocks(Top(3).v)
         /\ Len(stack) >= 4 => Owned(Pop(3)) = Owned(Pop(4)) + Blocks(Top(4).v)
         /\ Len(stack) >= 5 => Owned(Pop(4)) = Owned(Pop(5)) + Blocks(Top(5).v)
         /\ Len(stack) >= 6 => Owned(Pop(5)) = Owned(Pop(6)) + Blocks(Top(6).v)
         /\ Len(stack) >= 7 => Owned(Pop(6)) = Owned(Pop(7)) + Blocks(Top(7).v)
         /\ Len(stack) >= 8 => Owned(Pop(7)) = Owned(Pop(8)) + Blocks(Top(8).v)
<1>1. Len(stack) \in Nat
  BY StackElim
<1>2. \A n \in 0 .. Len(stack) : Owned(Pop(n)) \in Nat
  BY PopStack
<1>3. \A n \in 1 .. Len(stack) : GoodSymbol(Top(n)) /\ IsTree(Top(n).v) /\ Blocks(Top(n).v) \in Nat
  BY PopOne
<1>4. ASSUME NEW m \in Nat, NEW n \in Nat, n = m + 1, Len(stack) >= n
      PROVE  Owned(Pop(m)) = Owned(Pop(n)) + Blocks(Top(n).v)
  <2>1. n \in 1 .. Len(stack) /\ n - 1 = m
    BY <1>1, <1>4
  <2> QED BY <2>1, PopOne
<1>5. OnStack = Owned(Pop(0))
  BY PopNone
<1> HIDE DEF OnStack
<1>6. Len(stack) >= 1 => Owned(Pop(0)) = Owned(Pop(1)) + Blocks(Top(1).v)
  BY <1>4
<1>7. Len(stack) >= 2 => Owned(Pop(1)) = Owned(Pop(2)) + Blocks(Top(2).v)
  BY <1>4
<1>8. Len(stack) >= 3 => Owned(Pop(2)) = Owned(Pop(3)) + Blocks(Top(3).v)
  BY <1>4
<1>9. Len(stack) >= 4 => Owned(Pop(3)) = Owned(Pop(4)) + Blocks(Top(4).v)
  BY <1>4
<1>10. Len(stack) >= 5 => Owned(Pop(4)) = Owned(Pop(5)) + Blocks(Top(5).v)
  BY <1>4
<1>11. Len(stack) >= 6 => Owned(Pop(5)) = Owned(Pop(6)) + Blocks(Top(6).v)
  BY <1>4
<1>12. Len(stack) >= 7 => Owned(Pop(6)) = Owned(Pop(7)) + Blocks(Top(7).v)
  BY <1>4
<1>13. Len(stack) >= 8 => Owned(Pop(7)) = Owned(Pop(8)) + Blocks(Top(8).v)
  BY <1>4
<1> QED BY <1>1, <1>2, <1>3, <1>5, <1>6, <1>7, <1>8, <1>9, <1>10, <1>11, <1>12, <1>13

\* The symbols at the top are those of a production.
LEMMA EndsAre ==
  ASSUME IsStack(stack)
  PROVE  /\ \A a : Ends(<<a>>) => Len(stack) >= 1 /\ Top(1).tok.t = a
         /\ \A a, b : Ends(<<a, b>>) => /\ Len(stack) >= 2
                                        /\ Top(2).tok.t = a /\ Top(1).tok.t = b
         /\ \A a, b, c : Ends(<<a, b, c>>) =>
              /\ Len(stack) >= 3
              /\ Top(3).tok.t = a /\ Top(2).tok.t = b /\ Top(1).tok.t = c
         /\ \A a, b, c, d : Ends(<<a, b, c, d>>) =>
              /\ Len(stack) >= 4
              /\ Top(4).tok.t = a /\ Top(3).tok.t = b /\ Top(2).tok.t = c /\ Top(1).tok.t = d
         /\ \A a, b, c, d, e : Ends(<<a, b, c, d, e>>) =>
              /\ Len(stack) >= 5
              /\ Top(5).tok.t = a /\ Top(4).tok.t = b /\ Top(3).tok.t = c
              /\ Top(2).tok.t = d /\ Top(1).tok.t = e
         /\ \A a, b, c, d, e, f, g, h : Ends(<<a, b, c, d, e, f, g, h>>) =>
              /\ Len(stack) >= 8
              /\ Top(8).tok.t = a /\ Top(7).tok.t = b /\ Top(6).tok.t = c /\ Top(5).tok.t = d
              /\ Top(4).tok.t = e /\ Top(3).tok.t = f /\ Top(2).tok.t = g /\ Top(1).tok.t = h
<1>1. Len(stack) \in Nat
  BY StackElim
<1>2. ASSUME NEW a, Ends(<<a>>) PROVE Len(stack) >= 1 /\ Top(1).tok.t = a
  BY <1>1, <1>2 DEF Ends
<1>3. ASSUME NEW a, NEW b, Ends(<<a, b>>)
      PROVE  Len(stack) >= 2 /\ Top(2).tok.t = a /\ Top(1).tok.t = b
  BY <1>1, <1>3 DEF Ends
<1>4. ASSUME NEW a, NEW b, NEW c, Ends(<<a, b, c>>)
      PROVE  Len(stack) >= 3 /\ Top(3).tok.t = a /\ Top(2).tok.t = b /\ Top(1).tok.t = c
  BY <1>1, <1>4 DEF Ends
<1>5. ASSUME NEW a, NEW b, NEW c, NEW d, Ends(<<a, b, c, d>>)
      PROVE  /\ Len(stack) >= 4
             /\ Top(4).tok.t = a /\ Top(3).tok.t = b /\ Top(2).tok.t = c /\ Top(1).tok.t = d
  BY <1>1, <1>5 DEF Ends
<1>6. ASSUME NEW a, NEW b, NEW c, NEW d, NEW e, Ends(<<a, b, c, d, e>>)
      PROVE  /\ Len(stack) >= 5
             /\ Top(5).tok.t = a /\ Top(4).tok.t = b /\ Top(3).tok.t = c
             /\ Top(2).tok.t = d /\ Top(1).tok.t = e
  BY <1>1, <1>6 DEF Ends
<1>7. ASSUME NEW a, NEW b, NEW c, NEW d, NEW e, NEW f, NEW g, NEW h,
             Ends(<<a, b, c, d, e, f, g, h>>)
      PROVE  /\ Len(stack) >= 8
             /\ Top(8).tok.t = a /\ Top(7).tok.t = b /\ Top(6).tok.t = c /\ Top(5).tok.t = d
             /\ Top(4).tok.t = e /\ Top(3).tok.t = f /\ Top(2).tok.t = g /\ Top(1).tok.t = h
  BY <1>1, <1>7 DEF Ends
<1> QED BY <1>2, <1>3, <1>4, <1>5, <1>6, <1>7

\* config_file is at the bottom: below any other symbol there is a symbol.
LEMMA AboveBottom ==
  ASSUME ParseInv, phase = "parsing", NEW n \in 1 .. Len(stack), Top(n).tok.t # "config_file"
  PROVE  n < Len(stack)
<1>1. Len(stack) \in Nat /\ stack[1].tok.t = "config_file"
  BY StackElim DEF ParseInv, ShapeInv, OnConfigFile
<1>2. CASE n = Len(stack)
  <2>1. Len(stack) + 1 - n = 1
    BY <1>1, <1>2
  <2> QED BY <1>1, <2>1 DEF Top
<1> QED BY <1>1, <1>2

-----------------------------------------------------------------------------
(* The steps of the parser. *)

LEMMA ConfigBlocks ==
  ASSUME ParseInv
  PROVE  /\ Blocks(config.ports[0]) \in Nat /\ Blocks(config.ports[1]) \in Nat
         /\ Blocks(config.rules) \in Nat /\ Held(config) \in Nat
<1>1. Blocks(config.ports[0]) \in Nat /\ Blocks(config.ports[1]) \in Nat
  <2>1. IsTree(config.ports[0]) /\ IsTree(config.ports[1])
    BY DEF ParseInv, ShapeInv
  <2> QED BY <2>1, TreeBlocks
<1>2. Blocks(config.rules) \in Nat
  BY TreeBlocks, NoBlocks DEF ParseInv, ShapeInv
<1> QED BY <1>1, <1>2 DEF Held

\* What is known while the parser runs.
LEMMA Parsing ==
  ASSUME ParseInv, phase = "parsing"
  PROVE  /\ IsStack(stack) /\ Len(stack) \in Nat /\ Len(stack) >= 1
         /\ heap \in Int /\ lost \in Int /\ OnStack \in Nat
         /\ Held(config) \in Nat /\ heap = lost + OnStack + Held(config) + 1
<1>1. IsStack(stack) /\ Len(stack) \in Nat /\ OnStack \in Nat
  BY StackElim, PopNone DEF ParseInv, ShapeInv
<1> QED BY <1>1, ConfigBlocks DEF ParseInv, ShapeInv, AccountInv, OnConfigFile

\* Abort leaves the values on the stack to the lost blocks.
LEMMA AbortKeeps ==
  ASSUME ParseInv, phase = "parsing", NEW got \in Nat, Abort(got)
  PROVE  ParseInv'
<1>1. ShapeInv'
  BY EmptyStack DEF ParseInv, ShapeInv, Abort, NoToken, Word, Token
<1>2. OnStack' = 0
  BY EmptyStack DEF Abort, OnStack
<1>3. heap' = heap + got /\ lost' = lost + OnStack + got /\ config' = config /\ phase' = "aborted"
  BY DEF Abort
<1>4. heap' = lost' + OnStack' + Held(config') + 1 /\ heap' \in Int /\ lost' \in Int
  BY <1>2, <1>3, Parsing
<1>5. AccountInv'
  BY <1>3, <1>4 DEF AccountInv
<1> QED BY <1>1, <1>5 DEF ParseInv

\* A reduction keeps the account when the value that is pushed owns what the
\* values that are popped owned and what was allocated.
LEMMA ReduceKeeps ==
  ASSUME ParseInv, phase = "parsing",
         NEW n \in 0 .. Len(stack), NEW t, n < Len(stack) <=> t # "config_file",
         NEW v, NEW blocks \in Nat, GoodSymbol(Symbol(t, v)),
         OnStack + blocks = Owned(Pop(n)) + Blocks(v),
         Reduce(n, t, v, blocks)
  PROVE  ParseInv'
<1>1. ASSUME NEW got \in 0 .. blocks - 1, Abort(got) PROVE ParseInv'
  BY <1>1, AbortKeeps
<1>2. ASSUME stack' = Append(Pop(n), Symbol(t, v)), heap' = heap + blocks,
             UNCHANGED <<phase, config, look, files, open, text, lost>>
      PROVE  ParseInv'
  <2>1. /\ IsStack(Pop(n)) /\ Len(Pop(n)) = Len(stack) - n /\ Len(stack) \in Nat
        /\ \A i \in 1 .. Len(stack) - n : Pop(n)[i] = stack[i]
    BY PopStack, Parsing
  <2>2. Symbol(t, v).v = v /\ Symbol(t, v).tok.t = t
    BY DEF Symbol, Word, Token
  <2>3. PICK s : s = Pop(n)
    OBVIOUS
  <2>4. /\ IsStack(stack') /\ Len(stack') = Len(s) + 1 /\ stack'[Len(s) + 1] = Symbol(t, v)
        /\ \A i \in 1 .. Len(s) : stack'[i] = s[i]
        /\ Owned(stack') = Owned(s) + Blocks(v)
        /\ Owned(s) \in Nat /\ Blocks(v) \in Nat
    <3>1. IsStack(s) /\ stack' = Append(s, Symbol(t, v))
      BY <1>2, <2>1, <2>3
    <3>2. Pushed(stack', s, Symbol(t, v))
      BY <3>1, PushStack
    <3> QED BY <2>2, <3>2 DEF Pushed
  <2>5. OnConfigFile(stack')
    <3>1. /\ \A i \in 1 .. Len(stack) : stack[i].tok.t = "config_file" <=> i = 1
          /\ Len(s) = Len(stack) - n /\ Len(stack) \in Nat
      BY <2>1, <2>3 DEF ParseInv, ShapeInv, OnConfigFile
    <3>2. ASSUME NEW i \in 1 .. Len(s) PROVE stack'[i].tok.t = "config_file" <=> i = 1
      <4>1. i \in 1 .. Len(stack) - n /\ i \in 1 .. Len(stack)
        BY <3>1
      <4>2. stack'[i] = stack[i]
        BY <2>1, <2>3, <2>4, <4>1
      <4> QED BY <3>1, <4>1, <4>2
    <3>3. stack'[Len(s) + 1].tok.t = "config_file" <=> Len(s) + 1 = 1
      BY <2>2, <2>4, <3>1
    <3> QED BY <2>4, <3>1, <3>2, <3>3 DEF OnConfigFile
  <2>6. ShapeInv'
    BY <1>2, <2>4, <2>5 DEF ParseInv, ShapeInv
  <2>7. OnStack' = OnStack + blocks
    BY <2>3, <2>4 DEF OnStack
  <2>8. heap' = lost' + OnStack' + Held(config') + 1 /\ heap' \in Int /\ lost' \in Int
    <3>1. heap = lost + OnStack + Held(config) + 1 /\ heap \in Int /\ lost \in Int
          /\ OnStack \in Nat /\ Held(config) \in Nat
      BY Parsing
    <3>2. Held(config') = Held(config)
      BY <1>2
    <3> QED BY <1>2, <2>7, <3>1, <3>2
  <2>9. AccountInv'
    BY <1>2, <2>8 DEF AccountInv
  <2> QED BY <2>6, <2>9 DEF ParseInv
<1> QED BY <1>1, <1>2 DEF Reduce

\* The same for a production that allocates nothing.
LEMMA ReduceOnly ==
  ASSUME ParseInv, phase = "parsing",
         NEW n \in 0 .. Len(stack), NEW t, n < Len(stack) <=> t # "config_file",
         NEW v, GoodSymbol(Symbol(t, v)), OnStack = Owned(Pop(n)) + Blocks(v),
         Reduce(n, t, v, 0)
  PROVE  ParseInv'
<1>1. PICK zero : zero = 0
  OBVIOUS
<1>2. Reduce(n, t, v, zero) /\ zero \in Nat
  BY <1>1
<1>3. OnStack + zero = Owned(Pop(n)) + Blocks(v)
  BY <1>1, Parsing
<1> QED BY <1>2, <1>3, ReduceKeeps

\* A symbol on the stack that is no nonterminal with a value owns nothing.
LEMMA TopSymbol ==
  ASSUME ParseInv, phase = "parsing", NEW n \in 1 .. Len(stack)
  PROVE  /\ IsTree(Top(n).v) /\ Blocks(Top(n).v) \in Nat
         /\ Top(n).tok.t \notin Valued => Top(n).v = NULL /\ Blocks(Top(n).v) = 0
         /\ Top(n).tok.t = "extra_ips" => IsList(Top(n).v)
         /\ Top(n).tok.t = "port" => Top(n).tok.n \in PortNumbers
<1>1. GoodSymbol(Top(n)) /\ Blocks(Top(n).v) \in Nat
  BY PopSum, Parsing
<1> QED BY <1>1, NoBlocks DEF GoodSymbol

\* A new symbol with a tree.
LEMMA NewSymbol ==
  ASSUME NEW t, t # "port", NEW v, IsTree(v), t = "extra_ips" => IsList(v),
         t \notin Valued => v = NULL
  PROVE  GoodSymbol(Symbol(t, v))
BY DEF GoodSymbol, Symbol, Word, Token

\* The blocks of the nodes that the grammar makes.
LEMMA MadeNodes ==
  ASSUME NEW l, NEW r, IsTree(l), IsTree(r), NEW tok
  PROVE  /\ \A type \in {"IP", "SEQ", "IF", "COND", "AND", "OR"} :
              /\ IsTree(Node(type, l, r, tok))
              /\ Blocks(Node(type, l, r, tok)) = Blocks(l) + Blocks(r) + 1
         /\ IsTree(Node("ACTION", l, r, tok))
         /\ tok.t \notin {"print", "drop"} =>
              Blocks(Node("ACTION", l, r, tok)) = Blocks(l) + Blocks(r) + 2
<1>1. \A type \in {"IP", "SEQ", "IF", "COND", "AND", "OR"} : ~HasData(Label(type, tok))
  BY DEF HasData, Label
<1>2. tok.t \notin {"print", "drop"} => HasData(Label("ACTION", tok))
  BY DEF HasData, Label
<1> QED BY <1>1, <1>2, NodeIsTree, NodeBlocks

LEMMA IfBlocks ==
  ASSUME NEW cond, NEW body, NEW else, IsTree(cond), IsTree(body), IsTree(else)
  PROVE  /\ IsTree(If(cond, body, else))
         /\ Blocks(If(cond, body, else)) = Blocks(cond) + Blocks(body) + Blocks(else) + 2
<1>1. Blocks(cond) \in Nat /\ Blocks(body) \in Nat /\ Blocks(else) \in Nat
  BY TreeBlocks
<1>2. PICK inner : inner = Node("COND", cond, body, NoToken)
  OBVIOUS
<1>3. IsTree(inner) /\ Blocks(inner) = Blocks(cond) + Blocks(body) + 1
  BY <1>2, MadeNodes
<1>4. If(cond, body, else) = Node("IF", inner, else, NoToken)
  BY <1>2 DEF If
<1>5. /\ IsTree(Node("IF", inner, else, NoToken))
      /\ Blocks(Node("IF", inner, else, NoToken)) = Blocks(inner) + Blocks(else) + 1
  BY <1>3, MadeNodes
<1> QED BY <1>1, <1>3, <1>4, <1>5

LEMMA ExtraIpsKeeps == ASSUME ParseInv, phase = "parsing", ExtraIps PROVE ParseInv'
<1>1. /\ IsStack(stack) /\ Len(stack) \in Nat /\ Len(stack) >= 1 /\ OnStack \in Nat
  BY Parsing
<1>2. CASE look.t = "semi" /\ Top(1).tok.t \in {"port", "ip"} /\ Reduce(0, "extra_ips", NULL, 0)
  <2>1. OnStack = Owned(Pop(0))
    BY <1>1, PopNone
  <2>2. Blocks(NULL) = 0 /\ GoodSymbol(Symbol("extra_ips", NULL))
    BY NoBlocks, NewSymbol
  <2>3. OnStack = Owned(Pop(0)) + Blocks(NULL)
    BY <1>1, <2>1, <2>2
  <2>4. 0 \in 0 .. Len(stack) /\ 0 < Len(stack)
    BY <1>1
  <2> QED BY <1>2, <2>2, <2>3, <2>4, ReduceOnly
<1>3. CASE /\ Ends(<<"ip", "extra_ips">>)
           /\ Reduce(2, "extra_ips", Node("IP", NULL, Top(1).v, Top(2).tok), 1)
  <2>1. Len(stack) >= 2 /\ Top(2).tok.t = "ip" /\ Top(1).tok.t = "extra_ips"
    BY <1>1, <1>3, EndsAre
  <2>2. 1 \in 1 .. Len(stack) /\ 2 \in 1 .. Len(stack) /\ 2 \in 0 .. Len(stack)
    BY <1>1, <2>1
  <2>3. /\ IsTree(Top(1).v) /\ IsList(Top(1).v) /\ Blocks(Top(1).v) \in Nat
        /\ Blocks(Top(2).v) = 0
    BY <2>1, <2>2, TopSymbol DEF Valued
  <2>4. 2 < Len(stack)
    BY <2>1, <2>2, AboveBottom
  <2>5. OnStack = Owned(Pop(2)) + Blocks(Top(1).v) /\ Owned(Pop(2)) \in Nat
    BY <1>1, <2>1, <2>2, <2>3, PopSum
  <2>6. PICK v : v = Node("IP", NULL, Top(1).v, Top(2).tok)
    OBVIOUS
  <2>7. IsTree(v) /\ IsList(v) /\ Blocks(v) = Blocks(Top(1).v) + 1
    BY <2>3, <2>6, NoBlocks, MadeNodes, NodeIsList
  <2>8. GoodSymbol(Symbol("extra_ips", v))
    BY <2>7, NewSymbol DEF Valued
  <2>9. OnStack + 1 = Owned(Pop(2)) + Blocks(v)
    BY <2>3, <2>5, <2>7
  <2> QED BY <1>3, <2>2, <2>4, <2>6, <2>8, <2>9, ReduceKeeps
<1> QED BY <1>2, <1>3 DEF ExtraIps

\* The configuration, once the parser has stored into it.
LEMMA StoreKeeps ==
  ASSUME ParseInv, phase = "parsing", NEW n \in 1 .. Len(stack), n < Len(stack),
         NEW got \in Nat,
         stack' = Pop(n), heap' = heap + got, lost' \in Int,
         UNCHANGED <<phase, look, files, open>>,
         config' = [ports |-> [m \in 0 .. 1 |-> config'.ports[m]],
                    nat_lookup |-> config'.nat_lookup, rules |-> config'.rules],
         \A m \in 0 .. 1 : IsTree(config'.ports[m]) /\ IsList(config'.ports[m]),
         config'.rules = Wild \/ IsTree(config'.rules),
         heap' = lost' + Owned(Pop(n)) + Held(config') + 1
  PROVE  ParseInv'
<1>1. n \in 0 .. Len(stack) /\ Len(stack) \in Nat /\ IsStack(stack) /\ heap \in Int
  BY Parsing
<1>2. /\ IsStack(stack') /\ Len(stack') = Len(stack) - n
      /\ \A i \in 1 .. Len(stack) - n : stack'[i] = stack[i]
  BY <1>1, PopStack
<1>3. OnConfigFile(stack')
  BY <1>1, <1>2 DEF ParseInv, ShapeInv, OnConfigFile
<1>4. ShapeInv'
  BY <1>2, <1>3 DEF ParseInv, ShapeInv
<1>5. OnStack' = Owned(Pop(n))
  BY DEF OnStack
<1>6. heap' \in Int /\ phase' = "parsing"
  BY <1>1
<1>7. AccountInv'
  BY <1>5, <1>6 DEF AccountInv
<1> QED BY <1>4, <1>7 DEF ParseInv

LEMMA ConfigPortKeeps == ASSUME ParseInv, phase = "parsing", ConfigPort PROVE ParseInv'
<1>1. IsStack(stack) /\ Len(stack) \in Nat /\ OnStack \in Nat
  BY Parsing
<1>2. /\ Len(stack) >= 3
      /\ Top(3).tok.t = "port" /\ Top(2).tok.t = "extra_ips" /\ Top(1).tok.t = "semi"
  BY <1>1, EndsAre DEF ConfigPort
<1>3. 1 \in 1 .. Len(stack) /\ 2 \in 1 .. Len(stack) /\ 3 \in 1 .. Len(stack)
      /\ 3 \in 0 .. Len(stack)
  BY <1>1, <1>2
<1>4. /\ IsTree(Top(2).v) /\ IsList(Top(2).v) /\ Blocks(Top(2).v) \in Nat
      /\ Blocks(Top(1).v) = 0 /\ Blocks(Top(3).v) = 0 /\ Top(3).tok.n \in PortNumbers
  BY <1>2, <1>3, TopSymbol DEF Valued
<1>5. 3 < Len(stack)
  BY <1>2, <1>3, AboveBottom
<1>6. OnStack = Owned(Pop(3)) + Blocks(Top(2).v) /\ Owned(Pop(3)) \in Nat
  BY <1>1, <1>2, <1>3, <1>4, PopSum
<1>7. PICK list : list = Node("IP", NULL, Top(2).v, Top(3).tok)
  OBVIOUS
<1>8. IsTree(list) /\ IsList(list) /\ Blocks(list) = Blocks(Top(2).v) + 1 /\ Blocks(list) \in Nat
  <2>1. IsTree(NULL) /\ Blocks(NULL) = 0
    BY NoBlocks
  <2>2. IsTree(list) /\ Blocks(list) = Blocks(NULL) + Blocks(Top(2).v) + 1
    BY <1>4, <1>7, <2>1, MadeNodes
  <2>3. IsList(list)
    BY <1>4, <1>7, NodeIsList
  <2> QED BY <1>4, <2>1, <2>2, <2>3
<1>9. /\ config = [ports |-> [m \in 0 .. 1 |-> config.ports[m]],
                   nat_lookup |-> config.nat_lookup, rules |-> config.rules]
      /\ \A m \in 0 .. 1 : IsTree(config.ports[m]) /\ IsList(config.ports[m])
      /\ config.rules = Wild \/ IsTree(config.rules)
  BY DEF ParseInv, ShapeInv
<1>10. /\ heap \in Int /\ lost \in Int
       /\ heap = lost + OnStack + Held(config) + 1 /\ Held(config) \in Nat
  BY Parsing
<1>11. /\ Blocks(config.ports[0]) \in Nat /\ Blocks(config.ports[1]) \in Nat
       /\ Blocks(config.rules) \in Nat
  BY ConfigBlocks
<1>12. CASE Abort(0)
  BY <1>12, AbortKeeps
<1>13. ASSUME Top(3).tok.n < RTE_MAX_ETHPORTS, StorePort(Top(3).tok.n, list),
              heap' = heap + 1, stack' = Pop(3), UNCHANGED <<phase, look, files, open, text>>
       PROVE  ParseInv'
  <2>1. PICK n : n = Top(3).tok.n
    OBVIOUS
  <2>2. n \in 0 .. 2
    BY <1>4, <1>13, <2>1, PortNumbersAssumption DEF RTE_MAX_ETHPORTS, NATASHA_MAX_ETHPORTS
  <2>3. CASE n \in 0 .. 1
    <3>1. /\ config' = [config EXCEPT !.ports[n] = list]
          /\ lost' = lost + Blocks(config.ports[n])
      BY <1>13, <2>1, <2>3 DEF StorePort, NATASHA_MAX_ETHPORTS
    <3>2. config' = [ports |-> [m \in 0 .. 1 |-> IF m = n THEN list ELSE config.ports[m]],
                     nat_lookup |-> config.nat_lookup, rules |-> config.rules]
      BY <1>9, <2>3, <3>1
    <3>3. /\ \A m \in 0 .. 1 : config'.ports[m] = IF m = n THEN list ELSE config.ports[m]
          /\ config'.rules = config.rules
      BY <3>2
    <3>4. config' = [ports |-> [m \in 0 .. 1 |-> config'.ports[m]],
                     nat_lookup |-> config'.nat_lookup, rules |-> config'.rules]
      BY <3>2
    <3>5. \A m \in 0 .. 1 : IsTree(config'.ports[m]) /\ IsList(config'.ports[m])
      BY <1>8, <1>9, <3>3
    <3>6. Held(config') + Blocks(config.ports[n]) = Held(config) + Blocks(list)
          /\ Held(config') \in Nat /\ Blocks(config.ports[n]) \in Nat
      <4>1. CASE n = 0
        BY <1>8, <1>11, <3>3, <4>1 DEF Held
      <4>2. CASE n = 1
        BY <1>8, <1>11, <3>3, <4>2 DEF Held
      <4> QED BY <2>3, <4>1, <4>2
    <3>7. lost' \in Int /\ heap' = lost' + Owned(Pop(3)) + Held(config') + 1
      BY <1>4, <1>6, <1>8, <1>13, <1>10, <3>1, <3>6
    <3> QED BY <1>3, <1>5, <1>9, <1>13, <3>3, <3>4, <3>5, <3>7, StoreKeeps
  <2>4. CASE n = 2
    <3>1. /\ config' = [config EXCEPT !.nat_lookup = "ips", !.rules = Wild]
          /\ lost' = lost + Blocks(list) + Blocks(config.rules)
      BY <1>13, <2>1, <2>4 DEF StorePort, NATASHA_MAX_ETHPORTS
    <3>2. config' = [ports |-> [m \in 0 .. 1 |-> config.ports[m]],
                     nat_lookup |-> "ips", rules |-> Wild]
      <4>1. PICK ports, table, rules :
              config = [ports |-> ports, nat_lookup |-> table, rules |-> rules]
        BY <1>9
      <4>2. config' = [ports |-> ports, nat_lookup |-> "ips", rules |-> Wild]
        BY <3>1, <4>1
      <4>3. ports = [m \in 0 .. 1 |-> config.ports[m]]
        BY <1>9, <4>1
      <4> QED BY <4>2, <4>3
    <3>3. /\ \A m \in 0 .. 1 : config'.ports[m] = config.ports[m]
          /\ config'.rules = Wild
      BY <3>2
    <3>4. config' = [ports |-> [m \in 0 .. 1 |-> config'.ports[m]],
                     nat_lookup |-> config'.nat_lookup, rules |-> config'.rules]
      BY <3>2
    <3>5. \A m \in 0 .. 1 : IsTree(config'.ports[m]) /\ IsList(config'.ports[m])
      BY <1>9, <3>3
    <3>6. Blocks(config'.rules) = 0
      BY <3>3, NoBlocks
    <3>7. Held(config') + Blocks(config.rules) = Held(config) /\ Held(config') \in Nat
      BY <1>11, <3>3, <3>6 DEF Held
    <3>8. lost' \in Int /\ heap' = lost' + Owned(Pop(3)) + Held(config') + 1
      BY <1>4, <1>6, <1>8, <1>13, <1>10, <1>11, <3>1, <3>7
    <3> QED BY <1>3, <1>5, <1>13, <3>3, <3>4, <3>5, <3>8, StoreKeeps
  <2> QED BY <2>2, <2>3, <2>4
<1> QED BY <1>7, <1>12, <1>13, Zenon DEF ConfigPort

LEMMA ConfigNatRuleKeeps == ASSUME ParseInv, phase = "parsing", ConfigNatRule PROVE ParseInv'
<1>1. IsStack(stack) /\ Len(stack) \in Nat /\ OnStack \in Nat
  BY Parsing
<1>2. Len(stack) >= 2 /\ Top(1).tok.t = "nat"
  BY <1>1, EndsAre DEF ConfigNatRule
<1>3. 1 \in 1 .. Len(stack)
  BY <1>1, <1>2
<1>4. 1 < Len(stack)
  BY <1>2, <1>3, AboveBottom
<1>5. OnStack = Owned(Pop(1)) /\ Owned(Pop(1)) \in Nat
  <2>1. Blocks(Top(1).v) = 0
    BY <1>2, <1>3, TopSymbol DEF Valued
  <2>2. 1 \in 0 .. Len(stack)
    BY <1>3
  <2> QED BY <1>1, <1>2, <2>1, <2>2, PopSum
<1>6. PICK ports, table, rules, table2 :
        /\ config = [ports |-> ports, nat_lookup |-> table, rules |-> rules]
        /\ config' = [ports |-> ports, nat_lookup |-> table2, rules |-> rules]
        /\ ports = [m \in 0 .. 1 |-> config.ports[m]]
  <2>1. PICK ports, table, rules :
          config = [ports |-> ports, nat_lookup |-> table, rules |-> rules]
          /\ ports = [m \in 0 .. 1 |-> config.ports[m]]
    BY DEF ParseInv, ShapeInv
  <2>2. PICK table2 : config' = [config EXCEPT !.nat_lookup = table2]
    BY DEF ConfigNatRule
  <2>3. config' = [ports |-> ports, nat_lookup |-> table2, rules |-> rules]
    BY <2>1, <2>2
  <2> QED BY <2>1, <2>3
<1>7. config'.ports = config.ports /\ config'.rules = config.rules
  BY <1>6
<1>8. /\ config' = [ports |-> [m \in 0 .. 1 |-> config'.ports[m]],
                    nat_lookup |-> config'.nat_lookup, rules |-> config'.rules]
      /\ \A m \in 0 .. 1 : IsTree(config'.ports[m]) /\ IsList(config'.ports[m])
      /\ config'.rules = Wild \/ IsTree(config'.rules)
  <2>1. config' = [ports |-> [m \in 0 .. 1 |-> config'.ports[m]],
                   nat_lookup |-> config'.nat_lookup, rules |-> config'.rules]
    BY <1>6
  <2> QED BY <1>7, <2>1 DEF ParseInv, ShapeInv
<1>9. PICK zero : zero = 0
  OBVIOUS
<1>10. /\ stack' = Pop(1) /\ heap' = heap + zero /\ lost' = lost /\ lost' \in Int
       /\ UNCHANGED <<phase, look, files, open>> /\ zero \in Nat
  BY <1>9, Parsing DEF ConfigNatRule
<1>11. Held(config') = Held(config)
  BY <1>7 DEF Held
<1>12. heap' = lost' + Owned(Pop(1)) + Held(config') + 1
  BY <1>5, <1>9, <1>10, <1>11, Parsing
<1> QED BY <1>3, <1>4, <1>8, <1>10, <1>12, StoreKeeps

LEMMA RulesSectionKeeps == ASSUME ParseInv, phase = "parsing", RulesSection PROVE ParseInv'
<1>1. IsStack(stack) /\ Len(stack) \in Nat /\ OnStack \in Nat
  BY Parsing
<1>2. Len(stack) >= 3 /\ Top(3).tok.t = "rules" /\ Top(2).tok.t = "rules_content"
      /\ Top(1).tok.t = "end"
  BY <1>1, EndsAre DEF RulesSection
<1>3. 1 \in 1 .. Len(stack) /\ 2 \in 1 .. Len(stack) /\ 3 \in 1 .. Len(stack)
      /\ 3 \in 0 .. Len(stack)
  BY <1>1, <1>2
<1>4. 3 < Len(stack)
  BY <1>2, <1>3, AboveBottom
<1>5. IsTree(Top(2).v) /\ Blocks(Top(2).v) \in Nat /\ Blocks(Top(1).v) = 0 /\ Blocks(Top(3).v) = 0
  BY <1>2, <1>3, TopSymbol DEF Valued
<1>6. OnStack = Owned(Pop(3)) + Blocks(Top(2).v) /\ Owned(Pop(3)) \in Nat
  BY <1>1, <1>2, <1>3, <1>5, PopSum
<1>7. PICK ports, table, rules :
        /\ config = [ports |-> ports, nat_lookup |-> table, rules |-> rules]
        /\ config' = [ports |-> ports, nat_lookup |-> table, rules |-> Top(2).v]
        /\ ports = [m \in 0 .. 1 |-> config.ports[m]]
  <2>1. PICK ports, table, rules :
          config = [ports |-> ports, nat_lookup |-> table, rules |-> rules]
          /\ ports = [m \in 0 .. 1 |-> config.ports[m]]
    BY DEF ParseInv, ShapeInv
  <2>2. config' = [config EXCEPT !.rules = Top(2).v]
    BY DEF RulesSection
  <2>3. config' = [ports |-> ports, nat_lookup |-> table, rules |-> Top(2).v]
    BY <2>1, <2>2
  <2> QED BY <2>1, <2>3
<1>8. config'.ports = config.ports /\ config'.rules = Top(2).v
  BY <1>7
<1>9. /\ config' = [ports |-> [m \in 0 .. 1 |-> config'.ports[m]],
                    nat_lookup |-> config'.nat_lookup, rules |-> config'.rules]
      /\ \A m \in 0 .. 1 : IsTree(config'.ports[m]) /\ IsList(config'.ports[m])
      /\ config'.rules = Wild \/ IsTree(config'.rules)
  <2>1. config' = [ports |-> [m \in 0 .. 1 |-> config'.ports[m]],
                   nat_lookup |-> config'.nat_lookup, rules |-> config'.rules]
    BY <1>7
  <2> QED BY <1>5, <1>8, <2>1 DEF ParseInv, ShapeInv
<1>10. PICK zero : zero = 0
  OBVIOUS
<1>11. /\ Blocks(config.ports[0]) \in Nat /\ Blocks(config.ports[1]) \in Nat
       /\ Blocks(config.rules) \in Nat
  BY ConfigBlocks
<1>12. /\ stack' = Pop(3) /\ heap' = heap + zero /\ lost' = lost + Blocks(config.rules)
       /\ lost' \in Int /\ UNCHANGED <<phase, look, files, open>> /\ zero \in Nat
  BY <1>10, <1>11, Parsing DEF RulesSection
<1>13. Held(config') + Blocks(config.rules) = Held(config) + Blocks(Top(2).v)
       /\ Held(config') \in Nat
  BY <1>5, <1>8, <1>11 DEF Held
<1>14. heap = lost + OnStack + Held(config) + 1 /\ heap \in Int /\ lost \in Int
       /\ Held(config) \in Nat
  BY Parsing
<1>15. heap' = lost' + Owned(Pop(3)) + Held(config') + 1
  BY <1>5, <1>6, <1>10, <1>11, <1>12, <1>13, <1>14
<1> QED BY <1>3, <1>4, <1>9, <1>12, <1>15, StoreKeeps

LEMMA ConfigLinesKeeps == ASSUME ParseInv, phase = "parsing", ConfigLines PROVE ParseInv'
<1>1. IsStack(stack) /\ Len(stack) \in Nat /\ OnStack \in Nat
  BY Parsing
<1>2. IsTree(NULL) /\ Blocks(NULL) = 0 /\ GoodSymbol(Symbol("config_lines", NULL))
      /\ GoodSymbol(Symbol("config_file", NULL))
  BY NoBlocks, NewSymbol
<1>3. CASE ConfigPort
  BY <1>3, ConfigPortKeeps
<1>4. CASE ConfigNatRule
  BY <1>4, ConfigNatRuleKeeps
<1>5. CASE Ends(<<"config_lines", "semi">>) /\ Reduce(2, "config_lines", NULL, 0)
  <2>1. Len(stack) >= 2 /\ Top(2).tok.t = "config_lines" /\ Top(1).tok.t = "semi"
    BY <1>1, <1>5, EndsAre
  <2>2. 1 \in 1 .. Len(stack) /\ 2 \in 1 .. Len(stack) /\ 2 \in 0 .. Len(stack)
    BY <1>1, <2>1
  <2>3. Blocks(Top(1).v) = 0 /\ Blocks(Top(2).v) = 0
    BY <2>1, <2>2, TopSymbol DEF Valued
  <2>4. OnStack = Owned(Pop(2)) /\ Owned(Pop(2)) \in Nat
    BY <1>1, <2>1, <2>2, <2>3, PopSum
  <2>5. 2 < Len(stack) /\ OnStack = Owned(Pop(2)) + Blocks(NULL)
    BY <1>2, <2>1, <2>2, <2>4, AboveBottom
  <2> QED BY <1>2, <1>5, <2>2, <2>5, ReduceOnly
<1>6. CASE /\ Ends(<<"config_file", "config", "config_lines", "end">>)
           /\ Reduce(4, "config_file", NULL, 0)
  <2>1. /\ Len(stack) >= 4
        /\ Top(4).tok.t = "config_file" /\ Top(3).tok.t = "config"
        /\ Top(2).tok.t = "config_lines" /\ Top(1).tok.t = "end"
    BY <1>1, <1>6, EndsAre
  <2>2. 1 \in 1 .. Len(stack) /\ 2 \in 1 .. Len(stack) /\ 3 \in 1 .. Len(stack)
        /\ 4 \in 1 .. Len(stack) /\ 4 \in 0 .. Len(stack)
    BY <1>1, <2>1
  <2>3. /\ Blocks(Top(1).v) = 0 /\ Blocks(Top(2).v) = 0 /\ Blocks(Top(3).v) = 0
        /\ Blocks(Top(4).v) = 0
    BY <2>1, <2>2, TopSymbol DEF Valued
  <2>4. OnStack = Owned(Pop(4)) /\ Owned(Pop(4)) \in Nat
    BY <1>1, <2>1, <2>2, <2>3, PopSum
  <2>5. OnStack = Owned(Pop(4)) + Blocks(NULL)
    BY <1>2, <2>4
  <2>6. Len(stack) = 4
    <3>1. Len(stack) + 1 - 4 \in 1 .. Len(stack)
      BY <1>1, <2>1
    <3>2. Len(stack) + 1 - 4 = 1
      BY <2>1, <3>1 DEF ParseInv, ShapeInv, OnConfigFile, Top
    <3> QED BY <1>1, <3>2
  <2> QED BY <1>2, <1>6, <2>2, <2>5, <2>6, ReduceOnly
<1> QED BY <1>3, <1>4, <1>5, <1>6 DEF ConfigLines

LEMMA RulesContentKeeps == ASSUME ParseInv, phase = "parsing", RulesContent PROVE ParseInv'
<1>1. IsStack(stack) /\ Len(stack) \in Nat /\ OnStack \in Nat
  BY Parsing
<1>2. Len(stack) >= 2 /\ Top(2).tok.t = "rules_content" /\ Top(1).tok.t = "rules_stmt"
  BY <1>1, EndsAre DEF RulesContent
<1>3. 1 \in 1 .. Len(stack) /\ 2 \in 1 .. Len(stack) /\ 2 \in 0 .. Len(stack)
  BY <1>1, <1>2
<1>4. 2 < Len(stack)
  BY <1>2, <1>3, AboveBottom
<1>5. /\ IsTree(Top(1).v) /\ Blocks(Top(1).v) \in Nat
      /\ IsTree(Top(2).v) /\ Blocks(Top(2).v) \in Nat /\ Blocks(NULL) = 0
  BY <1>3, TopSymbol, NoBlocks
<1>6. OnStack = Owned(Pop(2)) + Blocks(Top(2).v) + Blocks(Top(1).v) /\ Owned(Pop(2)) \in Nat
  BY <1>1, <1>2, <1>3, <1>5, PopSum
<1>7. PICK seq : seq = Node("SEQ", Top(2).v, Top(1).v, NoToken)
  OBVIOUS
<1>8. /\ GoodSymbol(Symbol("rules_content", Top(1).v)) /\ GoodSymbol(Symbol("rules_content", Top(2).v))
      /\ GoodSymbol(Symbol("rules_content", seq))
      /\ Blocks(seq) = Blocks(Top(2).v) + Blocks(Top(1).v) + 1
  <2>1. IsTree(seq) /\ Blocks(seq) = Blocks(Top(2).v) + Blocks(Top(1).v) + 1
    BY <1>5, <1>7, MadeNodes
  <2>2. "rules_content" \in Valued
    BY DEF Valued
  <2> QED BY <1>5, <2>1, <2>2, NewSymbol
<1>9. CASE Top(2).v = NULL /\ Reduce(2, "rules_content", Top(1).v, 0)
  <2>1. OnStack = Owned(Pop(2)) + Blocks(Top(1).v)
    BY <1>5, <1>6, <1>9
  <2> QED BY <1>3, <1>4, <1>8, <1>9, <2>1, ReduceOnly
<1>10. CASE Top(1).v = NULL /\ Reduce(2, "rules_content", Top(2).v, 0)
  <2>1. OnStack = Owned(Pop(2)) + Blocks(Top(2).v)
    BY <1>5, <1>6, <1>10
  <2> QED BY <1>3, <1>4, <1>8, <1>10, <2>1, ReduceOnly
<1>11. CASE Reduce(2, "rules_content", seq, 1)
  <2>1. OnStack + 1 = Owned(Pop(2)) + Blocks(seq)
    BY <1>5, <1>6, <1>8
  <2> QED BY <1>3, <1>4, <1>8, <1>11, <2>1, ReduceKeeps
<1> QED BY <1>7, <1>9, <1>10, <1>11, Zenon DEF RulesContent

LEMMA RulesStmtKeeps == ASSUME ParseInv, phase = "parsing", RulesStmt PROVE ParseInv'
<1>1. IsStack(stack) /\ Len(stack) \in Nat /\ Len(stack) >= 1 /\ OnStack \in Nat
  BY Parsing
<1>2. IsTree(NULL) /\ Blocks(NULL) = 0
  BY NoBlocks
<1>3. 1 \in 1 .. Len(stack) /\ 1 \in 0 .. Len(stack)
  BY <1>1
<1>4. CASE Ends(<<"rules_content", "semi">>) /\ Reduce(1, "rules_stmt", NULL, 0)
  <2>1. Len(stack) >= 2 /\ Top(1).tok.t = "semi"
    BY <1>1, <1>4, EndsAre
  <2>2. Blocks(Top(1).v) = 0 /\ 1 < Len(stack)
    BY <1>3, <2>1, TopSymbol, AboveBottom DEF Valued
  <2>3. OnStack = Owned(Pop(1)) + Blocks(NULL)
    BY <1>1, <1>2, <1>3, <2>2, PopSum
  <2>4. GoodSymbol(Symbol("rules_stmt", NULL))
    BY <1>2, NewSymbol
  <2> QED BY <1>3, <1>4, <2>2, <2>3, <2>4, ReduceOnly
<1>5. ASSUME Top(1).tok.t \in {"rewrite", "out", "print", "drop"},
             NEW node, node = Node("ACTION", NULL, NULL, Top(1).tok),
             Reduce(1, "rules_stmt", node, Blocks(node))
      PROVE  ParseInv'
  <2>1. Blocks(Top(1).v) = 0 /\ 1 < Len(stack)
    BY <1>3, <1>5, TopSymbol, AboveBottom DEF Valued
  <2>2. IsTree(node) /\ Blocks(node) \in Nat
    BY <1>2, <1>5, MadeNodes, TreeBlocks
  <2>3. OnStack = Owned(Pop(1)) /\ Owned(Pop(1)) \in Nat
    BY <1>1, <1>3, <2>1, PopSum
  <2>4. OnStack + Blocks(node) = Owned(Pop(1)) + Blocks(node)
    BY <2>3
  <2>5. GoodSymbol(Symbol("rules_stmt", node))
    BY <2>2, NewSymbol DEF Valued
  <2> QED BY <1>3, <1>5, <2>1, <2>2, <2>4, <2>5, ReduceKeeps
<1>6. ASSUME Ends(<<"if", "cond", "then", "rules_content", "end">>),
             Reduce(5, "rules_stmt", If(Top(4).v, Top(2).v, NULL), 2)
      PROVE  ParseInv'
  <2>1. /\ Len(stack) >= 5
        /\ Top(5).tok.t = "if" /\ Top(4).tok.t = "cond" /\ Top(3).tok.t = "then"
        /\ Top(2).tok.t = "rules_content" /\ Top(1).tok.t = "end"
    BY <1>1, <1>6, EndsAre
  <2>2. 2 \in 1 .. Len(stack) /\ 3 \in 1 .. Len(stack) /\ 4 \in 1 .. Len(stack)
        /\ 5 \in 1 .. Len(stack) /\ 5 \in 0 .. Len(stack)
    BY <1>1, <2>1
  <2>3. /\ Blocks(Top(1).v) = 0 /\ Blocks(Top(3).v) = 0 /\ Blocks(Top(5).v) = 0
        /\ IsTree(Top(2).v) /\ Blocks(Top(2).v) \in Nat
        /\ IsTree(Top(4).v) /\ Blocks(Top(4).v) \in Nat
    BY <1>3, <2>1, <2>2, TopSymbol DEF Valued
  <2>4. 5 < Len(stack)
    BY <2>1, <2>2, AboveBottom
  <2>5. OnStack = Owned(Pop(5)) + Blocks(Top(4).v) + Blocks(Top(2).v) /\ Owned(Pop(5)) \in Nat
    BY <1>1, <2>1, <2>2, <2>3, PopSum
  <2>6. PICK v : v = If(Top(4).v, Top(2).v, NULL)
    OBVIOUS
  <2>7. IsTree(v) /\ Blocks(v) = Blocks(Top(4).v) + Blocks(Top(2).v) + 2
    BY <1>2, <2>3, <2>6, IfBlocks
  <2>8. GoodSymbol(Symbol("rules_stmt", v)) /\ OnStack + 2 = Owned(Pop(5)) + Blocks(v)
    BY <2>3, <2>5, <2>7, NewSymbol DEF Valued
  <2> QED BY <1>6, <2>2, <2>4, <2>6, <2>8, ReduceKeeps
<1>7. ASSUME Ends(<<"if", "cond", "then", "rules_content", "end", "else", "rules_content", "end">>),
             Reduce(8, "rules_stmt", If(Top(7).v, Top(5).v, Top(2).v), 2)
      PROVE  ParseInv'
  <2>1. /\ Len(stack) >= 8
        /\ Top(8).tok.t = "if" /\ Top(7).tok.t = "cond" /\ Top(6).tok.t = "then"
        /\ Top(5).tok.t = "rules_content" /\ Top(4).tok.t = "end" /\ Top(3).tok.t = "else"
        /\ Top(2).tok.t = "rules_content" /\ Top(1).tok.t = "end"
    BY <1>1, <1>7, EndsAre
  <2>2. 2 \in 1 .. Len(stack) /\ 3 \in 1 .. Len(stack) /\ 4 \in 1 .. Len(stack)
        /\ 5 \in 1 .. Len(stack) /\ 6 \in 1 .. Len(stack) /\ 7 \in 1 .. Len(stack)
        /\ 8 \in 1 .. Len(stack) /\ 8 \in 0 .. Len(stack)
    BY <1>1, <2>1
  <2>3. /\ Blocks(Top(1).v) = 0 /\ Blocks(Top(3).v) = 0 /\ Blocks(Top(4).v) = 0
        /\ Blocks(Top(6).v) = 0 /\ Blocks(Top(8).v) = 0
    BY <1>3, <2>1, <2>2, TopSymbol DEF Valued
  <2>4. /\ IsTree(Top(2).v) /\ Blocks(Top(2).v) \in Nat
        /\ IsTree(Top(5).v) /\ Blocks(Top(5).v) \in Nat
        /\ IsTree(Top(7).v) /\ Blocks(Top(7).v) \in Nat
    BY <2>2, TopSymbol
  <2>5. 8 < Len(stack)
    BY <2>1, <2>2, AboveBottom
  <2>6. OnStack = Owned(Pop(8)) + Blocks(Top(7).v) + Blocks(Top(5).v) + Blocks(Top(2).v)
        /\ Owned(Pop(8)) \in Nat
    BY <1>1, <2>1, <2>2, <2>3, <2>4, PopSum
  <2>7. PICK v : v = If(Top(7).v, Top(5).v, Top(2).v)
    OBVIOUS
  <2>8. IsTree(v) /\ Blocks(v) = Blocks(Top(7).v) + Blocks(Top(5).v) + Blocks(Top(2).v) + 2
    BY <2>4, <2>7, IfBlocks
  <2>9. GoodSymbol(Symbol("rules_stmt", v)) /\ OnStack + 2 = Owned(Pop(8)) + Blocks(v)
    BY <2>4, <2>6, <2>8, NewSymbol DEF Valued
  <2> QED BY <1>7, <2>2, <2>5, <2>7, <2>9, ReduceKeeps
<1> QED BY <1>4, <1>5, <1>6, <1>7, Zenon DEF RulesStmt

LEMMA CondKeeps == ASSUME ParseInv, phase = "parsing", Cond PROVE ParseInv'
<1>1. IsStack(stack) /\ Len(stack) \in Nat /\ Len(stack) >= 1 /\ OnStack \in Nat
  BY Parsing
<1>2. IsTree(NULL) /\ Blocks(NULL) = 0 /\ "cond" \in Valued
  BY NoBlocks DEF Valued
<1>3. 1 \in 1 .. Len(stack) /\ 1 \in 0 .. Len(stack)
  BY <1>1
<1>4. ASSUME NEW op \in {"and", "or"}, Ends(<<"cond", op, "cond">>),
             NEW v, v = Node(Operator(Top(2).tok.t), Top(3).v, Top(1).v, NoToken),
             Reduce(3, "cond", v, 1)
      PROVE  ParseInv'
  <2>1. Len(stack) >= 3 /\ Top(3).tok.t = "cond" /\ Top(2).tok.t = op /\ Top(1).tok.t = "cond"
    BY <1>1, <1>4, EndsAre
  <2>2. 2 \in 1 .. Len(stack) /\ 3 \in 1 .. Len(stack) /\ 3 \in 0 .. Len(stack)
    BY <1>1, <2>1
  <2>3. /\ Blocks(Top(2).v) = 0 /\ IsTree(Top(1).v) /\ Blocks(Top(1).v) \in Nat
        /\ IsTree(Top(3).v) /\ Blocks(Top(3).v) \in Nat
    BY <1>3, <2>1, <2>2, TopSymbol DEF Valued
  <2>4. 3 < Len(stack)
    BY <2>1, <2>2, AboveBottom
  <2>5. OnStack = Owned(Pop(3)) + Blocks(Top(3).v) + Blocks(Top(1).v) /\ Owned(Pop(3)) \in Nat
    BY <1>1, <1>3, <2>1, <2>2, <2>3, PopSum
  <2>6. Operator(Top(2).tok.t) \in {"AND", "OR"}
    BY DEF Operator
  <2>7. IsTree(v) /\ Blocks(v) = Blocks(Top(3).v) + Blocks(Top(1).v) + 1
    <3>1. PICK type : type = Operator(Top(2).tok.t)
      OBVIOUS
    <3>2. v = Node(type, Top(3).v, Top(1).v, NoToken) /\ type \in {"AND", "OR"}
      BY <1>4, <2>6, <3>1
    <3>3. PICK l, r : l = Top(3).v /\ r = Top(1).v
      OBVIOUS
    <3>4. /\ IsTree(Node(type, l, r, NoToken))
          /\ Blocks(Node(type, l, r, NoToken)) = Blocks(l) + Blocks(r) + 1
      <4>1. IsTree(l) /\ IsTree(r)
        BY <2>3, <3>3
      <4> QED BY <3>2, <4>1, MadeNodes
    <3> QED BY <3>2, <3>3, <3>4
  <2>8. GoodSymbol(Symbol("cond", v)) /\ OnStack + 1 = Owned(Pop(3)) + Blocks(v)
    BY <1>2, <2>3, <2>5, <2>7, NewSymbol
  <2> QED BY <1>4, <2>2, <2>4, <2>8, ReduceKeeps
<1>5. CASE Ends(<<"(", "cond", ")">>) /\ Reduce(3, "cond", Top(2).v, 0)
  <2>1. Len(stack) >= 3 /\ Top(3).tok.t = "(" /\ Top(2).tok.t = "cond" /\ Top(1).tok.t = ")"
    BY <1>1, <1>5, EndsAre
  <2>2. 2 \in 1 .. Len(stack) /\ 3 \in 1 .. Len(stack) /\ 3 \in 0 .. Len(stack)
    BY <1>1, <2>1
  <2>3. /\ Blocks(Top(1).v) = 0 /\ Blocks(Top(3).v) = 0
        /\ IsTree(Top(2).v) /\ Blocks(Top(2).v) \in Nat
    BY <1>3, <2>1, <2>2, TopSymbol DEF Valued
  <2>4. 3 < Len(stack)
    BY <2>1, <2>2, AboveBottom
  <2>5. OnStack = Owned(Pop(3)) + Blocks(Top(2).v)
    BY <1>1, <1>3, <2>1, <2>2, <2>3, PopSum
  <2>6. GoodSymbol(Symbol("cond", Top(2).v))
    BY <1>2, <2>3, NewSymbol
  <2> QED BY <1>5, <2>2, <2>4, <2>5, <2>6, ReduceOnly
<1>6. ASSUME Top(1).tok.t \in {"in", "vlan"},
             NEW v, v = Node("ACTION", NULL, NULL, Top(1).tok), Reduce(1, "cond", v, 2)
      PROVE  ParseInv'
  <2>1. Blocks(Top(1).v) = 0 /\ 1 < Len(stack)
    BY <1>3, <1>6, TopSymbol, AboveBottom DEF Valued
  <2>2. Top(1).tok.t \notin {"print", "drop"}
    BY <1>6
  <2>3. IsTree(v) /\ Blocks(v) = Blocks(NULL) + Blocks(NULL) + 2
    BY <1>2, <1>6, <2>2, MadeNodes, ZenonT(60)
  <2>4. OnStack = Owned(Pop(1)) /\ Owned(Pop(1)) \in Nat
    BY <1>1, <1>3, <2>1, PopSum
  <2>5. GoodSymbol(Symbol("cond", v)) /\ OnStack + 2 = Owned(Pop(1)) + Blocks(v)
    BY <1>2, <2>3, <2>4, NewSymbol
  <2> QED BY <1>3, <1>6, <2>1, <2>5, ReduceKeeps
<1>7. ASSUME Ends(<<"cond", "and", "cond">>) \/ Ends(<<"cond", "or", "cond">>),
             Reduce(3, "cond", Node(Operator(Top(2).tok.t), Top(3).v, Top(1).v, NoToken), 1)
      PROVE  ParseInv'
  BY <1>4, <1>7, Zenon
<1> QED BY <1>5, <1>6, <1>7, Zenon DEF Cond

LEMMA ReductionKeeps == ASSUME ParseInv, phase = "parsing", Reduction PROVE ParseInv'
BY ExtraIpsKeeps, ConfigLinesKeeps, RulesSectionKeeps, RulesContentKeeps, RulesStmtKeeps, CondKeeps
   DEF Reduction

LEMMA ShiftKeeps == ASSUME ParseInv, phase = "parsing", Shift PROVE ParseInv'
<1>1. /\ IsStack(stack) /\ Len(stack) \in Nat /\ Len(stack) >= 1 /\ OnStack \in Nat
      /\ \A i \in 1 .. Len(stack) : stack[i].tok.t = "config_file" <=> i = 1
  BY Parsing DEF ParseInv, ShapeInv, OnConfigFile
<1>2. IsTree(NULL) /\ IsList(NULL) /\ Blocks(NULL) = 0
  BY NoBlocks
<1>3. PICK sym : sym = [tok |-> look, v |-> NULL]
  OBVIOUS
<1>4. GoodSymbol(sym) /\ sym.v = NULL /\ sym.tok.t # "config_file"
  BY <1>2, <1>3 DEF GoodSymbol, ParseInv, ShapeInv
<1>5. PICK s : s = Append(stack, sym)
  OBVIOUS
<1>6. /\ IsStack(s) /\ Len(s) = Len(stack) + 1 /\ Owned(s) = OnStack
      /\ \A i \in 1 .. Len(stack) : s[i] = stack[i]
      /\ s[Len(stack) + 1] = sym
  <2>1. Pushed(s, stack, sym)
    BY <1>1, <1>4, <1>5, PushStack
  <2> QED BY <1>2, <1>4, <2>1 DEF Pushed, OnStack
<1>7. OnConfigFile(s)
  BY <1>1, <1>4, <1>6 DEF OnConfigFile
<1>8. ASSUME IsStack(stack'), OnConfigFile(stack'), Owned(stack') = Owned(s)
      PROVE  ParseInv'
  <2>1. look' = NoToken /\ UNCHANGED <<phase, config, files, open, heap, text, lost>>
    BY DEF Shift
  <2>2. ShapeInv'
    BY <1>8, <2>1 DEF ParseInv, ShapeInv, NoToken, Word, Token
  <2>3. OnStack' = OnStack
    BY <1>6, <1>8 DEF OnStack
  <2>4. AccountInv'
    BY <2>1, <2>3 DEF ParseInv, AccountInv
  <2> QED BY <2>2, <2>4 DEF ParseInv
<1>9. ASSUME NEW t \in {"config_lines", "rules_content"}, stack' = s \o <<Symbol(t, NULL)>>
      PROVE  ParseInv'
  <2>1. GoodSymbol(Symbol(t, NULL)) /\ Symbol(t, NULL).v = NULL
        /\ Symbol(t, NULL).tok.t # "config_file"
    BY <1>2, NewSymbol DEF Symbol, Word, Token
  <2>2. PICK sym2 : sym2 = Symbol(t, NULL)
    OBVIOUS
  <2>3. stack' = Append(s, sym2)
    <3>1. PICK S : s \in Seq(S)
      BY <1>6, StackElim
    <3>2. PICK T : T = S \cup {sym2}
      OBVIOUS
    <3>3. s \in Seq(T) /\ sym2 \in T
      BY <3>1, <3>2, SeqMonotonic
    <3>4. Append(s, sym2) = s \o <<sym2>>
      BY <3>3, AppendIsConcat
    <3> QED BY <1>9, <2>2, <3>4
  <2>4. /\ IsStack(stack') /\ Len(stack') = Len(s) + 1
        /\ \A i \in 1 .. Len(s) : stack'[i] = s[i]
        /\ stack'[Len(s) + 1] = sym2
        /\ Owned(stack') = Owned(s) + Blocks(sym2.v) /\ Owned(s) \in Nat
    <3>1. Pushed(stack', s, sym2)
      BY <1>6, <2>1, <2>2, <2>3, PushStack
    <3> QED BY <3>1 DEF Pushed
  <2>5. Owned(stack') = Owned(s)
    BY <1>2, <2>1, <2>2, <2>4
  <2>6. OnConfigFile(stack')
    BY <1>1, <1>6, <1>7, <2>1, <2>2, <2>4 DEF OnConfigFile
  <2> QED BY <1>8, <2>4, <2>5, <2>6
<1>10. ASSUME stack' = s \o <<>> PROVE ParseInv'
  <2>1. stack' = s
    BY <1>6, <1>10, StackElim, ConcatEmptySeq
  <2> QED BY <1>6, <1>8, <1>7, <2>1
<1>11. stack' = s \o (CASE look.t = "config" -> <<Symbol("config_lines", NULL)>>
                        [] look.t \in {"rules", "then", "else"} -> <<Symbol("rules_content", NULL)>>
                        [] OTHER -> <<>>)
  BY <1>3, <1>5 DEF Shift
<1>12. CASE look.t = "config"
  BY <1>9, <1>11, <1>12
<1>13. CASE look.t \in {"rules", "then", "else"}
  BY <1>9, <1>11, <1>13
<1>14. CASE look.t # "config" /\ look.t \notin {"rules", "then", "else"}
  BY <1>10, <1>11, <1>14
<1> QED BY <1>12, <1>13, <1>14

\* The parser accepts when nothing but config_file is left.
LEMMA AcceptKeeps == ASSUME ParseInv, phase = "parsing", Accept PROVE ParseInv'
<1>1. IsStack(stack) /\ Len(stack) \in Nat /\ OnStack \in Nat
  BY Parsing
<1>2. Len(stack) >= 1 /\ Top(1).tok.t = "config_file"
  BY <1>1, EndsAre DEF Accept
<1>3. Len(stack) = 1
  <2>1. Len(stack) + 1 - 1 \in 1 .. Len(stack)
    BY <1>1, <1>2
  <2>2. Len(stack) + 1 - 1 = 1
    BY <1>2, <2>1 DEF ParseInv, ShapeInv, OnConfigFile, Top
  <2> QED BY <1>1, <2>2
<1>4. OnStack = 0
  <2>1. 1 \in 1 .. Len(stack) /\ 1 \in 0 .. Len(stack)
    BY <1>3
  <2>2. Blocks(Top(1).v) = 0
    BY <1>2, <2>1, TopSymbol DEF Valued
  <2>3. IsStack(Pop(1)) /\ Len(Pop(1)) = 0
    BY <1>1, <1>3, <2>1, PopStack
  <2>4. Pop(1) = <<>>
    BY <2>3, StackElim, EmptySeq
  <2>5. OnStack = Owned(Pop(1)) + Blocks(Top(1).v)
    BY <1>1, <1>3, <2>1, PopSum
  <2> QED BY <2>2, <2>4, <2>5, EmptyStack
<1>5. /\ phase' = "accepted" /\ stack' = <<>>
      /\ UNCHANGED <<config, look, files, open, heap, text, lost>>
  BY DEF Accept
<1>6. ShapeInv'
  BY <1>5, EmptyStack DEF ParseInv, ShapeInv
<1>7. OnStack' = OnStack
  BY <1>4, <1>5, EmptyStack DEF OnStack
<1>8. heap' = lost' + OnStack' + Held(config') + 1 /\ heap' \in Int /\ lost' \in Int
  BY <1>5, <1>7, Parsing
<1>9. AccountInv'
  BY <1>5, <1>8 DEF AccountInv
<1> QED BY <1>6, <1>9 DEF ParseInv

LEMMA ScannerKeeps ==
  ASSUME ParseInv, phase = "parsing", ReadToken \/ Include \/ EndOfFile
  PROVE  ParseInv'
<1>1. UNCHANGED <<phase, config, stack, heap, lost>>
  BY DEF ReadToken, Include, EndOfFile
<1>2. files' \in Int /\ open' = files'
  BY DEF ReadToken, Include, EndOfFile, ParseInv, ShapeInv
<1>3. look'.t # "config_file" /\ (look'.t = "port" => look'.n \in PortNumbers)
  <2>1. CASE ReadToken
    <3>1. look' \in Tokens
      BY <2>1 DEF ReadToken
    <3> QED BY <3>1 DEF Tokens, Word, Token
  <2>2. CASE Include \/ EndOfFile
    <3>1. look' = look \/ look' = EOF
      BY <2>2 DEF Include, EndOfFile
    <3> QED BY <3>1 DEF EOF, Word, Token, ParseInv, ShapeInv
  <2> QED BY <2>1, <2>2
<1>4. ShapeInv'
  BY <1>1, <1>2, <1>3 DEF ParseInv, ShapeInv
<1>5. OnStack' = OnStack
  BY <1>1 DEF OnStack
<1>6. AccountInv'
  BY <1>1, <1>5 DEF ParseInv, AccountInv
<1> QED BY <1>4, <1>6 DEF ParseInv

LEMMA ParseKeeps == ASSUME ParseInv, Parse PROVE ParseInv'
<1>1. phase = "parsing"
  BY DEF Parse
<1>2. CASE Reduction
  BY <1>1, <1>2, ReductionKeeps
<1>3. CASE Shift
  BY <1>1, <1>3, ShiftKeeps
<1>4. CASE Accept
  BY <1>1, <1>4, AcceptKeeps
<1>5. CASE SyntaxError
  <2>1. Abort(0)
    BY <1>5 DEF SyntaxError
  <2> QED BY <1>1, <2>1, AbortKeeps
<1>6. CASE ReadToken \/ Include \/ EndOfFile
  BY <1>1, <1>6, ScannerKeeps
<1> QED BY <1>2, <1>3, <1>4, <1>5, <1>6 DEF Parse

-----------------------------------------------------------------------------
(* app_config_load and app_config_free. *)

LEMMA ConfigIsEmpty ==
  /\ EmptyConfig = [ports |-> [n \in 0 .. 1 |-> EmptyConfig.ports[n]],
                    nat_lookup |-> EmptyConfig.nat_lookup, rules |-> EmptyConfig.rules]
  /\ \A n \in 0 .. 1 : IsTree(EmptyConfig.ports[n]) /\ IsList(EmptyConfig.ports[n])
  /\ IsTree(EmptyConfig.rules)
  /\ Held(EmptyConfig) = 0
<1>1. EmptyConfig = [ports |-> [n \in 0 .. 1 |-> NULL], nat_lookup |-> "NULL", rules |-> NULL]
  BY DEF EmptyConfig, NATASHA_MAX_ETHPORTS
<1>2. /\ \A n \in 0 .. 1 : EmptyConfig.ports[n] = NULL
      /\ EmptyConfig.rules = NULL /\ EmptyConfig.nat_lookup = "NULL"
  BY <1>1
<1>3. EmptyConfig = [ports |-> [n \in 0 .. 1 |-> EmptyConfig.ports[n]],
                     nat_lookup |-> EmptyConfig.nat_lookup, rules |-> EmptyConfig.rules]
  BY <1>1, <1>2
<1>4. Held(EmptyConfig) = 0
  BY <1>2, NoBlocks DEF Held
<1> QED BY <1>2, <1>3, <1>4, NoBlocks

\* The initial state.
LEMMA ParseInitInv == ASSUME ParseInit PROVE ParseInv
<1>1. ShapeInv
  BY ConfigIsEmpty, EmptyStack DEF ParseInit, ShapeInv, NoToken, Word, Token
<1>2. AccountInv
  BY DEF ParseInit, AccountInv
<1> QED BY <1>1, <1>2 DEF ParseInv

LEMMA LoadBeginsKeeps == ASSUME ParseInv, LoadBegins PROVE ParseInv'
<1>1. /\ phase = "start" /\ phase' = "parsing" /\ heap' = 1 /\ files' = 1 /\ open' = 1
      /\ UNCHANGED <<config, look, text, lost>>
  BY DEF LoadBegins
<1>2. config = EmptyConfig /\ lost = 0
  BY <1>1 DEF ParseInv, AccountInv
<1>3. PICK sym : sym = Symbol("config_file", NULL)
  OBVIOUS
<1>4. stack' = Append(<<>>, sym)
  BY <1>3 DEF LoadBegins, Symbol
<1>5. GoodSymbol(sym) /\ sym.v = NULL /\ sym.tok.t = "config_file"
  <2>1. GoodSymbol(sym)
    BY <1>3, NoBlocks, NewSymbol
  <2> QED BY <1>3, <2>1 DEF Symbol, Word, Token
<1>6. Pushed(stack', <<>>, sym)
  BY <1>4, <1>5, PushStack, EmptyStack
<1>7. IsStack(stack') /\ Len(stack') = 1 /\ stack'[1] = sym /\ Owned(stack') = 0
  <2>1. Len(<<>>) = 0 /\ Owned(<<>>) = 0 /\ Blocks(sym.v) = 0
    BY <1>5, EmptyStack, EmptySeq, NoBlocks
  <2> QED BY <1>6, <2>1 DEF Pushed
<1>8. OnConfigFile(stack')
  BY <1>5, <1>7 DEF OnConfigFile
<1>9. ShapeInv'
  BY <1>1, <1>7, <1>8 DEF ParseInv, ShapeInv
<1>10. OnStack' = 0 /\ Held(config') = 0
  BY <1>1, <1>2, <1>7, ConfigIsEmpty DEF OnStack
<1>11. AccountInv'
  BY <1>1, <1>2, <1>10 DEF AccountInv
<1> QED BY <1>9, <1>11 DEF ParseInv

LEMMA LoadFailsKeeps == ASSUME ParseInv, LoadFails PROVE ParseInv'
<1>1. phase = "start" /\ phase' = "failed" /\ UNCHANGED <<config, stack, look, files, open, heap, lost>>
  BY DEF LoadFails
<1>2. ShapeInv'
  BY <1>1 DEF ParseInv, ShapeInv
<1>3. AccountInv'
  BY <1>1 DEF ParseInv, AccountInv
<1> QED BY <1>2, <1>3 DEF ParseInv

\* The tree and the lists that are freed are the whole configuration.
LEMMA ReleaseAll ==
  ASSUME ParseInv, phase \in {"aborted", "loaded"}, config.rules # Wild
  PROVE  Freed = Held(config) + 1 /\ heap - Freed = lost /\ lost \in Int
<1>1. /\ IsTree(config.ports[0]) /\ IsList(config.ports[0])
      /\ IsTree(config.ports[1]) /\ IsList(config.ports[1]) /\ IsTree(config.rules)
  BY DEF ParseInv, ShapeInv
<1>2. /\ ListLength(config.ports[0]) = Blocks(config.ports[0])
      /\ ListLength(config.ports[1]) = Blocks(config.ports[1])
      /\ reset_rules(config.rules) = Blocks(config.rules)
  BY <1>1, WholeFreed
<1>3. Freed = Held(config) + 1 /\ Held(config) \in Nat
  BY <1>2, ConfigBlocks DEF Freed, Held
<1>4. OnStack = 0
  BY EmptyStack DEF ParseInv, ShapeInv, OnStack
<1>5. heap = lost + OnStack + Held(config) + 1 /\ lost \in Int
  BY DEF ParseInv, AccountInv
<1> QED BY <1>3, <1>4, <1>5

\* Freeing what a load has built.
LEMMA ReleaseKeeps ==
  ASSUME ParseInv, phase \in {"aborted", "loaded"},
         NEW next \in {"failed", "freed"}, Release(next),
         stack' = <<>>, lost' = lost, files' = 0, open' = 0,
         look'.t # "config_file", look'.t = "port" => look'.n \in PortNumbers
  PROVE  ParseInv'
<1>1. CASE config.nat_lookup = "ips" \/ config.rules = Wild
  <2>1. phase' = "crashed" /\ UNCHANGED <<heap, config>>
    BY <1>1 DEF Release
  <2>2. ShapeInv'
    BY <2>1, EmptyStack DEF ParseInv, ShapeInv
  <2>3. AccountInv'
    BY <2>1 DEF ParseInv, AccountInv
  <2> QED BY <2>2, <2>3 DEF ParseInv
<1>2. CASE ~(config.nat_lookup = "ips" \/ config.rules = Wild)
  <2>1. phase' = next /\ heap' = heap - Freed /\ config' = EmptyConfig
    BY <1>2 DEF Release
  <2>2. ShapeInv'
    BY <2>1, EmptyStack, ConfigIsEmpty DEF ShapeInv
  <2>3. heap' = lost' /\ lost' \in Int
    BY <1>2, <2>1, ReleaseAll
  <2>4. AccountInv'
    BY <2>1, <2>3 DEF AccountInv
  <2> QED BY <2>2, <2>4 DEF ParseInv
<1> QED BY <1>1, <1>2

LEMMA ParseFailsKeeps == ASSUME ParseInv, ParseFails PROVE ParseInv'
<1>1. phase = "aborted" /\ CloseFiles /\ Release("failed") /\ lost' = lost
  BY DEF ParseFails
<1>2. stack' = <<>> /\ files' = 0 /\ open' = 0 /\ look' = NoToken
  BY <1>1 DEF CloseFiles, ParseInv, ShapeInv
<1>3. look'.t # "config_file" /\ look'.t # "port"
  BY <1>2 DEF NoToken, Word, Token
<1> QED BY <1>1, <1>2, <1>3, ReleaseKeeps

LEMMA LoadedKeeps == ASSUME ParseInv, Loaded PROVE ParseInv'
<1>1. phase = "accepted" /\ phase' = "loaded" /\ UNCHANGED <<config, heap, lost>>
  BY DEF Loaded
<1>2. stack' = <<>> /\ stack = <<>> /\ files' = 0 /\ open' = 0 /\ look' = NoToken
  BY <1>1 DEF Loaded, CloseFiles, ParseInv, ShapeInv
<1>3. ShapeInv'
  BY <1>1, <1>2, EmptyStack DEF ParseInv, ShapeInv, NoToken, Word, Token
<1>4. OnStack' = OnStack
  BY <1>2 DEF OnStack
<1>5. AccountInv'
  BY <1>1, <1>4 DEF ParseInv, AccountInv
<1> QED BY <1>3, <1>5 DEF ParseInv

LEMMA FreeKeeps == ASSUME ParseInv, app_config_free PROVE ParseInv'
<1>1. phase = "loaded" /\ Release("freed") /\ UNCHANGED <<stack, look, files, open, lost>>
  BY DEF app_config_free
<1>2. stack' = <<>> /\ files' = 0 /\ open' = 0
  BY <1>1 DEF ParseInv, ShapeInv
<1>3. look'.t # "config_file" /\ (look'.t = "port" => look'.n \in PortNumbers)
  BY <1>1 DEF ParseInv, ShapeInv
<1> QED BY <1>1, <1>2, <1>3, ReleaseKeeps

-----------------------------------------------------------------------------
(* The program's start. *)

LEMMA NextKeeps == ASSUME ParseInv, [Next]_vars PROVE ParseInv'
<1>1. CASE Load
  BY <1>1, LoadFailsKeeps, LoadBeginsKeeps, ParseKeeps, ParseFailsKeeps, LoadedKeeps
  DEF Load, ParseNext
<1>2. CASE Free
  BY <1>2, FreeKeeps DEF Free
<1>3. CASE UNCHANGED parseVars
  <2>1. UNCHANGED <<phase, config, stack, look, files, open, heap, lost>>
    BY <1>3 DEF parseVars
  <2>2. ShapeInv'
    BY <2>1 DEF ParseInv, ShapeInv
  <2>3. AccountInv'
    BY <2>1 DEF ParseInv, AccountInv, OnStack
  <2> QED BY <2>2, <2>3 DEF ParseInv
<1> QED BY <1>1, <1>2, <1>3 DEF Next, Configured, Exit, SetUp, Terminated, vars

\* parseconfig.y and config.c: the account of blocks and files is right at every step.
THEOREM ParseInvariance == Spec => []ParseInv
<1>1. Init => ParseInv
  BY ParseInitInv DEF Init
<1> QED BY <1>1, NextKeeps, PTL DEF Spec

\* app_config_load and app_config_free: for every text of any length, every
\* depth of included files and every allocation that fails, all files are
\* closed when the load has returned; and what stays allocated after a failed load,
\* or after the configuration is freed, is exactly what an aborted parse had on
\* its stack and what repeated lines and sections replaced.
THEOREM LoadIsReleased == Spec => []LoadReleases
<1>1. ParseInv => LoadReleases
  BY DEF ParseInv, ShapeInv, AccountInv, LoadReleases
<1> QED BY <1>1, ParseInvariance, PTL

\* core.c, main: with the parser in front of it and the configuration freed
\* behind it the set-up of the ports takes no step that PortSetup does not allow.
THEOREM StartupSetsUp == Spec => SetupSpec
<1>1. Init => SetupInit
  BY DEF Init
<1>2. [Next]_vars => [SetupNext]_setupVars
  BY DEF Next, Load, Configured, Exit, SetUp, Free, Terminated, SetupNext, vars
<1> QED BY <1>1, <1>2, PTL DEF Spec, SetupSpec

\* core.c, setup_queues and run_workers, with the configuration that was parsed.
THEOREM StartupQueuesOwned == Spec => []QueueOwners
BY StartupSetsUp, QueuesOwned, PTL

\* core.c, setup_port, with the VLANs that were parsed.
THEOREM StartupVlansFiltered == Spec => []VlansAccepted
BY StartupSetsUp, VlansFiltered, PTL
=============================================================================
