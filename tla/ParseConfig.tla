----------------------------- MODULE ParseConfig -----------------------------
(* How a configuration file becomes a struct app_config: the scanner of     *)
(* parseconfig.lex with its stack of included files, the shift-reduce       *)
(* parser that bison makes of parseconfig.y with its stack of semantic      *)
(* values, app_config_load and app_config_free of config.c.                 *)
(*                                                                          *)
(* The text is chosen token by token while it is read.  A token is a        *)
(* phrase of the grammar that builds nothing before it is complete: "then"  *)
(* is `) {', "config", "rules" and "else" are these words with their `{',   *)
(* "if" is `if (', "end" is `}', "semi" is `;', and "out" is                *)
(* `out port N mac M [vlan V] ;'.                                           *)
(* Every call of rte_zmalloc may fail.  The arrays of the NAT table are     *)
(* counted in NatTable.tla and not here.                                    *)
EXTENDS Integers, Sequences, FiniteSets

CONSTANTS
  PortNumbers,   \* the numbers in the `port' lines
  Vlans,         \* the VLANs in the `port' lines
  Fields,        \* the fields named by conditions and rewrites
  Profiles,      \* bound: a text has no more tokens of each kind than one of these
  MaxDepth,      \* bound: files that are open at a time
  MayFail        \* allocations may fail

RTE_MAX_ETHPORTS == 32      \* of the build of DPDK
NATASHA_MAX_ETHPORTS == 2

\* Numbers from 3 on store outside of struct app_config.
ASSUME PortNumbersAssumption ==
  \A n \in PortNumbers :
    n \in 0 .. NATASHA_MAX_ETHPORTS \/ (n \in Nat /\ n >= RTE_MAX_ETHPORTS)
ASSUME DepthAssumption == MaxDepth \in Nat \ {0} /\ MayFail \in BOOLEAN

Token(t, n, vlan) == [t |-> t, n |-> n, vlan |-> vlan]
Word(t) == Token(t, 0, 0)
NoToken == Word("none")
EOF == Word("eof")

\* What the lexer delivers; "oops" stands for every character it rejects.
Tokens ==
  {Word(t) : t \in {"config", "rules", "end", "semi", "nat", "if", "(", ")", "then", "else",
                    "and", "or", "vlan", "out", "print", "drop", "oops"}}
  \cup {Token("port", n, v) : n \in PortNumbers, v \in Vlans}
  \cup {Token("ip", 0, v) : v \in Vlans}
  \cup {Token(t, f, 0) : t \in {"in", "rewrite"}, f \in Fields}

\* A tree of struct app_config_node, or a list of struct port_ip_addr with `next' as
\* right: what each path from the root leads to, 1 for left and 2 for right.  tok is
\* the action with its data, or the address.
Label(type, tok) == [type |-> type, tok |-> tok]
NULL == <<>>
Wild == [path \in {<<>>} |-> Label("wild", NoToken)]   \* an overwritten pointer
Node(type, left, right, tok) ==
  [path \in {<<>>} \cup {<<1>> \o p : p \in DOMAIN left} \cup {<<2>> \o p : p \in DOMAIN right} |->
     IF path = <<>> THEN Label(type, tok)
     ELSE IF path[1] = 1 THEN left[Tail(path)] ELSE right[Tail(path)]]

VARIABLES
  phase,    \* where app_config_load is
  config,   \* the structure that is filled in
  stack,    \* bison's stack: symbols with their semantic values
  look,     \* the lookahead token, or NoToken
  files,    \* depth of the scanner's stack of buffers
  open,     \* files that are open
  heap,     \* blocks that are allocated
  text,     \* history: the tokens read
  lost      \* history: blocks to which nothing points any more

parseVars == <<phase, config, stack, look, files, open, heap, text, lost>>

EmptyConfig ==
  [ports |-> [n \in 0 .. NATASHA_MAX_ETHPORTS - 1 |-> NULL],
   nat_lookup |-> "NULL", rules |-> NULL]

ParseInit ==
  /\ phase = "start" /\ config = EmptyConfig
  /\ stack = <<>> /\ look = NoToken /\ text = <<>>
  /\ files = 0 /\ open = 0 /\ heap = 0 /\ lost = 0

-----------------------------------------------------------------------------
(* Blocks and what points to them. *)

\* ACTION nodes have data, except `print' and `drop'.
HasData(node) == node.type = "ACTION" /\ node.tok.t \notin {"print", "drop"}

\* The blocks of the nodes at these paths.
BlocksAt(tree, paths) ==
  {<<path, "node">> : path \in paths}
    \cup {<<path, "data">> : path \in {p \in paths : HasData(tree[p])}}

BlocksOf(tree) == BlocksAt(tree, {path \in DOMAIN tree : tree[path].type # "wild"})
Blocks(tree) == Cardinality(BlocksOf(tree))

\* What the semantic values on a stack own.
Owned(symbols) ==
  Cardinality(UNION {{<<i, b>> : b \in BlocksOf(symbols[i].v)} : i \in DOMAIN symbols})
OnStack == Owned(stack)

-----------------------------------------------------------------------------
(* app_config_load up to yyparse. *)

\* No memory, a wrong option, no such file, or no scanner: nothing remains.
LoadFails ==
  /\ phase = "start"
  /\ phase' = "failed"
  /\ UNCHANGED <<config, stack, look, files, open, heap, text, lost>>

LoadBegins ==
  /\ phase = "start"
  /\ phase' = "parsing"
  /\ heap' = 1 /\ files' = 1 /\ open' = 1
  /\ stack' = <<[tok |-> Word("config_file"), v |-> NULL]>>
  /\ UNCHANGED <<config, look, text, lost>>

-----------------------------------------------------------------------------
(* The parser.  A symbol of the stack is a token or a nonterminal. *)

Symbol(t, v) == [tok |-> Word(t), v |-> v]
Top(n) == stack[Len(stack) + 1 - n]           \* Top(1) is the top of the stack
Pop(n) == SubSeq(stack, 1, Len(stack) - n)

\* The topmost symbols are these.
Ends(syms) ==
  /\ Len(syms) <= Len(stack)
  /\ \A i \in DOMAIN syms : Top(Len(syms) + 1 - i).tok.t = syms[i]

\* yyerror and YYERROR, or a syntax error: no production handles `error' and
\* there is no %destructor, so the values on the stack are forgotten, and what
\* the failing action had allocated with them.
Abort(got) ==
  /\ phase' = "aborted"
  /\ heap' = heap + got
  /\ lost' = lost + OnStack + got
  /\ stack' = <<>> /\ look' = NoToken /\ text' = <<>>
  /\ UNCHANGED <<config, files, open>>

\* Reduce the topmost n symbols to a nonterminal, allocating `blocks' blocks.
Reduce(n, t, v, blocks) ==
  \/ /\ stack' = Append(Pop(n), Symbol(t, v))
     /\ heap' = heap + blocks
     /\ UNCHANGED <<phase, config, look, files, open, text, lost>>
  \/ MayFail /\ \E got \in 0 .. blocks - 1 : Abort(got)

\* The right recursion of config_port_extra_ips: the list is built from its
\* end once the `;' is seen.
ExtraIps ==
  \/ /\ look.t = "semi" /\ Top(1).tok.t \in {"port", "ip"}
     /\ Reduce(0, "extra_ips", NULL, 0)
  \/ /\ Ends(<<"ip", "extra_ips">>)
     /\ Reduce(2, "extra_ips", Node("IP", NULL, Top(1).v, Top(2).tok), 1)

\* config->ports[port] = list.  The element behind the array is where
\* nat_lookup (a pointer, over ip_addresses) and rules (over mtu) are.
StorePort(n, list) ==
  IF n < NATASHA_MAX_ETHPORTS
  THEN /\ config' = [config EXCEPT !.ports[n] = list]
       /\ lost' = lost + Blocks(config.ports[n])
  ELSE /\ config' = [config EXCEPT !.nat_lookup = "ips", !.rules = Wild]
       /\ lost' = lost + Blocks(list) + Blocks(config.rules)

\* The number is checked once the line is complete.
ConfigPort ==
  /\ Ends(<<"port", "extra_ips", "semi">>)
  /\ \/ Top(3).tok.n >= RTE_MAX_ETHPORTS /\ Abort(0)
     \/ Top(3).tok.n < RTE_MAX_ETHPORTS /\ MayFail /\ Abort(0)
     \/ /\ Top(3).tok.n < RTE_MAX_ETHPORTS
        /\ StorePort(Top(3).tok.n, Node("IP", NULL, Top(2).v, Top(3).tok))
        /\ heap' = heap + 1
        /\ stack' = Pop(3)
        /\ UNCHANGED <<phase, look, files, open, text>>

\* add_rules_to_table: if an allocation fails the table may be gone, but the
\* call says 0 all the same.  A list that is taken for a table stays one.
ConfigNatRule ==
  /\ Ends(<<"config_lines", "nat">>)
  /\ \E table \in {"table"} \cup (IF MayFail THEN {"NULL"} ELSE {}) :
       config' = [config EXCEPT !.nat_lookup = IF @ = "ips" THEN @ ELSE table]
  /\ stack' = Pop(1)
  /\ UNCHANGED <<phase, look, files, open, heap, text, lost>>

ConfigLines ==
  \/ ConfigPort \/ ConfigNatRule
  \/ Ends(<<"config_lines", "semi">>) /\ Reduce(2, "config_lines", NULL, 0)
  \/ Ends(<<"config_file", "config", "config_lines", "end">>) /\ Reduce(4, "config_file", NULL, 0)

\* A second section replaces the rules of the first one.
RulesSection ==
  /\ Ends(<<"rules", "rules_content", "end">>)
  /\ config' = [config EXCEPT !.rules = Top(2).v]
  /\ lost' = lost + Blocks(config.rules)
  /\ stack' = Pop(3)
  /\ UNCHANGED <<phase, look, files, open, heap, text>>

\* Mutant: an empty statement replaces what precedes it.
RulesContentForgets ==
  /\ Ends(<<"rules_content", "rules_stmt">>)
  /\ IF Top(2).v = NULL \/ Top(1).v = NULL THEN Reduce(2, "rules_content", Top(1).v, 0)
     ELSE Reduce(2, "rules_content", Node("SEQ", Top(2).v, Top(1).v, NoToken), 1)

\* "Do not create a sequence node" for the first statement or an empty one.
RulesContent ==
  /\ Ends(<<"rules_content", "rules_stmt">>)
  /\ IF Top(2).v = NULL THEN Reduce(2, "rules_content", Top(1).v, 0)
     ELSE IF Top(1).v = NULL THEN Reduce(2, "rules_content", Top(2).v, 0)
     ELSE Reduce(2, "rules_content", Node("SEQ", Top(2).v, Top(1).v, NoToken), 1)

If(cond, body, else) ==
  Node("IF", Node("COND", cond, body, NoToken), else, NoToken)

\* An action, an `if' with or without `else' (which the lookahead tells), `;'.
RulesStmt ==
  \/ /\ Ends(<<"rules_content", "semi">>)
     /\ Reduce(1, "rules_stmt", NULL, 0)
  \/ /\ Top(1).tok.t \in {"rewrite", "out", "print", "drop"}
     /\ LET node == Node("ACTION", NULL, NULL, Top(1).tok)
        IN Reduce(1, "rules_stmt", node, Blocks(node))
  \/ /\ Ends(<<"if", "cond", "then", "rules_content", "end">>)
     /\ look \notin {NoToken, Word("else")}
     /\ Reduce(5, "rules_stmt", If(Top(4).v, Top(2).v, NULL), 2)
  \/ /\ Ends(<<"if", "cond", "then", "rules_content", "end", "else", "rules_content", "end">>)
     /\ Reduce(8, "rules_stmt", If(Top(7).v, Top(5).v, Top(2).v), 2)

Operator(t) == IF t = "and" THEN "AND" ELSE "OR"

\* AND and OR have the same precedence and group to the left.
Cond ==
  \/ /\ Ends(<<"cond", "and", "cond">>) \/ Ends(<<"cond", "or", "cond">>)
     /\ Reduce(3, "cond", Node(Operator(Top(2).tok.t), Top(3).v, Top(1).v, NoToken), 1)
  \/ /\ Ends(<<"(", "cond", ")">>)
     /\ Reduce(3, "cond", Top(2).v, 0)
  \/ /\ Top(1).tok.t \in {"in", "vlan"}
     /\ Reduce(1, "cond", Node("ACTION", NULL, NULL, Top(1).tok), 2)

Reduction == ExtraIps \/ ConfigLines \/ RulesSection \/ RulesContent \/ RulesStmt \/ Cond

\* A production is complete (and the lookahead, where it matters, is there).
Complete ==
  \/ look.t = "semi" /\ Top(1).tok.t \in {"port", "ip"}
  \/ Top(1).tok.t \in {"rewrite", "out", "print", "drop", "in", "vlan", "semi", "nat",
                       ")", "rules_stmt"}
  \/ Ends(<<"ip", "extra_ips">>)
  \/ Ends(<<"cond", "and", "cond">>) \/ Ends(<<"cond", "or", "cond">>)
  \/ Top(1).tok.t = "end" /\ ~(Top(3).tok.t = "then" /\ look \in {NoToken, Word("else")})

\* The tokens that may come behind a symbol, when nothing can be reduced.
Statement == {"semi", "if", "rewrite", "out", "print", "drop"}
Operand == {"in", "vlan", "("}
Expected ==
  LET top == Top(1).tok.t IN
    CASE top = "config_file" -> {"config", "rules"}
      [] top = "config_lines" -> {"semi", "port", "nat", "end"}
      [] top \in {"port", "ip"} -> {"ip"}
      [] top = "extra_ips" -> {"semi"}
      [] top = "rules_content" -> Statement \cup {"end"}
      [] top \in {"if", "(", "and", "or"} -> Operand
      [] top = "cond" -> {"and", "or", IF Top(2).tok.t = "if" THEN "then" ELSE ")"}
      [] top = "end" -> {"else"}

\* Shift the token, and start the list that the brace opens.
Shift ==
  /\ look.t \in Expected
  /\ stack' = Append(stack, [tok |-> look, v |-> NULL]) \o
       (CASE look.t = "config" -> <<Symbol("config_lines", NULL)>>
          [] look.t \in {"rules", "then", "else"} -> <<Symbol("rules_content", NULL)>>
          [] OTHER -> <<>>)
  /\ look' = NoToken
  /\ UNCHANGED <<phase, config, files, open, heap, text, lost>>

Accept ==
  /\ look = EOF /\ Ends(<<"config_file">>)
  /\ phase' = "accepted"
  /\ stack' = <<>>
  /\ UNCHANGED <<config, look, files, open, heap, text, lost>>

SyntaxError ==
  /\ look # NoToken /\ look.t \notin Expected
  /\ ~(look = EOF /\ Ends(<<"config_file">>))
  /\ Abort(0)

-----------------------------------------------------------------------------
(* The scanner. *)

Count(t, tokens) == Len(SelectSeq(tokens, LAMBDA tok : tok.t = t))
Within(tokens) ==
  \E f \in Profiles : \A i \in DOMAIN tokens : Count(tokens[i].t, tokens) <= f[tokens[i].t]

ReadToken ==
  /\ \E tok \in Tokens :
       /\ Within(Append(text, tok))
       /\ look' = tok
       /\ text' = Append(text, tok)
  /\ UNCHANGED <<phase, config, stack, files, open, heap, lost>>

\* !include: the file is read in place of the directive.  When it cannot be
\* opened the directive is skipped, with a message.
Include ==
  /\ files < MaxDepth
  /\ files' = files + 1 /\ open' = open + 1
  /\ UNCHANGED <<phase, config, stack, look, heap, text, lost>>

\* Mutant: the end of an included file closes nothing.
EndOfFileUnclosed ==
  /\ files' = files - 1 /\ open' = IF files = 1 THEN 0 ELSE open
  /\ look' = IF files = 1 THEN EOF ELSE look
  /\ UNCHANGED <<phase, config, stack, heap, text, lost>>

\* <<EOF>>: back to the file that included this one, if any.
EndOfFile ==
  /\ files' = files - 1 /\ open' = open - 1
  /\ look' = IF files = 1 THEN EOF ELSE look
  /\ UNCHANGED <<phase, config, stack, heap, text, lost>>

\* yyparse.  The scanner is called when nothing can be done without a token.
Parse ==
  /\ phase = "parsing"
  /\ \/ Reduction
     \/ ~Complete /\ look # NoToken /\ (Shift \/ Accept \/ SyntaxError)
     \/ ~Complete /\ look = NoToken /\ (ReadToken \/ Include \/ EndOfFile)

-----------------------------------------------------------------------------
(* The end of app_config_load, and app_config_free. *)

\* free_flex_buffers closes what the parser has not read to its end, and
\* yylex_destroy forgets the text.
CloseFiles ==
  /\ open' = open - files /\ files' = 0
  /\ look' = NoToken /\ text' = <<>> /\ stack' = <<>>

\* The nodes at which a walk from the root arrives.
Reached(root) ==
  {path \in DOMAIN root : \A n \in 0 .. Len(path) : SubSeq(path, 1, n) \in DOMAIN root}

\* The blocks that reset_rules frees.
reset_rules(root) == Cardinality(BlocksAt(root, Reached(root)))

ListLength(ip) == Cardinality({path \in Reached(ip) : \A i \in DOMAIN path : path[i] = 2})

\* The blocks that app_config_free frees: addresses of the ports, rules, and
\* the structure.
Freed ==
  ListLength(config.ports[0]) + ListLength(config.ports[1]) + reset_rules(config.rules) + 1

\* nat_reset_lookup_table and reset_rules follow whatever pointers they are
\* given: a list of addresses is no table.
Release(next) ==
  IF config.nat_lookup = "ips" \/ config.rules = Wild
  THEN phase' = "crashed" /\ UNCHANGED <<heap, config>>
  ELSE phase' = next /\ heap' = heap - Freed /\ config' = EmptyConfig

ParseFails ==
  /\ phase = "aborted"
  /\ CloseFiles
  /\ Release("failed")
  /\ UNCHANGED lost

Loaded ==
  /\ phase = "accepted"
  /\ phase' = "loaded"
  /\ CloseFiles
  /\ UNCHANGED <<config, heap, lost>>

app_config_free ==
  /\ phase = "loaded"
  /\ Release("freed")
  /\ UNCHANGED <<stack, look, files, open, text, lost>>

ParseNext == LoadFails \/ LoadBegins \/ Parse \/ ParseFails \/ Loaded

-----------------------------------------------------------------------------
(* Properties. *)

\* Once app_config_load has returned, every file is closed, whichever token of
\* whichever file ended the parse; and what is still allocated after a failed load, or
\* after app_config_free, is exactly what an aborted parse had on its stack
\* and what a repeated line or section replaced.  So a configuration that loads
\* and repeats nothing leaves nothing behind.
LoadReleases ==
  /\ phase \in {"failed", "loaded", "freed"} => open = 0
  /\ phase \in {"failed", "freed"} => heap = lost
=============================================================================
