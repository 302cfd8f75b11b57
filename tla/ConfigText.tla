----------------------------- MODULE ConfigText -----------------------------
(* What a configuration text means when it is read from the top down: the   *)
(* reference for the parser, with which it shares only the constructors of  *)
(* nodes.  An operator returns the node and the position behind what it     *)
(* stands for.                                                              *)
EXTENDS ParseConfig

At(node, next) == [node |-> node, next |-> next]

RECURSIVE CondAt(_), CondRest(_), OperandAt(_), StmtsAt(_, _), IfAt(_)

OperandAt(i) ==
  IF text[i].t = "(" THEN LET c == CondAt(i + 1) IN At(c.node, c.next + 1)
                     ELSE At(Node("ACTION", NULL, NULL, text[i]), i + 1)

CondRest(lhs) ==
  IF text[lhs.next].t \notin {"and", "or"} THEN lhs
  ELSE LET rhs == OperandAt(lhs.next + 1)
       IN CondRest(At(Node(Operator(text[lhs.next].t), lhs.node, rhs.node, NoToken), rhs.next))

CondAt(i) == CondRest(OperandAt(i))

IfAt(i) ==
  LET cond == CondAt(i + 1)
      body == StmtsAt(cond.next + 1, NULL)
      else == StmtsAt(body.next + 2, NULL)
  IN IF body.next < Len(text) /\ text[body.next + 1].t = "else"
     THEN At(If(cond.node, body.node, else.node), else.next + 1)
     ELSE At(If(cond.node, body.node, NULL), body.next + 1)

\* The statements from i to the closing brace, behind those in prev.
StmtsAt(i, prev) ==
  IF text[i].t = "end" THEN At(prev, i)
  ELSE LET stmt == IF text[i].t = "if" THEN IfAt(i)
                   ELSE IF text[i].t = "semi" THEN At(NULL, i + 1)
                   ELSE At(Node("ACTION", NULL, NULL, text[i]), i + 1)
       IN StmtsAt(stmt.next,
                  IF prev = NULL THEN stmt.node
                  ELSE IF stmt.node = NULL THEN prev
                  ELSE Node("SEQ", prev, stmt.node, NoToken))

Positions(t) == {i \in DOMAIN text : text[i].t = t}
LastOf(S) == CHOOSE i \in S : \A j \in S : j <= i

RECURSIVE AddressesAt(_)
AddressesAt(i) ==
  IF text[i].t \notin {"port", "ip"} THEN NULL
  ELSE Node("IP", NULL, AddressesAt(i + 1), text[i])

\* The last `rules' section and the last line of each port count.
RulesMeant ==
  IF Positions("rules") = {} THEN NULL
  ELSE StmtsAt(LastOf(Positions("rules")) + 1, NULL).node

PortMeant(n) ==
  LET lines == {i \in Positions("port") : text[i].n = n}
  IN IF lines = {} THEN NULL ELSE AddressesAt(LastOf(lines))

-----------------------------------------------------------------------------
(* Properties. *)

\* A configuration that is accepted has the rules and the addresses its text
\* states: the tree that the actions of the grammar build bottom-up, over
\* nested ifs, chains of conditions and dropped empty statements, is the one
\* that the text means when it is read from the top.
ParsedAsWritten ==
  phase = "accepted" =>
    /\ config.rules = RulesMeant
    /\ \A n \in DOMAIN config.ports : config.ports[n] = PortMeant(n)
    /\ config.nat_lookup = "table" => Positions("nat") # {}

\* "Contain NAT rules", says natasha.h of nat_lookup; test_config expects "no NAT
\* rules" of a file with the line `port 2 ...' and without `nat rule'.
NatLookupIsFromNatRules ==
  phase = "accepted" /\ Positions("nat") = {} => config.nat_lookup = "NULL"
=============================================================================
