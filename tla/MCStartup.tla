----------------------------- MODULE MCStartup -----------------------------
(* Instances of Startup: the texts that are read and the machines.         *)
EXTENDS Startup, ConfigText, TLC

Kinds == {tok.t : tok \in Tokens}
Bound(few) == [t \in Kinds |-> IF t \in DOMAIN few THEN few[t] ELSE 0]

\* A chain of three conditions, with parentheses or without.
OneIf == Bound([t \in {"rules", "if", "(", ")", "then", "and", "or", "vlan", "drop",
                       "oops"} |-> 1] @@ [t \in {"end", "in"} |-> 2])

\* Statements before, in and behind an if with an else.
OneElse == Bound([t \in {"rules", "if", "then", "else", "vlan", "semi", "out", "drop",
                         "oops"} |-> 1] @@ [t \in {"end"} |-> 3])

\* An if within an if.
TwoIfs == Bound([t \in {"rules", "else", "print", "rewrite", "oops"} |-> 1]
                  @@ [t \in {"if", "then", "vlan"} |-> 2] @@ [t \in {"end"} |-> 4])

\* Lines and sections that replace earlier ones.
Lines == Bound([t \in {"config", "ip", "nat", "oops"} |-> 1] @@ [t \in {"port"} |-> 2]
                 @@ [t \in {"semi", "end"} |-> 2])
Sections == Bound([t \in {"config", "rules", "drop"} |-> 2] @@ [t \in {"port", "semi"} |-> 1]
                    @@ [t \in {"end"} |-> 4])

Texts == {OneIf, OneElse, TwoIfs, Lines, Sections}

Device(cksum, insert) ==
  [tx_cksum |-> cksum, rx_cksum |-> insert, vlan_insert |-> insert, qinq |-> FALSE,
   queue_stats |-> insert]
Nics == {Device(TRUE, TRUE), Device(TRUE, FALSE), Device(FALSE, TRUE)}
=============================================================================
