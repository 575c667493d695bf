------------------------------ MODULE IPLimitMC ------------------------------
(* Small instances of IPLimit for TLC.                                     *)
EXTENDS IPLimit

\* UpdateTime, from which the code takes both the period and the expiry: the
\* same for all, or longer for one of the nodes.
Same == [n \in Nodes |-> 2]
Longer == LET first == CHOOSE n \in Nodes : TRUE
          IN  [n \in Nodes |-> IF n = first THEN 3 ELSE 2]

Node == CHOOSE n \in Nodes : TRUE
Address == CHOOSE ip \in Ips : TRUE

\* Every address connects to one node, one of them to the others as well.
Roaming == (Ips \X {Node}) \cup ({Address} \X Nodes)

\* Nothing fails and nobody is refused; the tag of one node comes and goes;
\* everything fails and the limit bites.
Cases == {[limit |-> 2, clients |-> Roaming, outage |-> {}, movers |-> {}],
          [limit |-> 1, clients |-> Roaming, outage |-> {}, movers |-> {Node}],
          [limit |-> 1, clients |-> Ips \X Nodes, outage |-> {"redis", "report"},
           movers |-> {}]}

Healthy == {[limit |-> 2, clients |-> Roaming, outage |-> {}, movers |-> {}]}
=============================================================================
