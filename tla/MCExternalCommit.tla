--------------------------- MODULE MCExternalCommit ---------------------------
(* Three validators of genesis, one of them on the node n1, and a node that *)
(* joins by state sync and whose key k3 is to join the set; two transfers    *)
(* with the same nonce.                                                      *)
EXTENDS ExternalCommit

CONSTANTS n1, n2, k1, k2, k3, k4, alice, bob, fees

MCKeyOf == n1 :> k1 @@ n2 :> k3

MCTransfer ==
  {[type |-> "transfer", from |-> alice, to |-> bob, amount |-> 1, fee |-> 1, nonce |-> 1]}

\* Two with the same nonce.
MCRivals == MCTransfer \cup {[t EXCEPT !.amount = 2] : t \in MCTransfer}

MCAsk == {[kind |-> "join", old |-> k3, new |-> k3, power |-> 1]}

MCGenesis ==
  [balance |-> [a \in Address |-> IF a = alice THEN 3 ELSE 0],
   nonce |-> [a \in Address |-> 0],
   active |-> [k \in Key |-> IF k = k3 THEN 0 ELSE 1],
   change |-> NoChange]
===============================================================================
