----------------------------- MODULE MCChannel -----------------------------
(* Instances of Channel for TLC: the client process has the callers and     *)
(* endpoint A, the server process one thread and endpoint B.                *)
EXTENDS Channel, TLC

CONSTANTS Callers, Client, Server

MCProcOf == [t \in Threads |-> IF t \in Callers THEN Client ELSE Server]
MCFirstHolder == [e \in Endpoints |-> IF e = "A" THEN Client ELSE Server]

\* Four instances in one: two calls and writes; two calls and a transfer of
\* an endpoint; writes and the transfers that bring it back; and as many calls
\* as make the kernel's txids wrap around, with a server that reads one
\* request and answers.
Scenario ==
  LET moves(e) == Len(owners[e]) - (IF holder[e] \in {"transit", "receiving"} THEN 0 ELSE 1)
      moved == moves("A") + moves("B")
  IN  /\ moved > 0 => calls = 0 \/ writes = 0
      /\ moved > 1 => calls = 0 /\ \A e \in Endpoints : peered[e] /\ observers[e] = {}
      /\ calls > 2 =>
           /\ moved = 0 /\ writes <= 1 /\ killed = {} /\ holder = FirstHolder
           /\ \A e \in Endpoints : observers[e] = {}
           /\ seen["A"] = {} /\ Cardinality(seen["B"]) <= 1

Symmetry == Permutations(Callers)
=============================================================================
