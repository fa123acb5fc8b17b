--------------------------- MODULE MCPaxosServer ---------------------------
(* Module PaxosServer on small instances.                                  *)
EXTENDS PaxosServer, TLC

\* Where requests are made: anywhere, at the first leader, at the first two
\* servers, or each at a server of its own.
Anywhere == [c \in Calls |-> Server]
AtFirst == [c \in Calls |-> {0}]
AtSecond == [c \in Calls |-> {1}]
AtFirstTwo == [c \in Calls |-> {0, 1}]
OneEach ==
    CHOOSE e \in [Calls -> {{s} : s \in Server}] :
      \A c, d \in Calls : e[c] = e[d] => c = d

\* Requests differ only in the value they carry.
Symmetry == Permutations(Calls)
=============================================================================
