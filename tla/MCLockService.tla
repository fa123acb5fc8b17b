--------------------------- MODULE MCLockService ---------------------------
(* Module LockService on small instances.                                  *)
EXTENDS LockService, TLC

\* Nothing tells one path, client, handler thread or mutex from another.
Symmetry ==
    Permutations(Keys) \cup Permutations(Clients)
      \cup Permutations(Handlers) \cup Permutations(Mutexes)
=============================================================================
