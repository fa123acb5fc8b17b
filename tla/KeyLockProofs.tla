--------------------------- MODULE KeyLockProofs ---------------------------
(***************************************************************************)
(* Mutual exclusion of KeyLock, and that it excludes nothing else, for any *)
(* number of threads and paths.                                            *)
(***************************************************************************)
EXTENDS KeyLock, TLAPS

\* Whoever has looked up a mutex has the one that its path keeps until the
\* process ends.
KnowsMutex ==
    \A t \in Threads :
      pc[t] # "idle" => /\ key[t] \in Keys
                        /\ key_mutex[t] = lock_map[key[t]]
                        /\ lock_map[key[t]] \in Mutexes

\* Two paths have two mutexes.
Apart ==
    \A k, l \in Keys :
      lock_map[k] \in Mutexes /\ lock_map[k] = lock_map[l] => k = l

\* Whoever is inside is the owner of its mutex, and nobody else owns one.
OwnsMutex == \A t \in Threads : Inside(t) => owner[key_mutex[t]] = t

OwnedInside ==
    \A m \in Mutexes :
      owner[m] # Nobody => Inside(owner[m]) /\ key_mutex[owner[m]] = m

IInv == TypeOK /\ KnowsMutex /\ Apart /\ OwnsMutex /\ OwnedInside

\* The initial states satisfy the invariant: nobody has looked anything up.
LEMMA InitIInv == Init => IInv
  BY KeyLockAssumption
  DEF Init, IInv, TypeOK, KnowsMutex, Apart, OwnsMutex, OwnedInside, Inside

\* A mutex that is found is that of the path, or of no path.
LEMMA FindsApart ==
    ASSUME IInv, NEW k \in Keys, NEW m \in Mutexes, Finds(k, m),
           lock_map' = [lock_map EXCEPT ![k] = m]
    PROVE  Apart'
<1> SUFFICES ASSUME NEW i \in Keys, NEW j \in Keys,
                    lock_map'[i] \in Mutexes, lock_map'[i] = lock_map'[j]
             PROVE  i = j
  BY DEF Apart
<1>1. ASSUME NEW l \in Keys \ {k} PROVE lock_map'[l] = lock_map[l] /\ lock_map[l] # m
  <2>1. lock_map'[l] = lock_map[l]
    BY DEF IInv, TypeOK
  <2>2. CASE m = lock_map[k]
    BY <2>1, <2>2 DEF IInv, Apart
  <2>3. CASE m \notin Range(lock_map)
    BY <2>1, <2>3 DEF IInv, TypeOK, Range
  <2> QED
    BY <2>1, <2>2, <2>3 DEF Finds
<1>2. lock_map'[k] = m
  BY DEF IInv, TypeOK
<1> QED
  BY <1>1, <1>2 DEF IInv, Apart

\* The steps of a thread keep the invariant.
LEMMA LookupIInv ==
    ASSUME IInv, NEW t \in Threads, NEW k \in Keys, Lookup(t, k) PROVE IInv'
<1>1. PICK m \in Mutexes : /\ Finds(k, m)
                           /\ lock_map' = [lock_map EXCEPT ![k] = m]
                           /\ key_mutex' = [key_mutex EXCEPT ![t] = m]
  BY DEF Lookup
<1>2. lock_map[k] \in Mutexes => m = lock_map[k]
  BY <1>1, KeyLockAssumption DEF Finds
<1>3. TypeOK'
  BY <1>1 DEF IInv, TypeOK, Lookup, Goto
<1>4. KnowsMutex'
  BY <1>1, <1>2 DEF IInv, TypeOK, KnowsMutex, Lookup, Goto
<1>5. Apart'
  BY <1>1, FindsApart
<1>6. ASSUME NEW u \in Threads
      PROVE  Inside(u)' <=> (Inside(u) /\ u # t)
  BY DEF IInv, TypeOK, Inside, Lookup, Goto
<1>7. \A u \in Threads : Inside(u) => u # t /\ key_mutex'[u] = key_mutex[u]
  BY <1>1 DEF IInv, TypeOK, Inside, Lookup
<1>8. OwnsMutex'
  BY <1>6, <1>7 DEF IInv, OwnsMutex, Lookup
<1>9. OwnedInside'
  BY <1>6, <1>7 DEF IInv, TypeOK, OwnedInside, Lookup
<1> QED
  BY <1>3, <1>4, <1>5, <1>8, <1>9 DEF IInv

LEMMA LockIInv == ASSUME IInv, NEW t \in Threads, Lock(t) PROVE IInv'
<1>1. key_mutex[t] \in Mutexes /\ owner[key_mutex[t]] = Nobody
  BY DEF IInv, KnowsMutex, Lock
<1>2. TypeOK'
  BY <1>1 DEF IInv, TypeOK, Lock, Goto
<1>3. KnowsMutex' /\ Apart'
  BY DEF IInv, TypeOK, KnowsMutex, Apart, Lock, Goto
<1>4. \A u \in Threads : Inside(u)' <=> (Inside(u) \/ u = t)
  BY DEF IInv, TypeOK, Inside, Lock, Goto
<1>5. \A u \in Threads : Inside(u) => key_mutex[u] # key_mutex[t]
  BY <1>1, KeyLockAssumption DEF IInv, OwnsMutex
<1>6. \A u \in Threads : Inside(u) => key_mutex[u] \in Mutexes
  BY DEF IInv, KnowsMutex, Inside
<1>7. OwnsMutex'
  BY <1>1, <1>4, <1>5, <1>6 DEF IInv, TypeOK, OwnsMutex, Lock
<1>8. OwnedInside'
  BY <1>1, <1>4 DEF IInv, TypeOK, OwnedInside, Lock
<1> QED
  BY <1>2, <1>3, <1>7, <1>8 DEF IInv

LEMMA LookupAgainIInv ==
    ASSUME IInv, NEW t \in Threads, LookupAgain(t) PROVE IInv'
<1>1. key_mutex' = key_mutex
  BY DEF IInv, TypeOK, KnowsMutex, LookupAgain
<1>2. \A u \in Threads : Inside(u)' <=> Inside(u)
  BY DEF IInv, TypeOK, Inside, LookupAgain, Goto
<1>3. TypeOK' /\ KnowsMutex' /\ Apart'
  BY <1>1 DEF IInv, TypeOK, KnowsMutex, Apart, LookupAgain, Goto
<1>4. OwnsMutex' /\ OwnedInside'
  BY <1>1, <1>2 DEF IInv, TypeOK, OwnsMutex, OwnedInside, LookupAgain
<1> QED
  BY <1>3, <1>4 DEF IInv

LEMMA UnlockIInv == ASSUME IInv, NEW t \in Threads, Unlock(t) PROVE IInv'
<1>1. Inside(t) /\ owner[key_mutex[t]] = t /\ key_mutex[t] \in Mutexes
  BY DEF IInv, KnowsMutex, OwnsMutex, Inside, Unlock
<1>2. TypeOK'
  BY <1>1 DEF IInv, TypeOK, Unlock, Goto
<1>3. KnowsMutex' /\ Apart'
  BY DEF IInv, TypeOK, KnowsMutex, Apart, Unlock, Goto
<1>4. \A u \in Threads : Inside(u)' <=> (Inside(u) /\ u # t)
  BY DEF IInv, TypeOK, Inside, Unlock, Goto
<1>5. \A u \in Threads \ {t} : key_mutex'[u] = key_mutex[u]
  BY DEF IInv, TypeOK, Unlock
<1>6. \A u \in Threads \ {t} : Inside(u) => key_mutex[u] # key_mutex[t]
  BY <1>1 DEF IInv, OwnsMutex
<1>7. OwnsMutex'
  BY <1>4, <1>5, <1>6 DEF IInv, TypeOK, KnowsMutex, OwnsMutex, Inside, Unlock
<1>8. OwnedInside'
  BY <1>1, <1>4, <1>5, KeyLockAssumption DEF IInv, TypeOK, OwnedInside, Unlock
<1> QED
  BY <1>2, <1>3, <1>7, <1>8 DEF IInv

\* Every step keeps the invariant.
LEMMA StepIInv == IInv /\ [Next]_vars => IInv'
<1> SUFFICES ASSUME IInv, [Next]_vars PROVE IInv'
  OBVIOUS
<1>1. ASSUME NEW t \in Threads, NEW k \in Keys, Lookup(t, k) PROVE IInv'
  BY <1>1, LookupIInv
<1>2. ASSUME NEW t \in Threads, Lock(t) \/ LookupAgain(t) \/ Unlock(t)
      PROVE  IInv'
  BY <1>2, LockIInv, LookupAgainIInv, UnlockIInv
<1>3. CASE Reset
  BY <1>3, KeyLockAssumption
  DEF Reset, IInv, TypeOK, KnowsMutex, Apart, OwnsMutex, OwnedInside, Inside
<1>4. CASE UNCHANGED vars
  BY <1>4 DEF vars, IInv, TypeOK, KnowsMutex, Apart, OwnsMutex, OwnedInside,
              Inside
<1> QED
  BY <1>1, <1>2, <1>3, <1>4 DEF Next

\* What follows from the invariant.
LEMMA IInvExcludes == IInv => MutualExclusion /\ UnlocksItsOwn
  BY DEF IInv, KnowsMutex, OwnsMutex, MutualExclusion, UnlocksItsOwn, Inside

LEMMA IInvOtherPaths == IInv => OtherPathsNotLocked
<1> SUFFICES ASSUME IInv, NEW t \in Threads, pc[t] = "locking",
                    owner[key_mutex[t]] # Nobody
             PROVE  \E u \in Threads \ {t} : Inside(u) /\ key[u] = key[t]
  BY DEF OtherPathsNotLocked
<1>1. key_mutex[t] \in Mutexes
  BY DEF IInv, KnowsMutex
<1>2. PICK u \in Threads : u = owner[key_mutex[t]]
  BY <1>1 DEF IInv, TypeOK
<1>3. Inside(u) /\ key_mutex[u] = key_mutex[t] /\ u # t
  BY <1>1, <1>2 DEF IInv, OwnedInside, Inside
<1>4. key[u] = key[t]
  BY <1>1, <1>3 DEF IInv, KnowsMutex, Apart, Inside
<1> QED
  BY <1>3, <1>4

\* The invariant holds in every reachable state.
LEMMA AlwaysIInv == Spec => []IInv
  BY InitIInv, StepIInv, PTL DEF Spec

\* No path is ever locked by two threads, and no thread unlocks a mutex it
\* does not own: threads inside with the same path know the same mutex.
THEOREM LocksExclude == Spec => [](MutualExclusion /\ UnlocksItsOwn)
  BY AlwaysIInv, IInvExcludes, PTL

\* A thread finds the mutex of its path free unless the path is in use: no two
\* paths share a mutex, and every mutex that is owned is owned by one inside.
THEOREM PathsIndependent == Spec => []OtherPathsNotLocked
  BY AlwaysIInv, IInvOtherPaths, PTL

\* The state of KeyLock stays well typed.
THEOREM KeyLockTypeCorrect == Spec => []TypeOK
<1>1. IInv => TypeOK
  BY DEF IInv
<1> QED
  BY <1>1, AlwaysIInv, PTL
=============================================================================
