------------------------------ MODULE KeyLock ------------------------------
(***************************************************************************)
(* KeyLock of the lock service: one mutex per path, created at first use   *)
(* and never removed.  A thread is a handler of ChubbyImpl or its lease    *)
(* checker; it locks one path, works, and unlocks the same path.  The      *)
(* sections under map_mutex are one step each; between looking a mutex up  *)
(* and locking it a thread may be overtaken.                               *)
(***************************************************************************)
EXTENDS Functions

CONSTANTS
    Threads, Keys,
    Mutexes,        \* the mutexes that may be allocated
    NoMutex, Nobody, NoKey

ASSUME KeyLockAssumption ==
    NoMutex \notin Mutexes /\ Nobody \notin Threads /\ NoKey \notin Keys

VARIABLES
    lock_map,       \* lock_map[k]: the mutex of path k, if it has one
    owner,          \* owner[m]: the thread that has mutex m locked
    pc, key,        \* where each thread is, and the path it works on
    key_mutex       \* key_mutex[t]: the mutex t has looked up

vars == <<lock_map, owner, pc, key, key_mutex>>

Init ==
    /\ lock_map = [k \in Keys |-> NoMutex]
    /\ owner = [m \in Mutexes |-> Nobody]
    /\ pc = [t \in Threads |-> "idle"]
    /\ key = [t \in Threads |-> NoKey]
    /\ key_mutex = [t \in Threads |-> NoMutex]

Goto(t, l) == pc' = [pc EXCEPT ![t] = l]

\* Mutant: a path gets a new mutex at every use.
AlwaysNew(k, m) == m \notin Range(lock_map)
\* Mutant: a path without a mutex takes the mutex of some other path.
AnyMutex(k, m) == m = lock_map[k] \/ lock_map[k] = NoMutex

\* May a lookup of path k return mutex m?
Finds(k, m) == m = lock_map[k] \/ (lock_map[k] = NoMutex /\ m \notin Range(lock_map))

\* lock, under map_mutex.
Lookup(t, k) ==
    /\ pc[t] = "idle"
    /\ \E m \in Mutexes :
         /\ Finds(k, m)
         /\ lock_map' = [lock_map EXCEPT ![k] = m]
         /\ key_mutex' = [key_mutex EXCEPT ![t] = m]
    /\ key' = [key EXCEPT ![t] = k]
    /\ Goto(t, "locking")
    /\ UNCHANGED owner

\* lock, after map_mutex was given up.
Lock(t) ==
    /\ pc[t] = "locking" /\ owner[key_mutex[t]] = Nobody
    /\ owner' = [owner EXCEPT ![key_mutex[t]] = t]
    /\ Goto(t, "held")
    /\ UNCHANGED <<lock_map, key, key_mutex>>

\* unlock, under map_mutex: the mutex is looked up again.
LookupAgain(t) ==
    /\ pc[t] = "held"
    /\ key_mutex' = [key_mutex EXCEPT ![t] = lock_map[key[t]]]
    /\ Goto(t, "unlocking")
    /\ UNCHANGED <<lock_map, owner, key>>

\* unlock, after map_mutex was given up.
Unlock(t) ==
    /\ pc[t] = "unlocking"
    /\ owner' = [owner EXCEPT ![key_mutex[t]] = Nobody]
    /\ Goto(t, "idle")
    /\ key' = [key EXCEPT ![t] = NoKey]
    /\ key_mutex' = [key_mutex EXCEPT ![t] = NoMutex]
    /\ UNCHANGED lock_map

\* The process ends, and another begins with a KeyLock of its own.
Reset ==
    /\ lock_map' = [k \in Keys |-> NoMutex]
    /\ owner' = [m \in Mutexes |-> Nobody]
    /\ pc' = [t \in Threads |-> "idle"]
    /\ key_mutex' = [t \in Threads |-> NoMutex]
    /\ key' = [t \in Threads |-> NoKey]

Next ==
    \/ \E t \in Threads :
         \/ \E k \in Keys : Lookup(t, k)
         \/ Lock(t) \/ LookupAgain(t) \/ Unlock(t)
    \/ Reset

Spec == Init /\ [][Next]_vars
----------------------------------------------------------------------------
TypeOK ==
    /\ lock_map \in [Keys -> Mutexes \cup {NoMutex}]
    /\ owner \in [Mutexes -> Threads \cup {Nobody}]
    /\ pc \in [Threads -> {"idle", "locking", "held", "unlocking"}]
    /\ key \in [Threads -> Keys \cup {NoKey}]
    /\ key_mutex \in [Threads -> Mutexes \cup {NoMutex}]

Inside(t) == pc[t] \in {"held", "unlocking"}

\* Two threads never have the same path locked, however their first uses of
\* the path interleave.
MutualExclusion ==
    \A t, u \in Threads : Inside(t) /\ Inside(u) /\ key[t] = key[u] => t = u

\* A thread only unlocks a mutex that it has locked itself: the mutex found by
\* unlock is the one found by lock.
UnlocksItsOwn ==
    \A t \in Threads : pc[t] = "unlocking" => owner[key_mutex[t]] = t

\* "So that other key paths are not locked": a thread that wants a path finds
\* its mutex free, unless another thread uses this very path.
OtherPathsNotLocked ==
    \A t \in Threads :
      pc[t] = "locking" =>
        \/ owner[key_mutex[t]] = Nobody
        \/ \E u \in Threads \ {t} : Inside(u) /\ key[u] = key[t]
=============================================================================
