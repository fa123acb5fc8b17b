---------------------------- MODULE LockService ----------------------------
(***************************************************************************)
(* ChubbyImpl of the server that leads: the handlers of AcquireLock,       *)
(* ReleaseLock and KeepAlive, and the lease checker, each a thread of      *)
(* KeyLock.  Locks are stored by PaxosImpl, of which this module keeps what *)
(* the leader can tell: the contents of its own slots, stored in its       *)
(* database by its Learn handler but not when a heartbeat answer brings    *)
(* them, and what a Prepare may still find for a slot it does not know.    *)
(* A Start for a slot that the leader knows, or at a leader that is marked *)
(* dead, returns without a trace.  When the process dies another server    *)
(* takes over, with its own log and database and a ChubbyImpl that         *)
(* remembers nothing.  A lease is an entry of client_lease_map that may    *)
(* run out at any time (module ClientSession has the clock).               *)
(***************************************************************************)
EXTENDS KeyLock, Integers, FiniteSets

CONSTANTS
    Clients,
    Checker,        \* the thread of CheckAndExpireLeases; others are handlers
    Slots,          \* slot numbers in use
    FreshSlots,     \* what the never-initialised slot_number may read at start
    NoLock,         \* what Get finds under a path that was never locked
    Suspects,       \* may the leader miss its own heartbeats?
    MaxReigns       \* bound: servers that lead, one after the other

ASSUME LockServiceAssumption ==
    /\ Checker \in Threads
    /\ Slots \subseteq Nat /\ FreshSlots \subseteq Nat
    /\ NoLock \notin {"FREE", "SHARED", "EXCLUSIVE"}
    /\ MaxReigns \in Nat /\ Suspects \in BOOLEAN

VARIABLES
    db,                         \* paxos_db of the leader
    decided,                    \* decided[n]: what slot n of the leader holds
    accepted,                   \* <<n, e>>: an acceptor may have e for slot n
    slot_number,
    client_lease_map,           \* the clients that have an entry
    client_lock_map,            \* pairs of a path and a client
    req,                        \* what each thread is doing
    expired,                    \* expired_clients of the checker
    locked_keys,                \* the paths it has still to free
    leader_dead, leader_election_happened,
    reigns,                     \* leaders so far
    reign_slots                 \* history: slots that Learn has stored in db

pathVars == <<db, decided, accepted, reign_slots>>
flagVars == <<leader_dead, leader_election_happened, reigns>>
checkerVars == <<expired, locked_keys>>
memoryVars == <<slot_number, client_lease_map, client_lock_map>>
serviceVars == <<pathVars, flagVars, checkerVars, memoryVars, req>>
lockVars == <<vars, serviceVars>>

Mode == {"SHARED", "EXCLUSIVE"}
Stored == Mode \cup {"FREE", NoLock}
IsLocked(k) == db[k] \in Mode
Handlers == Threads \ {Checker}

NoSlot == -1

\* What a slot holds: a path with a value that Learn has put there, nothing, or
\* whatever value (even an empty one, read in the middle of a Learn) a heartbeat
\* has brought, which the leader does not look at again.
Content == [path: Keys, value: Mode \cup {"FREE"}]
Unused == [path |-> NoKey, value |-> NoLock]
Heard == [path |-> NoKey, value |-> "FREE"]

\* op: the handler; value: what it is to store; answer: what it has answered.
NoRequest == [op |-> "none", client |-> Nobody, path |-> NoKey,
              value |-> "FREE", stage |-> "idle", slot |-> NoSlot,
              answer |-> "none", forwarded |-> FALSE]

Become(t, r) == req' = [req EXCEPT ![t] = r]
----------------------------------------------------------------------------
LockInit ==
    /\ Init
    /\ db = [k \in Keys |-> NoLock]
    /\ decided = [n \in Slots |-> Unused]
    /\ accepted = {}
    /\ slot_number \in FreshSlots
    /\ client_lease_map = {}
    /\ client_lock_map = {}
    /\ req = [t \in Threads |-> NoRequest]
    /\ expired = {}
    /\ locked_keys = {}
    /\ leader_dead = FALSE
    /\ leader_election_happened = FALSE
    /\ reigns = 1
    /\ reign_slots = {}
----------------------------------------------------------------------------
(* The handlers of AcquireLock and ReleaseLock.                            *)

\* A request that is not turned away looks for the mutex of its path.
Admit(t, r) ==
    /\ Lookup(t, r.path)
    /\ Become(t, [r EXCEPT !.stage = "lock", !.answer = "none"])

\* Bound: is there a slot for one more AcquireLock?
SlotsLeft ==
    slot_number + 1 + Cardinality({t \in Threads : /\ req[t].op = "acquire"
                                                   /\ req[t].stage \in {"forward", "lock"}})
      \in Slots

\* A handler is entered: right after an election it answers ABORTED and
\* nothing else happens; a leader marked dead calls the leader, itself.
Request(t, c, k, op, m) ==
    LET r == [NoRequest EXCEPT !.op = op, !.client = c, !.path = k,
                                    !.value = m]
    IN  /\ t \in Handlers /\ req[t].stage = "idle" /\ ~leader_election_happened
        /\ op = "acquire" => SlotsLeft
        /\ \/ ~leader_dead /\ Admit(t, r)
           \/ /\ leader_dead
              /\ Become(t, [r EXCEPT !.stage = "forward", !.forwarded = TRUE])
              /\ UNCHANGED vars
        /\ UNCHANGED <<pathVars, flagVars, checkerVars, memoryVars>>

\* The handler called in turn calls the next, until one of them is ABORTED.
\* Whatever a call returns, its caller goes on as if it had not been made.
ForwardReturns(t) ==
    /\ req[t].stage = "forward"
    /\ leader_election_happened \/ req[t].answer = "inner"
    /\ Admit(t, req[t])
    /\ UNCHANGED <<pathVars, flagVars, checkerVars, memoryVars>>

\* Mutant: Put takes a number of its own besides.
NumberedTwice(t) == IF req[t].op = "acquire" THEN slot_number + 2 ELSE slot_number

\* AcquireLock takes a slot number whatever becomes of the request.
Numbered(t) == IF req[t].op = "acquire" THEN slot_number + 1 ELSE slot_number

\* The path is locked.
Enter(t) ==
    /\ req[t].stage = "lock"
    /\ Lock(t)
    /\ slot_number' = Numbered(t)
    /\ Become(t, [req[t] EXCEPT !.stage = "check"])
    /\ UNCHANGED <<pathVars, flagVars, checkerVars,
                   client_lease_map, client_lock_map>>

Answered(t, a) ==
    Become(t, [req[t] EXCEPT !.stage = "leave", !.slot = NoSlot, !.answer = a])

GoesToPut(t) == Become(t, [req[t] EXCEPT !.stage = "put"])

\* AcquireLock compares what is stored with what is asked for.
CheckAcquire(t) ==
    LET r == req[t]
        k == r.path
    IN  /\ r.op = "acquire" /\ r.stage = "check"
        /\ \/ /\ r.client \notin client_lease_map
              /\ Answered(t, "NO_CLIENT_SESSION")
              /\ UNCHANGED client_lock_map
           \/ /\ r.client \in client_lease_map
              /\ db[k] \in {NoLock, "FREE"}
              /\ GoesToPut(t)
              /\ UNCHANGED client_lock_map
           \/ /\ r.client \in client_lease_map
              /\ db[k] = "SHARED" /\ r.value = "SHARED"
              /\ Answered(t, "success")
              /\ client_lock_map' = client_lock_map \cup {<<k, r.client>>}
           \/ /\ r.client \in client_lease_map
              /\ IsLocked(k) /\ "EXCLUSIVE" \in {db[k], r.value}
              /\ Answered(t, "LOCK_HELD")
              /\ UNCHANGED client_lock_map
        /\ UNCHANGED <<vars, pathVars, flagVars, checkerVars,
                       slot_number, client_lease_map>>

\* ReleaseLock and ReleaseLocksForClient free whatever is locked.
CheckRelease(t) ==
    /\ req[t].op \in {"release", "expire"} /\ req[t].stage = "check"
    /\ \/ IsLocked(req[t].path) /\ GoesToPut(t)
       \/ ~IsLocked(req[t].path) /\ Answered(t, "UNACQUIRED_LOCK")
    /\ UNCHANGED <<vars, pathVars, flagVars, checkerVars, memoryVars>>

\* Put reads slot_number ...
PutReads(t) ==
    /\ req[t].stage = "put" /\ ~leader_dead
    /\ Become(t, [req[t] EXCEPT !.stage = "propose", !.slot = slot_number])
    /\ UNCHANGED <<vars, pathVars, flagVars, checkerVars, memoryVars>>

Undecided(n) == decided[n] = Unused

AcceptedFor(n) == {e \in Content : <<n, e>> \in accepted}

\* The Learn handler of the leader stores e, in slot n and in the database.
Learns(n, e) ==
    /\ decided' = [decided EXCEPT ![n] = e]
    /\ db' = [db EXCEPT ![e.path] = e.value]
    /\ reign_slots' = reign_slots \cup {n}

\* Mutant: the leader proposes again for a slot that it knows.
DecideAgain(n, k, v) ==
    /\ Learns(n, [path |-> k, value |-> v])
    /\ UNCHANGED accepted

\* Mutant: Learn is called with the value of the request, whatever Prepare found.
DecideOwn(n, k, v) ==
    LET own == [path |-> k, value |-> v]
    IN  IF Undecided(n)
        THEN /\ accepted' = accepted \cup {<<n, own>>}
             /\ \E e \in {own} \cup AcceptedFor(n) :
                  /\ decided' = [decided EXCEPT ![n] = e]
                  /\ db' = [db EXCEPT ![k] = v]
                  /\ reign_slots' = reign_slots \cup {n}
        ELSE UNCHANGED pathVars

\* ... and Start proposes for that slot: it returns at once if the leader knows
\* the slot, Prepare may find a value of a former leader, which is then learned
\* in place of its own, and an acceptor that knows the slot ends the proposal.
Decide(n, k, v) ==
    LET own == [path |-> k, value |-> v]
    IN  \/ ~Undecided(n) /\ UNCHANGED pathVars
        \/ /\ Undecided(n)
           /\ accepted' = accepted \cup {<<n, own>>}
           /\ \/ \E e \in {own} \cup AcceptedFor(n) : Learns(n, e)
              \/ /\ AcceptedFor(n) # {}
                 /\ UNCHANGED <<db, decided, reign_slots>>

\* Start has returned, and the handler reports success in any case: also when
\* Start ignored the request because the leader is marked dead.
PutReturns(t) ==
    LET r == req[t]
        lock == <<r.path, r.client>>
    IN  /\ \/ r.stage = "propose" /\ Decide(r.slot, r.path, r.value)
           \/ /\ r.stage \in {"put", "propose"} /\ leader_dead
              /\ UNCHANGED pathVars
        /\ client_lock_map' = CASE r.op = "acquire" -> client_lock_map \cup {lock}
                                [] r.op = "release" -> client_lock_map \ {lock}
                                [] r.op = "expire"  -> client_lock_map
        /\ Answered(t, "success")
        /\ UNCHANGED <<vars, flagVars, checkerVars,
                       slot_number, client_lease_map>>

\* The path is unlocked.
Leave(t) ==
    /\ req[t].stage = "leave"
    /\ LookupAgain(t)
    /\ Become(t, [req[t] EXCEPT !.stage = "unlock"])
    /\ UNCHANGED <<pathVars, flagVars, checkerVars, memoryVars>>

\* The handler returns; if it was called by another for a leader marked dead,
\* its caller now does it all again, or else is the outermost.
Exit(t) ==
    /\ req[t].stage = "unlock"
    /\ Unlock(t)
    /\ \/ Become(t, NoRequest)
       \/ /\ req[t].forwarded
          /\ req[t].op = "acquire" => SlotsLeft
          /\ Become(t, [req[t] EXCEPT !.stage = "forward", !.answer = "inner"])
    /\ UNCHANGED <<pathVars, flagVars, checkerVars, memoryVars>>

BodyStep(t) ==
    \/ ForwardReturns(t) \/ Enter(t) \/ CheckAcquire(t) \/ CheckRelease(t)
    \/ PutReads(t) \/ PutReturns(t) \/ Leave(t) \/ Exit(t)
----------------------------------------------------------------------------
(* Sessions.                                                               *)

\* KeepAlive makes an entry for whoever calls; at a leader marked dead it
\* calls itself for ever.
KeepAlive(c) ==
    /\ ~leader_dead
    /\ c \notin client_lease_map
    /\ client_lease_map' = client_lease_map \cup {c}
    /\ UNCHANGED <<vars, pathVars, flagVars, checkerVars, req,
                   slot_number, client_lock_map>>

CheckerIdle == req[Checker].stage = "idle" /\ locked_keys = {}

\* CheckAndExpireLeases drops the leases that have run out.  That it may never
\* do so (stop_lease_checker is not initialised) is left to the fairness.
ExpireLeases ==
    /\ CheckerIdle /\ expired = {}
    /\ \E E \in SUBSET client_lease_map \ {{}} :
         /\ expired' = E
         /\ client_lease_map' = client_lease_map \ E
    /\ UNCHANGED <<vars, pathVars, flagVars, locked_keys, req,
                   slot_number, client_lock_map>>

\* ReleaseLocksForClient notes the paths of a client, under a mutex that does
\* not protect them ...
ReadLockMap ==
    /\ CheckerIdle
    /\ \E c \in expired :
         /\ expired' = expired \ {c}
         /\ locked_keys' = {k \in Keys : <<k, c>> \in client_lock_map}
    /\ UNCHANGED <<vars, pathVars, flagVars, memoryVars, req>>

\* ... and locks and frees one after the other.
FreeNextPath ==
    /\ req[Checker].stage = "idle"
    /\ \E k \in locked_keys :
         /\ locked_keys' = locked_keys \ {k}
         /\ Admit(Checker, [NoRequest EXCEPT !.op = "expire", !.path = k])
    /\ UNCHANGED <<pathVars, flagVars, memoryVars, expired>>

CheckerStep == ExpireLeases \/ ReadLockMap \/ FreeNextPath
----------------------------------------------------------------------------
(* What happens to the leader.                                             *)

\* What the requests under way are about to have accepted for slot n.
Proposed(n) ==
    {[path |-> req[t].path, value |-> req[t].value] :
       t \in {u \in Threads : req[u].stage = "propose" /\ req[u].slot = n}}

\* A slot of the leader becomes known while requests may be proposing for it.
Overtakes(n) == accepted' = accepted \cup ({n} \X Proposed(n))

\* The answer to a heartbeat brings a slot that another server has learned, or
\* is learning.  The leader takes it for its slot, but not into its database.
HeartbeatAnswer ==
    /\ \E n \in Slots :
         /\ Undecided(n) /\ Proposed(n) \cup AcceptedFor(n) # {}
         /\ decided' = [decided EXCEPT ![n] = Heard]
         /\ Overtakes(n)
    /\ UNCHANGED <<vars, db, reign_slots, flagVars, checkerVars, memoryVars, req>>

\* A call of Learn by a former leader arrives.
LateLearn ==
    /\ reigns > 1
    /\ \E n \in Slots : /\ Undecided(n) /\ Overtakes(n)
                       /\ \E e \in AcceptedFor(n) : Learns(n, e)
    /\ UNCHANGED <<vars, flagVars, checkerVars, memoryVars, req>>

\* It misses its own heartbeats: nothing clears leader_dead while it leads.
LeaderSuspectsItself ==
    /\ Suspects /\ ~(leader_dead /\ leader_election_happened)
    /\ leader_dead' = TRUE
    /\ leader_election_happened' = TRUE
    /\ UNCHANGED <<vars, pathVars, checkerVars, memoryVars, req, reigns>>

WaitTimerFires ==
    /\ leader_election_happened
    /\ leader_election_happened' = FALSE
    /\ UNCHANGED <<vars, pathVars, checkerVars, memoryVars, req,
                   leader_dead, reigns>>

\* Its process dies and another server wins the election.  That one knows some
\* of the slots, and its database has what the last Learn call for a path that
\* it did not miss told it.
Takeover ==
    /\ reigns < MaxReigns
    /\ reigns' = reigns + 1
    /\ Reset
    /\ accepted' = accepted \cup UNION {{n} \X Proposed(n) :
                                         n \in {m \in Slots : Undecided(m)}}
    /\ decided' \in [Slots -> {Unused, Heard} \cup Content]
    /\ \A n \in Slots :
         decided'[n] # Unused =>
           \E e \in Content : <<n, e>> \in accepted' /\ decided'[n] \in {e, Heard}
    /\ db' \in [Keys -> Stored]
    /\ \A k \in Keys :
         db'[k] # NoLock =>
           \E n \in Slots : decided'[n] = [path |-> k, value |-> db'[k]]
    /\ slot_number' \in FreshSlots
    /\ client_lease_map' = {} /\ client_lock_map' = {}
    /\ req' = [t \in Threads |-> NoRequest]
    /\ expired' = {} /\ locked_keys' = {}
    /\ leader_dead' = FALSE /\ leader_election_happened' = TRUE
    /\ reign_slots' = {}
----------------------------------------------------------------------------
LockNext ==
    \/ \E t \in Threads :
         \/ BodyStep(t)
         \/ \E c \in Clients, k \in Keys :
              \/ Request(t, c, k, "release", "FREE")
              \/ \E m \in Mode : Request(t, c, k, "acquire", m)
    \/ \E c \in Clients : KeepAlive(c)
    \/ CheckerStep
    \/ HeartbeatAnswer \/ LateLearn
    \/ LeaderSuspectsItself \/ WaitTimerFires \/ Takeover

LockSpec == LockInit /\ [][LockNext]_lockVars
----------------------------------------------------------------------------
(* Properties.                                                             *)

ThreadRequest ==
    [op: {"none", "acquire", "release", "expire"},
     client: Clients \cup {Nobody}, path: Keys \cup {NoKey},
     value: Mode \cup {"FREE"},
     stage: {"idle", "forward", "lock", "check", "put", "propose", "leave",
             "unlock"},
     slot: Int,
     answer: {"none", "inner", "success", "LOCK_HELD", "UNACQUIRED_LOCK",
              "NO_CLIENT_SESSION"},
     forwarded: BOOLEAN]

LockTypeOK ==
    /\ db \in [Keys -> Stored]
    /\ decided \in [Slots -> {Unused, Heard} \cup Content]
    /\ accepted \subseteq Slots \X Content
    /\ slot_number \in Slots
    /\ client_lease_map \subseteq Clients
    /\ client_lock_map \subseteq Keys \X Clients
    /\ req \in [Threads -> ThreadRequest]
    /\ expired \subseteq Clients /\ locked_keys \subseteq Keys
    /\ {leader_dead, leader_election_happened} \subseteq BOOLEAN
    /\ reigns \in Nat
    /\ reign_slots \subseteq Slots

\* Under the first leader a lock that is stored is only ever replaced by FREE:
\* between the Get and the Put of an AcquireLock nobody else has stored a lock
\* for the path.  (A later leader stores old slots as it comes upon them.)
StoredLockOnlyFreed ==
    [][reigns' = 1 =>
         \A k \in Keys : IsLocked(k) => db'[k] \in {db[k], "FREE"}]_<<db, reigns>>

LastFor(n) ==
    \A m \in reign_slots : decided[m].path = decided[n].path => m <= n

\* The database of the first leader is what replaying the slots that its Learn
\* has stored gives: the value of a path is the one in the last such slot for
\* it, although slot_number is read, incremented and used without a lock in
\* common and slots of different paths are decided in any order.
ReplayAgrees ==
    reigns = 1 =>
      \A n \in reign_slots :
        LastFor(n) => db[decided[n].path] = decided[n].value

\* Whatever a leader's database says of a path stands in one of its slots:
\* also when Learn is called with what a former leader left in the slot, or a
\* slot is known without its value.
StoredIsLogged ==
    \A k \in Keys :
      db[k] # NoLock =>
        \E n \in Slots : decided[n] = [path |-> k, value |-> db[k]]
=============================================================================
