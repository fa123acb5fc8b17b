------------------------- MODULE LockServiceProofs -------------------------
(***************************************************************************)
(* The lock service uses KeyLock as KeyLock is meant to be used, and what  *)
(* it stores under the protection of a path is stored by one thread at a   *)
(* time, for any number of threads, paths, clients and slots.              *)
(***************************************************************************)
EXTENDS LockService, KeyLockProofs

\* A thread is at the place in KeyLock that its request says, for its path.
PlaceOK(r, where, k) ==
    /\ r.stage # "idle" => r.path \in Keys
    /\ r.stage \in {"idle", "forward"} => where = "idle"
    /\ r.stage = "lock" => where = "locking" /\ k = r.path
    /\ r.stage \in {"check", "put", "propose", "leave"} => where = "held" /\ k = r.path
    /\ r.stage = "unlock" => where = "unlocking" /\ k = r.path
    /\ r.op # "acquire" => r.value = "FREE"

Places == \A t \in Threads : PlaceOK(req[t], pc[t], key[t])

Requests ==
    /\ req \in [Threads -> ThreadRequest]
    /\ locked_keys \subseteq Keys /\ slot_number \in Nat
    /\ db \in [Keys -> Stored] /\ reigns \in Nat \ {0}

PInv == IInv /\ Requests /\ Places

----------------------------------------------------------------------------
(* One thread moves.                                                       *)

\* Only thread t moves, and it becomes r.
Moves(t, r) ==
    /\ r \in ThreadRequest /\ Become(t, r)
    /\ \A u \in Threads \ {t} : pc'[u] = pc[u] /\ key'[u] = key[u]
    /\ PlaceOK(r, pc'[t], key'[t])

LEMMA MovesOnly ==
    ASSUME PInv, NEW t \in Threads, NEW r, Moves(t, r)
    PROVE  /\ req' \in [Threads -> ThreadRequest] /\ Places'
           /\ req'[t] = r
           /\ \A u \in Threads \ {t} : req'[u] = req[u]
<1>1. /\ req' \in [Threads -> ThreadRequest] /\ req'[t] = r
      /\ \A u \in Threads \ {t} : req'[u] = req[u]
  BY DEF PInv, Requests, Moves, Become
<1>2. ASSUME NEW u \in Threads PROVE PlaceOK(req[u], pc[u], key[u])'
  <2>1. CASE u = t
    BY <1>1, <2>1 DEF Moves, PlaceOK
  <2>2. CASE u # t
    BY <1>1, <2>2 DEF Moves, PlaceOK, PInv, Places
  <2> QED
    BY <2>1, <2>2
<1> QED
  BY <1>1, <1>2 DEF Places

\* What the four calls of KeyLock do to the place of a thread.
LEMMA LookupPlace ==
    ASSUME IInv, NEW t \in Threads, NEW k \in Keys, Lookup(t, k)
    PROVE  /\ pc'[t] = "locking" /\ key'[t] = k
           /\ \A u \in Threads \ {t} : pc'[u] = pc[u] /\ key'[u] = key[u]
  BY DEF Lookup, Goto, IInv, TypeOK

LEMMA LockPlace ==
    ASSUME IInv, NEW t \in Threads, Lock(t)
    PROVE  /\ pc'[t] = "held" /\ key'[t] = key[t]
           /\ \A u \in Threads \ {t} : pc'[u] = pc[u] /\ key'[u] = key[u]
  BY DEF Lock, Goto, IInv, TypeOK

LEMMA LookupAgainPlace ==
    ASSUME IInv, NEW t \in Threads, LookupAgain(t)
    PROVE  /\ pc'[t] = "unlocking" /\ key'[t] = key[t]
           /\ \A u \in Threads \ {t} : pc'[u] = pc[u] /\ key'[u] = key[u]
  BY DEF LookupAgain, Goto, IInv, TypeOK

LEMMA UnlockPlace ==
    ASSUME IInv, NEW t \in Threads, Unlock(t)
    PROVE  /\ pc'[t] = "idle"
           /\ \A u \in Threads \ {t} : pc'[u] = pc[u] /\ key'[u] = key[u]
  BY DEF Unlock, Goto, IInv, TypeOK

LEMMA AdmitMoves ==
    ASSUME PInv, NEW t \in Threads, NEW r \in ThreadRequest, r.path \in Keys,
           r.op # "acquire" => r.value = "FREE", Admit(t, r)
    PROVE  Moves(t, [r EXCEPT !.stage = "lock", !.answer = "none"])
<1>1. [r EXCEPT !.stage = "lock", !.answer = "none"] \in ThreadRequest
  BY DEF ThreadRequest
<1> QED
  BY <1>1, LookupPlace DEF Admit, Moves, PlaceOK, PInv, ThreadRequest

Stage == {"idle", "forward", "lock", "check", "put", "propose", "leave",
          "unlock"}
Answer == {"none", "inner", "success", "LOCK_HELD", "UNACQUIRED_LOCK",
           "NO_CLIENT_SESSION"}

LEMMA SetAnswer ==
    ASSUME NEW r \in ThreadRequest, NEW st \in Stage, NEW a \in Answer
    PROVE  [r EXCEPT !.stage = st, !.answer = a] \in ThreadRequest
  BY DEF ThreadRequest, Stage, Answer

LEMMA SetSlot ==
    ASSUME NEW r \in ThreadRequest, NEW st \in Stage, NEW n \in Int
    PROVE  [r EXCEPT !.stage = st, !.slot = n] \in ThreadRequest
<1>1. ASSUME NEW q \in ThreadRequest PROVE [q EXCEPT !.slot = n] \in ThreadRequest
  BY DEF ThreadRequest
<1>2. [r EXCEPT !.stage = st] \in ThreadRequest
  BY DEF ThreadRequest, Stage
<1> QED
  BY <1>1, <1>2

LEMMA SetSlotAnswer ==
    ASSUME NEW r \in ThreadRequest, NEW st \in Stage, NEW n \in Int,
           NEW a \in Answer
    PROVE  [r EXCEPT !.stage = st, !.slot = n, !.answer = a] \in ThreadRequest
<1>1. ASSUME NEW q \in ThreadRequest PROVE [q EXCEPT !.answer = a] \in ThreadRequest
  BY DEF ThreadRequest, Answer
<1> QED
  BY <1>1, SetSlot

LEMMA FreshRequest ==
    ASSUME NEW c \in Clients \cup {Nobody}, NEW k \in Keys,
           NEW op \in {"acquire", "release", "expire"},
           NEW m \in Mode \cup {"FREE"}, op # "acquire" => m = "FREE"
    PROVE  /\ [NoRequest EXCEPT !.op = op, !.client = c, !.path = k,
                                !.value = m] \in ThreadRequest
           /\ NoRequest \in ThreadRequest
<1>1. NoRequest \in ThreadRequest
  BY DEF NoRequest, ThreadRequest, NoSlot
<1> QED
  BY <1>1 DEF ThreadRequest
----------------------------------------------------------------------------
(* The steps, as far as the invariants tell them apart.                    *)

Quiet == UNCHANGED <<vars, req, pathVars, slot_number, reigns>>

\* A thread goes on without storing anything.
Proceeds(t, r) ==
    /\ Moves(t, r) /\ [Next]_vars
    /\ UNCHANGED <<pathVars, reigns>>
    /\ slot_number' \in {slot_number, slot_number + 1}
    /\ r.stage = "put" =>
         /\ req[t].stage = "check" /\ r.path = req[t].path
         /\ r.op = "acquire" => ~IsLocked(r.path)
    /\ r.stage = "propose" =>
         /\ req[t].stage = "put" /\ r = [req[t] EXCEPT !.stage = "propose",
                                                       !.slot = slot_number]
         /\ slot_number' = slot_number

\* A thread stores the value of its request.
Stores(t) ==
    /\ req[t].stage = "propose"
    /\ Decide(req[t].slot, req[t].path, req[t].value)
    /\ \E r \in ThreadRequest : r.stage = "leave" /\ Moves(t, r)
    /\ UNCHANGED <<vars, slot_number, reigns>>

LEMMA RequestProceeds ==
    ASSUME PInv, NEW t \in Threads, NEW c \in Clients, NEW k \in Keys,
           NEW op \in {"acquire", "release"}, NEW m \in Mode \cup {"FREE"},
           op # "acquire" => m = "FREE", Request(t, c, k, op, m)
    PROVE  \E r \in ThreadRequest : Proceeds(t, r)
<1> DEFINE r == [NoRequest EXCEPT !.op = op, !.client = c, !.path = k,
                                  !.value = m]
<1>1. /\ r \in ThreadRequest /\ r.path = k /\ r.op = op /\ r.value = m
  BY FreshRequest DEF NoRequest
<1>2. UNCHANGED <<pathVars, reigns, slot_number>>
  BY DEF Request, flagVars, memoryVars
<1>3. CASE Admit(t, r)
  <2> DEFINE a == [r EXCEPT !.stage = "lock", !.answer = "none"]
  <2>1. Moves(t, a)
    BY <1>1, <1>3, AdmitMoves
  <2>2. Next
    BY <1>1, <1>3 DEF Admit, Next
  <2>3. a \in ThreadRequest /\ a.stage = "lock"
    <3>1. a \in ThreadRequest
      BY <1>1, SetAnswer DEF Stage, Answer
    <3> QED
      BY <1>1, <3>1 DEF ThreadRequest
  <2> QED
    BY <1>2, <2>1, <2>2, <2>3 DEF Proceeds
<1>4. CASE /\ Become(t, [r EXCEPT !.stage = "forward", !.forwarded = TRUE])
           /\ UNCHANGED vars
  <2> DEFINE f == [r EXCEPT !.stage = "forward", !.forwarded = TRUE]
  <2>1. /\ f \in ThreadRequest /\ f.stage = "forward" /\ f.path = k
        /\ f.op = op /\ f.value = m
    BY <1>1 DEF ThreadRequest
  <2>2. pc'[t] = "idle"
    BY <1>4 DEF Request, PInv, Places, PlaceOK, vars
  <2>3. Moves(t, f)
    BY <1>4, <2>1, <2>2 DEF Moves, PlaceOK, vars
  <2> QED
    BY <1>2, <1>4, <2>1, <2>3 DEF Proceeds
<1> QED
  BY <1>3, <1>4 DEF Request

LEMMA ForwardProceeds ==
    ASSUME PInv, NEW t \in Threads, ForwardReturns(t)
    PROVE  \E r \in ThreadRequest : Proceeds(t, r)
<1> DEFINE a == [req[t] EXCEPT !.stage = "lock", !.answer = "none"]
<1>1. /\ req[t] \in ThreadRequest /\ req[t].path \in Keys
      /\ req[t].op # "acquire" => req[t].value = "FREE"
  BY DEF ForwardReturns, PInv, Requests, Places, PlaceOK
<1>2. Moves(t, a) /\ a \in ThreadRequest /\ a.stage = "lock"
  BY <1>1, AdmitMoves DEF ForwardReturns, Moves, ThreadRequest
<1>3. Next
  BY <1>1 DEF ForwardReturns, Admit, Next
<1> QED
  BY <1>2, <1>3 DEF Proceeds, ForwardReturns, flagVars, memoryVars

LEMMA FreeProceeds ==
    ASSUME PInv, FreeNextPath
    PROVE  \E r \in ThreadRequest : Proceeds(Checker, r)
<1>1. PICK k \in locked_keys :
        Admit(Checker, [NoRequest EXCEPT !.op = "expire", !.path = k])
  BY DEF FreeNextPath
<1> DEFINE r == [NoRequest EXCEPT !.op = "expire", !.path = k]
           a == [r EXCEPT !.stage = "lock", !.answer = "none"]
<1>2. k \in Keys /\ Checker \in Threads
  BY LockServiceAssumption DEF PInv, Requests
<1>3. /\ r \in ThreadRequest /\ r.path = k /\ r.op = "expire"
      /\ r.value = "FREE"
  <2>1. NoRequest \in ThreadRequest
    BY <1>2, FreshRequest
  <2>2. r \in ThreadRequest
    BY <1>2, <2>1 DEF ThreadRequest
  <2> QED
    BY <2>2 DEF NoRequest
<1>4. Moves(Checker, a) /\ a \in ThreadRequest /\ a.stage = "lock"
  <2>1. Moves(Checker, a)
    BY <1>1, <1>2, <1>3, AdmitMoves
  <2>2. a \in ThreadRequest
    BY <2>1 DEF Moves
  <2> QED
    BY <1>3, <2>1, <2>2 DEF ThreadRequest
<1>5. Next
  BY <1>1, <1>2, <1>3 DEF Admit, Next
<1> QED
  BY <1>4, <1>5 DEF Proceeds, FreeNextPath, flagVars, memoryVars

LEMMA EnterProceeds ==
    ASSUME PInv, NEW t \in Threads, Enter(t)
    PROVE  \E r \in ThreadRequest : Proceeds(t, r)
<1> DEFINE a == [req[t] EXCEPT !.stage = "check"]
<1>1. req[t] \in ThreadRequest /\ PlaceOK(req[t], pc[t], key[t])
  BY DEF PInv, Requests, Places
<1>2. a \in ThreadRequest /\ a.stage = "check" /\ Become(t, a)
  BY <1>1 DEF ThreadRequest, Enter
<1>3. Moves(t, a)
  BY <1>1, <1>2, LockPlace DEF Enter, Moves, PlaceOK, PInv, ThreadRequest
<1> QED
  BY <1>2, <1>3 DEF Proceeds, Enter, Next, Numbered, flagVars

\* A thread that stays at its place goes on to leave, or to Put.
LEMMA AnsweredMoves ==
    ASSUME PInv, NEW t \in Threads, UNCHANGED vars,
           req[t].stage \in {"check", "put", "propose"},
           NEW a \in {"success", "LOCK_HELD", "UNACQUIRED_LOCK",
                      "NO_CLIENT_SESSION"}, Answered(t, a)
    PROVE  \E r \in ThreadRequest : r.stage = "leave" /\ Moves(t, r)
<1> DEFINE r == [req[t] EXCEPT !.stage = "leave", !.slot = NoSlot, !.answer = a]
<1>1. req[t] \in ThreadRequest /\ PlaceOK(req[t], pc[t], key[t])
  BY DEF PInv, Requests, Places
<1>2. NoSlot \in Int
  BY DEF NoSlot
<1>3. r \in ThreadRequest /\ Become(t, r)
  BY <1>1, <1>2, SetSlotAnswer DEF Answered, Stage, Answer
<1>4. /\ r.stage = "leave" /\ r.path = req[t].path /\ r.op = req[t].op
      /\ r.value = req[t].value
  BY <1>1 DEF ThreadRequest
<1>5. Moves(t, r)
  BY <1>1, <1>3, <1>4 DEF Moves, PlaceOK, vars
<1> QED
  BY <1>3, <1>4, <1>5

LEMMA GoesToPutMoves ==
    ASSUME PInv, NEW t \in Threads, UNCHANGED vars, req[t].stage = "check",
           GoesToPut(t)
    PROVE  \E r \in ThreadRequest : /\ r.stage = "put" /\ r.path = req[t].path
                                    /\ r.op = req[t].op /\ Moves(t, r)
<1> DEFINE r == [req[t] EXCEPT !.stage = "put"]
<1>1. req[t] \in ThreadRequest /\ PlaceOK(req[t], pc[t], key[t])
  BY DEF PInv, Requests, Places
<1>2. /\ r \in ThreadRequest /\ r.stage = "put" /\ Become(t, r)
      /\ r.path = req[t].path /\ r.op = req[t].op
  BY <1>1 DEF ThreadRequest, GoesToPut
<1>3. Moves(t, r)
  BY <1>1, <1>2 DEF Moves, PlaceOK, vars, ThreadRequest
<1> QED
  BY <1>2, <1>3

LEMMA CheckProceeds ==
    ASSUME PInv, NEW t \in Threads, CheckAcquire(t) \/ CheckRelease(t)
    PROVE  \E r \in ThreadRequest : Proceeds(t, r)
<1>1. /\ UNCHANGED <<vars, pathVars, reigns, slot_number>>
      /\ req[t].stage = "check"
  BY DEF CheckAcquire, CheckRelease, flagVars, memoryVars
<1>2. CASE \E a \in {"success", "LOCK_HELD", "UNACQUIRED_LOCK",
                     "NO_CLIENT_SESSION"} : Answered(t, a)
  BY <1>1, <1>2, AnsweredMoves DEF Proceeds
<1>3. CASE GoesToPut(t) /\ (req[t].op = "acquire" => ~IsLocked(req[t].path))
  BY <1>1, <1>3, GoesToPutMoves DEF Proceeds
<1>4. CheckAcquire(t) => \/ Answered(t, "success") \/ Answered(t, "LOCK_HELD")
                         \/ Answered(t, "NO_CLIENT_SESSION")
                         \/ GoesToPut(t) /\ ~IsLocked(req[t].path)
  BY LockServiceAssumption DEF CheckAcquire, IsLocked, Mode
<1>5. CheckRelease(t) => \/ Answered(t, "UNACQUIRED_LOCK")
                         \/ GoesToPut(t) /\ req[t].op # "acquire"
  BY DEF CheckRelease
<1> QED
  BY <1>2, <1>3, <1>4, <1>5

LEMMA PutProceeds ==
    ASSUME PInv, NEW t \in Threads, PutReads(t)
    PROVE  \E r \in ThreadRequest : Proceeds(t, r)
<1> DEFINE r == [req[t] EXCEPT !.stage = "propose", !.slot = slot_number]
<1>1. req[t] \in ThreadRequest /\ PlaceOK(req[t], pc[t], key[t])
  BY DEF PInv, Requests, Places
<1>2. r \in ThreadRequest /\ Become(t, r)
  <2>1. slot_number \in Int
    BY DEF PInv, Requests
  <2>2. r \in ThreadRequest
    BY <1>1, <2>1, SetSlot DEF Stage
  <2> QED
    BY <2>2 DEF PutReads
<1>4. /\ r.stage = "propose" /\ r.path = req[t].path /\ r.op = req[t].op
      /\ r.value = req[t].value
  BY <1>1 DEF ThreadRequest
<1>3. Moves(t, r)
  BY <1>1, <1>2, <1>4 DEF PutReads, Moves, PlaceOK, vars
<1> QED
  BY <1>2, <1>3, <1>4 DEF PutReads, Proceeds, flagVars, memoryVars

LEMMA PutEnds ==
    ASSUME PInv, NEW t \in Threads, PutReturns(t)
    PROVE  Stores(t) \/ \E r \in ThreadRequest : Proceeds(t, r)
<1>1. /\ UNCHANGED <<vars, slot_number, reigns>>
      /\ req[t].stage \in {"put", "propose"}
      /\ Answered(t, "success")
  BY DEF PutReturns, flagVars
<1>2. \E r \in ThreadRequest : r.stage = "leave" /\ Moves(t, r)
  BY <1>1, AnsweredMoves
<1>3. CASE UNCHANGED pathVars
  BY <1>1, <1>2, <1>3 DEF Proceeds
<1>4. CASE req[t].stage = "propose" /\ Decide(req[t].slot, req[t].path, req[t].value)
  BY <1>1, <1>2, <1>4 DEF Stores
<1> QED
  BY <1>3, <1>4 DEF PutReturns

LEMMA LeaveProceeds ==
    ASSUME PInv, NEW t \in Threads, Leave(t)
    PROVE  \E r \in ThreadRequest : Proceeds(t, r)
<1> DEFINE r == [req[t] EXCEPT !.stage = "unlock"]
<1>1. req[t] \in ThreadRequest /\ PlaceOK(req[t], pc[t], key[t])
  BY DEF PInv, Requests, Places
<1>2. r \in ThreadRequest /\ r.stage = "unlock" /\ Become(t, r)
  BY <1>1 DEF ThreadRequest, Leave
<1>3. Moves(t, r)
  BY <1>1, <1>2, LookupAgainPlace DEF Leave, Moves, PlaceOK, PInv, ThreadRequest
<1> QED
  BY <1>2, <1>3 DEF Leave, Proceeds, Next, flagVars, memoryVars

LEMMA ExitProceeds ==
    ASSUME PInv, NEW t \in Threads, Exit(t)
    PROVE  \E r \in ThreadRequest : Proceeds(t, r)
<1> DEFINE f == [req[t] EXCEPT !.stage = "forward", !.answer = "inner"]
<1>1. req[t] \in ThreadRequest /\ PlaceOK(req[t], pc[t], key[t])
  BY DEF PInv, Requests, Places
<1>2. /\ f \in ThreadRequest /\ f.stage = "forward" /\ f.path = req[t].path
      /\ f.op = req[t].op /\ f.value = req[t].value
  BY <1>1 DEF ThreadRequest
<1>3. /\ NoRequest \in ThreadRequest /\ NoRequest.stage = "idle"
      /\ NoRequest.value = "FREE"
  BY DEF NoRequest, ThreadRequest, NoSlot
<1>4. PICK r \in {f, NoRequest} : Become(t, r)
  BY DEF Exit
<1>5. Moves(t, r)
  BY <1>1, <1>2, <1>3, <1>4, UnlockPlace DEF Exit, Moves, PlaceOK, PInv
<1> QED
  BY <1>2, <1>3, <1>4, <1>5 DEF Exit, Proceeds, Next, flagVars, memoryVars

\* What is about to be accepted is content.
LEMMA ProposedContent ==
    ASSUME PInv, NEW n PROVE Proposed(n) \subseteq Content
<1>1. \A t \in Threads :
        req[t].stage = "propose" =>
          /\ req[t].path \in Keys
          /\ req[t].value \in Mode \cup {"FREE"}
  BY DEF PInv, Requests, ThreadRequest, Places, PlaceOK
<1> QED
  BY <1>1 DEF Proposed, Content

\* A heartbeat answer brings a slot.
Hears ==
    /\ UNCHANGED <<vars, req, slot_number, reigns, db, reign_slots>>
    /\ \E n \in Slots : /\ Undecided(n) /\ Overtakes(n)
                       /\ decided' = [decided EXCEPT ![n] = Heard]

\* What a former leader has decided is stored late.
StoresLate ==
    /\ UNCHANGED <<vars, req, slot_number, reigns>> /\ reigns > 1
    /\ \E n \in Slots : /\ Undecided(n) /\ Overtakes(n)
                       /\ \E e \in AcceptedFor(n) : Learns(n, e)

\* Every step is one of these, or another server takes over.
StepCase ==
    \/ Quiet \/ Hears \/ StoresLate
    \/ \E t \in Threads : Stores(t) \/ \E r \in ThreadRequest : Proceeds(t, r)
    \/ Takeover

LEMMA StepCases == PInv /\ [LockNext]_lockVars => StepCase
<1> SUFFICES ASSUME PInv, [LockNext]_lockVars PROVE StepCase
  OBVIOUS
<1>1. ASSUME NEW t \in Threads, BodyStep(t) PROVE StepCase
  BY <1>1, ForwardProceeds, EnterProceeds, CheckProceeds, PutProceeds,
     PutEnds, LeaveProceeds, ExitProceeds DEF BodyStep, StepCase
<1>2. ASSUME NEW t \in Threads, NEW c \in Clients, NEW k \in Keys,
             \/ Request(t, c, k, "release", "FREE")
             \/ \E m \in Mode : Request(t, c, k, "acquire", m)
      PROVE  StepCase
  BY <1>2, RequestProceeds DEF StepCase
<1>3. CASE FreeNextPath
  BY <1>3, FreeProceeds, LockServiceAssumption DEF StepCase
<1>4. CASE \/ \E c \in Clients : KeepAlive(c)
           \/ ExpireLeases \/ ReadLockMap
           \/ LeaderSuspectsItself \/ WaitTimerFires
  BY <1>4 DEF StepCase, Quiet, KeepAlive, ExpireLeases, ReadLockMap,
     LeaderSuspectsItself, WaitTimerFires, flagVars, memoryVars
<1>5. CASE UNCHANGED lockVars
  BY <1>5 DEF StepCase, Quiet, lockVars, serviceVars, flagVars, memoryVars
<1>6. CASE HeartbeatAnswer \/ LateLearn
  BY <1>6 DEF StepCase, HeartbeatAnswer, Hears, LateLearn, StoresLate,
     flagVars, memoryVars
<1> QED
  BY <1>1, <1>2, <1>3, <1>4, <1>5, <1>6 DEF LockNext, CheckerStep, StepCase

LEMMA LockedKeys ==
    PInv /\ [LockNext]_lockVars => locked_keys' \subseteq Keys
<1> SUFFICES ASSUME PInv, [LockNext]_lockVars PROVE locked_keys' \subseteq Keys
  OBVIOUS
<1>1. CASE locked_keys' \subseteq locked_keys
  BY <1>1 DEF PInv, Requests
<1>2. ASSUME NEW t \in Threads, BodyStep(t) PROVE locked_keys' = locked_keys
  BY <1>2 DEF BodyStep, ForwardReturns, Enter, CheckAcquire, CheckRelease,
     PutReads, PutReturns, Leave, Exit, checkerVars
<1>3. CASE \/ ReadLockMap \/ Takeover
  BY <1>3 DEF ReadLockMap, Takeover
<1> QED
  BY <1>1, <1>2, <1>3 DEF LockNext, CheckerStep, Request, KeepAlive,
     ExpireLeases, FreeNextPath, LeaderSuspectsItself, WaitTimerFires,
     HeartbeatAnswer, LateLearn, checkerVars, lockVars, serviceVars

----------------------------------------------------------------------------
(* The lock service drives KeyLock.                                        *)

LEMMA StepKeyLock == PInv /\ [LockNext]_lockVars => [Next]_vars
<1> SUFFICES ASSUME PInv, [LockNext]_lockVars PROVE [Next]_vars
  OBVIOUS
<1>1. CASE Takeover
  BY <1>1 DEF Takeover, Next
<1> QED
  BY <1>1, StepCases DEF StepCase, Quiet, Hears, StoresLate, Stores, Proceeds

LEMMA InitPInv == LockInit => PInv
<1> SUFFICES ASSUME LockInit PROVE PInv
  OBVIOUS
<1>1. NoRequest \in ThreadRequest
  BY DEF NoRequest, ThreadRequest, NoSlot
<1>2. Requests
  BY <1>1, LockServiceAssumption DEF LockInit, Requests, Stored
<1>3. Places
  BY DEF LockInit, Places, PlaceOK, NoRequest, Init
<1> QED
  BY <1>2, <1>3, InitIInv DEF PInv, LockInit

LEMMA LearnsType ==
    ASSUME PInv, NEW n, NEW e \in Content, Learns(n, e)
    PROVE  db' \in [Keys -> Stored]
<1>1. e.path \in Keys /\ e.value \in Stored
  BY DEF Content, Stored
<1> QED
  BY <1>1 DEF Learns, PInv, Requests

LEMMA OwnContent ==
    ASSUME PInv, NEW t \in Threads, req[t].stage = "propose"
    PROVE  [path |-> req[t].path, value |-> req[t].value] \in Content
  BY DEF PInv, Requests, ThreadRequest, Places, PlaceOK, Content

\* What a thread stores is its own content or one that was accepted before.
LEMMA StoresCases ==
    ASSUME PInv, NEW t \in Threads, Stores(t)
    PROVE  LET n == req[t].slot
               own == [path |-> req[t].path, value |-> req[t].value]
           IN  \/ UNCHANGED pathVars
               \/ /\ Undecided(n) /\ own \in Content
                  /\ accepted' = accepted \cup {<<n, own>>}
                  /\ \/ \E e \in {own} \cup AcceptedFor(n) :
                          e \in Content /\ Learns(n, e)
                     \/ /\ AcceptedFor(n) # {}
                        /\ UNCHANGED <<db, decided, reign_slots>>
  BY OwnContent DEF Stores, Decide, AcceptedFor

LEMMA StoresType ==
    ASSUME PInv, NEW t \in Threads, Stores(t)
    PROVE  db' \in [Keys -> Stored]
<1>1. CASE db' = db
  BY <1>1 DEF PInv, Requests
<1>2. CASE db' # db
  BY <1>2, StoresCases, LearnsType DEF pathVars
<1> QED
  BY <1>1, <1>2

LEMMA StepPInv == PInv /\ [LockNext]_lockVars => PInv'
<1> SUFFICES ASSUME PInv, [LockNext]_lockVars PROVE PInv'
  OBVIOUS
<1>1. IInv' /\ locked_keys' \subseteq Keys
  BY StepKeyLock, StepIInv, LockedKeys DEF PInv
<1>2. CASE Quiet
  BY <1>1, <1>2 DEF Quiet, PInv, Requests, Places, vars, pathVars
<1>3. ASSUME NEW t \in Threads, Stores(t) PROVE PInv'
  BY <1>1, <1>3, MovesOnly, StoresType DEF Stores, PInv, Requests
<1>4. ASSUME NEW t \in Threads, NEW r \in ThreadRequest, Proceeds(t, r)
      PROVE  PInv'
  BY <1>1, <1>4, MovesOnly DEF Proceeds, PInv, Requests, pathVars
<1>6. CASE Hears
  BY <1>1, <1>6 DEF Hears, PInv, Requests, Places, vars
<1>7. CASE StoresLate
  <2>1. db' \in [Keys -> Stored]
    BY <1>7, LearnsType DEF StoresLate, AcceptedFor
  <2> QED
    BY <1>1, <1>7, <2>1 DEF StoresLate, PInv, Requests, Places, vars
<1>5. CASE Takeover
  <2>1. NoRequest \in ThreadRequest
    BY DEF NoRequest, ThreadRequest, NoSlot
  <2>2. Requests'
    BY <1>1, <1>5, <2>1, LockServiceAssumption DEF Takeover, Requests, PInv
  <2>3. Places'
    BY <1>5 DEF Takeover, Reset, Places, PlaceOK, NoRequest
  <2> QED
    BY <1>1, <2>2, <2>3 DEF PInv
<1> QED
  BY <1>2, <1>3, <1>4, <1>5, <1>6, <1>7, StepCases DEF StepCase

\* The handlers, the lease checker and the takeover use KeyLock as its own
\* specification allows: a thread unlocks the path that it has locked, and
\* locks one path at a time.
THEOREM ServiceUsesKeyLock == LockSpec => Spec
<1>1. LockInit => Init
  BY DEF LockInit
<1> QED
  BY <1>1, InitPInv, StepPInv, StepKeyLock, PTL DEF LockSpec, Spec

\* So a path is handled by one thread at a time, its mutex is unlocked by its
\* owner, and no path waits for another: while servers come and go.
THEOREM ServiceExcludes ==
    LockSpec => [](MutualExclusion /\ UnlocksItsOwn /\ OtherPathsNotLocked)
  BY ServiceUsesKeyLock, LocksExclude, PathsIndependent, PTL
----------------------------------------------------------------------------
(* What the leader's slots hold, when slot numbers do not run out.         *)

\* A slot that the first leader does not know has nothing an acceptor may have
\* accepted from another leader.
FInv ==
    /\ decided \in [Slots -> {Unused, Heard} \cup Content]
    /\ accepted \subseteq Slots \X Content
    /\ reign_slots \subseteq Slots
    /\ \A t \in Threads : req[t].stage = "propose" => req[t].slot \in Nat
    /\ reigns = 1 => \A n \in Slots : Undecided(n) => AcceptedFor(n) = {}

LEMMA Contents ==
    ASSUME NEW e \in Content
    PROVE  e.path \in Keys /\ e.path # NoKey /\ e # Unused /\ e # Heard
  BY KeyLockAssumption DEF Content, Unused, Heard

LEMMA HeardIsKnown == Heard # Unused
  BY LockServiceAssumption DEF Heard, Unused

\* Filling a slot that is not known leaves no slot unknown that was known, and
\* adds nothing to what is accepted for the others.
LEMMA FillSlot ==
    ASSUME FInv, NEW n \in Slots, NEW d \in {Heard} \cup Content,
           decided' = [decided EXCEPT ![n] = d],
           \E E \in SUBSET Content : accepted' = accepted \cup ({n} \X E)
    PROVE  /\ decided' \in [Slots -> {Unused, Heard} \cup Content]
           /\ accepted' \subseteq Slots \X Content
           /\ \A m \in Slots : Undecided(m)' => /\ m # n /\ Undecided(m)
                                               /\ AcceptedFor(m)' = AcceptedFor(m)
<1>1. d # Unused
  BY Contents, HeardIsKnown
<1>2. /\ decided'[n] = d
      /\ \A m \in Slots \ {n} : decided'[m] = decided[m]
  BY DEF FInv
<1>3. \A m \in Slots \ {n} : AcceptedFor(m)' = AcceptedFor(m)
  BY DEF AcceptedFor
<1>4. \A m \in Slots : Undecided(m)' => m # n /\ Undecided(m)
  BY <1>1, <1>2 DEF Undecided
<1>5. accepted' \subseteq Slots \X Content
  BY DEF FInv
<1>6. decided' \in [Slots -> {Unused, Heard} \cup Content]
  BY DEF FInv
<1> QED
  BY <1>3, <1>4, <1>5, <1>6

LEMMA StoresFInv ==
    ASSUME Slots = Nat, PInv, FInv, NEW t \in Threads, Stores(t)
    PROVE  FInv'
<1> DEFINE n == req[t].slot
           own == [path |-> req[t].path, value |-> req[t].value]
<1>1. PICK r \in ThreadRequest : r.stage = "leave" /\ Moves(t, r)
  BY DEF Stores
<1>2. req'[t].stage = "leave" /\ \A u \in Threads \ {t} : req'[u] = req[u]
  BY <1>1, MovesOnly
<1>3. \A u \in Threads : req'[u].stage = "propose" => req'[u].slot \in Nat
  BY <1>2 DEF FInv
<1>4. n \in Slots /\ reigns' = reigns
  BY DEF Stores, FInv
<1>5. CASE UNCHANGED pathVars
  BY <1>3, <1>4, <1>5 DEF FInv, Undecided, AcceptedFor, pathVars
<1>6. ASSUME NEW e \in Content, own \in Content, Learns(n, e),
             accepted' = accepted \cup {<<n, own>>}
      PROVE  FInv'
  <2>1. decided' = [decided EXCEPT ![n] = e] /\ reign_slots' = reign_slots \cup {n}
    BY <1>6 DEF Learns
  <2>3. {own} \subseteq Content /\ accepted' = accepted \cup ({n} \X {own})
    BY <1>6
  <2>2. /\ decided' \in [Slots -> {Unused, Heard} \cup Content]
        /\ accepted' \subseteq Slots \X Content
        /\ \A m \in Slots : Undecided(m)' => /\ m # n /\ Undecided(m)
                                            /\ AcceptedFor(m)' = AcceptedFor(m)
    BY <1>4, <1>6, <2>1, <2>3, FillSlot
  <2> QED
    BY <1>3, <1>4, <2>1, <2>2 DEF FInv
<1>7. ASSUME own \in Content, Undecided(n), AcceptedFor(n) # {},
             accepted' = accepted \cup {<<n, own>>},
             UNCHANGED <<db, decided, reign_slots>>
      PROVE  FInv'
  <2>1. reigns # 1
    BY <1>4, <1>7 DEF FInv
  <2>2. accepted' \subseteq Slots \X Content
    BY <1>4, <1>7 DEF FInv
  <2> QED
    BY <1>3, <1>4, <1>7, <2>1, <2>2 DEF FInv
<1> QED
  BY <1>5, <1>6, <1>7, StoresCases

LEMMA StepFInv ==
    ASSUME Slots = Nat PROVE PInv /\ FInv /\ [LockNext]_lockVars => FInv'
<1> SUFFICES ASSUME PInv, FInv, [LockNext]_lockVars PROVE FInv'
  OBVIOUS
<1>1. CASE Quiet
  BY <1>1 DEF Quiet, FInv, Undecided, AcceptedFor, pathVars
<1>2. CASE Hears
  <2>1. PICK n \in Slots : /\ decided' = [decided EXCEPT ![n] = Heard]
                          /\ accepted' = accepted \cup ({n} \X Proposed(n))
    BY <1>2 DEF Hears, Overtakes
  <2>2. /\ decided' \in [Slots -> {Unused, Heard} \cup Content]
        /\ accepted' \subseteq Slots \X Content
        /\ \A m \in Slots : Undecided(m)' => /\ m # n /\ Undecided(m)
                                            /\ AcceptedFor(m)' = AcceptedFor(m)
    BY <2>1, FillSlot, ProposedContent
  <2> QED
    BY <1>2, <2>2 DEF Hears, FInv
<1>3. CASE StoresLate
  <2>1. PICK n \in Slots : /\ accepted' = accepted \cup ({n} \X Proposed(n))
                          /\ \E e \in AcceptedFor(n) : Learns(n, e)
    BY <1>3 DEF StoresLate, Overtakes
  <2>2. PICK e \in Content : Learns(n, e)
    BY <2>1 DEF AcceptedFor
  <2>3. decided' = [decided EXCEPT ![n] = e] /\ reign_slots' = reign_slots \cup {n}
    BY <2>2 DEF Learns
  <2>4. /\ decided' \in [Slots -> {Unused, Heard} \cup Content]
        /\ accepted' \subseteq Slots \X Content
    BY <2>1, <2>3, ProposedContent DEF FInv
  <2> QED
    BY <1>3, <2>3, <2>4 DEF StoresLate, FInv
<1>4. ASSUME NEW t \in Threads, Stores(t) PROVE FInv'
  BY <1>4, StoresFInv
<1>5. ASSUME NEW t \in Threads, NEW r \in ThreadRequest, Proceeds(t, r)
      PROVE  FInv'
  <2>1. /\ UNCHANGED <<pathVars, reigns>> /\ req'[t] = r
        /\ \A u \in Threads \ {t} : req'[u] = req[u]
    BY <1>5, MovesOnly DEF Proceeds
  <2>2. r.stage = "propose" => r.slot \in Nat
    BY <1>5 DEF Proceeds, PInv, Requests, ThreadRequest
  <2>3. \A u \in Threads : req'[u].stage = "propose" => req'[u].slot \in Nat
    BY <2>1, <2>2 DEF FInv
  <2> QED
    BY <2>1, <2>3 DEF FInv, Undecided, AcceptedFor, pathVars
<1>6. CASE Takeover
  <2>1. reigns' # 1 /\ reign_slots' = {} /\ req' = [t \in Threads |-> NoRequest]
    BY <1>6 DEF Takeover, PInv, Requests
  <2>2. decided' \in [Slots -> {Unused, Heard} \cup Content]
    BY <1>6 DEF Takeover
  <2>3. accepted' \subseteq Slots \X Content
    <3>1. \A n \in Slots : Proposed(n) \subseteq Content
      BY ProposedContent
    <3>2. accepted' = accepted \cup UNION {{n} \X Proposed(n) :
                                           n \in {m \in Slots : Undecided(m)}}
      BY <1>6 DEF Takeover
    <3> QED
      BY <3>1, <3>2 DEF FInv
  <2> QED
    BY <2>1, <2>2, <2>3 DEF FInv, NoRequest
<1> QED
  BY <1>1, <1>2, <1>3, <1>4, <1>5, <1>6, StepCases DEF StepCase

LEMMA InitFInv == LockInit => FInv
  BY LockServiceAssumption DEF LockInit, FInv, AcceptedFor, NoRequest

\* Under the first leader a thread stores its own value, or nothing.
LEMMA FirstStores ==
    ASSUME Slots = Nat, PInv, FInv, reigns = 1, NEW t \in Threads, Stores(t)
    PROVE  \/ UNCHANGED pathVars
           \/ /\ Undecided(req[t].slot)
              /\ Learns(req[t].slot, [path |-> req[t].path, value |-> req[t].value])
<1>1. req[t].slot \in Slots
  BY DEF Stores, FInv
<1>2. Undecided(req[t].slot) => AcceptedFor(req[t].slot) = {}
  BY <1>1 DEF FInv
<1> QED
  BY <1>2, StoresCases
----------------------------------------------------------------------------
(* What is stored.                                                         *)

InPut(t) == req[t].stage \in {"put", "propose"}

\* Between the Get and the Put of an AcquireLock the path stays unlocked.
PutsOnFree ==
    reigns = 1 =>
      \A t \in Threads :
        InPut(t) /\ req[t].op = "acquire" => ~IsLocked(req[t].path)

\* Whoever stores a value has its path for itself.
LEMMA StoresAlone ==
    ASSUME PInv, NEW t \in Threads, NEW u \in Threads, u # t, InPut(u),
           Stores(t)
    PROVE  req[u].path # req[t].path
<1>1. \A w \in {t, u} : Inside(w) /\ key[w] = req[w].path
  BY DEF PInv, Places, PlaceOK, InPut, Stores, Inside
<1> QED
  BY <1>1, IInvExcludes DEF PInv, MutualExclusion

\* It changes what is stored under its path, if anything.
LEMMA StoresPath ==
    ASSUME Slots = Nat, PInv, FInv, reigns = 1, NEW t \in Threads, Stores(t),
           NEW k \in Keys, db'[k] # db[k]
    PROVE  k = req[t].path /\ db'[k] = req[t].value
<1>1. db' = [db EXCEPT ![req[t].path] = req[t].value]
  BY FirstStores DEF Learns, pathVars
<1> QED
  BY <1>1 DEF PInv, Requests

LEMMA StepPutsOnFree ==
    ASSUME Slots = Nat
    PROVE  PInv /\ FInv /\ PutsOnFree /\ [LockNext]_lockVars => PutsOnFree'
<1> SUFFICES ASSUME PInv, FInv, PutsOnFree, [LockNext]_lockVars, reigns' = 1
             PROVE  \A t \in Threads :
                      InPut(t)' /\ req'[t].op = "acquire"
                        => ~IsLocked(req[t].path)'
  BY DEF PutsOnFree
<1>1. CASE Quiet \/ Hears
  BY <1>1 DEF Quiet, Hears, PutsOnFree, InPut, IsLocked, pathVars
<1>2. ASSUME NEW t \in Threads, NEW r \in ThreadRequest, Proceeds(t, r)
      PROVE  PutsOnFree'
  <2>1. /\ db' = db /\ req'[t] = r /\ reigns = 1
        /\ \A u \in Threads \ {t} : req'[u] = req[u]
    BY <1>2, MovesOnly DEF Proceeds, pathVars
  <2>2. r.stage = "propose" => /\ req[t].stage = "put" /\ r.op = req[t].op
                               /\ r.path = req[t].path
    BY <1>2 DEF Proceeds, PInv, Requests, ThreadRequest
  <2>3. r.stage \in {"put", "propose"} /\ r.op = "acquire" => ~IsLocked(r.path)
    BY <1>2, <2>1, <2>2 DEF Proceeds, PutsOnFree, InPut
  <2> QED
    BY <2>1, <2>3 DEF PutsOnFree, InPut, IsLocked
<1>3. ASSUME NEW t \in Threads, Stores(t) PROVE PutsOnFree'
  <2>1. PICK r \in ThreadRequest : r.stage = "leave" /\ Moves(t, r)
    BY <1>3 DEF Stores
  <2>2. req'[t].stage = "leave" /\ \A u \in Threads \ {t} : req'[u] = req[u]
    BY <2>1, MovesOnly
  <2>4. reigns = 1
    BY <1>3 DEF Stores
  <2>3. ASSUME NEW u \in Threads, InPut(u)', req'[u].op = "acquire"
        PROVE  ~IsLocked(req[u].path)'
    <3>1. u # t /\ req'[u] = req[u] /\ InPut(u)
      BY <2>2, <2>3 DEF InPut
    <3>2. req[u].path \in Keys
      BY <3>1 DEF InPut, PInv, Places, PlaceOK
    <3>3. db'[req[u].path] = db[req[u].path]
      BY <1>3, <2>4, <3>1, <3>2, StoresAlone, StoresPath
    <3> QED
      BY <2>3, <2>4, <3>1, <3>3 DEF PutsOnFree, IsLocked
  <2> QED
    BY <2>3 DEF PutsOnFree
<1>4. ~Takeover /\ ~StoresLate
  BY DEF Takeover, StoresLate, PInv, Requests
<1> QED
  BY <1>1, <1>2, <1>3, <1>4, StepCases DEF StepCase, PutsOnFree

LockOnlyFreed ==
    reigns' = 1 =>
      \A k \in Keys : IsLocked(k) => db'[k] \in {db[k], "FREE"}

LEMMA StepOnlyFreed ==
    ASSUME Slots = Nat
    PROVE  PInv /\ FInv /\ PutsOnFree /\ [LockNext]_lockVars
             => [LockOnlyFreed]_<<db, reigns>>
<1> SUFFICES ASSUME PInv, FInv, PutsOnFree, [LockNext]_lockVars, reigns' = 1,
                    NEW k \in Keys, IsLocked(k)
             PROVE  db'[k] \in {db[k], "FREE"}
  BY DEF LockOnlyFreed
<1>1. CASE Quiet \/ Hears
  BY <1>1 DEF Quiet, Hears, pathVars
<1>2. ASSUME NEW t \in Threads, NEW r \in ThreadRequest, Proceeds(t, r)
      PROVE  db'[k] = db[k]
  BY <1>2 DEF Proceeds, pathVars
<1>3. ASSUME NEW t \in Threads, Stores(t) PROVE db'[k] \in {db[k], "FREE"}
  <2>1. InPut(t) /\ (req[t].op # "acquire" => req[t].value = "FREE")
    BY <1>3 DEF Stores, InPut, PInv, Places, PlaceOK
  <2>2. reigns = 1
    BY <1>3 DEF Stores
  <2> QED
    BY <1>3, <2>1, <2>2, StoresPath DEF PutsOnFree
<1>4. ~Takeover /\ ~StoresLate
  BY DEF Takeover, StoresLate, PInv, Requests
<1> QED
  BY <1>1, <1>2, <1>3, <1>4, StepCases DEF StepCase

\* Under the first leader a stored lock is only ever replaced by FREE: a request
\* that found the path free stores its lock before anybody else stores one.
THEOREM LocksOnlyFreed ==
    ASSUME Slots = Nat PROVE LockSpec => StoredLockOnlyFreed
<1>1. LockInit => PutsOnFree
  BY DEF LockInit, PutsOnFree, InPut, NoRequest
<1>2. LockSpec => [][LockOnlyFreed]_<<db, reigns>>
  BY <1>1, InitPInv, StepPInv, InitFInv, StepFInv, StepPutsOnFree,
     StepOnlyFreed, PTL DEF LockSpec
<1>3. StoredLockOnlyFreed <=> [][LockOnlyFreed]_<<db, reigns>>
  BY DEF StoredLockOnlyFreed, LockOnlyFreed
<1> QED
  BY <1>2, <1>3
----------------------------------------------------------------------------
(* The log and the database.                                               *)

\* What Learn has stored is in slots that have been numbered.
StoredOK ==
    \A n \in reign_slots : n <= slot_number /\ decided[n] \in Content

\* What is stored for a path comes in slots up to the one that the thread
\* which has the path is about to propose for.
ProposesLast ==
    \A t \in Threads :
      req[t].stage = "propose" =>
        /\ req[t].slot <= slot_number
        /\ \A n \in reign_slots : decided[n].path = req[t].path => n <= req[t].slot

\* (Under the first leader.)
RInv == reigns = 1 => StoredOK /\ ProposesLast /\ ReplayAgrees

LEMMA StoresRInv ==
    ASSUME Slots = Nat, PInv, FInv, RInv, reigns = 1, NEW t \in Threads, Stores(t)
    PROVE  (StoredOK /\ ProposesLast /\ ReplayAgrees)'
<1> DEFINE n == req[t].slot
           p == req[t].path
           own == [path |-> p, value |-> req[t].value]
<1>1. PICK r \in ThreadRequest : r.stage = "leave" /\ Moves(t, r)
  BY DEF Stores
<1>2. req'[t].stage = "leave" /\ \A u \in Threads \ {t} : req'[u] = req[u]
  BY <1>1, MovesOnly
<1>3. /\ slot_number' = slot_number /\ slot_number \in Nat
      /\ n \in Nat /\ n <= slot_number
  BY DEF Stores, PInv, Requests, FInv, RInv, ProposesLast
<1>4. CASE UNCHANGED pathVars
  BY <1>2, <1>3, <1>4 DEF RInv, StoredOK, ProposesLast, ReplayAgrees, LastFor,
                          pathVars
<1>5. CASE Undecided(n) /\ Learns(n, own)
  <2>1. /\ own \in Content /\ p \in Keys
        /\ reign_slots' = reign_slots \cup {n}
        /\ decided' = [decided EXCEPT ![n] = own]
        /\ db' = [db EXCEPT ![p] = req[t].value]
    BY <1>5, OwnContent DEF Learns, Stores, Content
  <2>2. decided'[n] = own /\ \A m \in Nat \ {n} : decided'[m] = decided[m]
    BY <1>3, <2>1 DEF FInv
  <2>3. \A i \in reign_slots : /\ i \in Nat /\ i # n /\ i <= slot_number
                               /\ decided[i] \in Content
                               /\ decided'[i] = decided[i]
    <3>1. \A i \in reign_slots : i <= slot_number /\ decided[i] \in Content
      BY DEF RInv, StoredOK
    <3>2. n \notin reign_slots
      BY <1>5, <3>1, Contents DEF Undecided
    <3> QED
      BY <2>2, <3>1, <3>2 DEF FInv
  <2>4. StoredOK'
    BY <1>3, <2>1, <2>2, <2>3 DEF StoredOK
  <2>6. ProposesLast'
    <3> SUFFICES ASSUME NEW u \in Threads, req'[u].stage = "propose"
                 PROVE  /\ req'[u].slot <= slot_number'
                        /\ \A m \in reign_slots' :
                             decided'[m].path = req'[u].path => m <= req'[u].slot
      BY DEF ProposesLast
    <3>1. u # t /\ req'[u] = req[u] /\ InPut(u)
      BY <1>2 DEF InPut
    <3>2. req[u].path # p
      BY <3>1, StoresAlone
    <3> QED
      BY <1>3, <2>1, <2>2, <2>3, <3>1, <3>2 DEF RInv, ProposesLast
  <2>7. ReplayAgrees'
    <3> SUFFICES ASSUME NEW m \in reign_slots', LastFor(m)'
                 PROVE  db'[decided'[m].path] = decided'[m].value
      BY DEF ReplayAgrees
    <3>2. \A i \in reign_slots : decided[i].path = p => i <= n
      BY DEF RInv, ProposesLast, Stores
    <3>3. CASE m = n
      BY <2>1, <2>2, <3>3 DEF PInv, Requests
    <3>4. CASE m # n
      <4>1. m \in reign_slots /\ decided'[m] = decided[m] /\ m \in Nat
        BY <2>1, <2>3, <3>4
      <4>2. decided[m].path # p
        BY <1>3, <2>1, <2>2, <3>2, <3>4, <4>1 DEF LastFor
      <4>3. LastFor(m)
        BY <2>1, <2>3, <4>1 DEF LastFor
      <4>4. db[decided[m].path] = decided[m].value
        BY <4>1, <4>3 DEF RInv, ReplayAgrees
      <4>5. decided[m].path \in Keys
        BY <2>3, <4>1 DEF Content
      <4> QED
        BY <2>1, <4>1, <4>2, <4>4, <4>5 DEF PInv, Requests
    <3> QED
      BY <3>3, <3>4
  <2> QED
    BY <2>4, <2>6, <2>7
<1> QED
  BY <1>4, <1>5, FirstStores

\* A slot that a heartbeat brings is none that Learn has stored.
LEMMA HearsRInv ==
    ASSUME Slots = Nat, PInv, FInv, RInv, reigns = 1, Hears
    PROVE  (StoredOK /\ ProposesLast /\ ReplayAgrees)'
<1>1. PICK n \in Slots : Undecided(n) /\ decided' = [decided EXCEPT ![n] = Heard]
  BY DEF Hears
<1>2. UNCHANGED <<req, slot_number, reigns, db, reign_slots>>
  BY DEF Hears
<1>3. \A i \in reign_slots : i \in Nat /\ decided[i] \in Content
  BY DEF RInv, StoredOK, FInv
<1>4. \A i \in reign_slots : i # n
  BY <1>1, <1>3, Contents DEF Undecided
<1>5. \A i \in reign_slots : decided'[i] = decided[i]
  BY <1>1, <1>3, <1>4 DEF FInv
<1>6. StoredOK' /\ ProposesLast'
  BY <1>2, <1>5 DEF RInv, StoredOK, ProposesLast
<1>7. \A i \in reign_slots : LastFor(i)' => LastFor(i)
  BY <1>2, <1>5 DEF LastFor
<1>8. ReplayAgrees'
  BY <1>2, <1>5, <1>7 DEF RInv, ReplayAgrees
<1> QED
  BY <1>6, <1>8

LEMMA StepRInv ==
    ASSUME Slots = Nat
    PROVE  PInv /\ FInv /\ RInv /\ [LockNext]_lockVars => RInv'
<1> SUFFICES ASSUME PInv, FInv, RInv, [LockNext]_lockVars, reigns' = 1
             PROVE  (StoredOK /\ ProposesLast /\ ReplayAgrees)'
  BY DEF RInv
<1>1. CASE Quiet
  BY <1>1 DEF Quiet, RInv, StoredOK, ProposesLast, ReplayAgrees, LastFor, pathVars
<1>2. ASSUME NEW t \in Threads, NEW r \in ThreadRequest, Proceeds(t, r)
      PROVE  (StoredOK /\ ProposesLast /\ ReplayAgrees)'
  <2>1. /\ UNCHANGED <<pathVars, reigns>> /\ req'[t] = r
        /\ \A u \in Threads \ {t} : req'[u] = req[u]
    BY <1>2, MovesOnly DEF Proceeds
  <2>2. /\ slot_number \in Nat /\ slot_number' \in Nat
        /\ slot_number <= slot_number'
    BY <1>2 DEF Proceeds, PInv, Requests
  <2>3. \A n \in reign_slots : n \in Nat /\ n <= slot_number
    BY <2>1 DEF RInv, StoredOK, FInv
  <2>4. StoredOK' /\ ReplayAgrees'
    BY <2>1, <2>2, <2>3 DEF RInv, StoredOK, ReplayAgrees, LastFor, pathVars
  <2>5. r.stage = "propose" => r.slot = slot_number /\ slot_number' = slot_number
    BY <1>2 DEF Proceeds, PInv, Requests, ThreadRequest
  <2>6. ProposesLast'
    <3> SUFFICES ASSUME NEW u \in Threads, req'[u].stage = "propose"
                 PROVE  /\ req'[u].slot <= slot_number'
                        /\ \A m \in reign_slots' :
                             decided'[m].path = req'[u].path => m <= req'[u].slot
      BY DEF ProposesLast
    <3>1. CASE u = t
      BY <2>1, <2>2, <2>3, <2>5, <3>1 DEF pathVars
    <3>2. CASE u # t
      <4>1. req'[u] = req[u] /\ req[u].slot \in Nat /\ req[u].slot <= slot_number
        BY <2>1, <3>2 DEF RInv, ProposesLast, FInv
      <4> QED
        BY <2>1, <2>2, <2>3, <4>1 DEF RInv, ProposesLast, pathVars
    <3> QED
      BY <3>1, <3>2
  <2> QED
    BY <2>4, <2>6
<1>3. CASE Hears
  BY <1>3, HearsRInv DEF Hears
<1>4. ASSUME NEW t \in Threads, Stores(t)
      PROVE  (StoredOK /\ ProposesLast /\ ReplayAgrees)'
  BY <1>4, StoresRInv DEF Stores
<1>5. ~Takeover /\ ~StoresLate
  BY DEF Takeover, StoresLate, PInv, Requests
<1> QED
  BY <1>1, <1>2, <1>3, <1>4, <1>5, StepCases DEF StepCase

LEMMA InitRInv == LockInit => RInv
  BY DEF LockInit, RInv, StoredOK, ProposesLast, ReplayAgrees, NoRequest

\* As long as the first server leads, its database is the slots that its Learn
\* has stored, replayed, although the number of a slot is taken and used in two
\* steps, threads of different paths overtake each other, and some slots come
\* by a heartbeat.
THEOREM DatabaseIsLog ==
    ASSUME Slots = Nat PROVE LockSpec => []ReplayAgrees
<1>1. RInv => ReplayAgrees
  BY DEF RInv, ReplayAgrees
<1> QED
  BY <1>1, InitPInv, StepPInv, InitFInv, StepFInv, InitRInv, StepRInv, PTL
  DEF LockSpec

\* A slot that is filled leaves what other slots say of a path.
LEMMA LearnsLogged ==
    ASSUME PInv, FInv, StoredIsLogged, NEW n \in Slots, Undecided(n),
           NEW e \in Content, Learns(n, e)
    PROVE  StoredIsLogged'
<1>1. /\ decided'[n] = e
      /\ \A m \in Slots \ {n} : decided'[m] = decided[m]
  BY DEF Learns, FInv
<1>2. /\ db'[e.path] = e.value
      /\ \A k \in Keys \ {e.path} : db'[k] = db[k]
  BY Contents DEF Learns, PInv, Requests
<1> SUFFICES ASSUME NEW k \in Keys, db'[k] # NoLock
             PROVE  \E m \in Slots : decided'[m] = [path |-> k, value |-> db'[k]]
  BY DEF StoredIsLogged
<1>3. CASE k = e.path
  <2>1. e = [path |-> e.path, value |-> e.value]
    BY DEF Content
  <2> QED
    BY <1>1, <1>2, <1>3, <2>1
<1>4. CASE k # e.path
  <2>1. PICK m \in Slots : decided[m] = [path |-> k, value |-> db[k]]
    BY <1>2, <1>4 DEF StoredIsLogged
  <2>2. m # n
    BY <2>1, KeyLockAssumption DEF Undecided, Unused
  <2> QED
    BY <1>1, <1>2, <1>4, <2>1, <2>2
<1> QED
  BY <1>3, <1>4

LEMMA StepLogged ==
    ASSUME Slots = Nat
    PROVE  PInv /\ FInv /\ StoredIsLogged /\ [LockNext]_lockVars => StoredIsLogged'
<1> SUFFICES ASSUME PInv, FInv, StoredIsLogged, [LockNext]_lockVars
             PROVE  StoredIsLogged'
  OBVIOUS
<1>1. CASE UNCHANGED <<db, decided>>
  BY <1>1 DEF StoredIsLogged
<1>2. CASE Hears
  <2>1. PICK n \in Slots : Undecided(n) /\ decided' = [decided EXCEPT ![n] = Heard]
    BY <1>2 DEF Hears
  <2>2. \A m \in Slots \ {n} : decided'[m] = decided[m]
    BY <2>1 DEF FInv
  <2>3. \A k \in Keys : decided[n] # [path |-> k, value |-> db[k]]
    BY <2>1, KeyLockAssumption DEF Undecided, Unused
  <2> QED
    BY <1>2, <2>2, <2>3 DEF Hears, StoredIsLogged
<1>3. CASE StoresLate
  BY <1>3, LearnsLogged DEF StoresLate, AcceptedFor
<1>4. ASSUME NEW t \in Threads, Stores(t) PROVE StoredIsLogged'
  <2>1. req[t].slot \in Slots
    BY <1>4 DEF Stores, FInv
  <2> QED
    BY <1>1, <1>4, <2>1, StoresCases, LearnsLogged DEF pathVars
<1>5. CASE Takeover
  BY <1>5 DEF Takeover, StoredIsLogged
<1> QED
  BY <1>1, <1>2, <1>3, <1>4, <1>5, StepCases
  DEF StepCase, Quiet, Proceeds, pathVars

\* Whatever server leads, and whatever it comes upon of its predecessors, its
\* database says of a path nothing that does not stand in one of its slots.
THEOREM DatabaseInLog ==
    ASSUME Slots = Nat PROVE LockSpec => []StoredIsLogged
<1>1. LockInit => StoredIsLogged
  BY DEF LockInit, StoredIsLogged
<1> QED
  BY <1>1, InitPInv, StepPInv, InitFInv, StepFInv, StepLogged, PTL DEF LockSpec
----------------------------------------------------------------------------
(* The types of what the handlers share.                                   *)

\* Only a client locks a path; the checker frees one for nobody.
RequestOK(r) ==
    /\ r.op = "acquire" => r.client \in Clients
    /\ r.op = "none" => r.stage = "idle"

Acquirers == \A t \in Threads : RequestOK(req[t])

SharedOK ==
    /\ client_lease_map \subseteq Clients
    /\ client_lock_map \subseteq Keys \X Clients
    /\ expired \subseteq Clients
    /\ {leader_dead, leader_election_happened} \subseteq BOOLEAN

LEMMA AcquirersBecome ==
    ASSUME PInv, Acquirers, NEW t \in Threads, NEW r, Become(t, r), RequestOK(r)
    PROVE  Acquirers'
  BY DEF PInv, Requests, Become, Acquirers

\* A request goes on as the request it is, or ends.
LEMMA BodyKeepsClient ==
    ASSUME PInv, Acquirers, NEW t \in Threads, BodyStep(t)
    PROVE  Acquirers'
<1>1. req[t] \in ThreadRequest /\ RequestOK(req[t])
  BY DEF PInv, Requests, Acquirers
<1>2. req[t].stage # "idle" => req[t].op # "none"
  BY <1>1 DEF RequestOK
<1>3. ASSUME NEW r, Become(t, r), req[t].stage # "idle",
             r.op = req[t].op, r.client = req[t].client
      PROVE  Acquirers'
  BY <1>1, <1>2, <1>3, AcquirersBecome DEF RequestOK
<1>4. ASSUME NEW st, NEW an, NEW sl, req[t].stage # "idle",
             \/ Become(t, [req[t] EXCEPT !.stage = st])
             \/ Become(t, [req[t] EXCEPT !.stage = st, !.answer = an])
             \/ Become(t, [req[t] EXCEPT !.stage = st, !.slot = sl])
             \/ Become(t, [req[t] EXCEPT !.stage = st, !.slot = sl, !.answer = an])
      PROVE  Acquirers'
  <2>1. /\ [req[t] EXCEPT !.stage = st].op = req[t].op
        /\ [req[t] EXCEPT !.stage = st].client = req[t].client
        /\ [req[t] EXCEPT !.stage = st, !.answer = an].op = req[t].op
        /\ [req[t] EXCEPT !.stage = st, !.answer = an].client = req[t].client
        /\ [req[t] EXCEPT !.stage = st, !.slot = sl].op = req[t].op
        /\ [req[t] EXCEPT !.stage = st, !.slot = sl].client = req[t].client
        /\ [req[t] EXCEPT !.stage = st, !.slot = sl, !.answer = an].op = req[t].op
        /\ [req[t] EXCEPT !.stage = st, !.slot = sl, !.answer = an].client
             = req[t].client
    BY <1>1 DEF ThreadRequest
  <2> QED
    BY <1>3, <1>4, <2>1
<1>5. CASE ForwardReturns(t)
  BY <1>4, <1>5 DEF ForwardReturns, Admit
<1>6. CASE Enter(t)
  BY <1>4, <1>6 DEF Enter
<1>7. CASE CheckAcquire(t) \/ CheckRelease(t)
  BY <1>4, <1>7 DEF CheckAcquire, CheckRelease, Answered, GoesToPut
<1>8. CASE PutReads(t)
  BY <1>4, <1>8 DEF PutReads
<1>9. CASE PutReturns(t)
  BY <1>4, <1>9 DEF PutReturns, Answered
<1>10. CASE Leave(t)
  BY <1>4, <1>10 DEF Leave
<1>11. CASE Exit(t)
  <2>1. RequestOK(NoRequest)
    BY DEF RequestOK, NoRequest
  <2> QED
    BY <1>4, <1>11, <2>1, AcquirersBecome DEF Exit
<1> QED
  BY <1>5, <1>6, <1>7, <1>8, <1>9, <1>10, <1>11 DEF BodyStep

LEMMA BodyKeepsShared ==
    ASSUME PInv, Acquirers, SharedOK, NEW t \in Threads, BodyStep(t)
    PROVE  SharedOK'
<1> USE DEF memoryVars, flagVars, checkerVars
<1>1. CASE UNCHANGED <<client_lease_map, client_lock_map, expired, leader_dead,
                       leader_election_happened>>
  BY <1>1 DEF SharedOK
<1>2. CASE CheckAcquire(t)
  <2>1. req[t].path \in Keys /\ req[t].client \in Clients
    BY <1>2 DEF CheckAcquire, PInv, Places, PlaceOK, Acquirers, RequestOK
  <2>2. \/ client_lock_map' = client_lock_map
        \/ client_lock_map' = client_lock_map \cup {<<req[t].path, req[t].client>>}
    BY <1>2 DEF CheckAcquire
  <2> QED
    BY <1>2, <2>1, <2>2 DEF CheckAcquire, SharedOK
<1>3. CASE PutReturns(t)
  <2>1. req[t].path \in Keys
    BY <1>3 DEF PutReturns, PInv, Places, PlaceOK
  <2>2. client_lock_map' \subseteq Keys \X Clients
    <3>1. CASE req[t].op = "acquire"
      BY <1>3, <2>1, <3>1 DEF PutReturns, Acquirers, RequestOK, SharedOK
    <3>2. CASE req[t].op = "release"
      BY <1>3, <3>2 DEF PutReturns, SharedOK
    <3>3. CASE req[t].op = "expire"
      BY <1>3, <3>3 DEF PutReturns, SharedOK
    <3>4. CASE req[t].op = "none"
      BY <1>3, <3>4 DEF PutReturns, Acquirers, RequestOK
    <3> QED
      BY <3>1, <3>2, <3>3, <3>4 DEF PInv, Requests, ThreadRequest
  <2> QED
    BY <1>3, <2>2 DEF PutReturns, SharedOK
<1> QED
  BY <1>1, <1>2, <1>3 DEF BodyStep, ForwardReturns, Enter, CheckRelease,
                          PutReads, Leave, Exit

LEMMA StepShared ==
    PInv /\ Acquirers /\ SharedOK /\ [LockNext]_lockVars => (Acquirers /\ SharedOK)'
<1> SUFFICES ASSUME PInv, Acquirers, SharedOK, [LockNext]_lockVars
             PROVE  (Acquirers /\ SharedOK)'
  OBVIOUS
<1> USE DEF memoryVars, flagVars, checkerVars
<1>1. ASSUME NEW t \in Threads, BodyStep(t) PROVE (Acquirers /\ SharedOK)'
  BY <1>1, BodyKeepsClient, BodyKeepsShared
<1>2. ASSUME NEW t \in Threads, NEW c \in Clients, NEW k \in Keys, NEW op, NEW m,
             op # "none", Request(t, c, k, op, m)
      PROVE  (Acquirers /\ SharedOK)'
  <2> DEFINE q == [NoRequest EXCEPT !.op = op, !.client = c, !.path = k, !.value = m]
  <2>1. /\ RequestOK([q EXCEPT !.stage = "lock", !.answer = "none"])
        /\ RequestOK([q EXCEPT !.stage = "forward", !.forwarded = TRUE])
    BY <1>2 DEF RequestOK, NoRequest
  <2>2. Acquirers'
    BY <1>2, <2>1, AcquirersBecome DEF Request, Admit
  <2> QED
    BY <1>2, <2>2 DEF Request, SharedOK
<1>3. CASE \/ \E c \in Clients : KeepAlive(c)
           \/ ExpireLeases \/ ReadLockMap \/ HeartbeatAnswer \/ LateLearn
           \/ LeaderSuspectsItself \/ WaitTimerFires
  BY <1>3 DEF KeepAlive, ExpireLeases, ReadLockMap, LeaderSuspectsItself,
              HeartbeatAnswer, LateLearn, WaitTimerFires, Acquirers, SharedOK
<1>4. CASE FreeNextPath
  <2>1. PICK k \in locked_keys :
          Become(Checker, [[NoRequest EXCEPT !.op = "expire", !.path = k]
                             EXCEPT !.stage = "lock", !.answer = "none"])
    BY <1>4 DEF FreeNextPath, Admit
  <2>2. RequestOK([[NoRequest EXCEPT !.op = "expire", !.path = k]
                     EXCEPT !.stage = "lock", !.answer = "none"])
    BY DEF RequestOK, NoRequest
  <2>3. Acquirers'
    BY <2>1, <2>2, AcquirersBecome, LockServiceAssumption
  <2> QED
    BY <1>4, <2>3 DEF FreeNextPath, SharedOK
<1>5. CASE Takeover
  BY <1>5 DEF Takeover, NoRequest, Acquirers, RequestOK, SharedOK
<1>6. CASE UNCHANGED lockVars
  BY <1>6 DEF lockVars, serviceVars, Acquirers, SharedOK
<1> QED
  BY <1>1, <1>2, <1>3, <1>4, <1>5, <1>6 DEF LockNext, CheckerStep

\* The shared maps hold clients and their paths only, and the log and the
\* database what handlers may store, while slot numbers do not run out.
THEOREM LockTypeCorrect ==
    ASSUME Slots = Nat PROVE LockSpec => []LockTypeOK
<1>1. LockInit => Acquirers /\ SharedOK
  <2> SUFFICES ASSUME LockInit PROVE Acquirers /\ SharedOK
    OBVIOUS
  <2>1. Acquirers
    BY DEF LockInit, NoRequest, Acquirers, RequestOK
  <2>2. SharedOK
    BY DEF LockInit, SharedOK
  <2> QED
    BY <2>1, <2>2
<1>2. PInv /\ FInv /\ SharedOK => LockTypeOK
  BY DEF PInv, Requests, FInv, SharedOK, LockTypeOK
<1> QED
  BY <1>1, <1>2, InitPInv, StepPInv, InitFInv, StepFInv, StepShared, PTL
  DEF LockSpec
=============================================================================
