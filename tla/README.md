# Verification of Chubby

TLA+ models, TLC runs and TLAPS proofs for this repository: a replicated lock
service (`ChubbyImpl`) over a multi-slot Paxos (`PaxosImpl`) with view changes,
and a client library with leases. Paths are relative to the repository root,
which the project files call `src/`.

## The system

| Component | State | Operations | Talks to |
|---|---|---|---|
| View changes, `src/paxos/paxos_server.cpp` | `view`, `leader_dead`, `missed_heartbeats`, `highest_accepted_seq`, `leader_election_happened`; threads: heartbeat sender, failure detector, any number of `Election` threads and 40-second timers | `SendHeartbeats`, `Heartbeat`, `DetectLeaderFailure`, `Election`, `Elect` | other servers by gRPC; proposals through `view` |
| Proposals, same file | `slots` (`status value n n_p n_a v_a highest_N`, mutexes `mu`, `mu_`), the server mutex `mu` | `Start`, `StartOnForward`, `StartOnNewSlot`, `ForwardLeader`, `Prepare`, `Accept`, `Learn` | every server including itself; `paxos_db` |
| Garbage collection, same file | `done`, `lowest_slot` | `Forget` (never called) | |
| `KeyLock`, `src/server/server.cpp` | `lock_map`, one mutex per path | `lock`, `unlock` | handlers of `ChubbyImpl` |
| Lock service `ChubbyImpl`, same file | `client_lock_map`, `client_lease_map`, `slot_number` | `AcquireLock`, `ReleaseLock`, `KeepAlive`, `TryAcquireLock`, `CheckAndExpireLeases`, `ReleaseLocksForClient`, `Put` | `PaxosImpl::Start`, `paxos_db`, the `ChubbyImpl` of the leader |
| Client library, `client/client_interface.cpp` | `current_leader`, `client_lease_timeout`, `accept_requests`, `latest_epoch_number` | `chubby_lock`, `chubby_unlock`, `send_keep_alive` | one server at a time |
| `RocksDBWrapper`, `ThreadPool` | database handle; task queue (never used) | `Get`, `Put`; `enqueue` | |

What is hard: every server runs handlers, proposals, elections and heartbeats
at once; a server is only protected by `mu` for short sections and reads `view`
outside of it; a slot has two mutexes of its own; calls fail or are answered
late; processes are killed with SIGKILL and come back with memory that was never
initialised. What makes each component correct:

- View changes: a view has one candidate; a view won stays backed by a
  majority; votes bind; views never go back; elections end.
- Proposals: a slot is decided once and everywhere with the same value, a value
  that was asked for, and has that value as soon as it is decided (it has not, see
  the findings); the database holds decisions only; requests end.
- KeyLock: one thread per path, and no waiting for other paths.
- Lock service: a stored lock is only ever replaced by FREE and the database is what
  the slots replay to, as long as the first leader lives; any leader's database says
  only what its slots say.
- Client: its lease never outlasts its session at the server; a session that is
  over stays over; every round of KeepAlive ends.

`PROJECT.json` lists the hazards of the code line by line, with the properties
aimed at each, or why there is none yet.

## Modules

| Module | Models | Used by |
|---|---|---|
| `Views` | view changes on their own; what proposals do to the same state is the two actions `TakeHigherView` and `NoteAccepted` | `PaxosServer` extends it |
| `PaxosServer` | all of `PaxosImpl`: the actions of `Views` under `mu`, composed with proposals, slots, catch-up and crashes | `MCPaxosServer` |
| `MCPaxosServer` | `PaxosServer` for TLC (symmetry of the requests) | runs `paxos_*` |
| `SlotLog` | abstract: a write-once log per server, any two of which agree where both have a value | refined by `PaxosServer` |
| `ViewsProofs` | theorems about `Views` | `PaxosServerProofs` extends it |
| `PaxosServerProofs` | theorems about `PaxosSpec` | `PaxosLogProofs` extends it |
| `PaxosLogProofs` | theorems about `StableSpec`, the refinement of `SlotLog` among them | |
| `KeyLock` | `KeyLock` | `LockService` extends it |
| `KeyLockProofs` | theorems about `KeyLock` | `LockServiceProofs` |
| `LockService` | `ChubbyImpl` of the leading server: handlers and lease checker as threads of `KeyLock`, with the slots and the database as the leader sees them | `MCLockService` |
| `MCLockService` | `LockService` for TLC (symmetry of handlers, paths, mutexes) | runs `lock_*` |
| `LockServiceProofs` | theorems about `LockService` | |
| `ClientSession` | one client's session, with the `KeepAlive` handler, leases and a clock | run `session_safe` |
| `ClientSessionProofs` | theorems about `ClientSession` | |

**Views.** A server is a number; view `v` is led by `v % N`, as in the code. A
handler runs under `mu` and is one action, with the call and its answer. An
`Election` thread is a record: target view, callees left, answers so far; each
call is an action, so anything may happen between two calls, and the section
under `mu` after a pass is one of `ElectionRejected`, `ElectionWon`,
`ElectionOvertaken`, `ElectionRetry`. Calls go out in order of port, the order of
`paxos_stubs_map`. With `LossyRPC` a call may fail before or after the handler
ran; a call to a dead process always fails. `Fresh` holds the values that `view`,
`missed_heartbeats` and `highest_accepted_seq` may have in a new process, since
no constructor sets them (non-negative ones only: a negative `view % N` leads
nothing and is outside the model). `seen` and `won` are history variables: `seen`
bounds what `TakeHigherView` may copy, `won` names the elections that succeeded.

**PaxosServer.** A request to `Start`, with the `ForwardLeader` calls it leads
to, is one call `c`, whose value is `c` itself. `calls[c].pc` follows the code:

| pc | code |
|---|---|
| `start` | `Start`, waiting for `mu` (296-320) |
| `read` | between the unlock (309) and the read of the argument `view` (310) |
| `lock`, `begin` | `StartOnNewSlot`, waiting for `slot->mu` (357), then `mu` (374) |
| `prepare` | the Prepare loop, one callee after the other (387-441) |
| `accept`, `learn` | the threads of the two phases (482-526, 559-584) |
| `forward` | `StartOnForward` (322-352) |
| `nested` | `StartOnNewSlot` called with `mu` held (329) |
| `return`, `done`, `stuck` | frames unwinding, all returned, some of them waiting for a mutex they hold |

`held` lists the servers whose `mu` the call keeps across its remote call,
`locked` those whose `slot->mu` it keeps, `doomed` those where the frame will
unlock `mu` twice (453 and 456), so that nothing but the end of its process
(`PaxosCrash`) can follow, and `mu_lost` is the set of
servers whose `mu` is held for ever, by a thread that locked it twice or that waits
for a `slot->mu_` for ever. A handler
that uses `mu` and then `slot->mu_` is two actions (`PrepareEnters` and
`PrepareAnswers`, and so on), since anything may happen in between. `noting` are the
servers where such a handler keeps `slot->mu_` beyond a step. An
Accept handler that has recorded a proposal waits for `mu` with `slot->mu_` locked,
while Heartbeat and SendHeartbeats wait for `slot->mu_` with `mu`
locked: where they meet, `HeartbeatBlocks` and `TakeReplyBlocks` put the server into
`mu_lost`, and neither thread ever goes on. A Learn handler has given `mu` up (241)
when it writes `status` (245, `LearnDecides`) and then `value` (246, `LearnStores`), both
under `slot->mu_`; the heartbeats read the two under `mu` only (`DecidedOf`; 621-623,
661-662), so that what they carry of a slot is nothing (`Absent`), its value, or in
between the empty one. A catch-up of that slot waits for the Learn (`Delayed`), and
whoever receives the empty value keeps it (`LearnValue`).
A request that a server sends to itself is filled in by a thread that holds
the same `mu` as the handler; the two sections are one step there (`Sent`, `Filled`).
Of `slot->value` only what a decided slot has matters; wording, logging, ports and
protobuf are left out. Each request writes one path, so `paxos_db[s]` is a single value.
Assigning a null pointer to a protobuf string (173, 217) is undefined: the answer
of `Prepare` for an undecided slot may arrive or fail, and for `Accept` the two
cannot be told apart, as the answer counts for nothing there. `is_dead` and `lowest_slot`
are never assigned either; `IsDead` and `Discards` are the servers where they
happen to stop every request.

The code has no answer to a restart (nothing of `PaxosImpl` is restored), so
restarts are in `Views` only, in `RestartSpec`, where `CampaignOwnsView` survives
them. In `PaxosServer` a crashed server stays down.

**SlotLog** is what users of `Start` rely on: every slot is written at most once
and all servers agree on it. `WriteOnceLog` says that `PaxosServer` implements it
under the mapping of `learned[s][q]` to the value of slot `q` at `s`, where the empty
value is "not learned": a slot that is decided without its value has none to
contradict. It holds as long as nobody suspects the leader and calls do not fail
(`StableSpec`), and not beyond (see the findings).

**KeyLock.** The sections of `lock` and `unlock` under `map_mutex` are steps of
their own, so a thread may be overtaken between finding a mutex and locking it.
`Reset` is the end of the process.

**LockService.** Every handler is a thread; `req[t].stage` follows the code of
`AcquireLock`, `ReleaseLock` and one turn of the loop in `ReleaseLocksForClient`,
which share their shape:

| stage | code (`AcquireLock` / `ReleaseLock` / checker) |
|---|---|
| `forward` | waiting for the handler it called because `leader_dead` (236-243 / 349-356) |
| `lock` | in `key_lock.lock` (246 / 359 / 128) |
| `check` | locked, `slot_number` incremented; lease and value are looked up (247-265 / 361-364 / 130-133) |
| `put` | `Put` is called (268, 287, 305 / 373 / 135), `slot_number` not yet read (152) |
| `propose` | `Start(slot, ...)` runs |
| `leave`, `unlock` | answered; the two halves of `key_lock.unlock` |

`decided` are the leader's own slots and `db` its database. A proposal (`Decide`)
returns without a trace when the leader knows the slot already (306, 359), or when an
acceptor does (511, 528); otherwise its Learn handler stores a value in both (244-249):
the request's own, or the one that Prepare has found (421-425), for whatever path it is.
`accepted` holds what acceptors may have for a slot; under the first leader the slots it
does not know have nothing there, and after a `Takeover` there may be much. A slot may
also reach the leader by the answer to a heartbeat (`HeartbeatAnswer`, 701-703), from a
server that has learned it sooner or, empty, in the middle of a Learn: it is decided
from then on and its content never reaches the database (`Heard`). A `Learn` call of a
former leader may arrive late (`LateLearn`). At a leader marked dead `Start` ignores the
request (308), and `Put` reports success all the same. `client_lock_map` and
`client_lease_map` are the maps of the code; the lock-order and data-race side of their
mutexes is left out, each read and each write is a step. A lease here may run out at any
time. A leader that has missed its own heartbeats forwards its requests to the leader,
itself: the called handler runs the same stages with the same request, and when it
returns its caller runs them again (`Exit`, `ForwardReturns`). `Takeover` is the death
of the process and the next leader: an empty memory, any of the slots that somebody may
have accepted, and of each path either nothing or the value of one of those slots; what
it missed is left in `accepted`.

**ClientSession.** The clock ticks `Sec` times a second; leases are counted in ticks
on servers and in whole seconds at the client, all relative to now. `frames` is the
chain of servers inside one `KeepAlive` call, which grows when a server takes its
leader for dead (182-193). `pc` is `renewing` in the first loop of
`send_keep_alive` (295-327), `rescuing` in the second (333-390), `sleep` after a
failed call. The client library calls `send_keep_alive` in an endless loop
(`client/performance.cpp:36`), and other threads `chubby_lock` and `chubby_unlock`
(`Ask`, `Told`, `AskFails`), which may move `current_leader` at any moment.
`granted_by` is history: the server process whose lease the client has.

## Runs

| Run | Instance | Shows |
|---|---|---|
| `views_safety` | 3 servers, up to 2 crashes, 1 election thread each, views up to 2 | type invariant, `ElectedByQuorum`, `VotesBind`, `LeaderBacked`, `ViewNeverDecreases` |
| `views_live` | 3 servers, fair threads, 1 crash and restarts | `CampaignOwnsView`, `ElectionTerminates` |
| `paxos_stable` | 3 servers, 2 requests at 2 servers for one slot, 1 crash, no suspicion | type invariant, `WriteOnceLog`, `CatchUpNeverWaits`, `LeaderMuStaysFree` |
| `paxos_leaders` | 2 servers that start in any of the views 0 and 1, so that both may lead, each with a request for the same slot | `StoredIsDecided`, `DecisionStable`, `Validity` |
| `paxos_faults` | 2 servers, 1 request at the follower, failing calls, 1 crash, one election, 2 start values of `highest_accepted_seq` | `AcceptedInView`, `Validity`, `ViewsRefined` |
| `paxos_live` | 3 servers, 2 requests for a slot that goes through Prepare; server 2 `IsDead`, server 1 `Discards`, so that neither forwards; no crash | `StartReturns` |
| `lock_safe` | 2 handlers and the checker, 2 paths, 1 client, 3 slots, one leader that never suspects itself | type invariant, `MutualExclusion`, `UnlocksItsOwn`, `OtherPathsNotLocked`, `StoredLockOnlyFreed`, `ReplayAgrees` |
| `lock_failover` | as `lock_safe` with 2 slots, leaders that may suspect themselves and one change of the leader | `StoredIsLogged` |
| `session_safe` | 2 servers, 2 ticks a second, lease and grace period of a second, one crash or suspicion, one change of view | type invariant, `SessionBacked`, `SessionEndIsFinal`, `KeepAliveEnds` |
| `paxos_disagree` | 2 servers, 2 requests, one election, nothing lost | violates `Agreement` |
| `paxos_torn` | 2 servers, 1 request at the leader, nothing lost | violates `DecisionHasValue` |
| `paxos_forward` | 3 servers, a request at a follower | violates `ForwardAnswered` |

Bounds. `ElectionIds`, `MaxTimers`, `MaxView` and `MaxCrashes` keep the counters finite;
each is a guard of one action, and no other behaviour depends on it. Three servers are
the smallest group in which a majority is not everybody and two candidates compete for a
third vote; with two crashes an election never finds its majority and repeats its pass;
views up to 2 give every server a view of its own. With them only servers 1 and 2
campaign, so that two cases are left to the theorems, which have every view: the
wrap-around of `Offset` (722-724), and a rejected election that adopts a view its own
server leads (773, three views above; `TakeHigherView` makes such leaders in the run all
the same). Calls to live servers return in the `views_*` runs; lost ones are in the
theorems, which leave `LossyRPC` open. Two servers suffice where two leaders at odds are
the point: a majority is then both, and whatever goes wrong does so in spite of that.
The start values of `paxos_leaders` stand for the moment after an election that the
former leader has not heard of, without the election's states. Two requests for one slot
are the least that can disagree. The one slot, 1, is above the `highest_accepted_seq` of
a server that starts with 0 and goes straight to Accept at first; once accepted, or
where a server starts with 1, it goes through Prepare. `MissLimit` stands for the 3 of
the code: 0 makes every suspicion possible at once, which only adds behaviours
(`views_safety` has 1, so that heartbeats come in time or too late). In `PaxosServer`
the 40-second timer never fires, since nothing there reads the flag it clears, and
`MaxTimers` bounds the suspicions of a server. In `LockService` two handlers and the
checker are three actors for two paths: two can meet on a path while the third overtakes
them on the other, and three slots let two requests share a number while a third has its
own. A leader that suspects itself, whose handlers call themselves and run twice, has
ten times as many states; this is in `lock_failover`, where two slots are enough for a
new leader to come upon an old one before it has one of its own, and in the theorems on
the other properties. `Slots` bounds `slot_number`, and `MaxReigns` the leaders. One
client is enough for these runs because releases check no ownership; a request of
"another" client is one of the same client in another thread. In `ClientSession`
`Lease`, `Grace` and `Margin` are as small as keeps them distinct from nothing (12 s, 45
s and 100 ms in the code), two ticks a second make rounding visible, `MaxDepth` bounds
the calls inside each other and `MaxFaults` crashes and suspicions together; `TryLimit`
above `N` gives the shuffled sample its empty names, as with the default group of three
servers and the limit of 5. Deadlock is not checked: bounded behaviours come to an end,
and threads of the code do block for ever.

Fairness. `FairRestartSpec`: threads of a live process run and a call to a live process
returns (gRPC over a working connection; no deadline is set), so every election step and
every delivery is weakly fair; suspicion and restarts are not. `ElectionTerminates` is a
statement about view changes alone: in `Views` no handler is kept from `mu`, while a
forwarded request may keep it for ever (`paxos_forward`). `FairStableSpec`: the same for
the steps of a request. `StartReturns` holds for requests that are not forwarded, and
the run has no others: its follower 2 ignores requests before it would forward them, its
follower 1 takes every slot for collected. What is left to go wrong is `slot->mu`, which
a proposal keeps through Prepare, Accept and Learn while the other request waits for it.
`SessionSpec`: time passes, the threads of the client and the handler it has called run,
and a call to a dead process fails; the lease checker, view changes and faults are not
fair.

### Findings

1. `paxos_disagree`: two servers decide one slot differently, with no call lost and no
   process dead. Whether a majority has accepted is looked at in 545 only, for a pause;
   whatever the answers, `StartOnNewSlot` goes on to Learn (553-584). In the shortest
   trace the leader of view 0 proposes b; its Accept handlers are entered at both
   servers when server 1 wins view 1, proposes a, and has it accepted by both. Server 1
   learns a; both reject b (201), and server 0 learns b. What Learn sends is a
   "Decided value (V)" by `interface/Paxos.proto:65`. (Two more ways to the same end:
   failing calls, and a server that votes for its successor between the unlock in
   309 and the read of `view` in 310 and then proposes under its successor's number.)
2. `paxos_torn`: a server decides a slot without a value, with one leader, one request,
   nothing lost and nobody dead. Learn sets `status` (245) and then `value` (246) under
   `slot->mu_`, and the heartbeats read both under `mu` alone (621-623, 661-662). One
   that comes in between carries DECIDED with the empty value; its receiver
   keeps it for good (635-637, 701-703), and its own Learn, finding the slot
   decided, stores nothing in the database either.
3. `paxos_forward`: a request at a follower never ends. `StartOnForward` locks
   `mu` (323) and keeps it during `ForwardLeader` (344). The leader calls `Accept` at
   every server, waits for all of them, and one of them is the forwarding server,
   whose `Accept` waits for `mu`. The tests and the client only ever call the
   first leader, where this cannot happen.

Other departures seen while modelling, which no run checks: `AcquireLock` may answer
success for a lock that was not stored, because the leader sends Learn to all servers at
once (558-572), another one's answer to its heartbeat brings the slot before its own
Learn runs, and this marks the slot as decided without a write to the database
(701-703); or because two requests share a slot number, since `slot_number` is
incremented (247) and read (152) without a common lock and `ReleaseLock` takes no number
of its own, and the second of them finds the slot decided (the test at
`client/test_chubby.cpp:59-67` passes because a failing `AcquireLock` takes a number
before the release); a new leader that comes upon a slot it has missed stores the old
value, for a path that its request has not locked, and reports success for its own, so
that what the slots replay to holds for the first leader only; catch-up by heartbeats
does not write the database; a leader that misses its own heartbeats ignores requests
until the next view; respawned servers have forgotten their votes and promises; a
rejected election can adopt a view that its own server leads without having won it
(`LeaderBacked` shows that a majority is behind it all the same, with three servers); a
release needs no ownership; the owners of locks are forgotten when the leader changes;
`chubby_unlock` returns 0 when the server cannot be reached (268); with two leaders
Accept (205) and the heartbeats (634, 700) can wait for each other's mutex for ever; a
newer epoch makes the client throw away the lease that came with it (310).

## Proofs

`ViewsProofs` proves for every `N`, every `Fresh`, `Seqs`, limit and bound
allowed by `ViewsAssumption`, with `ViewSpec`:

- `ViewTypeCorrect`: `ViewTypeOK` is inductive.
- `ViewsNeverDecrease`: every assignment to `view` goes through `SetView` with a
  higher view; the lemma `StepForward` shows it for each action.
- `VotesAlwaysBind` and `WonViewsKeepQuorum`: `VotesBind` and `ElectedByQuorum`
  are not inductive by themselves. A won view has its majority because its
  candidate and all the servers in `oks` are at or past it, and this counts the
  candidate once only if it is not in its own `oks`: `CandidateApart`. `VotesInv`
  is the conjunction of the three; `WinnerHasQuorum` counts (with
  `FiniteSetTheorems`), and `MajorityGrows` says that views that only grow keep a
  majority.
- `CampaignsDisjoint`, for `RestartSpec`: the invariant `TargetOwned` says that
  the target of an election is congruent to its server modulo `N`; `Offset` is
  shown to establish it from division with remainder.

`KeyLockProofs` proves for any threads, paths and mutexes, under
`KeyLockAssumption`:

- `LocksExclude`: `MutualExclusion` and `UnlocksItsOwn`. The invariant adds
  `KnowsMutex`, that a thread which has looked a mutex up has the one its path
  keeps, and `OwnsMutex`, that whoever is inside owns that mutex; two threads
  inside with one path own the same mutex.
- `PathsIndependent`: `OtherPathsNotLocked`. `Apart` says that two paths never have
  one mutex, and `OwnedInside` that a locked mutex is locked by a thread inside
  its path; so whoever keeps a thread waiting is inside the path it waits for.
- `KeyLockTypeCorrect`.

`LockServiceProofs` proves for any threads, paths, clients and, where not said
otherwise, slots and reigns:

- `ServiceUsesKeyLock`: `LockSpec` implies `Spec` of `KeyLock`. A handler unlocks only
  what it has locked because its stage and the `pc` of `KeyLock` agree (`Places`) and
  its request names the path it has locked (`Requests`).
- `ServiceExcludes`: with the theorems of `KeyLockProofs`, the three invariants of
  `KeyLock` hold in the lock service.
- `LocksOnlyFreed`, for the first leader and `Slots = Nat`: `PutsOnFree` says that a
  thread on its way to store a lock finds no lock stored on its path; it is kept because
  whoever else could store one would be inside the same path. This needs that what is
  stored is the request's own, for its own path: `FInv` says that the first leader
  comes upon nothing accepted in a slot it does not know. A later leader does, and
  the statement is not true of it.
- `DatabaseIsLog`, likewise for the first leader: `ReplayAgrees` needs that the slot a
  thread has read for its path is not below one stored for this path (`ProposesLast`):
  numbers only grow within a reign, and two threads never work on one path.
  `StoredOK` says that what Learn has stored is a path and a value, in a slot that has
  been numbered; slots that heartbeats bring are others.
- `DatabaseInLog`, for any number of leaders and `Slots = Nat`: `StoredIsLogged`. A slot
  once known is never filled again, so that what one slot says of a path stays
  while others are learned.
- `LockTypeCorrect`, for `Slots = Nat`: `LockTypeOK` states that the slot numbers
  stay within the bound, which holds in a run by the guards alone.

Also in `ViewsProofs`, `LeadersAreBacked`: `LeaderBacked` for two or three servers.
It is about views nobody has won, so that the quorum of a won view does not help.
`ViewsSeen` says that every view in a server, a round of heartbeats or an answer
is in `seen`, and `ViewsAccompanied` that each view in `seen` that is not a start
value has a server other than its leader at or above it: a candidate's own target
becomes a view only after some other server has voted for it, and everybody else
copies. The leader and one more are a majority of two or three, and no longer of four.

`PaxosServerProofs` proves for any servers, slots, requests and bounds, with any loss
of calls, any crashes and any elections (`PaxosSpec`), under `ViewsAssumption` and
`PaxosAssumption`, from one inductive invariant,
`PaxosInv == TypesOK /\ Sound /\ StoredIsDecided`, which `StableSpec` keeps as well:

- `SlotsSound` relates a slot to its server: `n_a` is a view some server has had and
  is not above the server's own, and what is accepted or decided was asked for in this
  slot. `CallsSound` carries the same through a call: `my_view` and the highest `n_a`
  of the Prepare answers are views that exist, the value to propose is not empty, and
  a server that is handling an Accept has taken its view, which is why the later
  section of the handler may write `n_a`. `MessagesSound` is the same for heartbeats
  on their way, which may carry the empty value. `NotedAlone` and `HalfDecided` are about a
  Learn handler between its two writes: nobody else has this `slot->mu_`, and the
  slot is decided and has no value, so that the second write replaces none and what it
  stores in the database is the decision. `SlotMay` and `May` say what a step may make of a slot and of
  a call; a lemma for each action shows that it does no more.
- From it: `PaxosTypeCorrect`, `DecisionsValid` (`Validity`), `SlotsInView`
  (`AcceptedInView`), `StoreIsDecision` (`StoredIsDecided`) and `DecisionsStay`
  (`DecisionStable`).
- `PaxosImplementsViews`: every step of `PaxosServer` is a step of `Views` or leaves
  the views alone (`StepIsViewStep`, one case per action). The proof needs the
  invariant: that a Prepare answer's view may be copied (`TakeHigherView`) rests on
  the answer being in `seen`. `QuorumsAmongProposals` and `LeadersAmongProposals`
  carry the theorems of `ViewsProofs` over.

`PaxosLogProofs` proves, for any servers, slots and requests, that one leader is
enough for what `paxos_disagree` violates with two. The assumptions are that all servers
start in one view (`\A u, w \in Fresh : u = w`) and that no call to a live server fails
(`LossyRPC = FALSE`), and the specification is `StableSpec`, in which nobody suspects
the leader; crashes, forwarding and heartbeats are as in the code. None of them can be
dropped: TLC finds `WriteOnceLog` violated in `paxos_stable` with `LossyRPC = TRUE`,
and under `StableSpec` with the two leaders that `paxos_leaders` starts with.

- `LogIsWriteOnce`: `StableSpec` implements `SlotLog`. `LogInv` is the invariant:
  `OneView`; `Roles` (only the leader proposes, in the one view, with the slot locked
  while it lives); `Alone` (one call at a time serves a slot, also when the leader has
  died and its handlers run on); `OneSource` (a slot has at most one value that somebody
  has decided or is telling); `NotYet` (none, not even the empty one, while a call still
  prepares or accepts); `LeaderKnows` and `LeaderTold` (the leader has every decision, or is
  about to be told it by the call that tells the others, whatever the order);
  `MessagesKnown` (a heartbeat carries what is decided somewhere, or, of such a slot,
  the empty value). The leader matters because
  the next proposal for the slot looks at the leader's copy only, under `slot->mu`:
  that `Learn` reaches the leader before the lock is given up is what keeps a second
  value out, and why calls must not fail. `Proceeds` and `Extends` say what a step may do
  to a call and to a log; the parts of `LogInv` follow from these two alone
  (`OneSourceAfter` and so on), and `LogMaps` gets the step of `SlotLog` from them.
- `OneLeaderAgrees`: so `Agreement`, which compares slots that have a value, holds
  under these assumptions (it is violated without them, finding 1; and one of two servers
  may have no value for good, finding 2).
- `CatchUpsNeverWait`: Accept locks `mu` with `slot->mu_` locked, heartbeats lock
  `slot->mu_` with `mu` locked, and still they do not meet: whoever has `slot->mu_`
  for an Accept keeps its call in the Accept phase, when by `NotYet`
  nothing is decided for the slot, and heartbeats touch only decided slots.
- `LeaderKeepsMuFree`: with that, the leader's `mu` is free between any two steps. No
  frame of the leader waits in `StartOnForward` (`Followers`), so that it neither holds
  `mu` during a call nor locks it twice, and no catch-up blocks it (`LeaderOwns`). A
  follower's `mu` has no such promise (finding 3).

`ClientSessionProofs` proves for any number of servers, any lease, grace period, margin
and number of ticks in a second allowed by `SessionAssumption`:

- `LeasesAreBacked`: `SessionInv` adds to `SessionBacked` that a call is under way only
  from the two loops (`CallsFromLoop`) and that no server has granted the lease of
  `chubby_open` (`NobodyBeforeOpen`). The arithmetic is in lemmas on
  `div` (`SecondsOf`, `SecondsGrow`, `SecondLater`) and on `SecondsLeft`: the whole
  seconds the server answers are no more than the ticks it keeps, and this stays
  true as the clock goes on and leases are renewed, expired or forgotten.
- `SessionTypeCorrect` and `SessionsEndForGood`, from the same invariant.

Only model-checked: liveness (`ElectionTerminates`, `StartReturns`, `KeepAliveEnds`),
which is beyond the prover. Every invariant and every action property of the
passing runs is also a theorem; `Agreement`, `DecisionHasValue` and
`ForwardAnswered` are violated by the code. The proofs leave open
what the runs bound: `LeaderBacked` for more than three servers, to which the argument
does not carry over, and the database of the lock service once `Slots` is finite.

## Not modelled

- `TryAcquireLock` and `Ping`, which change no state; `chubby_init`, `chubby_shutdown`
  and `chubby_close`; `chubby_cell_handling_request_finder`, which returns a constant
  in its first line and is never called.
- A former leader that goes on serving locks next to the new one: `LockService` has
  one leader at a time. Of what former leaders have left, it has the slots, in
  any distribution, and their late Learn calls.
- Restarts in `PaxosServer` and `ClientSession`'s calls that have lost their caller.
- Data races on
  `std::map`, `std::set` and `std::vector` members, and what the race on
  `current_leader` (a `std::string` read without its mutex) may tear.
- `ThreadPool`, which no one gives a task; the inside of RocksDB; integer overflow of
  views, slot and proposal numbers; negative garbage in uninitialised members;
  generated code, gRPC set-up, scripts.

## Plan

All modules are written and all their safety properties proved. What would add most:

1. Lock service and slots together: `LockService` has the slots of one server
   (`decided`, `accepted`, `db`). A refinement between it and `PaxosServer`, with a path
   and a value for each call, would close the chain from the acceptors to the database.
2. What of `WriteOnceLog` survives a change of the leader without an overlap of two
   leaders, as a specification between `StableSpec` and `PaxosSpec`.
3. The safety part of the liveness properties: that a call of `StableSpec` which no
   forwarding is involved in always has a step it can take, as an invariant.
