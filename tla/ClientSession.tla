--------------------------- MODULE ClientSession ---------------------------
(***************************************************************************)
(* One client of the library and its session: chubby_open and              *)
(* send_keep_alive in an endless loop, as all users call it, chubby_lock   *)
(* and chubby_unlock from another thread, and on the servers the KeepAlive *)
(* handler and the lease checker.                                          *)
(*                                                                         *)
(* All clocks are the steady_clock of one host.  Time goes by in ticks,    *)
(* Sec of them to a second; the servers count leases in ticks, the client  *)
(* in whole seconds.  Instants are kept relative to now.                   *)
(***************************************************************************)
EXTENDS Integers, Sequences, Functions

CONSTANTS
    N,              \* number of servers
    Sec,            \* ticks in a second
    Lease, Grace,   \* lease_timeout and grace_period, in seconds
    Margin,         \* KeepAlive waits until this many ticks before the end
    Fresh,          \* what the never-initialised view may read at start
    MaxView,        \* bound: no view beyond this one
    TryLimit,       \* connection_try_limit
    MaxDepth,       \* bound: KeepAlive calls inside each other
    MaxFaults       \* bound: crashes and suspicions

ASSUME SessionAssumption ==
    /\ {N, Sec, Lease, Grace, TryLimit, MaxDepth} \subseteq Nat \ {0}
    /\ Margin \in 0 .. Lease * Sec
    /\ Fresh \subseteq Nat /\ MaxView \in Nat /\ MaxFaults \in Nat

Server == 0 .. N - 1

VARIABLES
    tick,                   \* ticks since the last full second
    up, faults, view, leader_dead,
    lease,                  \* ticks left of the entry of each client_lease_map
    lease_left,             \* client_lease_timeout, in seconds from this one
    current_leader, latest_epoch_number, accept_requests,
    pc, nap,                \* where send_keep_alive is; what is left of sleep
    frames,                 \* servers inside the KeepAlive call, caller first
    stage, wait,            \* where the last of them is, ticks it has to wait
    asked,                  \* the server of a chubby_lock or chubby_unlock
    granted_by              \* history: the process whose lease the client has

serverVars == <<up, faults, view, leader_dead>>
clientVars == <<lease_left, current_leader, latest_epoch_number,
                accept_requests, granted_by>>
callVars == <<frames, stage, wait>>
sessionVars == <<tick, serverVars, lease, clientVars, pc, nap, callVars, asked>>

NoEntry == -1
Nobody == -1
LongAgo == -Grace - 1       \* no second before this one is told apart from it

LeaderOf(s) == view[s] % N
Top == frames[Len(frames)]
Calling == frames # <<>>
----------------------------------------------------------------------------
SessionInit ==
    /\ tick \in 0 .. Sec - 1
    /\ up = [s \in Server |-> TRUE]
    /\ faults = 0
    /\ view \in [Server -> Fresh]
    /\ leader_dead = [s \in Server |-> FALSE]
    /\ lease = [s \in Server |-> NoEntry]
    /\ lease_left = LongAgo
    /\ current_leader = 0
    /\ latest_epoch_number = 0
    /\ accept_requests = TRUE
    /\ pc = "closed" /\ nap = 0
    /\ frames = <<>> /\ stage = "none" /\ wait = 0
    /\ asked = Nobody
    /\ granted_by = Nobody
----------------------------------------------------------------------------
(* The client: chubby_open and send_keep_alive.                            *)

\* chubby_open gives the client a lease that no server knows of.
Open ==
    /\ pc = "closed" /\ pc' = "head"
    /\ lease_left' = Lease
    /\ UNCHANGED <<tick, serverVars, lease, current_leader, accept_requests,
                   latest_epoch_number, granted_by, nap, callVars, asked>>

CallAgain ==
    /\ pc = "idle" /\ pc' = "head"
    /\ UNCHANGED <<tick, serverVars, lease, clientVars, nap, callVars, asked>>

Send(s) == frames' = <<s>> /\ stage' = "enter" /\ wait' = 0

Return == pc' = "idle" /\ frames' = <<>> /\ stage' = "none" /\ wait' = 0

\* With fewer servers than connection_try_limit the shuffled sample has empty
\* names in it, and if one of these comes first that is the end of the call.
AskAnyServer ==
    \/ pc' = "rescuing" /\ \E s \in Server : Send(s)
    \/ N < TryLimit /\ Return

\* Mutant: one second too many.
GraceOrLater == lease_left + Grace >= 0

InGrace == lease_left + Grace > 0

\* The two loops: while the lease lasts the server that granted it is asked,
\* in the grace period any, and after that the session is over.
LoopHead ==
    /\ pc = "head"
    /\ \/ /\ lease_left > 0
          /\ pc' = "renewing" /\ Send(current_leader)
          /\ UNCHANGED accept_requests
       \/ /\ lease_left <= 0 /\ InGrace
          /\ accept_requests' = FALSE /\ AskAnyServer
       \/ /\ lease_left <= 0 /\ ~InGrace
          /\ Return
          /\ UNCHANGED accept_requests
    /\ UNCHANGED <<tick, serverVars, lease, lease_left, current_leader,
                   latest_epoch_number, granted_by, nap, asked>>

Awake ==
    /\ pc = "sleep" /\ nap = 0 /\ pc' = "head"
    /\ UNCHANGED <<tick, serverVars, lease, clientVars, nap, callVars, asked>>

\* A process in the chain of calls is gone: those before it answer ABORTED,
\* and the client tries again in a second.  What is left of the chain without a
\* caller is not followed.
CallFails ==
    /\ Calling /\ \E s \in Range(frames) : ~up[s]
    /\ pc' = "sleep" /\ nap' = Sec
    /\ frames' = <<>> /\ stage' = "none" /\ wait' = 0
    /\ UNCHANGED <<tick, serverVars, lease, clientVars, asked>>
----------------------------------------------------------------------------
(* The KeepAlive handler.                                                  *)

AllUp == \A s \in Range(frames) : up[s]

\* A server that takes the leader for dead calls the leader first, which may
\* be itself, or a server that waits for it.
Enter ==
    /\ Calling /\ AllUp /\ stage = "enter"
    /\ \/ /\ ~leader_dead[Top]
          /\ stage' = "begin" /\ UNCHANGED frames
       \/ /\ leader_dead[Top] /\ Len(frames) < MaxDepth
          /\ frames' = Append(frames, LeaderOf(Top)) /\ UNCHANGED stage
    /\ UNCHANGED <<tick, serverVars, lease, clientVars, pc, nap, wait, asked>>

\* client_lease_map[client_id] makes an entry where there is none.
TimeLeft(s) == IF lease[s] = NoEntry THEN 0 ELSE lease[s]

Begin ==
    /\ Calling /\ AllUp /\ stage = "begin"
    /\ stage' = "wait"
    /\ lease' = [lease EXCEPT ![Top] = TimeLeft(Top)]
    /\ wait' = IF TimeLeft(Top) > Margin THEN TimeLeft(Top) - Margin ELSE 0
    /\ UNCHANGED <<tick, serverVars, clientVars, pc, nap, frames, asked>>

Renew ==
    /\ Calling /\ AllUp /\ stage = "wait"
    /\ wait = 0 \/ TimeLeft(Top) = 0
    /\ lease' = [lease EXCEPT ![Top] = Lease * Sec]
    /\ stage' = "answer" /\ wait' = 0
    /\ UNCHANGED <<tick, serverVars, clientVars, pc, nap, frames, asked>>

\* The answer is read from the map again, after the lock was given up.
Reread == lease' = [lease EXCEPT ![Top] = TimeLeft(Top)]

\* The server called first goes on with its own part.
AnswerServer ==
    /\ Calling /\ AllUp /\ stage = "answer" /\ Len(frames) > 1
    /\ Reread
    /\ frames' = SubSeq(frames, 1, Len(frames) - 1)
    /\ stage' = "begin"
    /\ UNCHANGED <<tick, serverVars, clientVars, pc, nap, wait, asked>>

\* Mutant: the end of the lease is rounded up.
SecondsRoundedUp(s) == (tick + lease[s] + Sec - 1) \div Sec

\* The end of the lease in seconds; a new entry ended when the clock began.
SecondsLeft(s) ==
    IF lease[s] = NoEntry THEN LongAgo ELSE (tick + lease[s]) \div Sec

\* Mutant: the new epoch is not remembered.
SameEpoch(e) == latest_epoch_number

NoteEpoch(e) == e

\* The client gets the answer.  A newer epoch makes it ask once more, at once
\* and without taking the lease.
AnswerClient ==
    /\ Calling /\ AllUp /\ stage = "answer" /\ Len(frames) = 1
    /\ Reread
    /\ \/ /\ view[Top] > latest_epoch_number
          /\ latest_epoch_number' = NoteEpoch(view[Top])
          /\ \/ pc = "renewing" /\ Send(current_leader) /\ UNCHANGED pc
             \/ pc = "rescuing" /\ AskAnyServer
          /\ UNCHANGED <<lease_left, accept_requests, current_leader,
                         granted_by>>
       \/ /\ view[Top] <= latest_epoch_number
          /\ lease_left' = SecondsLeft(Top)
          /\ accept_requests' = TRUE
          /\ current_leader' = IF pc = "rescuing" THEN Top ELSE current_leader
          /\ granted_by' = IF lease_left' > 0 THEN Top ELSE Nobody
          /\ Return
          /\ UNCHANGED latest_epoch_number
    /\ UNCHANGED <<tick, serverVars, nap, asked>>

HandlerStep == Enter \/ Begin \/ Renew \/ AnswerServer \/ AnswerClient
----------------------------------------------------------------------------
(* Requests of another thread.                                             *)

\* chubby_lock and chubby_unlock: not in jeopardy, and not without a lease.
Ask ==
    /\ asked = Nobody /\ pc # "closed"
    /\ accept_requests /\ lease_left > 0
    /\ asked' = current_leader
    /\ UNCHANGED <<tick, serverVars, lease, clientVars, pc, nap, callVars>>

\* An answer names the leader as that server knows it; the client follows.
Told ==
    /\ asked # Nobody /\ asked' = Nobody
    /\ current_leader' = LeaderOf(asked) /\ up[asked]
    /\ UNCHANGED <<tick, serverVars, lease, lease_left, latest_epoch_number,
                   accept_requests, granted_by, pc, nap, callVars>>

\* The call fails: ABORTED during an election, or the process is gone.
AskFails ==
    /\ asked # Nobody /\ asked' = Nobody
    /\ UNCHANGED <<tick, serverVars, lease, clientVars, pc, nap, callVars>>
----------------------------------------------------------------------------
(* Time, and what happens to the servers.                                  *)

Less(x, low) == IF x > low THEN x - 1 ELSE x

Tick ==
    /\ tick' = (tick + 1) % Sec
    /\ lease' = [s \in Server |-> Less(lease[s], IF lease[s] = NoEntry
                                                 THEN NoEntry ELSE 0)]
    /\ lease_left' = IF tick + 1 = Sec THEN Less(lease_left, LongAgo)
                     ELSE lease_left
    /\ granted_by' = IF lease_left' > 0 THEN granted_by ELSE Nobody
    /\ nap' = Less(nap, 0) /\ wait' = Less(wait, 0)
    /\ UNCHANGED <<serverVars, current_leader, latest_epoch_number, pc, asked,
                   accept_requests, frames, stage>>

\* CheckAndExpireLeases drops an entry that has run out.
ExpireLease(s) ==
    /\ up[s] /\ lease[s] = 0
    /\ lease' = [lease EXCEPT ![s] = NoEntry]
    /\ UNCHANGED <<tick, serverVars, clientVars, pc, nap, callVars, asked>>

\* View changes (module Views): a view is only ever replaced by a later one.
MoveView(s) ==
    /\ up[s]
    /\ \E v \in view[s] + 1 .. MaxView : view' = [view EXCEPT ![s] = v]
    /\ leader_dead' = [leader_dead EXCEPT ![s] = FALSE]
    /\ UNCHANGED <<tick, up, faults, lease, clientVars, pc, nap, callVars,
                   asked>>

SuspectLeader(s) ==
    /\ up[s] /\ ~leader_dead[s] /\ faults < MaxFaults
    /\ faults' = faults + 1
    /\ leader_dead' = [leader_dead EXCEPT ![s] = TRUE]
    /\ UNCHANGED <<tick, up, view, lease, clientVars, pc, nap,
                   callVars, asked>>

Crash(s) ==
    /\ up[s] /\ faults < MaxFaults
    /\ faults' = faults + 1
    /\ up' = [up EXCEPT ![s] = FALSE]
    /\ lease' = [lease EXCEPT ![s] = NoEntry]
    /\ granted_by' = IF granted_by = s THEN Nobody ELSE granted_by
    /\ UNCHANGED <<tick, view, leader_dead, lease_left, current_leader,
                   latest_epoch_number, accept_requests, pc, nap, callVars,
                   asked>>

\* Calls into the old process have failed by then.
Restart(s) ==
    /\ ~up[s] /\ s \notin Range(frames)
    /\ up' = [up EXCEPT ![s] = TRUE]
    /\ \E v \in Fresh : view' = [view EXCEPT ![s] = v]
    /\ leader_dead' = [leader_dead EXCEPT ![s] = FALSE]
    /\ UNCHANGED <<tick, faults, lease, clientVars, pc, nap, callVars, asked>>
----------------------------------------------------------------------------
ClientStep == Open \/ CallAgain \/ LoopHead \/ Awake \/ CallFails

SessionNext ==
    \/ ClientStep \/ HandlerStep \/ Ask \/ Told \/ AskFails \/ Tick
    \/ \E s \in Server : \/ ExpireLease(s) \/ MoveView(s) \/ SuspectLeader(s)
                         \/ Crash(s) \/ Restart(s)

\* The clock never stops, the threads of client and servers run, and a call to
\* a dead process fails.
SessionSpec ==
    /\ SessionInit /\ [][SessionNext]_sessionVars
    /\ WF_sessionVars(Tick)
    /\ WF_sessionVars(ClientStep \/ HandlerStep)
----------------------------------------------------------------------------
(* Properties.                                                             *)

SessionTypeOK ==
    /\ tick \in 0 .. Sec - 1
    /\ up \in [Server -> BOOLEAN] /\ leader_dead \in [Server -> BOOLEAN]
    /\ view \in [Server -> Nat] /\ faults \in Nat
    /\ lease \in [Server -> {NoEntry} \cup 0 .. Lease * Sec]
    /\ lease_left \in LongAgo .. Lease
    /\ current_leader \in Server /\ latest_epoch_number \in Nat
    /\ accept_requests \in BOOLEAN
    /\ pc \in {"closed", "idle", "head", "renewing", "rescuing", "sleep"}
    /\ nap \in 0 .. Sec /\ wait \in 0 .. Lease * Sec
    /\ frames \in Seq(Server)
    /\ stage \in {"none", "enter", "begin", "wait", "answer"}
    /\ {asked, granted_by} \subseteq Server \cup {Nobody}

\* As long as the client has the lease a server gave it, and that process
\* lives, it has a session there that lasts at least as long: nobody frees its
\* locks behind its back, whatever is rounded, late or suspected.
SessionBacked ==
    granted_by # Nobody /\ lease_left > 0 =>
      /\ lease[granted_by] # NoEntry
      /\ (tick + lease[granted_by]) \div Sec >= lease_left

\* When the grace period has run out and no call is under way, the session
\* stays lost: no later answer revives it.
Ended == pc \in {"idle", "head"} /\ lease_left <= -Grace

SessionEndIsFinal == [][Ended => Ended']_<<pc, lease_left>>

\* The calls go round in a circle of servers that take their leader for dead.
Circle ==
    /\ Calling /\ stage = "enter" /\ leader_dead[Top]
    /\ LeaderOf(Top) \in Range(frames)

\* Every call of send_keep_alive returns, with an answer or without, unless a
\* leader has marked itself dead: a newer epoch is followed at most once for
\* each view, and a chain of forwarded calls comes to an end.
KeepAliveEnds == (pc = "head") ~> (pc = "idle" \/ Circle)
=============================================================================
