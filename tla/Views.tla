------------------------------- MODULE Views -------------------------------
(***************************************************************************)
(* The view-change component of PaxosImpl: failure detection, elections,   *)
(* the Elect handler and the view part of heartbeats.  View v is led by    *)
(* server v % N.  A server is one process; its handlers run under `mu`, so *)
(* each is one action.  The calls an Election or SendHeartbeats thread     *)
(* makes are one action each, because everything in between is local to    *)
(* the thread; other threads interleave between any two calls.             *)
(***************************************************************************)
EXTENDS Integers, FiniteSets

CONSTANTS
    N,              \* group_size
    Fresh,          \* what the never-initialised `view` may read at start,
    FreshMisses,    \* what missed_heartbeats may,
    FreshSeqs,      \* and what highest_accepted_seq may
    Seqs,           \* slot numbers in use
    MissLimit,      \* missed_heartbeats tolerated (3 in the code)
    LossyRPC,       \* may a call between two live processes fail?
    ElectionIds,    \* bound: Election threads one server runs at a time
    MaxTimers,      \* bound: sleeping 40-second timers of one server
    MaxView,        \* bound: no election is started for a higher view
    MaxCrashes      \* bound: process crashes in a behaviour

ASSUME ViewsAssumption ==
    /\ N \in Nat \ {0}
    /\ Fresh \subseteq Nat /\ FreshMisses \subseteq Nat /\ FreshSeqs \subseteq Nat
    /\ {} \notin {Fresh, FreshMisses, FreshSeqs}
    /\ Seqs \subseteq Nat
    /\ {MissLimit, MaxTimers, MaxView, MaxCrashes} \subseteq Nat
    /\ LossyRPC \in BOOLEAN

Server == 0 .. N - 1

VARIABLES
    up,                         \* is the process running?
    crashes,                    \* crashes so far
    view, leader_dead, missed_heartbeats, highest_accepted_seq,
    leader_election_happened,
    wait_timers,                \* detached threads that will clear it
    elections,                  \* running Election threads
    heartbeat,                  \* the SendHeartbeats round of each server
    seen,                       \* history: views ever held by a server
    won                         \* history: views won at "Election succeeded"

viewVars == <<up, crashes, view, leader_dead, missed_heartbeats,
              highest_accepted_seq, leader_election_happened, wait_timers,
              elections, heartbeat, seen, won>>

Election == [srv: Server, id: ElectionIds, target: Nat, todo: SUBSET Server,
             oks: SUBSET Server, rejected: BOOLEAN, hv: Nat \cup {-1},
             hs: Int]

Round == [view: Nat, todo: SUBSET Server]

NoRound == [view |-> 0, todo |-> {}]

Leads(s) == view[s] % N = s

IsMajority(S) == Cardinality(S) > N \div 2

\* The local variables of one pass over the stubs, before the first call.
FreshElection(s, i, v) ==
    [srv |-> s, id |-> i, target |-> v, todo |-> Server \ {s}, oks |-> {},
     rejected |-> FALSE, hv |-> -1, hs |-> -1]

\* Calls go out in the order of paxos_stubs_map, that is, by port.
NextCallee(todo, p) == p \in todo /\ \A q \in todo : p <= q
----------------------------------------------------------------------------
ViewInit ==
    /\ up = [s \in Server |-> TRUE]
    /\ crashes = 0
    /\ view \in [Server -> Fresh]
    /\ leader_dead = [s \in Server |-> FALSE]
    /\ missed_heartbeats \in [Server -> FreshMisses]
    /\ highest_accepted_seq \in [Server -> FreshSeqs]
    /\ leader_election_happened = [s \in Server |-> FALSE]
    /\ wait_timers = [s \in Server |-> 0]
    /\ elections = {}
    /\ heartbeat = [s \in Server |-> NoRound]
    /\ seen = {view[s] : s \in Server}
    /\ won = {}

\* The three assignments made wherever a server moves to another view.
SetView(s, v) ==
    /\ view' = [view EXCEPT ![s] = v]
    /\ leader_dead' = [leader_dead EXCEPT ![s] = FALSE]
    /\ missed_heartbeats' = [missed_heartbeats EXCEPT ![s] = 0]
    /\ seen' = seen \cup {v}

KeepView == UNCHANGED <<view, leader_dead, missed_heartbeats, seen>>

\* Mutant: the view is assigned without comparing.
RaiseAlways(s, v) == SetView(s, v)
\* Mutant: the higher view is noticed but not taken over.
RaiseNever(s, v) == KeepView

RaiseView(s, v) == IF v > view[s] THEN SetView(s, v) ELSE KeepView

UnchangedButViews == UNCHANGED <<up, crashes, highest_accepted_seq,
                                 leader_election_happened, wait_timers, won>>
----------------------------------------------------------------------------
(* Failure detection: once a second on every server.                       *)

\* DetectLeaderFailure, below the limit.
MissHeartbeat(s) ==
    /\ up[s]
    /\ missed_heartbeats[s] < MissLimit
    /\ missed_heartbeats' = [missed_heartbeats EXCEPT ![s] = @ + 1]
    /\ UNCHANGED <<view, leader_dead, elections, heartbeat, seen>>
    /\ UnchangedButViews

\* Mutant: always campaign for the next view, whoever leads it.
OffsetOne(s, mod) == 1

\* The distance from the suspected leader to the next view that s leads.
Offset(s, mod) == IF mod < s THEN s - mod ELSE s + N - mod

\* DetectLeaderFailure, beyond the limit: a server that is not the leader
\* starts an Election thread; the leader only marks itself dead.
SuspectLeader(s) ==
    LET mod    == view[s] % N
        target == view[s] + Offset(s, mod)
    IN  /\ up[s]
        /\ missed_heartbeats[s] >= MissLimit
        /\ wait_timers[s] < MaxTimers
        /\ \/ /\ mod # s
              /\ target <= MaxView
              /\ \E i \in ElectionIds :
                   /\ \A e \in elections : ~(e.srv = s /\ e.id = i)
                   /\ elections' = elections \cup {FreshElection(s, i, target)}
           \/ mod = s /\ UNCHANGED elections
        /\ missed_heartbeats' = [missed_heartbeats EXCEPT ![s] = 0]
        /\ leader_dead' = [leader_dead EXCEPT ![s] = TRUE]
        /\ leader_election_happened' =
             [leader_election_happened EXCEPT ![s] = TRUE]
        /\ wait_timers' = [wait_timers EXCEPT ![s] = @ + 1]
        /\ UNCHANGED <<up, crashes, view, highest_accepted_seq, heartbeat,
                       seen, won>>

DetectLeaderFailure(s) == MissHeartbeat(s) \/ SuspectLeader(s)

\* One of the sleeping threads wakes; it clears the flag whoever set it.
WaitTimerFires(s) ==
    /\ up[s]
    /\ wait_timers[s] > 0
    /\ wait_timers' = [wait_timers EXCEPT ![s] = @ - 1]
    /\ leader_election_happened' =
         [leader_election_happened EXCEPT ![s] = FALSE]
    /\ UNCHANGED <<up, crashes, view, leader_dead, missed_heartbeats,
                   highest_accepted_seq, elections, heartbeat, seen, won>>
----------------------------------------------------------------------------
(* Elections.                                                              *)

Replace(e, f) == elections' = (elections \ {e}) \cup {f}

\* What the thread makes of the answer of p to its Elect call.
Tally(e, p) ==
    IF e.target >= view[p]
    THEN [e EXCEPT !.todo = @ \ {p}, !.oks = @ \cup {p},
                   !.hs = IF highest_accepted_seq[p] > @
                          THEN highest_accepted_seq[p] ELSE @]
    ELSE [e EXCEPT !.todo = @ \ {p}, !.rejected = TRUE,
                   !.hv = IF view[p] > @ THEN view[p] ELSE @]

\* The Elect handler runs at p and the answer reaches the thread.
ElectAnswered(e, p) ==
    /\ NextCallee(e.todo, p) /\ up[p]
    /\ RaiseView(p, e.target)
    /\ Replace(e, Tally(e, p))
    /\ UNCHANGED heartbeat
    /\ UnchangedButViews

\* The handler runs at p but the call fails: the thread counts nothing.
ElectAnswerLost(e, p) ==
    /\ LossyRPC
    /\ NextCallee(e.todo, p) /\ up[p]
    /\ RaiseView(p, e.target)
    /\ Replace(e, [e EXCEPT !.todo = @ \ {p}])
    /\ UNCHANGED heartbeat
    /\ UnchangedButViews

\* The call fails without reaching the handler.
ElectUnreachable(e, p) ==
    /\ NextCallee(e.todo, p) /\ (LossyRPC \/ ~up[p])
    /\ Replace(e, [e EXCEPT !.todo = @ \ {p}])
    /\ KeepView
    /\ UNCHANGED heartbeat
    /\ UnchangedButViews

\* Mutant: the candidate counts itself a majority.
EnoughVotesAlone(e) == Cardinality(e.oks) + 1 > 0
\* Mutant: the candidate forgets to count itself.
EnoughVotesOfPeers(e) == Cardinality(e.oks) > N \div 2

EnoughVotes(e) == Cardinality(e.oks) + 1 > N \div 2

\* Some peer is ahead: adopt its view if it is beyond the target, give up.
ElectionRejected(e) ==
    /\ e.todo = {} /\ e.rejected
    /\ IF e.hv > view[e.srv] /\ e.target < e.hv
       THEN SetView(e.srv, e.hv)
       ELSE KeepView
    /\ elections' = elections \ {e}
    /\ UNCHANGED heartbeat
    /\ UnchangedButViews

\* "Election succeeded".
ElectionWon(e) ==
    /\ e.todo = {} /\ ~e.rejected /\ EnoughVotes(e)
    /\ e.hv <= e.target /\ view[e.srv] < e.target
    /\ SetView(e.srv, e.target)
    /\ highest_accepted_seq' =
         [highest_accepted_seq EXCEPT ![e.srv] = IF e.hs > @ THEN e.hs ELSE @]
    /\ elections' = elections \ {e}
    /\ won' = won \cup {e.target}
    /\ UNCHANGED <<up, crashes, leader_election_happened, wait_timers,
                   heartbeat>>

\* "Election failed": the votes are there, but the server is past the target.
ElectionOvertaken(e) ==
    /\ e.todo = {} /\ ~e.rejected /\ EnoughVotes(e)
    /\ ~(e.hv <= e.target /\ view[e.srv] < e.target)
    /\ RaiseView(e.srv, e.hv)
    /\ elections' = elections \ {e}
    /\ UNCHANGED heartbeat
    /\ UnchangedButViews

\* Too few answers: sleep and ask everybody again.
ElectionRetry(e) ==
    /\ e.todo = {} /\ ~e.rejected /\ ~EnoughVotes(e)
    /\ Replace(e, FreshElection(e.srv, e.id, e.target))
    /\ KeepView
    /\ UNCHANGED heartbeat
    /\ UnchangedButViews

\* The Elect handler of p.
ElectHandled(e, p) == ElectAnswered(e, p) \/ ElectAnswerLost(e, p)

\* What the thread does under its own server's lock after a pass.
ElectionEnds(e) ==
    \/ ElectionRejected(e) \/ ElectionWon(e)
    \/ ElectionOvertaken(e) \/ ElectionRetry(e)

ElectionStep(e) ==
    \/ \E p \in Server : ElectHandled(e, p) \/ ElectUnreachable(e, p)
    \/ ElectionEnds(e)
----------------------------------------------------------------------------
(* Heartbeats: the leader calls every stub in turn, itself included, with  *)
(* the view it read when the round began.                                  *)

SendHeartbeats(s) ==
    /\ up[s] /\ Leads(s)
    /\ heartbeat[s].todo = {}
    /\ heartbeat' = [heartbeat EXCEPT ![s] =
                       [view |-> view[s], todo |-> Server]]
    /\ KeepView
    /\ UNCHANGED elections
    /\ UnchangedButViews

\* The round of s after its call to p returned.
AfterCall(s, p) ==
    IF heartbeat[s].todo = {p} THEN NoRound
    ELSE [heartbeat[s] EXCEPT !.todo = @ \ {p}]

\* The Heartbeat handler of p: a leader that is ahead is followed, one in the
\* same view (p itself included) only noted, one behind answered ABORTED.
Heartbeat(p, s, v) ==
    \/ /\ p # s /\ v > view[p]
       /\ SetView(p, v)
    \/ /\ p = s \/ v = view[p]
       /\ missed_heartbeats' = [missed_heartbeats EXCEPT ![p] = 0]
       /\ UNCHANGED <<view, leader_dead, seen>>
    \/ /\ p # s /\ v < view[p]
       /\ KeepView

HeartbeatDelivered(s, p) ==
    /\ up[s] /\ NextCallee(heartbeat[s].todo, p) /\ up[p]
    /\ Heartbeat(p, s, heartbeat[s].view)
    /\ heartbeat' = [heartbeat EXCEPT ![s] = AfterCall(s, p)]
    /\ UNCHANGED elections
    /\ UnchangedButViews

HeartbeatLost(s, p) ==
    /\ up[s] /\ NextCallee(heartbeat[s].todo, p)
    /\ LossyRPC \/ ~up[p]
    /\ heartbeat' = [heartbeat EXCEPT ![s] = AfterCall(s, p)]
    /\ KeepView
    /\ UNCHANGED elections
    /\ UnchangedButViews
----------------------------------------------------------------------------
(* What the rest of PaxosImpl does to this state.                          *)

\* Accept takes the higher view of a proposal; StartOnNewSlot the higher n_a
\* of a Prepare answer.  Either is a view some server held.
TakeHigherView(s) ==
    /\ up[s]
    /\ \E v \in seen : v > view[s] /\ SetView(s, v)
    /\ UNCHANGED <<elections, heartbeat>>
    /\ UnchangedButViews

\* Accept records a proposal for slot q.
NoteAccepted(s, q) ==
    /\ up[s]
    /\ q > highest_accepted_seq[s]
    /\ highest_accepted_seq' = [highest_accepted_seq EXCEPT ![s] = q]
    /\ UNCHANGED <<up, crashes, view, leader_dead, missed_heartbeats,
                   leader_election_happened, wait_timers, elections,
                   heartbeat, seen, won>>

\* The process dies and takes its threads with it.
Crash(s) ==
    /\ up[s] /\ crashes < MaxCrashes
    /\ up' = [up EXCEPT ![s] = FALSE]
    /\ crashes' = crashes + 1
    /\ elections' = {e \in elections : e.srv # s}
    /\ heartbeat' = [heartbeat EXCEPT ![s] = NoRound]
    /\ wait_timers' = [wait_timers EXCEPT ![s] = 0]
    /\ UNCHANGED <<view, leader_dead, missed_heartbeats, seen, won,
                   highest_accepted_seq, leader_election_happened>>

\* A new process in its place: the constructor restores none of this state.
Restart(s) ==
    /\ ~up[s]
    /\ up' = [up EXCEPT ![s] = TRUE]
    /\ \E v \in Fresh, m \in FreshMisses, h \in FreshSeqs :
         /\ view' = [view EXCEPT ![s] = v]
         /\ missed_heartbeats' = [missed_heartbeats EXCEPT ![s] = m]
         /\ highest_accepted_seq' = [highest_accepted_seq EXCEPT ![s] = h]
         /\ seen' = seen \cup {v}
    /\ leader_dead' = [leader_dead EXCEPT ![s] = FALSE]
    /\ leader_election_happened' =
         [leader_election_happened EXCEPT ![s] = FALSE]
    /\ UNCHANGED <<crashes, wait_timers, elections, heartbeat, won>>
----------------------------------------------------------------------------
\* View changes alone: no client ever calls Start.
ElectionNext ==
    \/ \E s \in Server :
         \/ DetectLeaderFailure(s) \/ WaitTimerFires(s)
         \/ SendHeartbeats(s) \/ Crash(s)
         \/ \E p \in Server : HeartbeatDelivered(s, p) \/ HeartbeatLost(s, p)
    \/ \E e \in elections : ElectionStep(e)

\* View changes among proposals.
ViewNext ==
    \/ ElectionNext
    \/ \E s \in Server :
         TakeHigherView(s) \/ \E q \in Seqs : NoteAccepted(s, q)

ViewSpec == ViewInit /\ [][ViewNext]_viewVars

\* A live process keeps running its threads and handlers, and a call to a
\* live process returns.  Suspicion is a matter of time and is not fair.
ViewFairness ==
    \A s \in Server :
      /\ \A i \in ElectionIds :
           WF_viewVars(\E e \in elections :
                         e.srv = s /\ e.id = i /\ ElectionStep(e))
      /\ WF_viewVars(\E p \in Server : HeartbeatDelivered(s, p)
                                         \/ HeartbeatLost(s, p))

\* The same servers, restarted after a crash.
RestartSpec ==
    ViewInit /\ [][ElectionNext \/ \E s \in Server : Restart(s)]_viewVars

FairRestartSpec == RestartSpec /\ ViewFairness
----------------------------------------------------------------------------
(* Properties.                                                             *)

ViewTypeOK ==
    /\ up \in [Server -> BOOLEAN]
    /\ crashes \in Nat
    /\ view \in [Server -> Nat]
    /\ leader_dead \in [Server -> BOOLEAN]
    /\ missed_heartbeats \in [Server -> Nat]
    /\ highest_accepted_seq \in [Server -> Int]
    /\ leader_election_happened \in [Server -> BOOLEAN]
    /\ wait_timers \in [Server -> Nat]
    /\ elections \subseteq Election
    /\ heartbeat \in [Server -> Round]
    /\ seen \subseteq Nat
    /\ won \subseteq Nat

AtLeast(v) == {p \in Server : view[p] >= v}

\* Every view won at "Election succeeded" keeps the backing of a majority:
\* more than half of the servers are in that view or a later one from then
\* on, so no server can win an earlier view behind its back.
ElectedByQuorum == \A v \in won : IsMajority(AtLeast(v))

\* A vote already given binds the voter: whoever answered OK to a running
\* election never goes back below its target.
VotesBind == \A e \in elections : \A p \in e.oks : view[p] >= e.target

\* A running server that leads a view it did not start with leads it with a
\* majority behind it, however it came by the view (its own election, or a
\* view copied from a rejection or a proposal).  For three servers only.
LeaderBacked ==
    \A s \in Server :
      up[s] /\ Leads(s) /\ view[s] \notin Fresh => IsMajority(AtLeast(view[s]))

\* Two servers never campaign for the same view, although Elect requests
\* carry no candidate and an equal view is always granted.
CampaignOwnsView ==
    \A e, f \in elections : e.target = f.target => e.srv = f.srv

\* No step takes a server back to an earlier view.
ViewNeverDecreases == [][\A s \in Server : view'[s] >= view[s]]_view

Campaigning(s, i) == \E e \in elections : e.srv = s /\ e.id = i

\* With a majority alive and calls that return, every Election thread ends:
\* won, rejected or overtaken.  (Of view changes alone, where no handler is kept
\* from mu for ever.)
ElectionTerminates ==
    \A s \in Server, i \in ElectionIds : Campaigning(s, i) ~> ~Campaigning(s, i)
=============================================================================
