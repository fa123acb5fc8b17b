---------------------------- MODULE ViewsProofs ----------------------------
(***************************************************************************)
(* What holds of the view changes for every number of servers: views never *)
(* decrease, votes bind, and a view once won keeps a majority behind it.   *)
(***************************************************************************)
EXTENDS Views, TLAPS, FiniteSetTheorems

\* No candidate asks itself, so it never counts itself twice.
CandidateApart == \A e \in elections : e.srv \notin e.todo \cup e.oks

\* The inductive invariant.  VotesBind turns the votes counted by a candidate
\* into servers that are at least in its target when it wins; CandidateApart
\* makes the `+ 1` of the count one more server.
VotesInv == CandidateApart /\ VotesBind /\ ElectedByQuorum
----------------------------------------------------------------------------
(* Arithmetic of views.                                                    *)

LEMMA ServerFacts ==
    /\ N \in Nat /\ N > 0
    /\ Server \subseteq Nat
    /\ IsFiniteSet(Server)
  <1>1. N \in Nat /\ N > 0 BY ViewsAssumption
  <1>2. Server \subseteq Nat BY <1>1 DEF Server
  <1>3. IsFiniteSet(Server) BY <1>1, FS_Interval DEF Server
  <1>. QED BY <1>1, <1>2, <1>3

\* A campaign is for a view that is a number, beyond the current one.
LEMMA OffsetPositive ==
    ASSUME NEW s \in Server, NEW v \in Nat
    PROVE  Offset(s, v % N) \in Nat \ {0}
  <1>1. v % N \in 0 .. N - 1 BY ServerFacts
  <1>2. s \in 0 .. N - 1 BY DEF Server
  <1>. QED BY <1>1, <1>2, ServerFacts DEF Offset

\* The majority behind a view grows when the views of servers do.
LEMMA MajorityGrows ==
    ASSUME NEW S, NEW T, S \subseteq T, T \subseteq Server, IsMajority(S)
    PROVE  IsMajority(T)
  <1>1. IsFiniteSet(T) BY FS_Subset, ServerFacts
  <1>2. IsFiniteSet(S) /\ Cardinality(S) <= Cardinality(T) BY <1>1, FS_Subset
  <1>3. Cardinality(S) \in Nat /\ Cardinality(T) \in Nat
    BY <1>1, <1>2, FS_CardinalityType
  <1>4. N \div 2 \in Nat BY ServerFacts
  <1>. QED BY <1>2, <1>3, <1>4 DEF IsMajority
----------------------------------------------------------------------------
(* Type correctness.                                                       *)

LEMMA ElectionType ==
    ASSUME ViewTypeOK, NEW e \in elections
    PROVE  /\ e \in Election
           /\ e.srv \in Server /\ e.id \in ElectionIds /\ e.target \in Nat
           /\ e.todo \subseteq Server /\ e.oks \subseteq Server
           /\ e.rejected \in BOOLEAN /\ e.hv \in Nat \cup {-1} /\ e.hs \in Int
  BY DEF ViewTypeOK, Election

LEMMA FreshElectionType ==
    ASSUME NEW s \in Server, NEW i \in ElectionIds, NEW v \in Nat
    PROVE  FreshElection(s, i, v) \in Election
  BY DEF FreshElection, Election

LEMMA TallyType ==
    ASSUME ViewTypeOK, NEW e \in elections, NEW p \in Server
    PROVE  Tally(e, p) \in Election
  <1>1. view[p] \in Nat /\ highest_accepted_seq[p] \in Int
    BY DEF ViewTypeOK
  <1>. QED BY <1>1, ElectionType DEF Tally, Election

LEMMA SetViewType ==
    ASSUME ViewTypeOK, NEW s \in Server, NEW v \in Nat, SetView(s, v)
    PROVE  /\ view' \in [Server -> Nat]
           /\ leader_dead' \in [Server -> BOOLEAN]
           /\ missed_heartbeats' \in [Server -> Nat]
           /\ seen' \subseteq Nat
  BY DEF ViewTypeOK, SetView

LEMMA RaiseViewType ==
    ASSUME ViewTypeOK, NEW s \in Server, NEW v \in Nat \cup {-1},
           RaiseView(s, v)
    PROVE  /\ view' \in [Server -> Nat]
           /\ leader_dead' \in [Server -> BOOLEAN]
           /\ missed_heartbeats' \in [Server -> Nat]
           /\ seen' \subseteq Nat
  <1>1. CASE v > view[s]
    <2>1. v \in Nat BY <1>1 DEF ViewTypeOK
    <2>. QED BY <1>1, <2>1, SetViewType DEF RaiseView
  <1>2. CASE ~(v > view[s])
    BY <1>2 DEF RaiseView, KeepView, ViewTypeOK
  <1>. QED BY <1>1, <1>2

\* Type correctness is inductive.
LEMMA TypeInit == ViewInit => ViewTypeOK
  <1>. SUFFICES ASSUME ViewInit PROVE ViewTypeOK
    OBVIOUS
  <1>1. view \in [Server -> Nat] /\ missed_heartbeats \in [Server -> Nat]
        /\ highest_accepted_seq \in [Server -> Int]
    <2>1. /\ \A f \in [Server -> Fresh] : f \in [Server -> Nat]
          /\ \A f \in [Server -> FreshMisses] : f \in [Server -> Nat]
          /\ \A f \in [Server -> FreshSeqs] : f \in [Server -> Nat]
      BY ViewsAssumption
    <2>2. \A f \in [Server -> Nat] : f \in [Server -> Int]
      OBVIOUS
    <2>. QED BY <2>1, <2>2 DEF ViewInit
  <1>2. NoRound \in Round BY DEF NoRound, Round
  <1>3. seen \subseteq Nat BY <1>1 DEF ViewInit
  <1>. QED BY <1>1, <1>2, <1>3 DEF ViewInit, ViewTypeOK

LEMMA ReplaceType ==
    ASSUME ViewTypeOK, NEW e \in elections, NEW f \in Election, Replace(e, f)
    PROVE  elections' \subseteq Election
  BY DEF ViewTypeOK, Replace

LEMMA TypeSuspicion ==
    ASSUME ViewTypeOK, NEW s \in Server,
           MissHeartbeat(s) \/ SuspectLeader(s) \/ WaitTimerFires(s)
    PROVE  ViewTypeOK'
  <1>1. CASE MissHeartbeat(s)
    BY <1>1 DEF MissHeartbeat, ViewTypeOK, UnchangedButViews
  <1>2. CASE SuspectLeader(s)
    <2>1. view[s] \in Nat BY DEF ViewTypeOK
    <2>2. view[s] + Offset(s, view[s] % N) \in Nat
      BY <2>1, OffsetPositive
    <2>3. elections' \subseteq Election
      BY <1>2, <2>2, FreshElectionType DEF SuspectLeader, ViewTypeOK
    <2>. QED BY <1>2, <2>3 DEF SuspectLeader, ViewTypeOK
  <1>3. CASE WaitTimerFires(s)
    BY <1>3 DEF WaitTimerFires, ViewTypeOK
  <1>. QED BY <1>1, <1>2, <1>3

LEMMA TypeElection ==
    ASSUME ViewTypeOK, NEW e \in elections, ElectionStep(e)
    PROVE  ViewTypeOK'
  <1>. /\ e \in Election /\ e.srv \in Server /\ e.target \in Nat
       /\ e.hv \in Nat \cup {-1} /\ e.hs \in Int
    BY ElectionType
  <1>1. ASSUME NEW p \in Server, ElectHandled(e, p)
        PROVE  ViewTypeOK'
    <2>1. RaiseView(p, e.target)
      BY <1>1 DEF ElectHandled, ElectAnswered, ElectAnswerLost
    <2>2. [e EXCEPT !.todo = @ \ {p}] \in Election BY DEF Election
    <2>3. elections' \subseteq Election
      BY <1>1, <2>2, TallyType, ReplaceType
      DEF ElectHandled, ElectAnswered, ElectAnswerLost
    <2>. QED
      BY <1>1, <2>1, <2>3, RaiseViewType
      DEF ElectHandled, ElectAnswered, ElectAnswerLost, UnchangedButViews,
          ViewTypeOK
  <1>2. ASSUME NEW p \in Server, ElectUnreachable(e, p)
        PROVE  ViewTypeOK'
    <2>1. [e EXCEPT !.todo = @ \ {p}] \in Election BY DEF Election
    <2>2. elections' \subseteq Election
      BY <1>2, <2>1, ReplaceType DEF ElectUnreachable
    <2>. QED
      BY <1>2, <2>2 DEF ElectUnreachable, KeepView, UnchangedButViews,
                        ViewTypeOK
  <1>3. CASE ElectionRejected(e)
    <2>1. CASE e.hv > view[e.srv] /\ e.target < e.hv
      <3>1. e.hv \in Nat /\ SetView(e.srv, e.hv)
        BY <1>3, <2>1 DEF ElectionRejected
      <3>. QED
        BY <1>3, <3>1, SetViewType
        DEF ElectionRejected, UnchangedButViews, ViewTypeOK
    <2>2. CASE ~(e.hv > view[e.srv] /\ e.target < e.hv)
      BY <1>3, <2>2
      DEF ElectionRejected, KeepView, UnchangedButViews, ViewTypeOK
    <2>. QED BY <2>1, <2>2
  <1>4. CASE ElectionWon(e)
    <2>1. SetView(e.srv, e.target) BY <1>4 DEF ElectionWon
    <2>2. highest_accepted_seq' \in [Server -> Int]
      BY <1>4 DEF ElectionWon, ViewTypeOK
    <2>. QED
      BY <1>4, <2>1, <2>2, SetViewType DEF ElectionWon, ViewTypeOK
  <1>5. CASE ElectionOvertaken(e)
    <2>1. RaiseView(e.srv, e.hv) BY <1>5 DEF ElectionOvertaken
    <2>. QED
      BY <1>5, <2>1, RaiseViewType
      DEF ElectionOvertaken, UnchangedButViews, ViewTypeOK
  <1>6. CASE ElectionRetry(e)
    <2>1. FreshElection(e.srv, e.id, e.target) \in Election
      BY ElectionType, FreshElectionType
    <2>2. elections' \subseteq Election
      BY <1>6, <2>1, ReplaceType DEF ElectionRetry
    <2>. QED
      BY <1>6, <2>2 DEF ElectionRetry, KeepView, UnchangedButViews, ViewTypeOK
  <1>. QED
    BY <1>1, <1>2, <1>3, <1>4, <1>5, <1>6 DEF ElectionStep, ElectionEnds

LEMMA AfterCallType ==
    ASSUME ViewTypeOK, NEW s \in Server, NEW p \in Server
    PROVE  AfterCall(s, p) \in Round
  <1>1. heartbeat[s] \in Round BY DEF ViewTypeOK
  <1>. QED BY <1>1 DEF AfterCall, NoRound, Round

LEMMA TypeHeartbeat ==
    ASSUME ViewTypeOK, NEW s \in Server, NEW p \in Server,
           \/ SendHeartbeats(s)
           \/ HeartbeatDelivered(s, p) \/ HeartbeatLost(s, p)
    PROVE  ViewTypeOK'
  <1>1. CASE SendHeartbeats(s)
    <2>1. [view |-> view[s], todo |-> Server] \in Round
      BY DEF ViewTypeOK, Round
    <2>. QED
      BY <1>1, <2>1
      DEF SendHeartbeats, KeepView, UnchangedButViews, ViewTypeOK
  <1>2. CASE HeartbeatDelivered(s, p)
    <2>1. heartbeat[s].view \in Nat BY DEF ViewTypeOK, Round
    <2>2. heartbeat' \in [Server -> Round]
      BY <1>2, AfterCallType DEF HeartbeatDelivered, ViewTypeOK
    <2>3. /\ view' \in [Server -> Nat]
          /\ leader_dead' \in [Server -> BOOLEAN]
          /\ missed_heartbeats' \in [Server -> Nat]
          /\ seen' \subseteq Nat
      <3>1. CASE SetView(p, heartbeat[s].view)
        BY <2>1, <3>1, SetViewType
      <3>2. CASE /\ missed_heartbeats' = [missed_heartbeats EXCEPT ![p] = 0]
                 /\ UNCHANGED <<view, leader_dead, seen>>
        BY <3>2 DEF ViewTypeOK
      <3>3. CASE KeepView
        BY <3>3 DEF KeepView, ViewTypeOK
      <3>. QED BY <1>2, <3>1, <3>2, <3>3 DEF HeartbeatDelivered, Heartbeat
    <2>. QED
      BY <1>2, <2>2, <2>3
      DEF HeartbeatDelivered, UnchangedButViews, ViewTypeOK
  <1>3. CASE HeartbeatLost(s, p)
    BY <1>3, AfterCallType
    DEF HeartbeatLost, KeepView, UnchangedButViews, ViewTypeOK
  <1>. QED BY <1>1, <1>2, <1>3

LEMMA TypeEnvironment ==
    ASSUME ViewTypeOK, NEW s \in Server,
           \/ TakeHigherView(s) \/ Crash(s)
           \/ \E q \in Seqs : NoteAccepted(s, q)
    PROVE  ViewTypeOK'
  <1>1. CASE TakeHigherView(s)
    <2>1. PICK v \in seen : v > view[s] /\ SetView(s, v)
      BY <1>1 DEF TakeHigherView
    <2>2. v \in Nat BY DEF ViewTypeOK
    <2>. QED
      BY <1>1, <2>1, <2>2, SetViewType
      DEF TakeHigherView, UnchangedButViews, ViewTypeOK
  <1>2. ASSUME NEW q \in Seqs, NoteAccepted(s, q)
        PROVE  ViewTypeOK'
    BY <1>2, ViewsAssumption DEF NoteAccepted, ViewTypeOK
  <1>3. CASE Crash(s)
    BY <1>3 DEF Crash, ViewTypeOK, NoRound, Round
  <1>. QED BY <1>1, <1>2, <1>3

LEMMA TypeStep == ViewTypeOK /\ [ViewNext]_viewVars => ViewTypeOK'
  <1>. SUFFICES ASSUME ViewTypeOK, [ViewNext]_viewVars PROVE ViewTypeOK'
    OBVIOUS
  <1>1. ASSUME NEW s \in Server,
               MissHeartbeat(s) \/ SuspectLeader(s) \/ WaitTimerFires(s)
        PROVE  ViewTypeOK'
    BY <1>1, TypeSuspicion
  <1>2. ASSUME NEW e \in elections, ElectionStep(e) PROVE ViewTypeOK'
    BY <1>2, TypeElection
  <1>3. ASSUME NEW s \in Server, NEW p \in Server,
               \/ SendHeartbeats(s)
               \/ HeartbeatDelivered(s, p) \/ HeartbeatLost(s, p)
        PROVE  ViewTypeOK'
    BY <1>3, TypeHeartbeat
  <1>4. ASSUME NEW s \in Server,
               \/ TakeHigherView(s) \/ Crash(s)
               \/ \E q \in Seqs : NoteAccepted(s, q)
        PROVE  ViewTypeOK'
    BY <1>4, TypeEnvironment
  <1>5. CASE UNCHANGED viewVars BY <1>5 DEF viewVars, ViewTypeOK
  <1>. QED BY <1>1, <1>2, <1>3, <1>4, <1>5 DEF ViewNext, ElectionNext,
      DetectLeaderFailure

\* The variables keep their types: in particular a view is never negative,
\* not even when a thread falls back on highest_view, which starts at -1.
THEOREM ViewTypeCorrect == ViewSpec => []ViewTypeOK
  BY TypeInit, TypeStep, PTL DEF ViewSpec
----------------------------------------------------------------------------
(* Views only grow.                                                        *)

ViewsGrow == \A s \in Server : view'[s] >= view[s]

LEMMA SetViewForward ==
    ASSUME ViewTypeOK, NEW s \in Server, NEW v \in Nat, v >= view[s],
           SetView(s, v)
    PROVE  ViewsGrow
  BY DEF ViewTypeOK, SetView, ViewsGrow

LEMMA RaiseViewForward ==
    ASSUME ViewTypeOK, NEW s \in Server, NEW v \in Nat \cup {-1},
           RaiseView(s, v)
    PROVE  ViewsGrow
  BY DEF ViewTypeOK, RaiseView, SetView, KeepView, ViewsGrow

LEMMA SameViewForward == ViewTypeOK /\ view' = view => ViewsGrow
  BY DEF ViewTypeOK, ViewsGrow

LEMMA ElectionForward ==
    ASSUME ViewTypeOK, NEW e \in elections, ElectionStep(e)
    PROVE  ViewsGrow
  <1>. /\ e.srv \in Server /\ e.target \in Nat /\ e.hv \in Nat \cup {-1}
       /\ view[e.srv] \in Nat
    BY ElectionType DEF ViewTypeOK
  <1>1. ASSUME NEW p \in Server, ElectHandled(e, p) PROVE ViewsGrow
    BY <1>1, RaiseViewForward DEF ElectHandled, ElectAnswered, ElectAnswerLost
  <1>2. ASSUME NEW p \in Server, ElectUnreachable(e, p) PROVE ViewsGrow
    BY <1>2, SameViewForward DEF ElectUnreachable, KeepView
  <1>3. CASE ElectionRejected(e)
    <2>1. CASE e.hv > view[e.srv] /\ e.target < e.hv
      <3>1. e.hv \in Nat /\ SetView(e.srv, e.hv)
        BY <1>3, <2>1 DEF ElectionRejected
      <3>. QED BY <2>1, <3>1, SetViewForward
    <2>2. CASE ~(e.hv > view[e.srv] /\ e.target < e.hv)
      BY <1>3, <2>2, SameViewForward DEF ElectionRejected, KeepView
    <2>. QED BY <2>1, <2>2
  <1>4. CASE ElectionWon(e)
    BY <1>4, SetViewForward DEF ElectionWon
  <1>5. CASE ElectionOvertaken(e)
    BY <1>5, RaiseViewForward DEF ElectionOvertaken
  <1>6. CASE ElectionRetry(e)
    BY <1>6, SameViewForward DEF ElectionRetry, KeepView
  <1>. QED
    BY <1>1, <1>2, <1>3, <1>4, <1>5, <1>6 DEF ElectionStep, ElectionEnds

LEMMA HeartbeatForward ==
    ASSUME ViewTypeOK, NEW s \in Server, NEW p \in Server,
           HeartbeatDelivered(s, p)
    PROVE  ViewsGrow
  <1>. heartbeat[s].view \in Nat /\ view[p] \in Nat
    BY DEF ViewTypeOK, Round
  <1>1. CASE heartbeat[s].view > view[p] /\ SetView(p, heartbeat[s].view)
    BY <1>1, SetViewForward
  <1>2. CASE view' = view BY <1>2, SameViewForward
  <1>. QED BY <1>1, <1>2 DEF HeartbeatDelivered, Heartbeat, KeepView

LEMMA StepForward == ViewTypeOK /\ [ViewNext]_viewVars => ViewsGrow
  <1>. SUFFICES ASSUME ViewTypeOK, [ViewNext]_viewVars PROVE ViewsGrow
    OBVIOUS
  <1>1. ASSUME NEW e \in elections, ElectionStep(e) PROVE ViewsGrow
    BY <1>1, ElectionForward
  <1>2. ASSUME NEW s \in Server, NEW p \in Server, HeartbeatDelivered(s, p)
        PROVE  ViewsGrow
    BY <1>2, HeartbeatForward
  <1>3. ASSUME NEW s \in Server, TakeHigherView(s) PROVE ViewsGrow
    <2>1. PICK v \in seen : v > view[s] /\ SetView(s, v)
      BY <1>3 DEF TakeHigherView
    <2>2. v \in Nat /\ view[s] \in Nat BY DEF ViewTypeOK
    <2>. QED BY <2>1, <2>2, SetViewForward
  <1>4. ASSUME NEW s \in Server,
               \/ MissHeartbeat(s) \/ SuspectLeader(s) \/ WaitTimerFires(s)
               \/ SendHeartbeats(s) \/ Crash(s)
               \/ \E p \in Server : HeartbeatLost(s, p)
               \/ \E q \in Seqs : NoteAccepted(s, q)
        PROVE  ViewsGrow
    <2>1. view' = view
      BY <1>4 DEF MissHeartbeat, SuspectLeader, WaitTimerFires, KeepView,
                  SendHeartbeats, Crash, HeartbeatLost, NoteAccepted
    <2>. QED BY <2>1, SameViewForward
  <1>5. CASE UNCHANGED viewVars
    BY <1>5, SameViewForward DEF viewVars
  <1>. QED BY <1>1, <1>2, <1>3, <1>4, <1>5 DEF ViewNext, ElectionNext,
      DetectLeaderFailure

\* Whatever is delivered late, lost or answered by a server that has moved
\* on, no handler and no thread takes a server back to an earlier view.
THEOREM ViewsNeverDecrease == ViewSpec => ViewNeverDecreases
  <1>1. ViewTypeOK /\ [ViewNext]_viewVars
          => [\A s \in Server : view'[s] >= view[s]]_view
    BY StepForward DEF ViewsGrow
  <1>. QED
    BY <1>1, ViewTypeCorrect, PTL DEF ViewSpec, ViewNeverDecreases
----------------------------------------------------------------------------
(* Votes and majorities.                                                   *)

LEMMA VotesInit == ViewInit => VotesInv
  BY DEF ViewInit, VotesInv, CandidateApart, VotesBind, ElectedByQuorum

\* What a step may do to the elections: forget one, start one without votes,
\* or add one vote of a server that is at least in the target by now.
ElectionsAfter ==
    \A f \in elections' :
      \/ f \in elections
      \/ f.oks = {} /\ f.srv \notin f.todo
      \/ \E e \in elections : \E p \in e.todo :
           /\ f.srv = e.srv /\ f.target = e.target
           /\ f.todo \subseteq e.todo
           /\ f.oks = e.oks \/ (f.oks = e.oks \cup {p} /\ view'[p] >= f.target)

LEMMA FreshElectionApart ==
    ASSUME NEW s, NEW i, NEW v
    PROVE  LET f == FreshElection(s, i, v) IN f.oks = {} /\ f.srv \notin f.todo
  BY DEF FreshElection

LEMMA AnswerElections ==
    ASSUME ViewTypeOK, NEW e \in elections, NEW p \in Server,
           ElectHandled(e, p) \/ ElectUnreachable(e, p)
    PROVE  ElectionsAfter
  <1>. /\ e \in Election /\ e.target \in Nat
       /\ view[p] \in Nat /\ highest_accepted_seq[p] \in Int /\ e.hs \in Int
    BY ElectionType DEF ViewTypeOK
  <1>1. p \in e.todo
    BY DEF ElectHandled, ElectAnswered, ElectAnswerLost, ElectUnreachable,
           NextCallee
  <1>2. CASE Replace(e, [e EXCEPT !.todo = @ \ {p}])
    BY <1>1, <1>2 DEF Replace, ElectionsAfter, Election
  <1>3. CASE RaiseView(p, e.target) /\ Replace(e, Tally(e, p))
    <2>. DEFINE f == Tally(e, p)
    <2>1. f.srv = e.srv /\ f.target = e.target /\ f.todo = e.todo \ {p}
      BY DEF Tally, Election
    <2>2. CASE e.target >= view[p]
      <3>1. f.oks = e.oks \cup {p} BY <2>2 DEF Tally, Election
      <3>2. view'[p] >= e.target
        BY <1>3, <2>2 DEF RaiseView, SetView, KeepView, ViewTypeOK
      <3>. QED
        BY <1>1, <1>3, <2>1, <3>1, <3>2 DEF Replace, ElectionsAfter
    <2>3. CASE ~(e.target >= view[p])
      <3>1. f.oks = e.oks BY <2>3 DEF Tally, Election
      <3>. QED BY <1>1, <1>3, <2>1, <3>1 DEF Replace, ElectionsAfter
    <2>. QED BY <2>2, <2>3
  <1>. QED
    BY <1>2, <1>3 DEF ElectHandled, ElectAnswered, ElectAnswerLost,
                      ElectUnreachable

LEMMA StepElections ==
    ASSUME ViewTypeOK, [ViewNext]_viewVars
    PROVE  ElectionsAfter
  <1>1. CASE elections' \subseteq elections
    BY <1>1 DEF ElectionsAfter
  <1>2. ASSUME NEW s \in Server, SuspectLeader(s)
        PROVE  ElectionsAfter
    <2>1. CASE elections' = elections BY <2>1 DEF ElectionsAfter
    <2>2. ASSUME NEW i, NEW v,
                 elections' = elections \cup {FreshElection(s, i, v)}
          PROVE  ElectionsAfter
      BY <2>2, FreshElectionApart DEF ElectionsAfter
    <2>. QED BY <1>2, <2>1, <2>2 DEF SuspectLeader
  <1>3. ASSUME NEW e \in elections, ElectionStep(e)
        PROVE  ElectionsAfter
    <2>1. CASE ElectionRetry(e)
      BY <2>1, FreshElectionApart DEF ElectionRetry, Replace, ElectionsAfter
    <2>2. CASE ElectionRejected(e) \/ ElectionWon(e) \/ ElectionOvertaken(e)
      BY <2>2, <1>1 DEF ElectionRejected, ElectionWon, ElectionOvertaken
    <2>3. ASSUME NEW p \in Server, ElectHandled(e, p) \/ ElectUnreachable(e, p)
          PROVE  ElectionsAfter
      BY <2>3, AnswerElections
    <2>. QED BY <1>3, <2>1, <2>2, <2>3 DEF ElectionStep, ElectionEnds
  <1>4. ASSUME NEW s \in Server,
               \/ MissHeartbeat(s) \/ WaitTimerFires(s)
               \/ SendHeartbeats(s) \/ Crash(s) \/ TakeHigherView(s)
               \/ \E p \in Server : HeartbeatDelivered(s, p)
                                     \/ HeartbeatLost(s, p)
               \/ \E q \in Seqs : NoteAccepted(s, q)
        PROVE  ElectionsAfter
    BY <1>4, <1>1
    DEF MissHeartbeat, WaitTimerFires, SendHeartbeats, Crash, TakeHigherView,
        HeartbeatDelivered, HeartbeatLost, NoteAccepted
  <1>5. CASE UNCHANGED viewVars BY <1>1, <1>5 DEF viewVars
  <1>. QED BY <1>2, <1>3, <1>4, <1>5 DEF ViewNext, ElectionNext,
      DetectLeaderFailure

\* Only a candidate with enough votes adds to the views won.
LEMMA StepWon ==
    ASSUME [ViewNext]_viewVars
    PROVE  \/ won' = won
           \/ \E e \in elections : ElectionWon(e)
  <1>1. ASSUME NEW e \in elections, ElectionStep(e), ~ElectionWon(e)
        PROVE  won' = won
    BY <1>1 DEF ElectionStep, ElectionEnds, ElectHandled, ElectAnswered,
       ElectAnswerLost, ElectUnreachable, ElectionRejected, ElectionOvertaken,
       ElectionRetry, UnchangedButViews
  <1>2. ASSUME NEW s \in Server,
               \/ MissHeartbeat(s) \/ SuspectLeader(s) \/ WaitTimerFires(s)
               \/ SendHeartbeats(s) \/ Crash(s) \/ TakeHigherView(s)
               \/ \E p \in Server : HeartbeatDelivered(s, p)
                                     \/ HeartbeatLost(s, p)
               \/ \E q \in Seqs : NoteAccepted(s, q)
        PROVE  won' = won
    BY <1>2
    DEF MissHeartbeat, SuspectLeader, WaitTimerFires, SendHeartbeats, Crash,
        TakeHigherView, HeartbeatDelivered, HeartbeatLost, NoteAccepted,
        UnchangedButViews
  <1>3. CASE UNCHANGED viewVars BY <1>3 DEF viewVars
  <1>. QED BY <1>1, <1>2, <1>3 DEF ViewNext, ElectionNext,
      DetectLeaderFailure

\* A majority that is at least in v stays so.
LEMMA QuorumStays ==
    ASSUME ViewTypeOK, ViewTypeOK', ViewsGrow, NEW v \in Nat,
           IsMajority(AtLeast(v))
    PROVE  IsMajority(AtLeast(v)')
  <1>1. AtLeast(v) \subseteq AtLeast(v)'
    BY DEF AtLeast, ViewsGrow, ViewTypeOK
  <1>2. AtLeast(v)' \subseteq Server BY DEF AtLeast
  <1>. QED BY <1>1, <1>2, MajorityGrows

\* The votes of a winner and the winner itself are a majority in its target.
LEMMA WinnerHasQuorum ==
    ASSUME ViewTypeOK, ViewTypeOK', ViewsGrow, CandidateApart, VotesBind,
           NEW e \in elections, ElectionWon(e)
    PROVE  IsMajority(AtLeast(e.target)')
  <1>. DEFINE voters == e.oks \cup {e.srv}
  <1>1. /\ e.srv \in Server /\ e.target \in Nat /\ e.oks \subseteq Server
        /\ e.srv \notin e.oks
    BY ElectionType DEF CandidateApart
  <1>2. voters \subseteq AtLeast(e.target)'
    <2>1. view'[e.srv] = e.target
      BY <1>1 DEF ElectionWon, SetView, ViewTypeOK
    <2>2. ASSUME NEW p \in e.oks PROVE view'[p] >= e.target
      BY <1>1 DEF VotesBind, ViewsGrow, ViewTypeOK
    <2>. QED BY <1>1, <2>1, <2>2 DEF AtLeast
  <1>3. IsMajority(voters)
    <2>1. IsFiniteSet(e.oks) BY <1>1, ServerFacts, FS_Subset
    <2>2. Cardinality(voters) = Cardinality(e.oks) + 1
      BY <1>1, <2>1, FS_AddElement
    <2>3. Cardinality(e.oks) + 1 > N \div 2
      BY DEF ElectionWon, EnoughVotes
    <2>. QED BY <2>2, <2>3 DEF IsMajority
  <1>4. AtLeast(e.target)' \subseteq Server BY DEF AtLeast
  <1>. QED BY <1>2, <1>3, <1>4, MajorityGrows

LEMMA VotesStep ==
    ViewTypeOK /\ VotesInv /\ [ViewNext]_viewVars => VotesInv'
  <1>. SUFFICES ASSUME ViewTypeOK, VotesInv, [ViewNext]_viewVars
                PROVE  VotesInv'
    OBVIOUS
  <1>1. ViewTypeOK' /\ ViewsGrow BY TypeStep, StepForward
  <1>2. ElectionsAfter BY StepElections
  <1>3. CandidateApart'
    <2>. SUFFICES ASSUME NEW f \in elections'
                  PROVE  f.srv \notin f.todo \cup f.oks
      BY DEF CandidateApart
    <2>. QED BY <1>2 DEF ElectionsAfter, VotesInv, CandidateApart
  <1>4. VotesBind'
    <2>. SUFFICES ASSUME NEW f \in elections', NEW p \in f.oks
                  PROVE  view'[p] >= f.target
      BY DEF VotesBind
    <2>1. ASSUME NEW e \in elections, p \in e.oks, f.target = e.target
          PROVE  view'[p] >= f.target
      <3>1. p \in Server /\ e.target \in Nat BY <2>1, ElectionType
      <3>2. view[p] >= e.target BY <2>1 DEF VotesInv, VotesBind
      <3>3. view[p] \in Nat /\ view'[p] \in Nat BY <1>1, <3>1 DEF ViewTypeOK
      <3>4. view'[p] >= view[p] BY <1>1, <3>1 DEF ViewsGrow
      <3>. QED BY <2>1, <3>1, <3>2, <3>3, <3>4
    <2>2. CASE f \in elections BY <2>1, <2>2
    <2>3. CASE f.oks = {} BY <2>3
    <2>4. ASSUME NEW e \in elections, NEW w \in e.todo, f.target = e.target,
                 \/ f.oks = e.oks
                 \/ f.oks = e.oks \cup {w} /\ view'[w] >= f.target
          PROVE  view'[p] >= f.target
      BY <2>1, <2>4
    <2>. QED BY <1>2, <2>2, <2>3, <2>4 DEF ElectionsAfter
  <1>5. ElectedByQuorum'
    <2>. SUFFICES ASSUME NEW v \in won'
                  PROVE  IsMajority(AtLeast(v)')
      BY DEF ElectedByQuorum
    <2>1. CASE v \in won
      <3>1. v \in Nat /\ IsMajority(AtLeast(v))
        BY <2>1 DEF ViewTypeOK, VotesInv, ElectedByQuorum
      <3>. QED BY <1>1, <3>1, QuorumStays
    <2>2. ASSUME NEW e \in elections, ElectionWon(e), v = e.target
          PROVE  IsMajority(AtLeast(v)')
      BY <1>1, <2>2, WinnerHasQuorum DEF VotesInv
    <2>. QED BY <2>1, <2>2, StepWon DEF ElectionWon
  <1>. QED BY <1>3, <1>4, <1>5 DEF VotesInv

LEMMA VotesInvariant == ViewSpec => []VotesInv
  BY VotesInit, VotesStep, ViewTypeCorrect, PTL DEF ViewSpec

\* Whoever voted for a running candidate never goes back below its target.
THEOREM VotesAlwaysBind == ViewSpec => []VotesBind
  <1>1. VotesInv => VotesBind BY DEF VotesInv
  <1>. QED BY <1>1, VotesInvariant, PTL

\* A view won at "Election succeeded" has a majority of the servers in it or
\* beyond it for ever, with any number of servers, campaigns, lost calls and
\* crashes.
THEOREM WonViewsKeepQuorum == ViewSpec => []ElectedByQuorum
  <1>1. VotesInv => ElectedByQuorum BY DEF VotesInv
  <1>. QED BY <1>1, VotesInvariant, PTL
----------------------------------------------------------------------------
(* Every view belongs to one server.                                       *)

\* What a candidate campaigns for is a view it will lead itself.
TargetOwned == \A e \in elections : e.target % N = e.srv

LEMMA DivMod ==
    ASSUME NEW v \in Nat
    PROVE  /\ v = N * (v \div N) + (v % N)
           /\ v % N \in 0 .. N - 1
           /\ v \div N \in Nat
  BY ServerFacts

LEMMA MultipleGrows ==
    ASSUME NEW k \in Nat \ {0}
    PROVE  N * k >= N
  BY ServerFacts

\* Division with remainder is unique.
LEMMA Residue ==
    ASSUME NEW q \in Nat, NEW s \in Server
    PROVE  (N * q + s) % N = s
  <1>. DEFINE t == N * q + s
              p == t \div N
              r == t % N
  <1>1. N \in Nat /\ N > 0 /\ s \in 0 .. N - 1 BY ServerFacts DEF Server
  <1>2. t \in Nat BY <1>1
  <1>3. t = N * p + r /\ r \in 0 .. N - 1 /\ p \in Nat BY <1>2, DivMod
  <1>. HIDE DEF p, r
  <1>4. N * (q - p) = r - s BY <1>1, <1>3
  <1>5. CASE q > p
    <2>1. q - p \in Nat \ {0} BY <1>3, <1>5
    <2>2. N * (q - p) >= N BY <2>1, MultipleGrows
    <2>. QED BY <1>1, <1>3, <1>4, <2>2
  <1>6. CASE p > q
    <2>1. p - q \in Nat \ {0} BY <1>3, <1>6
    <2>2. N * (p - q) >= N BY <2>1, MultipleGrows
    <2>3. N * (p - q) = s - r BY <1>1, <1>3
    <2>. QED BY <1>1, <1>3, <2>2, <2>3
  <1>7. CASE p = q BY <1>1, <1>3, <1>7
  <1>. QED BY <1>3, <1>5, <1>6, <1>7 DEF r

\* The offset DetectLeaderFailure computes leads to a view of the candidate.
LEMMA OffsetOwned ==
    ASSUME NEW s \in Server, NEW v \in Nat
    PROVE  (v + Offset(s, v % N)) % N = s
  <1>. DEFINE q == v \div N
              mod == v % N
  <1>1. N \in Nat /\ N > 0 /\ s \in 0 .. N - 1 BY ServerFacts DEF Server
  <1>2. v = N * q + mod /\ mod \in 0 .. N - 1 /\ q \in Nat BY DivMod
  <1>. HIDE DEF q, mod
  <1>3. CASE mod < s
    <2>1. v + Offset(s, mod) = N * q + s BY <1>1, <1>2, <1>3 DEF Offset
    <2>. QED BY <1>2, <2>1, Residue DEF mod
  <1>4. CASE ~(mod < s)
    <2>1. v + Offset(s, mod) = N * (q + 1) + s
      BY <1>1, <1>2, <1>4 DEF Offset
    <2>2. q + 1 \in Nat BY <1>2
    <2>. QED BY <2>1, <2>2, Residue DEF mod
  <1>. QED BY <1>3, <1>4

LEMMA RestartType ==
    ASSUME ViewTypeOK, NEW s \in Server, Restart(s)
    PROVE  ViewTypeOK'
  <1>1. PICK v \in Fresh, m \in FreshMisses, h \in FreshSeqs :
          /\ view' = [view EXCEPT ![s] = v]
          /\ missed_heartbeats' = [missed_heartbeats EXCEPT ![s] = m]
          /\ highest_accepted_seq' = [highest_accepted_seq EXCEPT ![s] = h]
          /\ seen' = seen \cup {v}
    BY DEF Restart
  <1>2. v \in Nat /\ m \in Nat /\ h \in Nat BY ViewsAssumption
  <1>. QED BY <1>1, <1>2 DEF Restart, ViewTypeOK

LEMMA OwnedStep ==
    ASSUME ViewTypeOK, TargetOwned,
           [ViewNext]_viewVars \/ \E s \in Server : Restart(s)
    PROVE  TargetOwned'
  <1>1. CASE elections' \subseteq elections
    BY <1>1 DEF TargetOwned
  <1>2. ASSUME NEW s \in Server, SuspectLeader(s)
        PROVE  TargetOwned'
    <2>. DEFINE target == view[s] + Offset(s, view[s] % N)
    <2>1. target % N = s
      BY OffsetOwned DEF ViewTypeOK
    <2>. HIDE DEF target
    <2>2. ASSUME NEW i, elections' = elections \cup {FreshElection(s, i, target)}
          PROVE  TargetOwned'
      BY <2>1, <2>2 DEF TargetOwned, FreshElection
    <2>3. CASE elections' = elections BY <1>1, <2>3
    <2>. QED BY <1>2, <2>2, <2>3 DEF SuspectLeader, target
  <1>3. ASSUME NEW e \in elections, ElectionStep(e)
        PROVE  TargetOwned'
    <2>. /\ e \in Election /\ e.target % N = e.srv
      BY ElectionType DEF TargetOwned
    <2>1. ASSUME NEW f, Replace(e, f), f.srv = e.srv, f.target = e.target
          PROVE  TargetOwned'
      BY <2>1 DEF Replace, TargetOwned
    <2>2. CASE ElectionRetry(e)
      BY <2>1, <2>2 DEF ElectionRetry, FreshElection
    <2>3. CASE ElectionRejected(e) \/ ElectionWon(e) \/ ElectionOvertaken(e)
      BY <1>1, <2>3 DEF ElectionRejected, ElectionWon, ElectionOvertaken
    <2>4. ASSUME NEW p \in Server, ElectHandled(e, p) \/ ElectUnreachable(e, p)
          PROVE  TargetOwned'
      <3>1. /\ Tally(e, p).srv = e.srv /\ Tally(e, p).target = e.target
        BY DEF Tally, Election
      <3>2. LET f == [e EXCEPT !.todo = @ \ {p}]
            IN  f.srv = e.srv /\ f.target = e.target
        BY DEF Election
      <3>. QED
        BY <2>1, <2>4, <3>1, <3>2 DEF ElectHandled, ElectAnswered,
           ElectAnswerLost, ElectUnreachable
    <2>. QED BY <1>3, <2>2, <2>3, <2>4 DEF ElectionStep, ElectionEnds
  <1>4. ASSUME NEW s \in Server,
               \/ MissHeartbeat(s) \/ WaitTimerFires(s) \/ SendHeartbeats(s)
               \/ Crash(s) \/ TakeHigherView(s) \/ Restart(s)
               \/ \E p \in Server : HeartbeatDelivered(s, p)
                                     \/ HeartbeatLost(s, p)
               \/ \E q \in Seqs : NoteAccepted(s, q)
        PROVE  TargetOwned'
    BY <1>4, <1>1
    DEF MissHeartbeat, WaitTimerFires, SendHeartbeats, Crash, TakeHigherView,
        HeartbeatDelivered, HeartbeatLost, NoteAccepted, Restart
  <1>5. CASE UNCHANGED viewVars BY <1>1, <1>5 DEF viewVars
  <1>. QED BY <1>2, <1>3, <1>4, <1>5 DEF ViewNext, ElectionNext,
      DetectLeaderFailure

LEMMA OwnedView == ViewTypeOK /\ TargetOwned => CampaignOwnsView
  BY DEF TargetOwned, CampaignOwnsView

\* Two servers never campaign for the same view, although Elect carries no
\* candidate and grants an equal view to anybody: also when servers restart
\* with whatever view their memory holds.
THEOREM CampaignsDisjoint == RestartSpec => []CampaignOwnsView
  <1>. DEFINE Inv == ViewTypeOK /\ TargetOwned
              Step == ElectionNext \/ \E s \in Server : Restart(s)
  <1>1. ViewInit => Inv
    BY TypeInit DEF ViewInit, TargetOwned
  <1>2. Inv /\ [Step]_viewVars => Inv'
    <2>. SUFFICES ASSUME Inv, [Step]_viewVars PROVE Inv'
      OBVIOUS
    <2>1. CASE [ViewNext]_viewVars BY <2>1, TypeStep, OwnedStep
    <2>2. ASSUME NEW s \in Server, Restart(s) PROVE Inv'
      BY <2>2, RestartType, OwnedStep
    <2>. QED BY <2>1, <2>2 DEF ViewNext
  <1>. QED BY <1>1, <1>2, OwnedView, PTL DEF RestartSpec
----------------------------------------------------------------------------
(* Where views come from.                                                  *)

\* Every view a server holds, or passes on in a heartbeat or as the highest
\* view of a rejection, is one that some server has held.
ViewsSeen ==
    /\ \A s \in Server : view[s] \in seen
    /\ \A s \in Server : heartbeat[s].todo # {} => heartbeat[s].view \in seen
    /\ \A e \in elections : e.hv \in seen \cup {-1}

\* Server p takes over a view some server has held already.
Copies(p, v) == v \in seen /\ SetView(p, v)

\* Server p takes a view nobody need have held before: its vote for the
\* campaign e, or its own victory.
Enters(p, e) ==
    /\ SetView(p, e.target)
    /\ p \in e.todo \/ (p = e.srv /\ ElectionWon(e))

SameViews == view' = view /\ seen' = seen

Moves ==
    \/ SameViews
    \/ \E p \in Server : \/ \E v \in Nat : Copies(p, v)
                         \/ \E e \in elections : Enters(p, e)

LEMMA ElectionMoves ==
    ASSUME ViewTypeOK, ViewsSeen, NEW e \in elections, ElectionStep(e)
    PROVE  Moves
  <1>. /\ e.srv \in Server /\ e.target \in Nat /\ e.hv \in Nat \cup {-1}
       /\ view[e.srv] \in Nat /\ e.hv \in seen \cup {-1}
    BY ElectionType DEF ViewTypeOK, ViewsSeen
  <1>1. ASSUME NEW p \in Server, ElectHandled(e, p) PROVE Moves
    <2>1. p \in e.todo /\ RaiseView(p, e.target)
      BY <1>1 DEF ElectHandled, ElectAnswered, ElectAnswerLost, NextCallee
    <2>. QED BY <2>1 DEF RaiseView, KeepView, Moves, SameViews, Enters
  <1>2. CASE KeepView BY <1>2 DEF KeepView, Moves, SameViews
  <1>3. CASE e.hv > view[e.srv] /\ SetView(e.srv, e.hv)
    <2>1. e.hv \in Nat /\ e.hv \in seen BY <1>3
    <2>. QED BY <1>3, <2>1 DEF Moves, Copies
  <1>4. CASE ElectionWon(e)
    BY <1>4 DEF ElectionWon, Moves, Enters
  <1>. QED
    BY <1>1, <1>2, <1>3, <1>4 DEF ElectionStep, ElectionEnds, ElectionRejected,
       ElectionOvertaken, RaiseView, ElectionRetry, ElectUnreachable

LEMMA StepMoves ==
    ASSUME ViewTypeOK, ViewsSeen, [ViewNext]_viewVars
    PROVE  Moves
  <1>1. ASSUME NEW e \in elections, ElectionStep(e) PROVE Moves
    BY <1>1, ElectionMoves
  <1>2. ASSUME NEW s \in Server, NEW p \in Server, HeartbeatDelivered(s, p)
        PROVE  Moves
    <2>1. heartbeat[s].view \in seen
      BY <1>2 DEF HeartbeatDelivered, NextCallee, ViewsSeen
    <2>2. heartbeat[s].view \in Nat BY DEF ViewTypeOK, Round
    <2>. QED
      BY <1>2, <2>1, <2>2
      DEF HeartbeatDelivered, Heartbeat, KeepView, Moves, SameViews, Copies
  <1>3. ASSUME NEW s \in Server, TakeHigherView(s) PROVE Moves
    <2>1. seen \subseteq Nat BY DEF ViewTypeOK
    <2>. QED BY <1>3, <2>1 DEF TakeHigherView, Moves, Copies
  <1>4. ASSUME NEW s \in Server,
               \/ MissHeartbeat(s) \/ SuspectLeader(s) \/ WaitTimerFires(s)
               \/ SendHeartbeats(s) \/ Crash(s)
               \/ \E p \in Server : HeartbeatLost(s, p)
               \/ \E q \in Seqs : NoteAccepted(s, q)
        PROVE  SameViews
    BY <1>4 DEF MissHeartbeat, SuspectLeader, WaitTimerFires, KeepView,
       SendHeartbeats, Crash, HeartbeatLost, NoteAccepted, SameViews
  <1>5. CASE UNCHANGED viewVars BY <1>5 DEF viewVars, Moves, SameViews
  <1>. QED BY <1>1, <1>2, <1>3, <1>4, <1>5 DEF ViewNext, ElectionNext,
      DetectLeaderFailure, Moves

\* A step adds to the views held exactly the one it moves a server to.
LEMMA MovesSeen ==
    ASSUME ViewTypeOK, ViewsSeen, Moves
    PROVE  /\ seen \subseteq seen'
           /\ \A s \in Server : view'[s] \in seen'
  BY DEF Moves, SameViews, Copies, Enters, SetView, ViewTypeOK, ViewsSeen

\* The highest view of a rejection was held by the server that rejected.
LEMMA StepRejections ==
    ASSUME ViewTypeOK, ViewsSeen, [ViewNext]_viewVars
    PROVE  \A f \in elections' : f.hv \in seen \cup {-1}
  <1>1. CASE elections' \subseteq elections
    BY <1>1 DEF ViewsSeen
  <1>2. ASSUME NEW s, NEW i, NEW v,
               elections' \subseteq elections \cup {FreshElection(s, i, v)}
        PROVE  \A f \in elections' : f.hv \in seen \cup {-1}
    BY <1>2 DEF ViewsSeen, FreshElection
  <1>3. ASSUME NEW s \in Server, SuspectLeader(s)
        PROVE  \A f \in elections' : f.hv \in seen \cup {-1}
    BY <1>1, <1>2, <1>3 DEF SuspectLeader
  <1>4. ASSUME NEW e \in elections, ElectionStep(e)
        PROVE  \A f \in elections' : f.hv \in seen \cup {-1}
    <2>. e \in Election /\ e.hv \in seen \cup {-1}
      BY ElectionType DEF ViewsSeen
    <2>1. ASSUME NEW f, Replace(e, f), f.hv \in seen \cup {-1}
          PROVE  \A g \in elections' : g.hv \in seen \cup {-1}
      BY <2>1 DEF Replace, ViewsSeen
    <2>2. ASSUME NEW p \in Server PROVE Tally(e, p).hv \in seen \cup {-1}
      BY DEF Tally, Election, ViewsSeen
    <2>3. ASSUME NEW p \in Server
          PROVE  [e EXCEPT !.todo = @ \ {p}].hv \in seen \cup {-1}
      BY DEF Election
    <2>4. ASSUME NEW p \in Server, ElectHandled(e, p) \/ ElectUnreachable(e, p)
          PROVE  \A g \in elections' : g.hv \in seen \cup {-1}
      BY <2>1, <2>2, <2>3, <2>4 DEF ElectHandled, ElectAnswered,
         ElectAnswerLost, ElectUnreachable
    <2>5. CASE ElectionRetry(e)
      BY <1>2, <2>5 DEF ElectionRetry, Replace
    <2>6. CASE ElectionRejected(e) \/ ElectionWon(e) \/ ElectionOvertaken(e)
      BY <1>1, <2>6 DEF ElectionRejected, ElectionWon, ElectionOvertaken
    <2>. QED BY <1>4, <2>4, <2>5, <2>6 DEF ElectionStep, ElectionEnds
  <1>5. ASSUME NEW s \in Server,
               \/ MissHeartbeat(s) \/ WaitTimerFires(s)
               \/ SendHeartbeats(s) \/ Crash(s) \/ TakeHigherView(s)
               \/ \E p \in Server : HeartbeatDelivered(s, p)
                                     \/ HeartbeatLost(s, p)
               \/ \E q \in Seqs : NoteAccepted(s, q)
        PROVE  elections' \subseteq elections
    BY <1>5
    DEF MissHeartbeat, WaitTimerFires, SendHeartbeats, Crash, TakeHigherView,
        HeartbeatDelivered, HeartbeatLost, NoteAccepted
  <1>6. CASE UNCHANGED viewVars BY <1>1, <1>6 DEF viewVars
  <1>. QED BY <1>1, <1>3, <1>4, <1>5, <1>6 DEF ViewNext, ElectionNext,
      DetectLeaderFailure

\* A round of heartbeats starts with the view of its server.
LEMMA StepRounds ==
    ASSUME ViewTypeOK, ViewsSeen, [ViewNext]_viewVars, NEW r \in Server
    PROVE  heartbeat'[r].todo # {} => heartbeat'[r].view \in seen
  <1>. DEFINE Goal == heartbeat'[r].todo # {} => heartbeat'[r].view \in seen
  <1>. /\ heartbeat[r] \in Round
       /\ heartbeat[r].todo # {} => heartbeat[r].view \in seen
    BY DEF ViewTypeOK, ViewsSeen
  <1>1. CASE heartbeat' = heartbeat BY <1>1
  <1>2. ASSUME NEW s \in Server, SendHeartbeats(s) PROVE Goal
    BY <1>2 DEF SendHeartbeats, ViewTypeOK, ViewsSeen
  <1>3. ASSUME NEW s \in Server, NEW p \in Server,
               HeartbeatDelivered(s, p) \/ HeartbeatLost(s, p)
        PROVE  Goal
    <2>1. heartbeat' = [heartbeat EXCEPT ![s] = AfterCall(s, p)]
      BY <1>3 DEF HeartbeatDelivered, HeartbeatLost
    <2>2. CASE r = s
      <3>1. p \in heartbeat[s].todo
        BY <1>3 DEF HeartbeatDelivered, HeartbeatLost, NextCallee
      <3>2. heartbeat'[r] = AfterCall(r, p)
        BY <2>1, <2>2 DEF ViewTypeOK
      <3>. QED BY <2>2, <3>1, <3>2 DEF AfterCall, NoRound, Round
    <2>3. CASE r # s BY <2>1, <2>3 DEF ViewTypeOK
    <2>. QED BY <2>2, <2>3
  <1>4. ASSUME NEW s \in Server, Crash(s) PROVE Goal
    BY <1>4 DEF Crash, ViewTypeOK, NoRound
  <1>5. ASSUME NEW s \in Server,
               \/ MissHeartbeat(s) \/ SuspectLeader(s) \/ WaitTimerFires(s)
               \/ TakeHigherView(s) \/ \E q \in Seqs : NoteAccepted(s, q)
        PROVE  Goal
    BY <1>1, <1>5 DEF MissHeartbeat, SuspectLeader, WaitTimerFires,
       TakeHigherView, NoteAccepted
  <1>6. ASSUME NEW e \in elections, ElectionStep(e) PROVE Goal
    BY <1>1, <1>6 DEF ElectionStep, ElectionEnds, ElectHandled, ElectAnswered,
       ElectAnswerLost, ElectUnreachable, ElectionRejected, ElectionWon,
       ElectionOvertaken, ElectionRetry
  <1>7. CASE UNCHANGED viewVars BY <1>1, <1>7 DEF viewVars
  <1>. QED BY <1>2, <1>3, <1>4, <1>5, <1>6, <1>7 DEF ViewNext, ElectionNext,
      DetectLeaderFailure

LEMMA SeenInit == ViewInit => ViewsSeen
  BY DEF ViewInit, ViewsSeen, NoRound

LEMMA SeenStep ==
    ViewTypeOK /\ ViewsSeen /\ [ViewNext]_viewVars
      => ViewsSeen' /\ seen \subseteq seen'
  <1>. SUFFICES ASSUME ViewTypeOK, ViewsSeen, [ViewNext]_viewVars
                PROVE  ViewsSeen' /\ seen \subseteq seen'
    OBVIOUS
  <1>1. Moves BY StepMoves
  <1>2. seen \subseteq seen' /\ \A s \in Server : view'[s] \in seen'
    BY <1>1, MovesSeen
  <1>3. \A s \in Server : heartbeat'[s].todo # {} => heartbeat'[s].view \in seen
    BY StepRounds
  <1>4. \A f \in elections' : f.hv \in seen \cup {-1}
    BY StepRejections
  <1>. QED BY <1>2, <1>3, <1>4 DEF ViewsSeen
----------------------------------------------------------------------------
(* A leader has company.                                                   *)

\* Some server other than its leader is at least in view v.
Accompanied(v) == \E p \in Server : p # v % N /\ view[p] >= v

\* The inductive invariant behind LeaderBacked: no view is taken, let alone
\* copied, before somebody has voted for it.
ViewsAccompanied == \A v \in seen \ Fresh : Accompanied(v)

CompanyInv == VotesInv /\ TargetOwned /\ ViewsSeen /\ ViewsAccompanied

LEMMA CompanyStays ==
    ASSUME ViewTypeOK, ViewTypeOK', ViewsGrow, NEW v \in Nat, Accompanied(v)
    PROVE  Accompanied(v)'
  <1>1. PICK p \in Server : p # v % N /\ view[p] >= v BY DEF Accompanied
  <1>2. view[p] \in Nat /\ view'[p] \in Nat /\ view'[p] >= view[p]
    BY DEF ViewsGrow, ViewTypeOK
  <1>3. view'[p] >= v BY <1>1, <1>2
  <1>. QED BY <1>1, <1>3 DEF Accompanied

\* Nobody votes for itself, and with two servers or more nobody wins without a
\* vote.
LEMMA EnteredInCompany ==
    ASSUME ViewTypeOK, ViewTypeOK', ViewsGrow, VotesInv, TargetOwned, N >= 2,
           NEW p \in Server, NEW e \in elections, Enters(p, e)
    PROVE  Accompanied(e.target)'
  <1>1. /\ e.srv \in Server /\ e.target \in Nat /\ e.oks \subseteq Server
        /\ e.srv \notin e.todo \cup e.oks /\ e.target % N = e.srv
    BY ElectionType DEF VotesInv, CandidateApart, TargetOwned
  <1>2. CASE p \in e.todo
    <2>1. view'[p] = e.target BY DEF Enters, SetView, ViewTypeOK
    <2>2. view'[p] >= e.target BY <1>1, <2>1
    <2>. QED BY <1>1, <1>2, <2>2 DEF Accompanied
  <1>3. CASE ElectionWon(e)
    <2>1. e.oks # {}
      <3>1. Cardinality(e.oks) + 1 > N \div 2
        BY <1>3 DEF ElectionWon, EnoughVotes
      <3>2. N \div 2 >= 1 BY ServerFacts
      <3>3. Cardinality({}) = 0 BY FS_EmptySet
      <3>. QED BY <3>1, <3>2, <3>3, ServerFacts
    <2>2. PICK w \in e.oks : TRUE BY <2>1
    <2>3. w \in Server /\ w # e.srv /\ view[w] >= e.target
      BY <1>1, <2>2 DEF VotesInv, VotesBind
    <2>4. Accompanied(e.target) BY <1>1, <2>3 DEF Accompanied
    <2>. QED BY <1>1, <2>4, CompanyStays
  <1>. QED BY <1>2, <1>3 DEF Enters

LEMMA CompanyStep ==
    ASSUME N >= 2, ViewTypeOK, CompanyInv, [ViewNext]_viewVars
    PROVE  CompanyInv'
  <1>1. ViewTypeOK' /\ ViewsGrow BY TypeStep, StepForward
  <1>2. VotesInv' BY VotesStep DEF CompanyInv
  <1>3. TargetOwned' BY OwnedStep DEF CompanyInv
  <1>4. ViewsSeen' BY SeenStep DEF CompanyInv
  <1>5. ViewsAccompanied'
    <2>1. ASSUME NEW v \in seen \ Fresh PROVE Accompanied(v)'
      <3>1. v \in Nat BY DEF ViewTypeOK
      <3>. QED
        BY <1>1, <3>1, CompanyStays DEF CompanyInv, ViewsAccompanied
    <2>2. ASSUME NEW p \in Server, NEW e \in elections, Enters(p, e)
          PROVE  seen' = seen \cup {e.target} /\ Accompanied(e.target)'
      BY <1>1, <2>2, EnteredInCompany DEF CompanyInv, Enters, SetView
    <2>3. ASSUME NEW v \in seen' PROVE v \in seen \/ Accompanied(v)'
      BY <2>2, StepMoves
      DEF CompanyInv, Moves, SameViews, Copies, SetView
    <2>. QED BY <2>1, <2>3 DEF ViewsAccompanied
  <1>. QED BY <1>2, <1>3, <1>4, <1>5 DEF CompanyInv

\* Two of three servers, or of two, are a majority.
LEMMA PairIsMajority ==
    ASSUME N \in 2 .. 3, NEW s \in Server, NEW p \in Server, s # p
    PROVE  IsMajority({s, p})
  <1>1. IsFiniteSet({s}) /\ Cardinality({s}) = 1 BY FS_Singleton
  <1>2. Cardinality({s} \cup {p}) = 2
    BY <1>1, FS_AddElement
  <1>3. {s, p} = {s} \cup {p} OBVIOUS
  <1>4. N \div 2 = 1 BY ServerFacts
  <1>. QED BY <1>2, <1>3, <1>4 DEF IsMajority

LEMMA CompanyBacks ==
    ASSUME N \in 2 .. 3, ViewTypeOK, CompanyInv
    PROVE  LeaderBacked
  <1>. SUFFICES ASSUME NEW s \in Server, Leads(s), view[s] \notin Fresh
                PROVE  IsMajority(AtLeast(view[s]))
    BY DEF LeaderBacked
  <1>1. view[s] \in seen /\ view[s] \in Nat BY DEF CompanyInv, ViewsSeen, ViewTypeOK
  <1>2. PICK p \in Server : p # s /\ view[p] >= view[s]
    BY <1>1 DEF CompanyInv, ViewsAccompanied, Accompanied, Leads
  <1>3. {s, p} \subseteq AtLeast(view[s]) BY <1>1, <1>2 DEF AtLeast
  <1>4. AtLeast(view[s]) \subseteq Server BY DEF AtLeast
  <1>5. IsMajority({s, p}) BY <1>2, PairIsMajority
  <1>. QED BY <1>3, <1>4, <1>5, MajorityGrows

\* With three servers, the size the code is deployed with, or two, a running
\* leader of a view it did not start with has a majority behind it, however it
\* came by the view.
THEOREM LeadersAreBacked ==
    ASSUME N \in 2 .. 3 PROVE ViewSpec => []LeaderBacked
  <1>1. ViewInit => CompanyInv
    BY VotesInit, SeenInit
    DEF CompanyInv, ViewInit, TargetOwned, ViewsAccompanied
  <1>2. ViewTypeOK /\ CompanyInv /\ [ViewNext]_viewVars => CompanyInv'
    BY CompanyStep
  <1>3. ViewTypeOK /\ CompanyInv => LeaderBacked BY CompanyBacks
  <1>. QED BY <1>1, <1>2, <1>3, ViewTypeCorrect, PTL DEF ViewSpec
=============================================================================
