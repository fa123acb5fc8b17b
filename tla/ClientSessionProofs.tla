------------------------ MODULE ClientSessionProofs ------------------------
(***************************************************************************)
(* What holds of a session for every number of servers, every lease and    *)
(* grace period and every resolution of the clocks: the lease of the client *)
(* never outlasts that of the server which granted it, and a session that  *)
(* has ended is not revived.                                               *)
(***************************************************************************)
EXTENDS ClientSession, TLAPS, SequenceTheorems

\* Only the loop of send_keep_alive has a call under way, and it leaves its
\* place in the loop when the call ends.
CallsFromLoop == Calling => pc \in {"renewing", "rescuing"}

\* The lease of chubby_open is not one that a server granted.
NobodyBeforeOpen == pc = "closed" => granted_by = Nobody

\* The inductive invariant.
SessionInv == SessionTypeOK /\ CallsFromLoop /\ NobodyBeforeOpen /\ SessionBacked
----------------------------------------------------------------------------
(* Seconds and ticks.                                                      *)

LEMMA SessionFacts ==
    /\ N \in Nat \ {0} /\ Sec \in Nat \ {0} /\ Grace \in Nat \ {0}
    /\ Lease \in Nat \ {0} /\ Lease * Sec \in Nat /\ Lease * Sec > 0
    /\ Margin \in 0 .. Lease * Sec
    /\ 0 \in Server /\ LongAgo \in Int /\ LongAgo < -Grace
  <1>1. /\ N \in Nat \ {0} /\ Sec \in Nat \ {0} /\ Grace \in Nat \ {0}
        /\ Lease \in Nat \ {0} /\ Margin \in 0 .. Lease * Sec
    BY SessionAssumption
  <1>2. Lease * Sec \in Nat /\ Lease * Sec > 0 BY <1>1
  <1>. QED BY <1>1, <1>2 DEF Server, LongAgo

\* Division with remainder, by the number of ticks in a second.
LEMMA SecondsOf ==
    ASSUME NEW x \in Nat
    PROVE  /\ x \div Sec \in Nat
           /\ Sec * (x \div Sec) <= x /\ x < Sec * (x \div Sec) + Sec
  BY SessionFacts

\* What lasts longer lasts at least as many whole seconds.
LEMMA SecondsGrow ==
    ASSUME NEW x \in Nat, NEW y \in Nat, x <= y
    PROVE  x \div Sec <= y \div Sec
  <1>. DEFINE p == x \div Sec  q == y \div Sec
  <1>1. p \in Nat /\ q \in Nat /\ Sec * p <= x /\ y < Sec * q + Sec
    BY SecondsOf
  <1>. HIDE DEF p, q
  <1>2. SUFFICES ASSUME q < p PROVE FALSE BY <1>1 DEF p, q
  <1>3. Sec * (q + 1) <= Sec * p BY <1>1, <1>2, SessionFacts
  <1>4. Sec * (q + 1) = Sec * q + Sec BY <1>1, SessionFacts
  <1>5. Sec * q \in Nat /\ Sec * p \in Nat BY <1>1, SessionFacts
  <1>. QED BY <1>1, <1>3, <1>4, <1>5, SessionFacts

\* A second is Sec ticks.
LEMMA SecondLater ==
    ASSUME NEW x \in Nat
    PROVE  (x + Sec) \div Sec = x \div Sec + 1
  <1>. DEFINE p == x \div Sec  q == (x + Sec) \div Sec
  <1>1. /\ p \in Nat /\ Sec * p <= x /\ x < Sec * p + Sec
    BY SecondsOf
  <1>2. /\ q \in Nat /\ Sec * q <= x + Sec /\ x + Sec < Sec * q + Sec
    <2>1. x + Sec \in Nat BY SessionFacts
    <2>. QED BY <2>1, SecondsOf
  <1>. HIDE DEF p, q
  <1>3. /\ Sec * (p + 1) = Sec * p + Sec /\ Sec * (p + 2) = Sec * p + Sec + Sec
        /\ Sec * (q + 1) = Sec * q + Sec
        /\ {Sec * p, Sec * q} \subseteq Nat
    BY <1>1, <1>2, SessionFacts
  <1>4. ~ q < p + 1
    <2>. SUFFICES ASSUME q < p + 1 PROVE FALSE OBVIOUS
    <2>1. Sec * q <= Sec * p BY <1>1, <1>2, SessionFacts
    <2>. QED BY <2>1, <1>1, <1>2, <1>3, SessionFacts
  <1>5. ~ q > p + 1
    <2>. SUFFICES ASSUME q > p + 1 PROVE FALSE OBVIOUS
    <2>1. Sec * (p + 2) <= Sec * q BY <1>1, <1>2, SessionFacts
    <2>. QED BY <2>1, <1>1, <1>2, <1>3, SessionFacts
  <1>6. q = p + 1 BY <1>1, <1>2, <1>4, <1>5
  <1>. QED BY <1>6 DEF p, q

\* Within the current second nothing but the tick itself has gone by.
LEMMA WholeSeconds ==
    /\ \A x \in 0 .. Sec - 1 : x \div Sec = 0
    /\ (Lease * Sec) \div Sec = Lease
    /\ \A x \in 0 .. Sec - 1 : (x + Lease * Sec) \div Sec = Lease
  <1>1. ASSUME NEW x \in 0 .. Sec - 1, NEW k \in Nat
        PROVE  (x + k * Sec) \div Sec = k
    <2>. DEFINE z == x + k * Sec  q == z \div Sec
    <2>1. k * Sec \in Nat /\ k * Sec = Sec * k BY SessionFacts
    <2>2. z \in Nat BY <2>1, SessionFacts
    <2>3. q \in Nat /\ Sec * q <= z /\ z < Sec * q + Sec BY <2>2, SecondsOf
    <2>4. /\ Sec * (q + 1) = Sec * q + Sec /\ Sec * (k + 1) = Sec * k + Sec
          /\ {Sec * q, Sec * k} \subseteq Nat
      BY <2>3, SessionFacts
    <2>5. z < Sec * (k + 1) /\ Sec * k <= z BY <2>1, <2>4, SessionFacts
    <2>. HIDE DEF q, z
    <2>6. ~ q < k
      <3>. SUFFICES ASSUME q < k PROVE FALSE OBVIOUS
      <3>1. Sec * (q + 1) <= Sec * k BY <2>3, SessionFacts
      <3>. QED BY <3>1, <2>2, <2>3, <2>4, <2>5, SessionFacts
    <2>7. ~ q > k
      <3>. SUFFICES ASSUME q > k PROVE FALSE OBVIOUS
      <3>1. Sec * (k + 1) <= Sec * q BY <2>3, SessionFacts
      <3>. QED BY <3>1, <2>2, <2>3, <2>4, <2>5, SessionFacts
    <2>8. q = k BY <2>3, <2>6, <2>7
    <2>. QED BY <2>8 DEF q, z
  <1>2. ASSUME NEW x \in 0 .. Sec - 1 PROVE x \div Sec = 0
    <2>1. x + 0 * Sec = x BY SessionFacts
    <2>. QED BY <2>1, <1>1
  <1>3. ASSUME NEW x \in 0 .. Sec - 1
        PROVE  (x + Lease * Sec) \div Sec = Lease
    BY <1>1, SessionFacts
  <1>4. (Lease * Sec) \div Sec = Lease
    <2>1. 0 + Lease * Sec = Lease * Sec /\ 0 \in 0 .. Sec - 1 BY SessionFacts
    <2>. QED BY <2>1, <1>3
  <1>. QED BY <1>2, <1>3, <1>4
----------------------------------------------------------------------------
(* The pieces that the steps are put together from.                        *)

\* The server of the innermost call is one, and so is every leader.
LEMMA ServersOfCall ==
    ASSUME SessionTypeOK
    PROVE  /\ Calling => Top \in Server /\ Len(frames) \in Nat \ {0}
           /\ \A s \in Server : LeaderOf(s) \in Server
           /\ \A s \in Server : <<s>> \in Seq(Server) /\ <<s>> # <<>>
           /\ <<>> \in Seq(Server)
           /\ Nobody \notin Server /\ NoEntry \notin Nat
  <1>1. ASSUME Calling PROVE Top \in Server /\ Len(frames) \in Nat \ {0}
    <2>1. frames \in Seq(Server) /\ frames # <<>>
      BY <1>1 DEF SessionTypeOK, Calling
    <2>2. Len(frames) \in Nat \ {0} BY <2>1, EmptySeq
    <2>. QED BY <2>1, <2>2, ElementOfSeq DEF Top
  <1>2. ASSUME NEW s \in Server PROVE LeaderOf(s) \in Server
    <2>1. view[s] \in Nat BY DEF SessionTypeOK
    <2>. QED BY <2>1, SessionFacts DEF LeaderOf, Server
  <1>. QED BY <1>1, <1>2, SessionFacts DEF Server, Nobody, NoEntry

\* What is left of an entry, and the seconds the client is told of it.
LEMMA TimeLeftType ==
    ASSUME SessionTypeOK, NEW s \in Server
    PROVE  /\ TimeLeft(s) \in 0 .. Lease * Sec
           /\ lease[s] # NoEntry =>
                /\ lease[s] \in 0 .. Lease * Sec
                /\ (tick + lease[s]) \div Sec \in 0 .. Lease
           /\ SecondsLeft(s) \in LongAgo .. Lease
           /\ SecondsLeft(s) > 0 =>
                /\ lease[s] # NoEntry
                /\ SecondsLeft(s) = (tick + lease[s]) \div Sec
  <1>1. lease[s] \in {NoEntry} \cup 0 .. Lease * Sec /\ tick \in 0 .. Sec - 1
    BY DEF SessionTypeOK
  <1>2. ASSUME lease[s] # NoEntry
        PROVE  (tick + lease[s]) \div Sec \in 0 .. Lease
    <2>1. lease[s] \in 0 .. Lease * Sec BY <1>1, <1>2
    <2>2. /\ tick + lease[s] \in Nat /\ tick + Lease * Sec \in Nat
          /\ tick + lease[s] <= tick + Lease * Sec
      BY <1>1, <2>1, SessionFacts
    <2>3. (tick + lease[s]) \div Sec <= (tick + Lease * Sec) \div Sec
      BY <2>2, SecondsGrow
    <2>4. (tick + Lease * Sec) \div Sec = Lease BY <1>1, WholeSeconds
    <2>5. (tick + lease[s]) \div Sec \in Nat BY <2>2, SecondsOf
    <2>. QED BY <2>3, <2>4, <2>5, SessionFacts
  <1>3. TimeLeft(s) \in 0 .. Lease * Sec BY <1>1, SessionFacts DEF TimeLeft
  <1>4. CASE lease[s] = NoEntry
    <2>1. SecondsLeft(s) = LongAgo BY <1>4 DEF SecondsLeft
    <2>. QED BY <2>1, <1>3, <1>4, SessionFacts
  <1>5. CASE lease[s] # NoEntry
    <2>1. SecondsLeft(s) = (tick + lease[s]) \div Sec BY <1>5 DEF SecondsLeft
    <2>2. lease[s] \in 0 .. Lease * Sec BY <1>1, <1>5
    <2>. HIDE DEF SecondsLeft
    <2>3. SecondsLeft(s) \in LongAgo .. Lease
      BY <2>1, <1>2, <1>5, SessionFacts
    <2>. QED BY <2>1, <2>2, <2>3, <1>2, <1>3, <1>5
  <1>. QED BY <1>4, <1>5

LEMMA TypeInitially == SessionInit => SessionTypeOK
  BY SessionFacts, EmptySeq
     DEF SessionInit, SessionTypeOK, SessionAssumption, NoEntry, Nobody,
         LongAgo

LEMMA TypeOfClient ==
    ASSUME SessionTypeOK, ClientStep
    PROVE  SessionTypeOK'
  <1>1. CASE Open
    BY <1>1, SessionFacts
       DEF Open, SessionTypeOK, serverVars, callVars
  <1>2. CASE CallAgain
    BY <1>2 DEF CallAgain, SessionTypeOK, serverVars, clientVars, callVars
  <1>3. CASE LoopHead
    <2>1. current_leader \in Server BY DEF SessionTypeOK
    <2>2. ASSUME NEW s \in Server, Send(s)
          PROVE  frames' \in Seq(Server) /\ stage' = "enter" /\ wait' = 0
      BY <2>2, ServersOfCall DEF Send
    <2>3. /\ frames' \in Seq(Server) /\ stage' \in {"enter", "none"}
          /\ wait' = 0 /\ pc' \in {"idle", "renewing", "rescuing"}
          /\ accept_requests' \in BOOLEAN
      <3>1. accept_requests \in BOOLEAN BY DEF SessionTypeOK
      <3>. QED BY <1>3, <2>1, <2>2, <3>1, ServersOfCall
               DEF LoopHead, AskAnyServer, Return
    <2>4. UNCHANGED <<tick, serverVars, lease, lease_left, current_leader,
                      latest_epoch_number, granted_by, nap, asked>>
      BY <1>3 DEF LoopHead
    <2>. QED BY <2>3, <2>4, SessionFacts DEF SessionTypeOK, serverVars
  <1>4. CASE Awake
    BY <1>4 DEF Awake, SessionTypeOK, serverVars, clientVars, callVars
  <1>5. CASE CallFails
    BY <1>5, SessionFacts, ServersOfCall
       DEF CallFails, SessionTypeOK, serverVars, clientVars
  <1>. QED BY <1>1, <1>2, <1>3, <1>4, <1>5 DEF ClientStep

LEMMA TypeOfHandler ==
    ASSUME SessionTypeOK, HandlerStep
    PROVE  SessionTypeOK'
  <1>. USE DEF serverVars, clientVars, callVars
  <1>0. Calling => Top \in Server /\ Len(frames) \in Nat \ {0}
    BY ServersOfCall
  <1>1. CASE Enter
    <2>1. Top \in Server BY <1>0, <1>1 DEF Enter
    <2>2. Append(frames, LeaderOf(Top)) \in Seq(Server)
      BY <2>1, ServersOfCall, AppendProperties DEF SessionTypeOK
    <2>3. frames' \in Seq(Server) /\ stage' \in {"enter", "begin"}
      BY <1>1, <2>2 DEF Enter, SessionTypeOK
    <2>. QED BY <1>1, <2>3 DEF Enter, SessionTypeOK
  <1>2. CASE Begin
    <2>1. Top \in Server BY <1>0, <1>2 DEF Begin
    <2>2. TimeLeft(Top) \in 0 .. Lease * Sec BY <2>1, TimeLeftType
    <2>3. wait' \in 0 .. Lease * Sec BY <1>2, <2>2, SessionFacts DEF Begin
    <2>4. lease' \in [Server -> {NoEntry} \cup 0 .. Lease * Sec]
      BY <1>2, <2>2 DEF Begin, SessionTypeOK
    <2>. QED BY <1>2, <2>3, <2>4 DEF Begin, SessionTypeOK
  <1>3. CASE Renew
    <2>1. Lease * Sec \in 0 .. Lease * Sec BY SessionFacts
    <2>2. lease' \in [Server -> {NoEntry} \cup 0 .. Lease * Sec]
      BY <1>3, <2>1 DEF Renew, SessionTypeOK
    <2>. QED BY <1>3, <2>2, SessionFacts DEF Renew, SessionTypeOK
  <1>4. CASE AnswerServer
    <2>1. Top \in Server /\ Len(frames) \in Nat /\ Len(frames) > 1
      BY <1>0, <1>4 DEF AnswerServer
    <2>2. TimeLeft(Top) \in 0 .. Lease * Sec BY <2>1, TimeLeftType
    <2>3. lease' \in [Server -> {NoEntry} \cup 0 .. Lease * Sec]
      BY <1>4, <2>2 DEF AnswerServer, Reread, SessionTypeOK
    <2>4. \A i \in 1 .. Len(frames) - 1 : frames[i] \in Server
      BY <2>1, ElementOfSeq DEF SessionTypeOK
    <2>5. SubSeq(frames, 1, Len(frames) - 1) \in Seq(Server)
      BY <2>1, <2>4, SubSeqProperties
    <2>. QED BY <1>4, <2>3, <2>5 DEF AnswerServer, SessionTypeOK
  <1>5. CASE AnswerClient
    <2>1. Top \in Server BY <1>0, <1>5 DEF AnswerClient
    <2>2. TimeLeft(Top) \in 0 .. Lease * Sec /\ SecondsLeft(Top) \in LongAgo .. Lease
      BY <2>1, TimeLeftType
    <2>3. lease' \in [Server -> {NoEntry} \cup 0 .. Lease * Sec]
      BY <1>5, <2>2 DEF AnswerClient, Reread, SessionTypeOK
    <2>4. UNCHANGED <<tick, serverVars, nap, asked>> BY <1>5 DEF AnswerClient
    <2>5. CASE view[Top] > latest_epoch_number
      <3>1. ~ view[Top] <= latest_epoch_number
        BY <2>1, <2>5 DEF SessionTypeOK
      <3>2. latest_epoch_number' \in Nat
        BY <1>5, <2>1, <3>1 DEF AnswerClient, NoteEpoch, SessionTypeOK
      <3>3. \E s \in Server : Send(s) \/ Return
        BY <1>5, <3>1, SessionFacts
           DEF AnswerClient, AskAnyServer, SessionTypeOK
      <3>4. frames' \in Seq(Server) /\ stage' \in {"enter", "none"} /\ wait' = 0
        BY <3>3, ServersOfCall DEF Send, Return
      <3>5. pc' \in {"renewing", "rescuing", "idle"}
        BY <1>5, <3>1 DEF AnswerClient, AskAnyServer, Return
      <3>6. UNCHANGED <<lease_left, accept_requests, current_leader, granted_by>>
        BY <1>5, <3>1 DEF AnswerClient
      <3>. QED BY <2>3, <2>4, <3>2, <3>4, <3>5, <3>6, SessionFacts
               DEF SessionTypeOK
    <2>6. CASE ~ view[Top] > latest_epoch_number
      <3>1. /\ lease_left' = SecondsLeft(Top) /\ accept_requests' = TRUE
            /\ current_leader' = IF pc = "rescuing" THEN Top ELSE current_leader
            /\ granted_by' = IF lease_left' > 0 THEN Top ELSE Nobody
            /\ Return /\ UNCHANGED latest_epoch_number
        BY <1>5, <2>6 DEF AnswerClient
      <3>2. current_leader' \in Server /\ granted_by' \in Server \cup {Nobody}
        BY <3>1, <2>1 DEF SessionTypeOK
      <3>3. /\ frames' \in Seq(Server) /\ stage' = "none" /\ wait' = 0
            /\ pc' = "idle"
        BY <3>1, ServersOfCall DEF Return
      <3>4. lease_left' \in LongAgo .. Lease /\ accept_requests' \in BOOLEAN
        BY <3>1, <2>2
      <3>. HIDE DEF Return
      <3>. QED BY <2>3, <2>4, <3>1, <3>2, <3>3, <3>4, SessionFacts
               DEF SessionTypeOK
    <2>. QED BY <2>5, <2>6
  <1>. QED BY <1>1, <1>2, <1>3, <1>4, <1>5 DEF HandlerStep

LEMMA TypeOfEnvironment ==
    ASSUME SessionTypeOK,
           \/ Ask \/ Told \/ AskFails \/ Tick
           \/ \E s \in Server : \/ ExpireLease(s) \/ MoveView(s)
                                \/ SuspectLeader(s) \/ Crash(s) \/ Restart(s)
    PROVE  SessionTypeOK'
  <1>. USE DEF serverVars, clientVars, callVars
  <1>1. CASE Ask BY <1>1 DEF Ask, SessionTypeOK
  <1>2. CASE Told
    <2>1. asked \in Server BY <1>2 DEF Told, SessionTypeOK
    <2>2. current_leader' \in Server BY <1>2, <2>1, ServersOfCall DEF Told
    <2>. QED BY <1>2, <2>2 DEF Told, SessionTypeOK
  <1>3. CASE AskFails BY <1>3 DEF AskFails, SessionTypeOK
  <1>4. CASE Tick
    <2>1. tick' \in 0 .. Sec - 1
      BY <1>4, SessionFacts DEF Tick, SessionTypeOK
    <2>3. lease' \in [Server -> {NoEntry} \cup 0 .. Lease * Sec]
      <3>1. ASSUME NEW s \in Server
            PROVE  Less(lease[s], IF lease[s] = NoEntry THEN NoEntry ELSE 0)
                     \in {NoEntry} \cup 0 .. Lease * Sec
        BY SessionFacts DEF SessionTypeOK, Less, NoEntry
      <3>. QED BY <1>4, <3>1 DEF Tick
    <2>4. lease_left' \in LongAgo .. Lease
      BY <1>4, SessionFacts DEF Tick, SessionTypeOK, Less
    <2>5. nap' \in 0 .. Sec /\ wait' \in 0 .. Lease * Sec
      BY <1>4, SessionFacts DEF Tick, SessionTypeOK, Less
    <2>6. granted_by' \in Server \cup {Nobody} BY <1>4 DEF Tick, SessionTypeOK
    <2>7. UNCHANGED <<serverVars, current_leader, latest_epoch_number, pc, asked,
                      accept_requests, frames, stage>>
      BY <1>4 DEF Tick
    <2>. QED BY <2>1, <2>3, <2>4, <2>5, <2>6, <2>7 DEF SessionTypeOK
  <1>5. ASSUME NEW s \in Server, ExpireLease(s) PROVE SessionTypeOK'
    BY <1>5 DEF ExpireLease, SessionTypeOK
  <1>6. ASSUME NEW s \in Server, MoveView(s) PROVE SessionTypeOK'
    <2>1. PICK v \in view[s] + 1 .. MaxView : view' = [view EXCEPT ![s] = v]
      BY <1>6 DEF MoveView
    <2>2. v \in Nat BY SessionAssumption DEF SessionTypeOK
    <2>. QED BY <1>6, <2>1, <2>2 DEF MoveView, SessionTypeOK
  <1>7. ASSUME NEW s \in Server, SuspectLeader(s) PROVE SessionTypeOK'
    BY <1>7 DEF SuspectLeader, SessionTypeOK
  <1>8. ASSUME NEW s \in Server, Crash(s) PROVE SessionTypeOK'
    BY <1>8 DEF Crash, SessionTypeOK
  <1>9. ASSUME NEW s \in Server, Restart(s) PROVE SessionTypeOK'
    <2>1. PICK v \in Fresh : view' = [view EXCEPT ![s] = v]
      BY <1>9 DEF Restart
    <2>2. v \in Nat BY SessionAssumption
    <2>. QED BY <1>9, <2>1, <2>2 DEF Restart, SessionTypeOK
  <1>. QED BY <1>1, <1>2, <1>3, <1>4, <1>5, <1>6, <1>7, <1>8, <1>9

LEMMA TypeOfStep == SessionTypeOK /\ [SessionNext]_sessionVars => SessionTypeOK'
  <1>1. ASSUME SessionTypeOK, UNCHANGED sessionVars PROVE SessionTypeOK'
    BY <1>1 DEF SessionTypeOK, sessionVars, serverVars, clientVars, callVars
  <1>. QED BY <1>1, TypeOfClient, TypeOfHandler, TypeOfEnvironment
           DEF SessionNext
----------------------------------------------------------------------------
(* The session of the client and its place in the loop.                    *)

THEOREM SessionTypeCorrect == SessionSpec => []SessionTypeOK
  <1>. QED BY TypeInitially, TypeOfStep, PTL DEF SessionSpec

\* A call is made from the loop, and when the loop is left there is none.
LEMMA CallsStep ==
    ASSUME SessionTypeOK, CallsFromLoop, [SessionNext]_sessionVars
    PROVE  CallsFromLoop'
  <1>1. ASSUME Return PROVE ~ Calling' BY <1>1 DEF Return, Calling
  <1>2. ASSUME UNCHANGED <<pc, frames>> PROVE CallsFromLoop'
    BY <1>2 DEF CallsFromLoop, Calling
  <1>3. CASE ClientStep
    <2>1. CASE Open BY <2>1 DEF Open, callVars, CallsFromLoop, Calling
    <2>2. CASE CallAgain
      BY <2>2 DEF CallAgain, callVars, CallsFromLoop, Calling
    <2>3. CASE LoopHead
      BY <2>3, <1>1 DEF LoopHead, AskAnyServer, CallsFromLoop
    <2>4. CASE Awake BY <2>4 DEF Awake, callVars, CallsFromLoop, Calling
    <2>5. CASE CallFails BY <2>5 DEF CallFails, CallsFromLoop, Calling
    <2>. QED BY <1>3, <2>1, <2>2, <2>3, <2>4, <2>5 DEF ClientStep
  <1>4. CASE Enter \/ Begin \/ Renew \/ AnswerServer
    BY <1>4 DEF Enter, Begin, Renew, AnswerServer, CallsFromLoop
  <1>5. CASE AnswerClient
    BY <1>5, <1>1 DEF AnswerClient, AskAnyServer, CallsFromLoop
  <1>6. CASE \/ Ask \/ Told \/ AskFails \/ Tick
             \/ \E s \in Server : \/ ExpireLease(s) \/ MoveView(s)
                                  \/ SuspectLeader(s) \/ Crash(s) \/ Restart(s)
    BY <1>6, <1>2
       DEF Ask, Told, AskFails, Tick, ExpireLease, MoveView, SuspectLeader,
           Crash, Restart, callVars
  <1>7. CASE UNCHANGED sessionVars BY <1>7, <1>2 DEF sessionVars, callVars
  <1>. QED BY <1>3, <1>4, <1>5, <1>6, <1>7 DEF SessionNext, HandlerStep

LEMMA BeforeOpenStep ==
    ASSUME CallsFromLoop, NobodyBeforeOpen, [SessionNext]_sessionVars
    PROVE  NobodyBeforeOpen'
  <1>1. ASSUME UNCHANGED <<pc, granted_by>> PROVE NobodyBeforeOpen'
    BY <1>1 DEF NobodyBeforeOpen
  <1>2. CASE ClientStep
    BY <1>2 DEF ClientStep, Open, CallAgain, LoopHead, AskAnyServer, Return,
                Awake, CallFails, NobodyBeforeOpen
  <1>3. CASE Enter \/ Begin \/ Renew \/ AnswerServer
    BY <1>3, <1>1 DEF Enter, Begin, Renew, AnswerServer, clientVars
  <1>4. CASE AnswerClient
    BY <1>4 DEF AnswerClient, AskAnyServer, Return, CallsFromLoop,
                NobodyBeforeOpen
  <1>5. CASE Ask \/ Told \/ AskFails
    BY <1>5, <1>1 DEF Ask, Told, AskFails, clientVars
  <1>6. CASE Tick BY <1>6 DEF Tick, NobodyBeforeOpen
  <1>7. ASSUME NEW s \in Server,
               \/ ExpireLease(s) \/ MoveView(s) \/ SuspectLeader(s)
               \/ Crash(s) \/ Restart(s)
        PROVE  NobodyBeforeOpen'
    BY <1>7 DEF ExpireLease, MoveView, SuspectLeader, Crash, Restart,
                clientVars, NobodyBeforeOpen
  <1>8. CASE UNCHANGED sessionVars
    BY <1>8, <1>1 DEF sessionVars, clientVars
  <1>. QED BY <1>2, <1>3, <1>4, <1>5, <1>6, <1>7, <1>8
           DEF SessionNext, HandlerStep
----------------------------------------------------------------------------
(* The client's lease and the server's.                                    *)

\* What a step must leave of a granted lease: the client's share of it does
\* not grow, the server's entry and the clock do not change.
KeepsLease ==
    /\ tick' = tick
    /\ granted_by' # Nobody /\ lease_left' > 0 =>
         /\ granted_by' = granted_by /\ lease_left' = lease_left
         /\ lease'[granted_by] = lease[granted_by]

LEMMA BackedIfKept ==
    ASSUME SessionBacked, KeepsLease
    PROVE  SessionBacked'
  BY DEF SessionBacked, KeepsLease

\* Reading a lease from the map changes no entry that is there.
LEMMA RereadKeeps ==
    ASSUME SessionTypeOK, SessionBacked, Calling, granted_by # Nobody,
           lease_left > 0, lease' = [lease EXCEPT ![Top] = TimeLeft(Top)]
    PROVE  lease'[granted_by] = lease[granted_by]
  <1>1. granted_by \in Server /\ Top \in Server
    BY ServersOfCall DEF SessionTypeOK
  <1>2. lease[granted_by] # NoEntry BY DEF SessionBacked
  <1>. QED BY <1>1, <1>2 DEF TimeLeft, SessionTypeOK

\* An answer gives the client what is left of the lease, rounded down.
LEMMA AnswerBacked ==
    ASSUME SessionTypeOK, SessionBacked, AnswerClient
    PROVE  SessionBacked'
  <1>1. Top \in Server /\ Calling /\ tick' = tick
        /\ lease' = [lease EXCEPT ![Top] = TimeLeft(Top)]
    BY ServersOfCall DEF AnswerClient, Reread
  <1>2. CASE UNCHANGED <<lease_left, accept_requests, current_leader, granted_by>>
    <2>1. KeepsLease BY <1>1, <1>2, RereadKeeps DEF KeepsLease
    <2>. QED BY <2>1, BackedIfKept
  <1>3. CASE /\ lease_left' = SecondsLeft(Top)
             /\ granted_by' = IF lease_left' > 0 THEN Top ELSE Nobody
    <2>. SUFFICES ASSUME granted_by' # Nobody, lease_left' > 0
                  PROVE  /\ lease'[granted_by'] # NoEntry
                         /\ (tick' + lease'[granted_by']) \div Sec >= lease_left'
      BY DEF SessionBacked
    <2>1. granted_by' = Top BY <1>3
    <2>2. /\ lease[Top] # NoEntry
          /\ lease_left' = (tick + lease[Top]) \div Sec
          /\ (tick + lease[Top]) \div Sec \in Nat
      BY <1>1, <1>3, TimeLeftType
    <2>3. lease'[Top] = lease[Top]
      BY <1>1, <2>2 DEF TimeLeft, SessionTypeOK
    <2>. QED BY <1>1, <2>1, <2>2, <2>3
  <1>. QED BY <1>2, <1>3 DEF AnswerClient

\* A second begins for both when it begins: where the tick takes one from the
\* client it takes what is left of the server's second with it.
LEMMA TickBacked ==
    ASSUME SessionTypeOK, SessionBacked, Tick
    PROVE  SessionBacked'
  <1>. SUFFICES ASSUME granted_by' # Nobody, lease_left' > 0
                PROVE  /\ lease'[granted_by'] # NoEntry
                       /\ (tick' + lease'[granted_by']) \div Sec >= lease_left'
    BY DEF SessionBacked
  <1>. DEFINE g == granted_by  t == lease[g]
  <1>1. /\ tick \in 0 .. Sec - 1 /\ lease_left \in LongAgo .. Lease
        /\ granted_by' = g /\ g \in Server
    BY DEF Tick, SessionTypeOK
  <1>2. lease_left > 0 /\ lease_left' = (IF tick + 1 = Sec THEN lease_left - 1
                                         ELSE lease_left)
    BY <1>1, SessionFacts DEF Tick, Less
  <1>3. /\ t \in 0 .. Lease * Sec /\ t # NoEntry
        /\ (tick + t) \div Sec \in Nat /\ (tick + t) \div Sec >= lease_left
    <2>1. t # NoEntry /\ (tick + t) \div Sec >= lease_left
      BY <1>1, <1>2 DEF SessionBacked
    <2>. QED BY <1>1, <2>1, TimeLeftType
  <1>4. t > 0
    <2>. SUFFICES ASSUME t = 0 PROVE FALSE BY <1>3, SessionFacts
    <2>1. (tick + t) \div Sec = 0 BY <1>1, WholeSeconds
    <2>. QED BY <2>1, <1>1, <1>2, <1>3, SessionFacts
  <1>5. lease'[g] = t - 1 /\ t - 1 \in Nat
    <2>1. lease'[g] = Less(lease[g], IF lease[g] = NoEntry THEN NoEntry ELSE 0)
      BY <1>1 DEF Tick
    <2>. QED BY <2>1, <1>3, <1>4, SessionFacts DEF Less
  <1>. HIDE DEF t
  <1>6. CASE tick + 1 = Sec
    <2>1. tick' = 0
      <3>1. tick' = Sec % Sec BY <1>6 DEF Tick
      <3>. QED BY <3>1, SessionFacts
    <2>2. tick + t = (t - 1) + Sec BY <1>1, <1>3, <1>6, SessionFacts
    <2>3. (tick + t) \div Sec = (t - 1) \div Sec + 1 BY <1>5, <2>2, SecondLater
    <2>4. (t - 1) \div Sec \in Nat BY <1>5, SecondsOf
    <2>5. (t - 1) \div Sec >= lease_left - 1 BY <1>1, <1>3, <2>3, <2>4, SessionFacts
    <2>6. tick' + lease'[granted_by'] = t - 1 BY <1>1, <1>3, <1>5, <2>1, SessionFacts
    <2>7. lease'[granted_by'] # NoEntry BY <1>1, <1>5 DEF NoEntry
    <2>. QED BY <1>2, <1>6, <2>5, <2>6, <2>7
  <1>7. CASE tick + 1 # Sec
    <2>1. tick' = tick + 1
      <3>1. tick + 1 \in 0 .. Sec - 1 BY <1>1, <1>7, SessionFacts
      <3>2. (tick + 1) % Sec = tick + 1 BY <3>1, SessionFacts
      <3>. QED BY <3>2 DEF Tick
    <2>2. tick' + lease'[granted_by'] = tick + t
      BY <1>1, <1>3, <1>5, <2>1, SessionFacts
    <2>3. lease'[granted_by'] # NoEntry BY <1>1, <1>5 DEF NoEntry
    <2>. QED BY <1>2, <1>3, <1>7, <2>2, <2>3
  <1>. QED BY <1>6, <1>7

\* A new lease is as long as any.
LEMMA RenewBacked ==
    ASSUME SessionTypeOK, SessionBacked, Renew
    PROVE  SessionBacked'
  <1>. SUFFICES ASSUME granted_by' # Nobody, lease_left' > 0
                PROVE  /\ lease'[granted_by'] # NoEntry
                       /\ (tick' + lease'[granted_by']) \div Sec >= lease_left'
    BY DEF SessionBacked
  <1>1. /\ Top \in Server /\ UNCHANGED <<tick, lease_left, granted_by>>
        /\ lease' = [lease EXCEPT ![Top] = Lease * Sec]
        /\ granted_by \in Server /\ tick \in 0 .. Sec - 1
        /\ lease_left \in LongAgo .. Lease
    BY ServersOfCall DEF Renew, clientVars, SessionTypeOK
  <1>2. /\ lease[granted_by] # NoEntry
        /\ (tick + lease[granted_by]) \div Sec >= lease_left
    BY <1>1 DEF SessionBacked
  <1>3. CASE granted_by = Top
    <2>1. lease'[granted_by'] = Lease * Sec BY <1>1, <1>3 DEF SessionTypeOK
    <2>2. (tick' + Lease * Sec) \div Sec = Lease BY <1>1, WholeSeconds
    <2>. QED BY <1>1, <2>1, <2>2, SessionFacts DEF NoEntry
  <1>4. CASE granted_by # Top
    <2>1. lease'[granted_by'] = lease[granted_by]
      BY <1>1, <1>4 DEF SessionTypeOK
    <2>. QED BY <1>1, <1>2, <2>1
  <1>. QED BY <1>3, <1>4

\* An entry that backs a lease has not run out, so it is not dropped.
LEMMA ExpiryBacked ==
    ASSUME SessionTypeOK, SessionBacked, NEW s \in Server, ExpireLease(s)
    PROVE  SessionBacked'
  <1>. SUFFICES KeepsLease BY BackedIfKept
  <1>1. /\ UNCHANGED <<tick, lease_left, granted_by>> /\ lease[s] = 0
        /\ lease' = [lease EXCEPT ![s] = NoEntry]
        /\ tick \in 0 .. Sec - 1 /\ lease_left \in LongAgo .. Lease
    BY DEF ExpireLease, clientVars, SessionTypeOK
  <1>2. ASSUME granted_by # Nobody, lease_left > 0 PROVE granted_by # s
    <2>. SUFFICES ASSUME granted_by = s PROVE FALSE OBVIOUS
    <2>1. (tick + lease[s]) \div Sec >= lease_left BY <1>2 DEF SessionBacked
    <2>2. (tick + lease[s]) \div Sec = 0 BY <1>1, WholeSeconds
    <2>. QED BY <1>1, <1>2, <2>1, <2>2, SessionFacts
  <1>3. ASSUME granted_by # Nobody, lease_left > 0
        PROVE  lease'[granted_by] = lease[granted_by]
    <2>1. granted_by \in Server BY <1>3 DEF SessionTypeOK
    <2>. QED BY <1>1, <1>2, <1>3, <2>1 DEF SessionTypeOK
  <1>. QED BY <1>1, <1>3 DEF KeepsLease

LEMMA BackedStep ==
    ASSUME SessionInv, [SessionNext]_sessionVars
    PROVE  SessionBacked'
  <1>. USE DEF SessionInv
  <1>1. ASSUME UNCHANGED <<tick, lease, lease_left, granted_by>>
        PROVE  SessionBacked'
    BY <1>1 DEF SessionBacked
  <1>2. CASE Open
    <2>1. granted_by' = Nobody BY <1>2 DEF Open, NobodyBeforeOpen
    <2>. QED BY <2>1 DEF SessionBacked
  <1>3. CASE CallAgain \/ LoopHead \/ Awake \/ CallFails \/ Enter
    BY <1>3, <1>1 DEF CallAgain, LoopHead, Awake, CallFails, Enter, clientVars
  <1>4. CASE Begin \/ AnswerServer
    <2>1. /\ Calling /\ lease' = [lease EXCEPT ![Top] = TimeLeft(Top)]
          /\ UNCHANGED <<tick, lease_left, granted_by>>
      BY <1>4 DEF Begin, AnswerServer, Reread, clientVars
    <2>2. KeepsLease BY <2>1, RereadKeeps DEF KeepsLease
    <2>. QED BY <2>2, BackedIfKept
  <1>5. CASE Ask \/ Told \/ AskFails
    BY <1>5, <1>1 DEF Ask, Told, AskFails, clientVars
  <1>6. ASSUME NEW s \in Server, MoveView(s) \/ SuspectLeader(s) \/ Restart(s)
        PROVE  SessionBacked'
    BY <1>6, <1>1 DEF MoveView, SuspectLeader, Restart, clientVars
  <1>7. ASSUME NEW s \in Server, Crash(s) PROVE SessionBacked'
    <2>1. /\ UNCHANGED <<tick, lease_left>>
          /\ lease' = [lease EXCEPT ![s] = NoEntry]
          /\ granted_by' = IF granted_by = s THEN Nobody ELSE granted_by
      BY <1>7 DEF Crash
    <2>2. ASSUME granted_by' # Nobody
          PROVE  /\ granted_by' = granted_by
                 /\ lease'[granted_by] = lease[granted_by]
      BY <2>1, <2>2 DEF SessionTypeOK
    <2>3. KeepsLease BY <2>1, <2>2 DEF KeepsLease
    <2>. QED BY <2>3, BackedIfKept
  <1>8. CASE UNCHANGED sessionVars BY <1>8, <1>1 DEF sessionVars, clientVars
  <1>. QED BY <1>2, <1>3, <1>4, <1>5, <1>6, <1>7, <1>8, AnswerBacked,
              RenewBacked, TickBacked, ExpiryBacked
           DEF SessionNext, ClientStep, HandlerStep

\* As long as the client has a lease that a living process granted, that
\* process has the session, for at least as many seconds: whatever the rest of
\* the calls, the checker, other servers and the rounding of time do.
THEOREM LeasesAreBacked == SessionSpec => []SessionBacked
  <1>1. SessionInit => SessionInv
    BY TypeInitially
       DEF SessionInit, SessionInv, CallsFromLoop, NobodyBeforeOpen,
           SessionBacked, Calling
  <1>2. SessionInv /\ [SessionNext]_sessionVars => SessionInv'
    BY TypeOfStep, CallsStep, BeforeOpenStep, BackedStep DEF SessionInv
  <1>3. SessionInv => SessionBacked BY DEF SessionInv
  <1>. QED BY <1>1, <1>2, <1>3, PTL DEF SessionSpec
----------------------------------------------------------------------------
(* The end of a session.                                                   *)

LEMMA EndIsFinalStep ==
    ASSUME SessionTypeOK, CallsFromLoop, [SessionNext]_sessionVars, Ended
    PROVE  Ended'
  <1>1. /\ pc \in {"idle", "head"} /\ lease_left <= -Grace
        /\ lease_left \in LongAgo .. Lease /\ ~ Calling
    BY DEF Ended, CallsFromLoop, SessionTypeOK
  <1>2. ~ lease_left > 0 /\ ~ InGrace BY <1>1, SessionFacts DEF InGrace
  <1>3. ASSUME UNCHANGED <<pc, lease_left>> PROVE Ended'
    BY <1>3 DEF Ended
  <1>4. CASE ClientStep
    <2>1. ~ Open /\ ~ Awake /\ ~ CallFails BY <1>1 DEF Open, Awake, CallFails
    <2>2. CASE CallAgain BY <2>2, <1>1 DEF CallAgain, clientVars, Ended
    <2>3. CASE LoopHead BY <2>3, <1>1, <1>2 DEF LoopHead, Return, Ended
    <2>. QED BY <1>4, <2>1, <2>2, <2>3 DEF ClientStep
  <1>5. ~ HandlerStep
    BY <1>1 DEF HandlerStep, Enter, Begin, Renew, AnswerServer, AnswerClient
  <1>6. CASE Tick
    <2>1. lease_left' <= -Grace /\ pc' = pc
      BY <1>1, <1>6, SessionFacts DEF Tick, Less
    <2>. QED BY <2>1, <1>1 DEF Ended
  <1>7. CASE \/ Ask \/ Told \/ AskFails
             \/ \E s \in Server : \/ ExpireLease(s) \/ MoveView(s)
                                  \/ SuspectLeader(s) \/ Crash(s) \/ Restart(s)
    BY <1>7, <1>3 DEF Ask, Told, AskFails, ExpireLease, MoveView,
                      SuspectLeader, Crash, Restart, clientVars
  <1>8. CASE UNCHANGED sessionVars BY <1>8, <1>3 DEF sessionVars, clientVars
  <1>. QED BY <1>4, <1>5, <1>6, <1>7, <1>8 DEF SessionNext

\* Once the grace period is over and no call is under way, nothing a server, the
\* loop or another thread does gives the client its session back.
THEOREM SessionsEndForGood == SessionSpec => SessionEndIsFinal
  <1>1. SessionInit => SessionTypeOK /\ CallsFromLoop
    BY TypeInitially DEF SessionInit, CallsFromLoop, Calling
  <1>2. SessionTypeOK /\ CallsFromLoop /\ [SessionNext]_sessionVars
          => (SessionTypeOK /\ CallsFromLoop)'
    BY TypeOfStep, CallsStep
  <1>3. SessionTypeOK /\ CallsFromLoop /\ [SessionNext]_sessionVars
          => [Ended => Ended']_<<pc, lease_left>>
    BY EndIsFinalStep
  <1>. QED BY <1>1, <1>2, <1>3, PTL DEF SessionSpec, SessionEndIsFinal
=============================================================================
