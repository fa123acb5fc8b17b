-------------------------- MODULE PaxosLogProofs --------------------------
(***************************************************************************)
(* The write-once log: while nobody suspects the leader and calls to live  *)
(* servers return, the slots of all servers together are what SlotLog      *)
(* promises, for any number of servers, requests and slots, with crashes   *)
(* of the leader and the others, forwarded requests and heartbeats that    *)
(* spread decisions in both directions.                                    *)
(* In the same conditions the leader's mutex is free between any two steps.*)
(***************************************************************************)
EXTENDS PaxosServerProofs

\* The view that all servers start in, and its leader.
StartView == CHOOSE v \in Fresh : TRUE
Leader == StartView % N

\* A call that proposes, or is about to.
Leading == {"read", "lock", "begin", "prepare", "accept", "learn"}

\* It has the slot locked; nothing is decided before the last of its phases.
Serving == {"begin", "prepare", "accept", "learn"}
Preparing == {"begin", "prepare", "accept"}

OneView == seen = {StartView} /\ elections = {}

\* Only the leader proposes, in the one view and with the slot locked, and no
\* acceptor has told it of a decision.
RoleOK(r, alive) ==
    /\ r.pc # "nested"
    /\ r.pc = "forward" => r.at # Leader
    /\ r.pc \in Leading => r.at = Leader /\ Leader \notin Discards
    /\ r.pc \in Leading \ {"read"} => r.my_view = StartView
    /\ r.pc \in {"start", "forward"} \cup Leading => ~r.dec
    /\ r.pc \in {"read", "lock", "begin"} => alive
    /\ r.pc \in Serving /\ alive => Leader \in r.locked

Roles == \A c \in Calls : RoleOK(calls[c], up[Leader])

\* No two calls serve one slot, also after the leader has died.
Alone ==
    \A c, d \in Calls :
      /\ calls[c].pc \in Serving /\ calls[d].pc \in Serving
      /\ calls[c].seq = calls[d].seq
      => c = d

\* Value v may come to be decided for slot q: some server has decided it, or a
\* call tells all servers to.  A decision of whatever value may be read without
\* its value.
Somewhere(q, v) ==
    \E s \in Server : /\ Decided(slots[s][q])
                      /\ slots[s][q].value = v \/ v = NoValue

Learning(q, v) ==
    \E c \in Calls : /\ calls[c].pc = "learn" /\ calls[c].seq = q
                     /\ calls[c].val = v \/ v = NoValue

Source(q, v) == Somewhere(q, v) \/ Learning(q, v)

OneSource ==
    \A q \in Seqs : \A v, w \in Calls : Source(q, v) /\ Source(q, w) => v = w

\* While a value is still looked for none is decided.
NotYet ==
    \A c \in Calls : calls[c].pc \in Preparing =>
      \A v \in Value : ~Source(calls[c].seq, v)

\* The leader is told first or last, but told: it knows each decision, or a
\* call for the slot is still about to tell it.
LeaderKnows ==
    up[Leader] =>
      \A q \in Seqs : \A v \in Value : Source(q, v) =>
        \/ Decided(slots[Leader][q])
        \/ \E w \in Value : Learning(q, w)

Waiting(r) == r.unsent \cup r.todo \cup r.inside

LeaderTold ==
    \A c \in Calls :
      calls[c].pc = "learn" /\ up[Leader] /\ Leader \notin Waiting(calls[c])
        => Decided(slots[Leader][calls[c].seq])

\* Heartbeats carry what some server has decided.
MessagesKnown ==
    \A s \in Server, q \in Seqs : \A v \in {hb_sent[s][q], hb_reply[s][q]} :
      v # Absent => Somewhere(q, v)

\* The inductive invariant, on top of PaxosInv.
LogInv == OneView /\ Roles /\ Alone /\ OneSource /\ NotYet /\ LeaderKnows
          /\ LeaderTold /\ MessagesKnown
----------------------------------------------------------------------------
(* What a step may do to calls and slots, and what this leaves true.       *)

SameDecision(s, q) ==
    /\ Decided(slots'[s][q]) <=> Decided(slots[s][q])
    /\ Decided(slots[s][q]) => slots'[s][q].value = slots[s][q].value

\* Server p may decide slots, and write the value of those that have none, by
\* values that have a source.
Extends(p) ==
    /\ \A s \in Server \ {p}, q \in Seqs : SameDecision(s, q)
    /\ \A q \in Seqs :
         \/ SameDecision(p, q)
         \/ /\ Decided(slots[p][q]) => slots[p][q].value = NoValue
            /\ Decided(slots'[p][q])
            /\ Source(q, slots'[p][q].value)

\* A call locks its slot, which the leader has not decided.
LocksSlot(r, new) ==
    /\ r.pc = "lock" /\ new.pc = "begin"
    /\ SlotMuFree(Leader, r.seq) /\ ~Decided(slots[Leader][r.seq])

\* What a call r may become.
Proceeds(r, new) ==
    /\ RoleOK(new, up'[Leader])
    /\ new.pc \in Serving =>
         /\ new.seq = r.seq
         /\ r.pc \in Serving \/ LocksSlot(r, new)
    /\ new.pc \in Preparing => r.pc # "learn"
    /\ new.pc = "learn" =>
         /\ r.pc \in {"accept", "learn"}
         /\ r.pc = "learn" => new.val = r.val
         /\ Leader \notin Waiting(new) /\ up'[Leader] =>
              /\ r.pc = "learn"
              /\ Leader \notin Waiting(r) \/ Decided(slots'[Leader][r.seq])
    /\ r.pc = "learn" /\ new.pc # "learn" /\ up'[Leader] =>
         Decided(slots[Leader][r.seq])

AllProceed ==
    /\ \A c \in Calls : Proceeds(calls[c], calls'[c])
    /\ \A c \in Calls : LocksSlot(calls[c], calls'[c]) =>
         \A d \in Calls \ {c} : calls'[d] = calls[d]

LEMMA LeaderFacts ==
    /\ StartView \in Fresh /\ StartView \in Nat /\ Leader \in Server
  <1>1. StartView \in Fresh BY ViewsAssumption DEF StartView
  <1>2. StartView \in Nat BY <1>1, ViewsAssumption
  <1>. QED BY <1>1, <1>2, DivMod DEF Leader, Server

\* The premises of a step.
Steps ==
    /\ TypesOK /\ Sound /\ LogInv
    /\ CallsAfter /\ SlotsKeep
    /\ AllProceed
    /\ \E p \in Server : Extends(p)
    /\ up'[Leader] => up[Leader]

LEMMA ServingBefore ==
    ASSUME Steps, NEW c \in Calls, calls[c].pc \in Serving
    PROVE  calls[c].seq \in Seqs
  BY CallFacts DEF Steps, Serving

LEMMA AloneAfter ==
    ASSUME Steps
    PROVE  Alone'
  <1>. SUFFICES ASSUME NEW c \in Calls, NEW d \in Calls,
                       calls'[c].pc \in Serving, calls'[d].pc \in Serving,
                       calls'[c].seq = calls'[d].seq, c # d
                PROVE  FALSE
    BY DEF Alone
  <1>1. /\ Proceeds(calls[c], calls'[c]) /\ Proceeds(calls[d], calls'[d])
        /\ RoleOK(calls[c], up[Leader]) /\ RoleOK(calls[d], up[Leader])
    BY DEF Steps, AllProceed, LogInv, Roles
  <1>2. calls[c].seq = calls[d].seq BY <1>1 DEF Proceeds
  <1>3. ASSUME NEW x \in Calls, NEW y \in Calls, x # y,
               LocksSlot(calls[x], calls'[x]), calls'[y].pc \in Serving,
               calls[x].seq = calls[y].seq
        PROVE  FALSE
    <2>1. calls'[y] = calls[y] BY <1>3 DEF Steps, AllProceed
    <2>2. up[Leader] BY <1>3 DEF LocksSlot, RoleOK, Steps, LogInv, Roles
    <2>3. Leader \in calls[y].locked
      BY <1>3, <2>1, <2>2 DEF RoleOK, Steps, LogInv, Roles
    <2>. QED BY <1>3, <2>3 DEF LocksSlot, SlotMuFree
  <1>4. calls[c].pc \in Serving /\ calls[d].pc \in Serving
    BY <1>1, <1>2, <1>3 DEF Proceeds
  <1>. QED BY <1>2, <1>4 DEF Steps, LogInv, Alone

\* Nothing has a source that had none, but for the value a call that has ended
\* its Accept phase begins to tell.
LEMMA SourceBefore ==
    ASSUME Steps, NEW q \in Seqs, NEW v \in Value, Source(q, v)'
    PROVE  \/ Source(q, v)
           \/ \E c \in Calls : /\ calls[c].pc = "accept" /\ calls'[c].pc = "learn"
                               /\ calls[c].seq = q
                               /\ calls'[c].val = v \/ v = NoValue
  <1>1. CASE Somewhere(q, v)'
    <2>1. PICK s \in Server : /\ Decided(slots'[s][q])
                              /\ slots'[s][q].value = v \/ v = NoValue
      BY <1>1 DEF Somewhere
    <2>2. \/ SameDecision(s, q)
          \/ Source(q, slots'[s][q].value)
      BY DEF Steps, Extends
    <2>3. CASE SameDecision(s, q)
      <3>1. Decided(slots[s][q]) BY <2>1, <2>3 DEF SameDecision
      <3>2. slots'[s][q].value = slots[s][q].value
        BY <2>3, <3>1 DEF SameDecision
      <3>. QED BY <2>1, <3>1, <3>2 DEF Source, Somewhere
    <2>4. CASE Source(q, slots'[s][q].value)
      BY <2>1, <2>4 DEF Source, Somewhere, Learning
    <2>. QED BY <2>2, <2>3, <2>4
  <1>2. CASE Learning(q, v)'
    <2>1. PICK c \in Calls : /\ calls'[c].pc = "learn" /\ calls'[c].seq = q
                             /\ calls'[c].val = v \/ v = NoValue
      BY <1>2 DEF Learning
    <2>2. /\ calls[c].seq = q /\ calls[c].pc \in {"accept", "learn"}
          /\ calls[c].pc = "learn" => calls'[c].val = calls[c].val
      BY <2>1 DEF Steps, AllProceed, Proceeds, Serving
    <2>3. CASE calls[c].pc = "accept" BY <2>1, <2>2, <2>3
    <2>4. CASE calls[c].pc = "learn"
      BY <2>1, <2>2, <2>4 DEF Source, Learning
    <2>. QED BY <2>2, <2>3, <2>4
  <1>. QED BY <1>1, <1>2 DEF Source

LEMMA OneSourceAfter ==
    ASSUME Steps
    PROVE  OneSource'
  <1>. SUFFICES ASSUME NEW q \in Seqs, NEW v \in Calls, NEW w \in Calls,
                       Source(q, v)', Source(q, w)'
                PROVE  v = w
    BY DEF OneSource
  <1>0. v \in Value /\ w \in Value /\ v # NoValue /\ w # NoValue
    BY PaxosAssumption DEF Value
  <1>. DEFINE New(c, x) == /\ calls[c].pc = "accept" /\ calls'[c].pc = "learn"
                           /\ calls[c].seq = q /\ calls'[c].val = x
  <1>1. Source(q, v) \/ \E c \in Calls : New(c, v) BY <1>0, SourceBefore
  <1>2. Source(q, w) \/ \E c \in Calls : New(c, w) BY <1>0, SourceBefore
  <1>3. ASSUME NEW c \in Calls, NEW x \in Calls, New(c, x)
        PROVE  ~Source(q, v) /\ ~Source(q, w)
    BY <1>0, <1>3 DEF Steps, LogInv, NotYet, Preparing
  <1>4. ASSUME NEW c \in Calls, New(c, v), NEW d \in Calls, New(d, w)
        PROVE  v = w
    BY <1>4 DEF Steps, LogInv, Alone, Serving
  <1>5. CASE Source(q, v) /\ Source(q, w)
    BY <1>5 DEF Steps, LogInv, OneSource
  <1>. QED BY <1>1, <1>2, <1>3, <1>4, <1>5

LEMMA NotYetAfter ==
    ASSUME Steps
    PROVE  NotYet'
  <1>. SUFFICES ASSUME NEW c \in Calls, calls'[c].pc \in Preparing,
                       NEW v \in Value, (Source(calls[c].seq, v))'
                PROVE  FALSE
    BY DEF NotYet
  <1>1. /\ Proceeds(calls[c], calls'[c]) /\ RoleOK(calls[c], up[Leader])
        /\ calls'[c].seq = calls[c].seq /\ calls[c].pc # "learn"
        /\ calls[c].pc \in Serving \/ LocksSlot(calls[c], calls'[c])
    BY DEF Steps, AllProceed, Proceeds, Serving, Preparing, LogInv, Roles
  <1>2. PICK q \in Seqs : q = calls[c].seq /\ q = calls'[c].seq
    BY <1>1, CallFacts DEF Steps, Serving, LocksSlot
  <1>3. Source(q, v)' BY <1>2 DEF Source, Somewhere, Learning
  <1>4. ~Source(q, v)
    <2>1. CASE calls[c].pc \in Serving
      BY <1>1, <1>2, <2>1 DEF Steps, LogInv, NotYet, Preparing, Serving
    <2>2. CASE LocksSlot(calls[c], calls'[c])
      <3>1. up[Leader] BY <1>1, <2>2 DEF RoleOK, LocksSlot
      <3>2. \A w \in Value : ~Learning(q, w)
        BY <1>2, <2>2, <3>1
        DEF Learning, LocksSlot, SlotMuFree, RoleOK, Steps, LogInv, Roles,
            Serving
      <3>. QED BY <1>2, <2>2, <3>1, <3>2 DEF Steps, LogInv, LeaderKnows, LocksSlot
    <2>. QED BY <1>1, <2>1, <2>2
  <1>5. PICK d \in Calls : /\ calls[d].pc = "accept" /\ calls'[d].pc = "learn"
                           /\ calls[d].seq = q
    BY <1>2, <1>3, <1>4, SourceBefore
  <1>6. calls'[d].seq = q
    BY <1>5 DEF Steps, AllProceed, Proceeds, Serving
  <1>7. c = d
    BY <1>2, <1>5, <1>6, AloneAfter DEF Alone, Serving, Preparing
  <1>. QED BY <1>5, <1>7 DEF Preparing

LEMMA DecidedStays ==
    ASSUME Steps, NEW s \in Server, NEW q \in Seqs, Decided(slots[s][q])
    PROVE  /\ Decided(slots'[s][q])
           /\ slots[s][q].value \in {NoValue, slots'[s][q].value}
  BY DEF Steps, SlotsKeep

LEMMA LeaderKnowsAfter ==
    ASSUME Steps
    PROVE  LeaderKnows'
  <1>. SUFFICES ASSUME up'[Leader], NEW q \in Seqs, NEW v \in Value,
                       Source(q, v)', ~Decided(slots'[Leader][q])
                PROVE  \E w \in Value : Learning(q, w)'
    BY DEF LeaderKnows
  <1>1. \A c \in Calls : calls'[c].val \in Value
    <2>1. \A c \in Calls : calls'[c] \in Call BY DEF Steps, CallsAfter
    <2>. QED BY <2>1, CallFields
  <1>2. CASE Source(q, v)
    <2>1. up[Leader] /\ ~Decided(slots[Leader][q])
      BY DecidedStays, LeaderFacts DEF Steps
    <2>2. PICK c \in Calls : calls[c].pc = "learn" /\ calls[c].seq = q
      BY <1>2, <2>1 DEF Steps, LogInv, LeaderKnows, Learning
    <2>3. calls'[c].pc = "learn" /\ calls'[c].seq = q
      BY <2>1, <2>2 DEF Steps, AllProceed, Proceeds, Serving
    <2>. QED BY <1>1, <2>3 DEF Learning
  <1>3. ASSUME NEW c \in Calls, calls'[c].pc = "learn", calls[c].seq = q
        PROVE  \E w \in Value : Learning(q, w)'
    <2>1. calls'[c].seq = q
      BY <1>3 DEF Steps, AllProceed, Proceeds, Serving
    <2>. QED BY <1>1, <1>3, <2>1 DEF Learning
  <1>. QED BY <1>2, <1>3, SourceBefore

LEMMA LeaderToldAfter ==
    ASSUME Steps
    PROVE  LeaderTold'
  <1>. SUFFICES ASSUME NEW c \in Calls, calls'[c].pc = "learn", up'[Leader],
                       Leader \notin Waiting(calls'[c])
                PROVE  Decided(slots'[Leader][calls'[c].seq])
    BY DEF LeaderTold, Waiting
  <1>1. /\ calls[c].pc = "learn" /\ calls'[c].seq = calls[c].seq
        /\ \/ Leader \notin Waiting(calls[c])
           \/ Decided(slots'[Leader][calls[c].seq])
        /\ up[Leader]
    BY DEF Steps, AllProceed, Proceeds, Serving
  <1>2. calls[c].seq \in Seqs BY <1>1, ServingBefore DEF Serving
  <1>. QED
    BY <1>1, <1>2, DecidedStays, LeaderFacts DEF Steps, LogInv, LeaderTold

\* Messages are made of decisions.
CarriesKnown ==
    \A s \in Server, q \in Seqs : \A v \in {hb_sent'[s][q], hb_reply'[s][q]} :
      v # Absent => Somewhere(q, v)

LEMMA MessagesKnownAfter ==
    ASSUME Steps, CarriesKnown
    PROVE  MessagesKnown'
  <1>1. ASSUME NEW q \in Seqs, NEW v, Somewhere(q, v)
        PROVE  Somewhere(q, v)'
    BY <1>1, DecidedStays DEF Somewhere
  <1>. QED BY <1>1 DEF CarriesKnown, MessagesKnown
----------------------------------------------------------------------------
(* What decisions a step makes.                                            *)

\* No step of one of the following lemmas decides more than a server has told.
SameDecisions == \A s \in Server, q \in Seqs : SameDecision(s, q)

LEMMA SameExtends == SameDecisions => \E p \in Server : Extends(p)
  BY LeaderFacts DEF SameDecisions, Extends

LEMMA AlikeDecisions ==
    ASSUME Alike(slots, slots')
    PROVE  SameDecisions
  BY DEF Alike, SameContents, SameDecisions, SameDecision, Decided

LEMMA AddSlotsDecision ==
    ASSUME NEW slot \in Slot, NEW v
    PROVE  /\ Decided(AddSlots(slot, v)) <=> Decided(slot)
           /\ Decided(slot) => AddSlots(slot, v).value = slot.value
           /\ AddSlots(slot, v) \in [status: {"NONE", "PENDING", "DECIDED"},
                                     value: Value, n: {slot.n, v}, n_p: Int,
                                     n_a: {v}, v_a: Value,
                                     highest_N: {slot.highest_N, v}]
  <1>1. NoSlot \in Slot /\ NoSlot.status = "NONE"
    BY DEF NoSlot, Slot, Value
  <1>2. CASE slot.status = "NONE"
    BY <1>1, <1>2 DEF AddSlots, InitSlot, NoSlot, Slot, Decided
  <1>3. CASE slot.status # "NONE"
    BY <1>3 DEF AddSlots, Slot, Decided
  <1>. QED BY <1>2, <1>3

LEMMA VisitDecisions ==
    ASSUME TypesOK, NEW s \in Server, NEW q \in Seqs, Visit(s, q)
    PROVE  SameDecisions
  <1>. DEFINE new == AddSlots(slots[s][q], view[s])
  <1>1. slots \in [Server -> [Seqs -> Slot]] BY DEF TypesOK, PaxosTypeOK
  <1>2. /\ Decided(new) <=> Decided(slots[s][q])
        /\ Decided(slots[s][q]) => new.value = slots[s][q].value
    BY <1>1, AddSlotsDecision
  <1>3. slots' = [slots EXCEPT ![s][q] = new] BY DEF Visit
  <1>. HIDE DEF new
  <1>. QED BY <1>1, <1>2, <1>3 DEF SameDecisions, SameDecision

\* One slot of server p changes.
LEMMA OneSlotDecision ==
    ASSUME TypesOK, NEW p \in Server, NEW q \in Seqs, NEW new,
           slots' = [slots EXCEPT ![p][q] = new],
           \/ /\ Decided(new) <=> Decided(slots[p][q])
              /\ Decided(slots[p][q]) => new.value = slots[p][q].value
           \/ /\ Decided(slots[p][q]) => slots[p][q].value = NoValue
              /\ Decided(new)
              /\ Source(q, new.value)
    PROVE  Extends(p)
  <1>1. slots \in [Server -> [Seqs -> Slot]] BY DEF TypesOK, PaxosTypeOK
  <1>2. /\ slots'[p][q] = new
        /\ \A x \in Seqs \ {q} : slots'[p][x] = slots[p][x]
        /\ \A s \in Server \ {p} : slots'[s] = slots[s]
    BY <1>1
  <1>. QED BY <1>2 DEF Extends, SameDecision

LEMMA LearnValueDecision ==
    ASSUME NEW slot, NEW v, "status" \in DOMAIN slot, "value" \in DOMAIN slot
    PROVE  /\ Decided(LearnValue(slot, v))
           /\ Decided(slot) => LearnValue(slot, v) = slot
           /\ ~Decided(slot) => LearnValue(slot, v).value = v
  BY DEF LearnValue, Decided

LEMMA CallDecisions ==
    ASSUME TypesOK, Sound, Grows, NEW c \in Calls, CallStep(c)
    PROVE  \E p \in Server : Extends(p)
  <1>1. slots \in [Server -> [Seqs -> Slot]] BY DEF TypesOK, PaxosTypeOK
  <1>2. CASE slots' = slots
    BY <1>2, SameExtends DEF SameDecisions, SameDecision
  <1>3. CASE Start(c) \/ Forward(c)
    <2>1. calls[c].pc # "idle" /\ Visit(calls[c].at, calls[c].seq)
      BY <1>3 DEF Start, Forward
    <2>. QED BY <2>1, CallFacts, CallFields, VisitDecisions, SameExtends
  <1>4. ASSUME NEW p \in Server,
               PrepareEnters(c, p) \/ AcceptEnters(c, p) \/ LearnEnters(c, p)
        PROVE  SameDecisions
    <2>1. calls[c].pc # "idle" /\ Visit(p, calls[c].seq)
      BY <1>4 DEF PrepareEnters, AcceptEnters, LearnEnters
    <2>. QED BY <2>1, CallFacts, VisitDecisions
  <1>5. ASSUME NEW p \in Server, Begin(c) \/ PrepareAnswers(c, p)
        PROVE  SameDecisions
    BY <1>5, PromiseAlike, AlikeDecisions
  <1>6. ASSUME NEW p \in Server, AcceptRecords(c, p)
        PROVE  \E x \in Server : Extends(x)
    <2>. DEFINE r == calls[c]
                old == slots[p][r.seq]
                new == [old EXCEPT !.n_a = r.my_view, !.v_a = r.val]
    <2>1. r.seq \in Seqs BY <1>6, CallFacts DEF AcceptRecords
    <2>2. new.status = old.status /\ new.value = old.value
      BY <1>1, <2>1 DEF Slot
    <2>3. CASE slots' = [slots EXCEPT ![p][r.seq].n_a = r.my_view,
                                      ![p][r.seq].v_a = r.val]
      <3>1. slots' = [slots EXCEPT ![p][r.seq] = new] BY <1>1, <2>1, <2>3
      <3>. HIDE DEF new
      <3>. QED BY <2>1, <2>2, <3>1, OneSlotDecision DEF Decided
    <2>. QED BY <1>2, <1>6, <2>3 DEF AcceptRecords
  <1>7. ASSUME NEW p \in Server, LearnDecides(c, p)
        PROVE  \E x \in Server : Extends(x)
    <2>. DEFINE r == calls[c]
                old == slots[p][r.seq]
                new == [old EXCEPT !.status = "DECIDED"]
    <2>1. r.seq \in Seqs /\ r.pc = "learn" BY <1>7, CallFacts DEF LearnDecides
    <2>2. CASE ~Decided(old) /\ slots' = [slots EXCEPT ![p][r.seq].status = "DECIDED"]
      <3>1. old \in Slot BY <1>1, <2>1
      <3>2. old.value = NoValue
        BY <2>1, <2>2 DEF Sound, SlotsSound, SlotSound
      <3>3. Decided(new) /\ new.value = NoValue
        BY <3>1, <3>2 DEF Slot, Decided
      <3>4. slots' = [slots EXCEPT ![p][r.seq] = new] BY <1>1, <2>1, <2>2
      <3>5. Source(r.seq, NoValue) BY <2>1 DEF Source, Learning
      <3>. HIDE DEF new
      <3>6. Source(r.seq, new.value) BY <3>3, <3>5
      <3>. QED BY <2>1, <2>2, <3>3, <3>4, <3>6, OneSlotDecision
    <2>. QED BY <1>2, <1>7, <2>2 DEF LearnDecides
  <1>9. ASSUME NEW p \in Server, LearnStores(c, p)
        PROVE  Extends(p)
    <2>. DEFINE r == calls[c]
                q == r.seq
                new == [slots[p][q] EXCEPT !.value = r.val]
    <2>1. /\ q \in Seqs /\ slots[p][q] \in Slot /\ Decided(slots[p][q])
          /\ slots[p][q].value = NoValue /\ slots'[p][q] = new
      BY <1>9, StoreFacts
    <2>2. \A s \in Server, x \in Seqs :
            s # p \/ x # q => slots'[s][x] = slots[s][x]
      BY <1>9, StoreFacts
    <2>3. Decided(new) /\ new.value = r.val BY <2>1 DEF Slot, Decided
    <2>4. Source(q, r.val) BY <1>9 DEF LearnStores, Source, Learning
    <2>. HIDE DEF new
    <2>5. \A s \in Server, x \in Seqs : s # p \/ x # q => SameDecision(s, x)
      BY <2>2 DEF SameDecision
    <2>. QED BY <2>1, <2>3, <2>4, <2>5 DEF Extends
  <1>8. ASSUME \/ StartIgnored(c) \/ ReadView(c) \/ Nested(c)
               \/ ForwardFails(c) \/ Return(c) \/ LockSlot(c)
               \/ PrepareEnds(c) \/ AcceptEnds(c) \/ LearnEnds(c)
               \/ Orphaned(c)
               \/ \E p \in Server :
                    \/ PrepareFails(c, p) \/ AcceptNotes(c, p)
                    \/ LearnSends(c, p) \/ CallFails(c, p)
        PROVE  slots' = slots
    BY <1>8
    DEF StartIgnored, ReadView, Nested, ForwardFails, Return, LockSlot,
        PrepareEnds, AcceptEnds, LearnEnds, Orphaned, PrepareFails,
        AcceptNotes, LearnSends, CallFails
  <1>. QED
    BY <1>2, <1>3, <1>4, <1>5, <1>6, <1>7, <1>8, <1>9, SameExtends, LeaderFacts
    DEF CallStep

\* What server p has after the decided slots of a message: what it had, or a
\* decision of the message.
Catches(p, log, decided) ==
    \A q \in Seqs :
      \/ /\ Decided(log[q]) <=> Decided(slots[p][q])
         /\ Decided(slots[p][q]) => log[q].value = slots[p][q].value
      \/ /\ ~Decided(slots[p][q]) /\ Decided(log[q])
         /\ decided[q] # Absent /\ log[q].value = decided[q]

LEMMA CatchUpDecisions ==
    ASSUME TypesOK, NEW p \in Server, NEW decided, NEW v
    PROVE  Catches(p, CatchUp(slots[p], decided, v), decided)
  <1>. SUFFICES ASSUME NEW q \in Seqs, decided[q] # Absent
                PROVE  LET new == CatchUp(slots[p], decided, v)[q]
                       IN  /\ Decided(new)
                           /\ Decided(slots[p][q]) => new.value = slots[p][q].value
                           /\ ~Decided(slots[p][q]) => new.value = decided[q]
    <2>1. \A q \in Seqs : decided[q] = Absent =>
            CatchUp(slots[p], decided, v)[q] = slots[p][q]
      BY DEF CatchUp
    <2>. QED BY <2>1 DEF Catches
  <1>. DEFINE old == slots[p][q]
              slot == AddSlots(old, v)
  <1>1. old \in Slot BY DEF TypesOK, PaxosTypeOK
  <1>2. /\ Decided(slot) <=> Decided(old)
        /\ Decided(old) => slot.value = old.value
        /\ "status" \in DOMAIN slot /\ "value" \in DOMAIN slot
    BY <1>1, AddSlotsDecision
  <1>3. CatchUp(slots[p], decided, v)[q] = LearnValue(slot, decided[q])
    BY DEF CatchUp
  <1>. HIDE DEF slot
  <1>. QED BY <1>2, <1>3, LearnValueDecision

\* The decisions of a message are known to have a source.
LEMMA CaughtUp ==
    ASSUME TypesOK, NEW p \in Server, NEW decided, NEW log,
           Catches(p, log, decided),
           \A q \in Seqs : decided[q] # Absent => Source(q, decided[q]),
           slots' = [slots EXCEPT ![p] = log]
    PROVE  Extends(p)
  <1>1. slots'[p] = log /\ \A s \in Server \ {p} : slots'[s] = slots[s]
    BY DEF TypesOK, PaxosTypeOK
  <1>. QED BY <1>1 DEF Catches, Extends, SameDecision

LEMMA CatchUpBlocksDecisions ==
    ASSUME TypesOK, NEW p \in Server, NEW decided, NEW v,
           CatchUpBlocks(p, decided, v),
           \A q \in Seqs : decided[q] # Absent => Source(q, decided[q])
    PROVE  Extends(p)
  <1>1. PICK b \in Seqs :
          LET before == [q \in Seqs |-> IF q < b THEN decided[q] ELSE Absent]
          IN  slots' = [slots EXCEPT ![p] =
                          [CatchUp(@, before, v) EXCEPT ![b].n_a = v]]
    BY DEF CatchUpBlocks, Blocked, LockedBy
  <1>. DEFINE before == [q \in Seqs |-> IF q < b THEN decided[q] ELSE Absent]
              log == CatchUp(slots[p], before, v)
              new == [log EXCEPT ![b].n_a = v]
  <1>2. Catches(p, log, before) BY CatchUpDecisions
  <1>3. \A q \in Seqs : new[q].status = log[q].status
                        /\ new[q].value = log[q].value
    <2>1. DOMAIN log = Seqs BY DEF CatchUp
    <2>2. \A q \in Seqs \ {b} : new[q] = log[q] BY <2>1
    <2>3. new[b] = [log[b] EXCEPT !.n_a = v] BY <2>1
    <2>. QED BY <2>2, <2>3
  <1>4. \A q \in Seqs : before[q] # Absent => Source(q, before[q])
    OBVIOUS
  <1>5. slots' = [slots EXCEPT ![p] = new]
    <2>1. slots \in [Server -> [Seqs -> Slot]] BY DEF TypesOK, PaxosTypeOK
    <2>. QED BY <1>1, <2>1
  <1>. HIDE DEF before, new
  <1>6. Catches(p, new, before) BY <1>2, <1>3 DEF Catches, Decided
  <1>. QED BY <1>4, <1>5, <1>6, CaughtUp

LEMMA MessagesSource ==
    ASSUME MessagesKnown, NEW s \in Server, NEW q \in Seqs
    PROVE  /\ hb_sent[s][q] # Absent => Source(q, hb_sent[s][q])
           /\ hb_reply[s][q] # Absent => Source(q, hb_reply[s][q])
  BY DEF MessagesKnown, Source

LEMMA HeartbeatDecisions ==
    ASSUME TypesOK, MessagesKnown, NEW s \in Server, HeartbeatStep(s)
    PROVE  \E p \in Server : Extends(p)
  <1>1. CASE slots' = slots
    BY <1>1, SameExtends DEF SameDecisions, SameDecision
  <1>2. CASE TakeReply(s)
    <2>. DEFINE log == CatchUp(slots[s], hb_reply[s], view[s])
    <2>1. Catches(s, log, hb_reply[s]) BY CatchUpDecisions
    <2>2. slots' = [slots EXCEPT ![s] = log]
      BY <1>2 DEF TakeReply, TypesOK, PaxosTypeOK
    <2>. HIDE DEF log
    <2>. QED BY <2>1, <2>2, MessagesSource, CaughtUp
  <1>3. CASE TakeReplyBlocks(s)
    BY <1>3, MessagesSource, CatchUpBlocksDecisions DEF TakeReplyBlocks
  <1>4. ASSUME NEW p \in Server, HeartbeatCall(s, p), slots' # slots
        PROVE  Extends(p)
    <2>. DEFINE log == CatchUp(slots[p], hb_sent[s], view'[p])
    <2>1. Catches(p, log, hb_sent[s]) BY CatchUpDecisions
    <2>2. slots' = [slots EXCEPT ![p] = log]
      BY <1>4 DEF HeartbeatCall, TypesOK, PaxosTypeOK
    <2>. HIDE DEF log
    <2>. QED BY <2>1, <2>2, MessagesSource, CaughtUp
  <1>5. ASSUME NEW p \in Server, HeartbeatBlocks(s, p)
        PROVE  Extends(p)
    BY <1>5, MessagesSource, CatchUpBlocksDecisions DEF HeartbeatBlocks
  <1>6. CASE BeginRound(s) \/ FillRequest(s)
             \/ \E p \in Server : HeartbeatFails(s, p)
    BY <1>1, <1>6 DEF BeginRound, FillRequest, HeartbeatFails
  <1>. QED BY <1>1, <1>2, <1>3, <1>4, <1>5, <1>6 DEF HeartbeatStep
----------------------------------------------------------------------------
(* Messages.                                                               *)

\* A message from s carries decisions.
Known(decided) ==
    \A q \in Seqs : decided[q] # Absent => Somewhere(q, decided[q])

LEMMA DecidedOfKnown == ASSUME NEW p \in Server PROVE Known(DecidedOf(p))
  BY DEF Known, DecidedOf, Somewhere

LEMMA NothingKnown == Known(Nothing)
  BY DEF Known, Nothing

LEMMA MessagesCarry ==
    ASSUME TypesOK, MessagesKnown, NEW s \in Server,
           NEW a, Known(a), NEW b, Known(b),
           hb_sent' \in {hb_sent, [hb_sent EXCEPT ![s] = a]},
           hb_reply' \in {hb_reply, [hb_reply EXCEPT ![s] = b]}
    PROVE  CarriesKnown
  <1>1. /\ \A x \in Server : hb_sent'[x] \in {hb_sent[x], a}
        /\ \A x \in Server : hb_reply'[x] \in {hb_reply[x], b}
    BY DEF TypesOK, PaxosTypeOK
  <1>. QED BY <1>1 DEF CarriesKnown, MessagesKnown, Known

LEMMA StepCarries ==
    ASSUME TypesOK, MessagesKnown, [StableNext]_allVars
    PROVE  CarriesKnown
  <1>1. ASSUME NEW s \in Server, BeginRound(s) PROVE CarriesKnown
    BY <1>1, DecidedOfKnown, MessagesCarry DEF BeginRound
  <1>2. ASSUME NEW s \in Server, NEW p \in Server, HeartbeatCall(s, p)
        PROVE  CarriesKnown
    <2>. DEFINE missing == [q \in Seqs |-> IF hb_sent[s][q] = Absent
                                           THEN DecidedOf(p)[q] ELSE Absent]
    <2>1. Known(missing) BY DecidedOfKnown DEF Known
    <2>2. hb_sent' \in {hb_sent, [hb_sent EXCEPT ![s] = Nothing]}
      BY <1>2 DEF HeartbeatCall, RoundGoesOn, TypesOK, PaxosTypeOK
    <2>3. hb_reply' \in {hb_reply, [hb_reply EXCEPT ![s] = missing]}
      BY <1>2 DEF HeartbeatCall
    <2>. HIDE DEF missing
    <2>. QED BY <2>1, <2>2, <2>3, NothingKnown, MessagesCarry
  <1>3. ASSUME NEW s \in Server, NEW p \in Server, HeartbeatFails(s, p)
        PROVE  CarriesKnown
    <2>1. hb_sent' \in {hb_sent, [hb_sent EXCEPT ![s] = Nothing]}
      BY <1>3 DEF HeartbeatFails, RoundGoesOn, TypesOK, PaxosTypeOK
    <2>2. hb_reply' = hb_reply BY <1>3 DEF HeartbeatFails
    <2>. QED BY <2>1, <2>2, NothingKnown, MessagesCarry
  <1>4. ASSUME NEW s \in Server, TakeReply(s) \/ PaxosCrash(s)
        PROVE  CarriesKnown
    BY <1>4, NothingKnown, MessagesCarry DEF TakeReply, PaxosCrash
  <1>5. CASE UNCHANGED <<hb_sent, hb_reply>>
    BY <1>5 DEF MessagesKnown, CarriesKnown
  <1>6. ASSUME NEW c \in Calls, CallStep(c) PROVE UNCHANGED hbVars
    BY <1>6
    DEF CallStep, OtherPaxos, Start, StartIgnored, ReadView, Forward, Nested,
        ForwardFails, Return, LockSlot, Begin, PrepareEnds, AcceptEnds,
        LearnEnds, Orphaned, PrepareEnters, PrepareAnswers, PrepareFails,
        AcceptEnters, AcceptRecords, AcceptNotes, LearnSends, LearnEnters,
        LearnDecides, LearnStores, CallFails
  <1>7. ASSUME NEW c \in Calls, NEW s \in Server, NEW q \in Seqs,
               Request(c, s, q)
        PROVE  UNCHANGED hbVars
    BY <1>7 DEF Request, OtherPaxos
  <1>8. ASSUME NEW s \in Server, FillRequest(s)
        PROVE  UNCHANGED <<hb_sent, hb_reply>>
    BY <1>8 DEF FillRequest
  <1>9. ASSUME NEW s \in Server,
               TakeReplyBlocks(s) \/ \E p \in Server : HeartbeatBlocks(s, p)
        PROVE  UNCHANGED hbVars
    BY <1>9 DEF TakeReplyBlocks, HeartbeatBlocks
  <1>10. CASE UNCHANGED allVars
    BY <1>5, <1>10 DEF allVars, paxosVars, hbVars
  <1>. QED
    BY <1>1, <1>2, <1>3, <1>4, <1>5, <1>6, <1>7, <1>8, <1>9, <1>10
    DEF StableNext, ProposalStep, HeartbeatStep, hbVars
----------------------------------------------------------------------------
(* What happens to views, and who is up.                                   *)

LEMMA CallQuiet ==
    ASSUME NEW c \in Calls, CallStep(c)
    PROVE  up' = up /\ elections' = elections
  <1>1. CASE UNCHANGED viewVars BY <1>1 DEF viewVars
  <1>2. CASE OtherViews BY <1>2 DEF OtherViews, UnchangedButViews
  <1>3. ASSUME \/ Start(c) \/ StartIgnored(c) \/ ReadView(c) \/ Forward(c)
               \/ Nested(c) \/ ForwardFails(c) \/ Return(c) \/ LockSlot(c)
               \/ Begin(c) \/ AcceptEnds(c) \/ LearnEnds(c) \/ Orphaned(c)
        PROVE  UNCHANGED viewVars
    BY <1>3
    DEF Start, StartIgnored, ReadView, Forward, Nested, ForwardFails, Return,
        LockSlot, Begin, AcceptEnds, LearnEnds, Orphaned
  <1>4. ASSUME NEW p \in Server,
               \/ PrepareEnters(c, p) \/ PrepareAnswers(c, p)
               \/ PrepareFails(c, p) \/ AcceptRecords(c, p)
               \/ LearnSends(c, p) \/ LearnEnters(c, p)
               \/ LearnDecides(c, p) \/ LearnStores(c, p) \/ CallFails(c, p)
        PROVE  UNCHANGED viewVars
    BY <1>4
    DEF PrepareEnters, PrepareAnswers, PrepareFails, AcceptRecords,
        LearnSends, LearnEnters, LearnDecides, LearnStores, CallFails
  <1>5. ASSUME PrepareEnds(c) PROVE UNCHANGED viewVars \/ OtherViews
    BY <1>5 DEF PrepareEnds
  <1>6. ASSUME NEW p \in Server, AcceptEnters(c, p) PROVE OtherViews
    BY <1>6 DEF AcceptEnters
  <1>7. ASSUME NEW p \in Server, AcceptNotes(c, p)
        PROVE  up' = up /\ elections' = elections
    BY <1>7 DEF AcceptNotes, NoteAccepted, viewVars
  <1>. QED BY <1>1, <1>2, <1>3, <1>4, <1>5, <1>6, <1>7 DEF CallStep

LEMMA HeartbeatQuiet ==
    ASSUME NEW s \in Server, HeartbeatStep(s)
    PROVE  up' = up /\ elections' = elections /\ calls' = calls
  <1>1. CASE BeginRound(s)
    BY <1>1 DEF BeginRound, SendHeartbeats, UnchangedButViews
  <1>2. CASE FillRequest(s) \/ TakeReply(s) \/ TakeReplyBlocks(s)
    BY <1>2 DEF FillRequest, TakeReply, TakeReplyBlocks, viewVars
  <1>3. ASSUME NEW p \in Server,
               \/ HeartbeatCall(s, p) \/ HeartbeatFails(s, p)
               \/ HeartbeatBlocks(s, p)
        PROVE  up' = up /\ elections' = elections /\ calls' = calls
    BY <1>3
    DEF HeartbeatCall, HeartbeatFails, HeartbeatBlocks, HeartbeatDelivered,
        HeartbeatLost, OtherViews, UnchangedButViews
  <1>. QED BY <1>1, <1>2, <1>3 DEF HeartbeatStep

LEMMA CrashQuiet ==
    ASSUME TypesOK, NEW x \in Server, PaxosCrash(x)
    PROVE  /\ up' = [up EXCEPT ![x] = FALSE]
           /\ up \in [Server -> BOOLEAN]
           /\ elections' \subseteq elections
           /\ \A s \in Server : up'[s] <=> up[s] /\ s # x
  BY DEF PaxosCrash, Crash, TypesOK, ViewTypeOK

\* While no server campaigns views are only copied.
LEMMA OneViewAfter ==
    ASSUME TypesOK, Sound, OneView, [StableNext]_allVars
    PROVE  OneView'
  <1>1. elections' = {}
    <2>1. ASSUME NEW c \in Calls, NEW s \in Server, NEW q \in Seqs,
                 Request(c, s, q)
          PROVE  elections' = elections
      BY <2>1 DEF Request, viewVars
    <2>2. CASE UNCHANGED allVars BY <2>2 DEF allVars, viewVars, OneView
    <2>. QED
      BY <2>1, <2>2, CallQuiet, HeartbeatQuiet, CrashQuiet
      DEF StableNext, ProposalStep, OneView
  <1>2. Moves
    <2>1. [PaxosNext]_allVars BY DEF PaxosNext
    <2>2. [ViewNext]_viewVars BY <2>1, StepIsViewStep
    <2>. QED BY <2>2, StepMoves DEF TypesOK, Sound
  <1>3. seen' = seen
    <2>1. ASSUME NEW p \in Server, NEW v \in Nat, Copies(p, v)
          PROVE  seen' = seen
      BY <2>1 DEF Copies, SetView
    <2>. QED BY <1>2, <2>1 DEF Moves, SameViews, OneView
  <1>. QED BY <1>1, <1>3 DEF OneView
----------------------------------------------------------------------------
(* What a step does to the calls.                                          *)

LEMMA LogFacts ==
    ASSUME TypesOK, Sound, LogInv, NEW c \in Calls
    PROVE  LET r == calls[c]
           IN  /\ r \in Call
               /\ RoleOK(r, up[Leader])
               /\ r.hna \in {StartView, 0, -1}
               /\ r.pc \in Preparing =>
                    \A p \in Server : ~Decided(slots[p][r.seq])
               /\ \A s \in Server : view[s] = StartView
  <1>. DEFINE r == calls[c]
  <1>1. r \in Call /\ r.hna \in seen \cup {0, -1}
        /\ (r.pc # "idle" => r.seq \in Seqs)
    BY CallFacts DEF CallSound
  <1>2. seen = {StartView} BY DEF LogInv, OneView
  <1>3. \A s \in Server : view[s] = StartView BY <1>2, ViewFacts
  <1>4. ASSUME r.pc \in Preparing, NEW p \in Server, Decided(slots[p][r.seq])
        PROVE  FALSE
    <2>1. r.seq \in Seqs BY <1>1, <1>4 DEF Preparing
    <2>2. slots[p][r.seq].value \in Value
      BY <2>1 DEF TypesOK, PaxosTypeOK, Slot
    <2>3. Source(r.seq, slots[p][r.seq].value)
      BY <1>4 DEF Source, Somewhere
    <2>. QED BY <1>4, <2>2, <2>3 DEF LogInv, NotYet
  <1>. QED BY <1>1, <1>2, <1>3, <1>4 DEF LogInv, Roles

LEMMA StayProceeds ==
    ASSUME NEW r, RoleOK(r, up'[Leader])
    PROVE  Proceeds(r, r) /\ ~LocksSlot(r, r)
  BY DEF Proceeds, LocksSlot, Preparing

LEMMA GotoProceeds ==
    ASSUME TypesOK, LogInv, up' = up, NEW c \in Calls, NEW new, Goto(c, new),
           Proceeds(calls[c], new)
    PROVE  AllProceed
  <1>1. calls' = [calls EXCEPT ![c] = new] /\ calls \in [Calls -> Call]
    BY DEF Goto, TypesOK, PaxosTypeOK
  <1>2. calls'[c] = new /\ \A d \in Calls \ {c} : calls'[d] = calls[d]
    BY <1>1
  <1>3. ASSUME NEW d \in Calls \ {c}
        PROVE  /\ Proceeds(calls[d], calls'[d])
               /\ ~LocksSlot(calls[d], calls'[d])
    BY <1>2, StayProceeds DEF LogInv, Roles
  <1>. QED BY <1>2, <1>3 DEF AllProceed

\* A call that gives up proposing, or has told the leader.
LEMMA LeavesProceeds ==
    ASSUME NEW r, NEW new, new.pc \in {"return", "done", "stuck"},
           \/ r.pc # "learn" \/ ~up'[Leader]
           \/ Decided(slots[Leader][r.seq])
    PROVE  Proceeds(r, new)
  BY DEF Proceeds, RoleOK, Leading, Serving, Preparing, LocksSlot

\* The same proposal, at whatever stage.
SameRole(r, new) ==
    /\ new.at = r.at /\ new.my_view = r.my_view /\ new.locked = r.locked
    /\ new.seq = r.seq /\ ~new.dec

LEMMA StageProceeds ==
    ASSUME NEW r, NEW new, RoleOK(r, up'[Leader]), r.pc \in Preparing,
           new.pc \in {"prepare", "accept"}, SameRole(r, new)
    PROVE  Proceeds(r, new)
  BY DEF Proceeds, RoleOK, Leading, Serving, Preparing, SameRole

LEMMA ToldProceeds ==
    ASSUME NEW r, NEW new, RoleOK(r, up'[Leader]), new.pc = "learn",
           SameRole(r, new),
           \/ r.pc = "accept" /\ Leader \in Waiting(new)
           \/ /\ r.pc = "learn" /\ new.val = r.val
              /\ Leader \in Waiting(r) =>
                   \/ Leader \in Waiting(new) \/ ~up'[Leader]
                   \/ Decided(slots'[Leader][r.seq])
    PROVE  Proceeds(r, new)
  BY DEF Proceeds, RoleOK, Leading, Serving, Preparing, SameRole

\* The steps of a call before and after its proposal.
LEMMA AsideProceeds ==
    ASSUME TypesOK, Sound, LogInv, NEW c \in Calls, up' = up,
           \/ Start(c) \/ StartIgnored(c) \/ ReadView(c) \/ Forward(c)
           \/ Nested(c) \/ ForwardFails(c) \/ Return(c) \/ LockSlot(c)
           \/ Orphaned(c)
    PROVE  AllProceed
  <1>. DEFINE r == calls[c]
  <1>0. /\ r \in Call /\ RoleOK(r, up[Leader]) /\ r.at \in Server
        /\ \A s \in Server : view[s] = StartView
    BY LogFacts, CallFields
  <1>1. \A s \in Server : Leads(s) <=> s = Leader BY <1>0 DEF Leads, Leader
  <1>2. ASSUME NEW new, Goto(c, new), new.pc \in {"return", "done", "stuck"},
               r.pc # "learn" \/ ~up[Leader]
        PROVE  AllProceed
    BY <1>2, LeavesProceeds, GotoProceeds
  <1>3. /\ Returning(r).pc = "return"
        /\ \A S : Over(r, S).pc \in {"done", "stuck"}
    BY DEF Returning, Over, Idle
  <1>4. CASE Start(c)
    <2>1. ASSUME Goto(c, Returning(r)) PROVE AllProceed
      BY <1>2, <1>3, <1>4, <2>1 DEF Start
    <2>2. ASSUME NEW x \in {"read", "forward"},
                 x = "read" => r.at = Leader /\ up[Leader],
                 x = "forward" => r.at # Leader,
                 Goto(c, [r EXCEPT !.pc = x])
          PROVE  AllProceed
      <3>. DEFINE new == [r EXCEPT !.pc = x]
      <3>1. new.pc = x /\ new.at = r.at /\ new.dec = r.dec
        BY <1>0 DEF Call
      <3>. HIDE DEF new
      <3>2. r.pc = "start" /\ r.at \notin Discards BY <1>4 DEF Start
      <3>3. RoleOK(new, up'[Leader])
        BY <1>0, <2>2, <3>1, <3>2 DEF RoleOK, Leading, Serving
      <3>4. Proceeds(r, new)
        BY <2>2, <3>1, <3>2, <3>3 DEF Proceeds, Serving, Preparing
      <3>. QED BY <2>2, <3>4, GotoProceeds DEF new
    <2>. QED BY <1>0, <1>1, <1>4, <2>1, <2>2 DEF Start
  <1>5. CASE StartIgnored(c)
    BY <1>2, <1>3, <1>5 DEF StartIgnored
  <1>6. CASE ReadView(c)
    <2>. DEFINE new == [r EXCEPT !.pc = "lock", !.my_view = view[r.at]]
    <2>1. /\ new.pc = "lock" /\ new.at = r.at /\ new.dec = r.dec
          /\ new.my_view = view[r.at]
      BY <1>0 DEF Call
    <2>2. Goto(c, new) /\ r.pc = "read" BY <1>6 DEF ReadView
    <2>. HIDE DEF new
    <2>3. RoleOK(new, up'[Leader])
      BY <1>0, <2>1, <2>2 DEF RoleOK, Leading, Serving
    <2>4. Proceeds(r, new)
      BY <2>1, <2>2, <2>3 DEF Proceeds, Serving, Preparing
    <2>. QED BY <2>2, <2>4, GotoProceeds
  <1>7. CASE Forward(c)
    <2>1. r.pc = "forward" /\ r.at # Leader
      BY <1>0, <1>7 DEF Forward, RoleOK
    <2>2. Goto(c, ForwardFrom(r, r.at))
      BY <1>0, <1>1, <1>7, <2>1 DEF Forward
    <2>3. ForwardFrom(r, r.at).pc = "start" /\ ~ForwardFrom(r, r.at).dec
      BY DEF ForwardFrom, Idle
    <2>4. Proceeds(r, ForwardFrom(r, r.at))
      BY <2>1, <2>3
      DEF Proceeds, RoleOK, Leading, Serving, Preparing
    <2>. QED BY <2>2, <2>4, GotoProceeds
  <1>8. CASE Nested(c) BY <1>0, <1>8 DEF Nested, RoleOK
  <1>9. CASE ForwardFails(c)
    BY <1>2, <1>3, <1>9 DEF ForwardFails
  <1>10. CASE Return(c)
    BY <1>2, <1>3, <1>10 DEF Return
  <1>11. CASE LockSlot(c)
    <2>. DEFINE new == [r EXCEPT !.pc = "begin", !.locked = @ \cup {r.at}]
    <2>1. /\ new.pc = "begin" /\ new.at = r.at /\ new.dec = r.dec
          /\ new.my_view = r.my_view /\ new.seq = r.seq
          /\ new.locked = r.locked \cup {r.at}
      BY <1>0 DEF Call
    <2>2. r.pc = "lock" /\ SlotMuFree(r.at, r.seq) BY <1>11 DEF LockSlot
    <2>. HIDE DEF new
    <2>3. RoleOK(new, up'[Leader])
      BY <1>0, <2>1, <2>2 DEF RoleOK, Leading, Serving
    <2>4. ASSUME ~Decided(slots[r.at][r.seq])
          PROVE  Proceeds(r, new)
      BY <1>0, <2>1, <2>2, <2>3, <2>4
      DEF Proceeds, LocksSlot, Serving, Preparing, RoleOK, Leading
    <2>5. CASE Decided(slots[r.at][r.seq])
      BY <1>2, <1>3, <1>11, <2>2, <2>5 DEF LockSlot
    <2>6. CASE ~Decided(slots[r.at][r.seq])
      <3>1. Goto(c, new) BY <1>11, <2>6 DEF LockSlot, new
      <3>. QED BY <2>4, <2>6, <3>1, GotoProceeds
    <2>. QED BY <2>5, <2>6
  <1>12. CASE Orphaned(c)
    <2>1. ~up[Leader]
      BY <1>0, <1>12 DEF Orphaned, Proposing, RoleOK, Leading
    <2>. QED BY <1>2, <1>3, <1>12, <2>1 DEF Orphaned
  <1>. QED BY <1>4, <1>5, <1>6, <1>7, <1>8, <1>9, <1>10, <1>11, <1>12

\* The Prepare and Accept phases: nobody knows a decision yet.
LEMMA StageOfCall ==
    ASSUME TypesOK, Sound, LogInv, NEW c \in Calls, up' = up,
           \/ Begin(c) \/ PrepareEnds(c) \/ AcceptEnds(c)
           \/ \E p \in Server :
                \/ PrepareEnters(c, p) \/ PrepareAnswers(c, p)
                \/ PrepareFails(c, p) \/ AcceptEnters(c, p)
                \/ AcceptRecords(c, p) \/ AcceptNotes(c, p)
    PROVE  AllProceed
  <1>. DEFINE r == calls[c]
  <1>0. /\ r \in Call /\ RoleOK(r, up[Leader]) /\ r.at \in Server
        /\ r.hna \in {StartView, 0, -1} /\ StartView \in Nat
        /\ r.pc \in Preparing =>
             /\ ~r.dec /\ r.my_view = StartView
             /\ \A p \in Server : ~Decided(slots[p][r.seq])
    <2>1. /\ r \in Call /\ RoleOK(r, up[Leader])
          /\ r.hna \in {StartView, 0, -1}
          /\ r.pc \in Preparing =>
               \A p \in Server : ~Decided(slots[p][r.seq])
      BY LogFacts
    <2>2. r.at \in Server BY <2>1, CallFields
    <2>3. r.pc \in Preparing => ~r.dec /\ r.my_view = StartView
      BY <2>1 DEF RoleOK, Leading, Preparing
    <2>. QED BY <2>1, <2>2, <2>3, LeaderFacts
  <1>1. ASSUME NEW new, Goto(c, new), r.pc \in Preparing,
               new.pc \in {"prepare", "accept"}, SameRole(r, new)
        PROVE  AllProceed
    BY <1>0, <1>1, StageProceeds, GotoProceeds
  <1>2. CASE Begin(c)
    <2>1. ASSUME NEW x \in {"prepare", "accept"},
                 Goto(c, [r EXCEPT !.todo = Server, !.pc = x])
          PROVE  AllProceed
      <3>1. LET new == [r EXCEPT !.todo = Server, !.pc = x]
            IN  new.pc = x /\ SameRole(r, new)
        BY <1>0, <1>2 DEF Begin, Call, SameRole, Preparing
      <3>. QED BY <1>1, <1>2, <2>1, <3>1 DEF Begin, Preparing
    <2>2. \E x \in {"prepare", "accept"} :
            Goto(c, [r EXCEPT !.todo = Server, !.pc = x])
      BY <1>2 DEF Begin, Goto
    <2>. QED BY <2>1, <2>2
  <1>3. CASE PrepareEnds(c)
    <2>1. r.pc = "prepare" BY <1>3 DEF PrepareEnds
    <2>2. ~(r.hna > r.my_view) /\ ~r.dec
      BY <1>0, <2>1 DEF Preparing
    <2>. DEFINE next == [r EXCEPT !.oks = 0, !.hna = -1, !.dec = FALSE,
                                  !.val = ValueToAccept(c, @)]
                new == [next EXCEPT !.pc = "accept", !.todo = Server]
    <2>3. Goto(c, new) BY <1>3, <2>2 DEF PrepareEnds
    <2>4. new.pc = "accept" /\ SameRole(r, new)
      BY <1>0 DEF Call, SameRole
    <2>. HIDE DEF new
    <2>. QED BY <1>1, <2>1, <2>3, <2>4 DEF Preparing
  <1>4. CASE AcceptEnds(c)
    <2>1. r.pc = "accept" /\ ~r.dec
      BY <1>0, <1>4 DEF AcceptEnds, Preparing
    <2>2. Goto(c, ToLearn(r)) BY <1>4, <2>1 DEF AcceptEnds
    <2>3. LET new == ToLearn(r)
          IN  /\ new.pc = "learn" /\ SameRole(r, new)
              /\ Leader \in Waiting(new)
      BY <1>0, <2>1, LeaderFacts DEF ToLearn, Call, SameRole, Waiting
    <2>4. Proceeds(r, ToLearn(r))
      BY <1>0, <2>1, <2>3, ToldProceeds
    <2>. QED BY <2>2, <2>4, GotoProceeds
  <1>5. ASSUME NEW p \in Server,
               PrepareEnters(c, p) \/ PrepareFails(c, p) \/ AcceptEnters(c, p)
        PROVE  AllProceed
    <2>1. ASSUME NEW todo, NEW inside,
                 Goto(c, [r EXCEPT !.todo = todo, !.inside = inside])
          PROVE  AllProceed
      <3>1. r.pc \in {"prepare", "accept"}
        BY <1>5 DEF PrepareEnters, PrepareFails, AcceptEnters
      <3>2. LET new == [r EXCEPT !.todo = todo, !.inside = inside]
            IN  new.pc = r.pc /\ SameRole(r, new)
        BY <1>0, <3>1 DEF Call, SameRole, Preparing
      <3>. QED BY <1>1, <2>1, <3>1, <3>2 DEF Preparing
    <2>2. CASE PrepareEnters(c, p)
      <3>1. Goto(c, [r EXCEPT !.todo = r.todo, !.inside = {p}])
        BY <1>0, <2>2 DEF PrepareEnters, Call, Goto
      <3>. QED BY <2>1, <3>1
    <2>3. CASE PrepareFails(c, p)
      BY <2>1, <2>3 DEF PrepareFails
    <2>4. CASE AcceptEnters(c, p)
      BY <2>1, <2>4 DEF AcceptEnters
    <2>. QED BY <1>5, <2>2, <2>3, <2>4
  <1>6. ASSUME NEW p \in Server, PrepareAnswers(c, p)
        PROVE  AllProceed
    <2>. DEFINE slot == slots[p][r.seq]
    <2>1. r.pc = "prepare" BY <1>6 DEF PrepareAnswers
    <2>2. ~KnownDecided(slot) /\ ~r.dec
      BY <1>0, <2>1 DEF Preparing, KnownDecided
    <2>3. LET new == [r EXCEPT !.todo = @ \ {p}, !.inside = {}]
          IN  new.pc = "prepare" /\ SameRole(r, new)
      BY <1>0, <2>1, <2>2 DEF Call, SameRole
    <2>4. LET new == TallyPrepare(r, p, slot)
          IN  new.pc = "prepare" /\ SameRole(r, new)
      BY <1>0, <2>1, <2>2 DEF TallyPrepare, Call, SameRole
    <2>5. \/ Goto(c, TallyPrepare(r, p, slot))
          \/ Goto(c, [r EXCEPT !.todo = @ \ {p}, !.inside = {}])
      BY <1>6 DEF PrepareAnswers
    <2>. QED BY <1>1, <2>1, <2>3, <2>4, <2>5 DEF Preparing
  <1>7. ASSUME NEW p \in Server, AcceptRecords(c, p) \/ AcceptNotes(c, p)
        PROVE  AllProceed
    <2>1. r.pc = "accept" BY <1>7 DEF AcceptRecords, AcceptNotes
    <2>2. ~KnownDecided(slots[p][r.seq]) /\ ~r.dec
      BY <1>0, <2>1 DEF Preparing, KnownDecided
    <2>. DEFINE over == [r EXCEPT !.inside = @ \ {p}, !.noting = @ \ {p}]
    <2>3. LET new == [r EXCEPT !.noting = @ \cup {p}]
          IN  new.pc = "accept" /\ SameRole(r, new)
      BY <1>0, <2>1, <2>2 DEF Call, SameRole
    <2>4. over.pc = "accept" /\ SameRole(r, over)
      BY <1>0, <2>1, <2>2 DEF Call, SameRole
    <2>5. LET new == [over EXCEPT !.dec = @ \/ KnownDecided(slots[p][r.seq])]
          IN  new.pc = "accept" /\ SameRole(r, new)
      BY <1>0, <2>1, <2>2 DEF Call, SameRole
    <2>6. \/ Goto(c, [r EXCEPT !.noting = @ \cup {p}])
          \/ Goto(c, over)
          \/ Goto(c, [over EXCEPT !.dec = @ \/ KnownDecided(slots[p][r.seq])])
      BY <1>7 DEF AcceptRecords, AcceptNotes, AcceptAnswers
    <2>. HIDE DEF over
    <2>. QED BY <1>1, <2>1, <2>3, <2>4, <2>5, <2>6 DEF Preparing
  <1>. QED BY <1>2, <1>3, <1>4, <1>5, <1>6, <1>7

\* The Learn phase: the leader is called as any server is, and a call to it
\* fails only if it is down.
LEMMA TellingProceeds ==
    ASSUME TypesOK, Sound, LogInv, ~LossyRPC, NEW c \in Calls, up' = up,
           \/ LearnEnds(c)
           \/ \E p \in Server :
                \/ LearnSends(c, p) \/ LearnEnters(c, p)
                \/ LearnDecides(c, p) \/ LearnStores(c, p) \/ CallFails(c, p)
    PROVE  AllProceed
  <1>. DEFINE r == calls[c]
  <1>0. /\ r \in Call /\ RoleOK(r, up[Leader])
        /\ r.pc \in Serving => ~r.dec /\ r.at = Leader /\ Leader \notin Discards
        /\ r.pc # "idle" => r.seq \in Seqs
    BY LogFacts, CallFacts DEF RoleOK, Serving, Leading, CallSound
  <1>1. ASSUME NEW new, Goto(c, new), r.pc = "learn", new.pc = "learn",
               SameRole(r, new), new.val = r.val,
               Leader \in Waiting(r) =>
                   \/ Leader \in Waiting(new) \/ ~up'[Leader]
                   \/ Decided(slots'[Leader][r.seq])
        PROVE  AllProceed
    <2>1. Proceeds(r, new) BY <1>0, <1>1, ToldProceeds
    <2>. QED BY <1>1, <2>1, GotoProceeds
  <1>2. CASE LearnEnds(c)
    <2>1. r.pc = "learn" /\ Waiting(r) = {} BY <1>2 DEF LearnEnds, Waiting
    <2>2. ~up'[Leader] \/ Decided(slots[Leader][r.seq])
      BY <2>1 DEF LogInv, LeaderTold
    <2>3. ProposalReturns(r).pc = "return"
      BY DEF ProposalReturns, Returning, Idle
    <2>4. Proceeds(r, ProposalReturns(r)) BY <2>2, <2>3, LeavesProceeds
    <2>. QED BY <1>2, <2>4, GotoProceeds DEF LearnEnds
  <1>3. ASSUME NEW p \in Server, LearnSends(c, p)
        PROVE  AllProceed
    <2>1. r.pc = "learn" BY <1>3 DEF LearnSends
    <2>2. LET new == [r EXCEPT !.unsent = @ \ {p}, !.todo = @ \cup {p}]
          IN  /\ new.pc = "learn" /\ SameRole(r, new) /\ new.val = r.val
              /\ Leader \in Waiting(r) => Leader \in Waiting(new)
      BY <1>0, <2>1 DEF Call, SameRole, Waiting, Serving
    <2>. QED BY <1>1, <1>3, <2>1, <2>2 DEF LearnSends
  <1>4. ASSUME NEW p \in Server, LearnEnters(c, p)
        PROVE  AllProceed
    <2>1. r.pc = "learn" BY <1>4 DEF LearnEnters
    <2>2. LET new == [r EXCEPT !.unsent = @ \ {p}, !.todo = @ \ {p},
                               !.inside = @ \cup {p}]
          IN  /\ new.pc = "learn" /\ SameRole(r, new) /\ new.val = r.val
              /\ Leader \in Waiting(r) => Leader \in Waiting(new)
      BY <1>0, <2>1 DEF Call, SameRole, Waiting, Serving
    <2>. QED BY <1>1, <1>4, <2>1, <2>2 DEF LearnEnters
  <1>5. ASSUME NEW p \in Server, LearnDecides(c, p)
        PROVE  AllProceed
    <2>1. r.pc = "learn" BY <1>5 DEF LearnDecides
    <2>2. LET new == [r EXCEPT !.noting = @ \cup {p}]
          IN  /\ new.pc = "learn" /\ SameRole(r, new) /\ new.val = r.val
              /\ Leader \in Waiting(r) => Leader \in Waiting(new)
      BY <1>0, <2>1 DEF Call, SameRole, Waiting, Serving
    <2>3. LET new == [r EXCEPT !.inside = @ \ {p}]
          IN  /\ new.pc = "learn" /\ SameRole(r, new) /\ new.val = r.val
              /\ Leader \in Waiting(r) => p = Leader \/ Leader \in Waiting(new)
      BY <1>0, <2>1 DEF Call, SameRole, Waiting, Serving
    <2>4. CASE Goto(c, [r EXCEPT !.noting = @ \cup {p}])
      BY <1>1, <2>1, <2>2, <2>4
    <2>5. CASE /\ Goto(c, [r EXCEPT !.inside = @ \ {p}])
               /\ Decided(slots'[p][r.seq])
      BY <1>1, <2>1, <2>3, <2>5
    <2>6. CASE /\ Goto(c, [r EXCEPT !.inside = @ \ {p}])
               /\ Decided(slots[p][r.seq]) /\ slots' = slots
      BY <2>5, <2>6
    <2>. QED BY <1>5, <2>4, <2>6 DEF LearnDecides
  <1>7. ASSUME NEW p \in Server, LearnStores(c, p)
        PROVE  AllProceed
    <2>1. r.pc = "learn" BY <1>7 DEF LearnStores
    <2>2. LET new == [r EXCEPT !.inside = @ \ {p}, !.noting = @ \ {p}]
          IN  /\ new.pc = "learn" /\ SameRole(r, new) /\ new.val = r.val
              /\ Leader \in Waiting(r) => p = Leader \/ Leader \in Waiting(new)
      BY <1>0, <2>1 DEF Call, SameRole, Waiting, Serving
    <2>3. Decided(slots'[p][r.seq])
      <3>1. /\ slots[p][r.seq] \in Slot /\ Decided(slots[p][r.seq])
            /\ slots'[p][r.seq] = [slots[p][r.seq] EXCEPT !.value = r.val]
        BY <1>7, StoreFacts
      <3>. QED BY <3>1 DEF Slot, Decided
    <2>. QED BY <1>1, <1>7, <2>1, <2>2, <2>3 DEF LearnStores
  <1>6. ASSUME NEW p \in Server, CallFails(c, p)
        PROVE  AllProceed
    <2>. DEFINE new == [r EXCEPT !.unsent = @ \ {p},
                                 !.todo = @ \ {p}, !.inside = @ \ {p},
                                 !.noting = @ \ {p}]
    <2>1. r.pc \in {"accept", "learn"} /\ Goto(c, new)
      BY <1>6 DEF CallFails
    <2>2. /\ new.pc = r.pc /\ SameRole(r, new) /\ new.val = r.val
          /\ Leader \in Waiting(r) => p = Leader \/ Leader \in Waiting(new)
      BY <1>0, <2>1 DEF Call, SameRole, Waiting, Serving
    <2>3. p = Leader => ~up[Leader]
      BY <1>0, <1>6, <2>1 DEF CallFails, Ignores, Serving
    <2>. HIDE DEF new
    <2>4. CASE r.pc = "accept"
      <3>1. Proceeds(r, new)
        BY <1>0, <2>2, <2>4, StageProceeds DEF Preparing
      <3>. QED BY <2>1, <3>1, GotoProceeds
    <2>5. CASE r.pc = "learn" BY <1>1, <2>1, <2>2, <2>3, <2>5
    <2>. QED BY <2>1, <2>4, <2>5
  <1>. QED BY <1>2, <1>3, <1>4, <1>5, <1>6, <1>7

\* When server x dies a proposal of it tells only those it has told already,
\* and a proposal of another server is not touched.
LEMMA CrashedProceeds ==
    ASSUME NEW call \in Call, NEW x \in Server, RoleOK(call, up[Leader]),
           up'[Leader] <=> up[Leader] /\ x # Leader, NEW new,
           LET r == [call EXCEPT !.locked = @ \ {x}]
           IN  \/ call.pc \in {"idle", "done", "stuck"} /\ new = r
               \/ call.at = x /\ new = Bereft(r, x)
               \/ call.at # x /\ new = Severed(r, x)
    PROVE  Proceeds(call, new) /\ ~LocksSlot(call, new)
  <1>. DEFINE r == [call EXCEPT !.locked = @ \ {x}]
  <1>1. /\ r.pc = call.pc /\ r.at = call.at /\ r.my_view = call.my_view
        /\ r.seq = call.seq /\ r.val = call.val /\ r.dec = call.dec
        /\ r.unsent = call.unsent /\ r.todo = call.todo
        /\ r.inside = call.inside /\ r.locked = call.locked \ {x}
        /\ r \in Call
    BY DEF Call
  <1>. HIDE DEF r
  <1>2. CASE call.pc \in {"idle", "done", "stuck"} /\ new = r
    BY <1>1, <1>2
    DEF Proceeds, RoleOK, Leading, Serving, Preparing, LocksSlot
  <1>3. CASE call.at = x /\ new = Bereft(r, x)
    <2>1. CASE Proposing(r)
      <3>1. /\ new.pc = r.pc /\ new.at = r.at /\ new.my_view = r.my_view
            /\ new.seq = r.seq /\ new.val = r.val /\ new.dec = r.dec
        BY <1>1, <1>3, <2>1 DEF Bereft, Call
      <3>2. r.pc \in {"prepare", "accept", "learn"} BY <2>1 DEF Proposing
      <3>3. ~up'[Leader]
        BY <1>1, <1>3, <3>2 DEF RoleOK, Leading
      <3>. QED
        BY <1>1, <3>1, <3>2, <3>3
        DEF Proceeds, RoleOK, Leading, Serving, Preparing, LocksSlot
    <2>2. CASE ~Proposing(r)
      <3>1. new.pc \in {"done", "stuck"}
        BY <1>3, <2>2 DEF Bereft, Over, Idle
      <3>2. call.pc # "learn" BY <1>1, <2>2 DEF Proposing
      <3>. QED BY <3>1, <3>2, LeavesProceeds DEF LocksSlot
    <2>. QED BY <2>1, <2>2
  <1>4. CASE call.at # x /\ new = Severed(r, x)
    <2>1. /\ new.pc = r.pc /\ new.at = r.at /\ new.my_view = r.my_view
          /\ new.seq = r.seq /\ new.val = r.val /\ new.dec = r.dec
          /\ new.unsent = r.unsent /\ new.todo = r.todo
          /\ new.inside = r.inside /\ new.locked = r.locked
      BY <1>1, <1>4 DEF Severed, Call
    <2>2. call.pc \in Leading => x # Leader
      BY <1>4 DEF RoleOK
    <2>3. RoleOK(new, up'[Leader])
      BY <1>1, <1>4, <2>1, <2>2 DEF RoleOK, Leading, Serving
    <2>4. Waiting(new) = Waiting(call) BY <1>1, <2>1 DEF Waiting
    <2>. QED
      BY <1>1, <2>1, <2>2, <2>3, <2>4
      DEF Proceeds, Leading, Serving, Preparing, LocksSlot
  <1>. QED BY <1>2, <1>3, <1>4 DEF r

LEMMA CrashProceeds ==
    ASSUME TypesOK, Sound, LogInv, NEW x \in Server, PaxosCrash(x)
    PROVE  AllProceed
  <1>1. up'[Leader] <=> up[Leader] /\ x # Leader
    BY CrashQuiet, LeaderFacts
  <1>2. ASSUME NEW d \in Calls
        PROVE  Proceeds(calls[d], calls'[d]) /\ ~LocksSlot(calls[d], calls'[d])
    <2>. DEFINE r == [calls[d] EXCEPT !.locked = @ \ {x}]
    <2>1. calls[d] \in Call /\ RoleOK(calls[d], up[Leader]) BY LogFacts
    <2>2. calls'[d] =
            CASE r.pc \in {"idle", "done", "stuck"} -> r
              [] r.pc \notin {"idle", "done", "stuck"} /\ r.at = x ->
                   Bereft(r, x)
              [] OTHER -> Severed(r, x)
      BY DEF PaxosCrash
    <2>3. r.pc = calls[d].pc /\ r.at = calls[d].at BY <2>1 DEF Call
    <2>4. \/ calls[d].pc \in {"idle", "done", "stuck"} /\ calls'[d] = r
          \/ calls[d].at = x /\ calls'[d] = Bereft(r, x)
          \/ calls[d].at # x /\ calls'[d] = Severed(r, x)
      BY <2>2, <2>3
    <2>. QED BY <1>1, <2>1, <2>4, CrashedProceeds
  <1>. QED BY <1>2 DEF AllProceed

LEMMA RequestProceeds ==
    ASSUME TypesOK, LogInv, NEW c \in Calls, NEW s \in Server,
           NEW q \in Seqs, Request(c, s, q)
    PROVE  AllProceed
  <1>. DEFINE new == [Idle EXCEPT !.pc = "start", !.at = s, !.seq = q,
                                  !.val = c]
  <1>1. new.pc = "start" /\ ~new.dec BY DEF Idle
  <1>2. calls[c].pc = "idle" /\ Goto(c, new) /\ up' = up
    BY DEF Request, viewVars
  <1>. HIDE DEF new
  <1>3. Proceeds(calls[c], new)
    BY <1>1, <1>2 DEF Proceeds, RoleOK, Leading, Serving, Preparing
  <1>. QED BY <1>2, <1>3, GotoProceeds

LEMMA StepProceeds ==
    ASSUME TypesOK, Sound, LogInv, ~LossyRPC, [StableNext]_allVars
    PROVE  AllProceed /\ (up'[Leader] => up[Leader])
  <1>1. ASSUME up' = up, calls' = calls PROVE AllProceed
    BY <1>1, StayProceeds DEF AllProceed, LogInv, Roles
  <1>2. ASSUME NEW c \in Calls, CallStep(c) PROVE AllProceed /\ up' = up
    BY <1>2, CallQuiet, AsideProceeds, StageOfCall, TellingProceeds
    DEF CallStep
  <1>3. ASSUME NEW s \in Server, HeartbeatStep(s)
        PROVE  up' = up /\ calls' = calls
    BY <1>3, HeartbeatQuiet
  <1>4. CASE UNCHANGED allVars
    BY <1>1, <1>4 DEF allVars, viewVars, paxosVars
  <1>5. ASSUME NEW c \in Calls, NEW s \in Server, NEW q \in Seqs,
               Request(c, s, q)
        PROVE  AllProceed /\ up' = up
    BY <1>5, RequestProceeds DEF Request, viewVars
  <1>6. ASSUME NEW x \in Server, PaxosCrash(x)
        PROVE  AllProceed /\ (up'[Leader] => up[Leader])
    BY <1>6, CrashProceeds, CrashQuiet, LeaderFacts
  <1>. QED
    BY <1>1, <1>2, <1>3, <1>4, <1>5, <1>6 DEF StableNext, ProposalStep
----------------------------------------------------------------------------
(* The theorems.                                                           *)

LEMMA LogInit ==
    ASSUME \A u, w \in Fresh : u = w, PaxosInit
    PROVE  LogInv
  <1>1. \A s \in Server : view[s] = StartView
    BY LeaderFacts DEF PaxosInit, ViewInit
  <1>2. seen = {StartView} /\ elections = {}
    BY <1>1, LeaderFacts DEF PaxosInit, ViewInit
  <1>3. \A c \in Calls : calls[c].pc = "idle" /\ calls[c] = Idle
    BY DEF PaxosInit, Idle
  <1>4. \A s \in Server, q \in Seqs : ~Decided(slots[s][q])
    BY DEF PaxosInit, NoSlot, Decided
  <1>5. \A q \in Seqs, v \in Value : ~Source(q, v)
    BY <1>3, <1>4 DEF Source, Somewhere, Learning
  <1>6. Roles
    BY <1>3 DEF Roles, RoleOK, Leading, Serving
  <1>7. Alone /\ NotYet /\ LeaderTold
    BY <1>3 DEF Alone, NotYet, LeaderTold, Serving, Preparing
  <1>8. MessagesKnown
    BY DEF PaxosInit, Nothing, MessagesKnown
  <1>. QED
    BY <1>2, <1>5, <1>6, <1>7, <1>8
    DEF LogInv, OneView, OneSource, LeaderKnows, Value

LEMMA LogStep ==
    ASSUME PaxosInv, LogInv, ~LossyRPC, [StableNext]_allVars
    PROVE  LogInv' /\ Steps /\ PaxosInv'
  <1>0. TypesOK /\ Sound /\ MessagesKnown /\ OneView
    BY DEF PaxosInv, LogInv
  <1>1. [PaxosNext]_allVars BY DEF PaxosNext
  <1>2. Grows /\ ViewTypeOK' /\ ViewsSeen' BY <1>0, <1>1, StepGrows
  <1>3. CallsAfter BY <1>0, <1>1, <1>2, StepCalls
  <1>4. PaxosInv' /\ SlotsKeep BY <1>1, InvStep
  <1>5. AllProceed /\ (up'[Leader] => up[Leader]) BY <1>0, StepProceeds
  <1>6. \E p \in Server : Extends(p)
    <2>1. ASSUME slots' = slots PROVE \E p \in Server : Extends(p)
      BY <2>1, SameExtends DEF SameDecisions, SameDecision
    <2>2. ASSUME NEW c \in Calls, NEW s \in Server, NEW q \in Seqs,
                 Request(c, s, q) \/ PaxosCrash(s)
          PROVE  slots' = slots
      BY <2>2 DEF Request, PaxosCrash
    <2>3. ASSUME NEW s \in Server, PaxosCrash(s) PROVE slots' = slots
      BY <2>3 DEF PaxosCrash
    <2>4. CASE UNCHANGED allVars BY <2>1, <2>4 DEF allVars, paxosVars
    <2>. QED
      BY <1>0, <1>2, <2>1, <2>2, <2>3, <2>4, CallDecisions,
         HeartbeatDecisions
      DEF StableNext, ProposalStep
  <1>7. Steps BY <1>0, <1>3, <1>4, <1>5, <1>6 DEF Steps
  <1>8. Roles' BY <1>5 DEF AllProceed, Proceeds, Roles
  <1>9. OneView' BY <1>0, OneViewAfter
  <1>10. MessagesKnown' BY <1>0, <1>7, StepCarries, MessagesKnownAfter
  <1>. QED
    BY <1>4, <1>7, <1>8, <1>9, <1>10, AloneAfter, OneSourceAfter, NotYetAfter,
       LeaderKnowsAfter, LeaderToldAfter
    DEF LogInv

\* What the values of slots are in two states of a step.
LEMMA LogValues ==
    ASSUME Steps, NEW s \in Server, NEW q \in Seqs
    PROVE  /\ slots[s][q].value \in Calls \cup {NoValue}
           /\ slots'[s][q].value \in Calls \cup {NoValue}
           /\ ~Decided(slots[s][q]) => slots[s][q].value = NoValue
           /\ ~Decided(slots'[s][q]) => slots'[s][q].value = NoValue
  <1>1. SlotSound(slots'[s][q], view'[s], seen', Asked(q))
    BY DEF Steps, SlotsKeep
  <1>2. SlotSound(slots[s][q], view[s], seen, Asked(q))
    BY DEF Steps, Sound, SlotsSound
  <1>. QED BY <1>1, <1>2 DEF SlotSound, Asked

\* A step that decides slots of a server extends its log by values that nobody
\* contradicts.
LEMMA LogMaps ==
    ASSUME Steps
    PROVE  L!Next
  <1>1. PICK p \in Server : Extends(p) BY DEF Steps
  <1>. DEFINE log == [q \in Seqs |-> slots'[p][q].value]
  <1>2. log \in L!Log
    <2>1. \A q \in Seqs : slots'[p][q].value \in Calls \cup {NoValue}
      BY LogValues
    <2>. QED BY <2>1 DEF L!Log
  <1>3. ASSUME NEW s \in Server, NEW q \in Seqs, SameDecision(s, q)
        PROVE  slots'[s][q].value = slots[s][q].value
    BY <1>3, LogValues DEF SameDecision
  <1>4. ASSUME NEW q \in Seqs
        PROVE  \/ log[q] = ValuesOf(p)[q]
               \/ ValuesOf(p)[q] = NoValue /\ L!MayLearn(q, log[q])
    <2>. DEFINE v == slots'[p][q].value
    <2>1. CASE SameDecision(p, q) BY <1>3, <2>1 DEF ValuesOf
    <2>2. CASE /\ Decided(slots[p][q]) => slots[p][q].value = NoValue
               /\ Source(q, v)
      <3>1. slots[p][q].value = NoValue BY <2>2, LogValues
      <3>2. CASE v = NoValue BY <3>1, <3>2 DEF ValuesOf
      <3>3. CASE v # NoValue
        <4>1. v \in Calls BY <3>3, LogValues
        <4>2. ASSUME NEW s \in Server, slots[s][q].value # NoValue
              PROVE  slots[s][q].value = v
          <5>1. slots[s][q].value \in Calls /\ Decided(slots[s][q])
            BY <4>2, LogValues
          <5>2. Source(q, slots[s][q].value)
            BY <5>1 DEF Source, Somewhere
          <5>. QED BY <2>2, <4>1, <5>1, <5>2 DEF Steps, LogInv, OneSource
        <4>3. L!MayLearn(q, v) BY <4>1, <4>2 DEF L!MayLearn, ValuesOf
        <4>. QED BY <3>1, <4>3 DEF ValuesOf
      <3>. QED BY <3>2, <3>3
    <2>. QED BY <1>1, <2>1, <2>2 DEF Extends
  <1>5. ASSUME NEW s \in Server
        PROVE  ValuesOf(s)' = IF s = p THEN log ELSE ValuesOf(s)
    <2>1. CASE s = p BY <2>1 DEF ValuesOf
    <2>2. CASE s # p
      <3>1. \A q \in Seqs : slots'[s][q].value = slots[s][q].value
        BY <1>1, <1>3, <2>2 DEF Extends
      <3>. QED BY <2>2, <3>1 DEF ValuesOf
    <2>. QED BY <2>1, <2>2
  <1>. HIDE DEF log
  <1>6. [s \in Server |-> ValuesOf(s)]' =
          [[s \in Server |-> ValuesOf(s)] EXCEPT ![p] = log]
    BY <1>5
  <1>7. L!Learn(p, log) BY <1>4, <1>6 DEF L!Learn
  <1>. QED BY <1>2, <1>7 DEF L!Next

LEMMA LogInvariant ==
    ASSUME \A u, w \in Fresh : u = w, LossyRPC = FALSE
    PROVE  StableSpec => [](PaxosInv /\ LogInv)
  <1>1. PaxosInit => LogInv BY LogInit
  <1>2. PaxosInv /\ LogInv /\ [StableNext]_allVars => LogInv'
    BY LogStep
  <1>3. StableSpec => []PaxosInv BY StableIsPaxos, PaxosInvariant, PTL
  <1>. QED BY <1>1, <1>2, <1>3, PTL DEF StableSpec

\* The servers start in one view, and a call to a live server returns: then every
\* value that is written, by whatever Learn or heartbeat, is the one that all
\* others have for this slot, if they have any.
THEOREM LogIsWriteOnce ==
    ASSUME \A u, w \in Fresh : u = w, LossyRPC = FALSE
    PROVE  StableSpec => WriteOnceLog
  <1>1. PaxosInv /\ LogInv /\ [StableNext]_allVars =>
          [L!Next]_([s \in Server |-> ValuesOf(s)])
    BY LogStep, LogMaps
  <1>2. PaxosInit => L!Init
    BY DEF PaxosInit, L!Init, ValuesOf, NoSlot
  <1>. QED
    BY <1>1, <1>2, LogInvariant, PTL DEF StableSpec, WriteOnceLog, L!Spec

\* In particular no two servers decide a slot with different values, but for
\* those who have read a decision before its value was written.
THEOREM OneLeaderAgrees ==
    ASSUME \A u, w \in Fresh : u = w, LossyRPC = FALSE
    PROVE  StableSpec => []Agreement
  <1>1. PaxosInv /\ LogInv => Agreement
    <2>. SUFFICES ASSUME PaxosInv, OneSource, NEW s \in Server,
                         NEW p \in Server, NEW q \in Seqs,
                         KnownDecided(slots[s][q]), KnownDecided(slots[p][q])
                  PROVE  slots[s][q].value = slots[p][q].value
      BY DEF LogInv, Agreement
    <2>1. /\ slots[s][q].value \in Calls /\ slots[p][q].value \in Calls
      BY DEF PaxosInv, Sound, SlotsSound, SlotSound, Asked, KnownDecided
    <2>2. Source(q, slots[s][q].value) /\ Source(q, slots[p][q].value)
      BY DEF Source, Somewhere, KnownDecided
    <2>. QED BY <2>1, <2>2 DEF OneSource
  <1>. QED BY <1>1, LogInvariant, PTL
----------------------------------------------------------------------------
(* No server stops answering.                                              *)

\* What a message tells is decided, so that nobody is in its Accept phase.
LEMMA NobodyWaits ==
    ASSUME PaxosInv, LogInv
    PROVE  CatchUpNeverWaits
  <1>1. ASSUME NEW p \in Server, NEW log, NEW q \in Blocked(p, log)
        PROVE  \A v \in Value : ~Source(q, v)
    <2>1. PICK c \in Calls : calls[c].seq = q /\ calls[c].pc = "accept"
      BY DEF Blocked, LockedBy
    <2>. QED BY <2>1 DEF LogInv, NotYet, Preparing
  <1>2. ASSUME NEW p \in Server, NEW log \in Carried,
               \A q \in Seqs : log[q] # Absent => Source(q, log[q])
        PROVE  Blocked(p, log) = {}
    <2>1. \A q \in Blocked(p, log) : q \in Seqs /\ log[q] # Absent
      BY DEF Blocked, LockedBy
    <2>2. \A q \in Blocked(p, log) : log[q] \in Value
      BY <2>1 DEF Carried
    <2>. QED BY <1>1, <1>2, <2>1, <2>2
  <1>3. TypesOK /\ Sound /\ MessagesKnown BY DEF PaxosInv, LogInv
  <1>4. ASSUME NEW s \in Server
        PROVE  /\ hb_sent[s] \in Carried /\ hb_reply[s] \in Carried
               /\ \A q \in Seqs : hb_sent[s][q] # Absent => Source(q, hb_sent[s][q])
               /\ \A q \in Seqs : hb_reply[s][q] # Absent => Source(q, hb_reply[s][q])
    BY <1>3, MessageFacts, MessagesSource
  <1>. QED BY <1>2, <1>4 DEF CatchUpNeverWaits

\* Under one leader the opposite lock orders of Accept and the catch-ups never
\* meet.
THEOREM CatchUpsNeverWait ==
    ASSUME \A u, w \in Fresh : u = w, LossyRPC = FALSE
    PROVE  StableSpec => []CatchUpNeverWaits
  <1>1. PaxosInv /\ LogInv => CatchUpNeverWaits BY NobodyWaits
  <1>. QED BY <1>1, LogInvariant, PTL
----------------------------------------------------------------------------
(* The leader's mutex.                                                     *)

\* The leader waits for nobody with mu locked, and has not lost it.
Followers == \A c \in Calls : Leader \notin Holds(calls[c])

LeaderOwns == Leader \notin mu_lost

LEMMA GotoFollowers ==
    ASSUME TypesOK, Followers, NEW c \in Calls, NEW new, Goto(c, new),
           Leader \notin Holds(new)
    PROVE  Followers'
  <1>1. calls' = [calls EXCEPT ![c] = new] /\ calls \in [Calls -> Call]
    BY DEF Goto, TypesOK, PaxosTypeOK
  <1>2. \A d \in Calls : calls'[d] \in {calls[d], new} BY <1>1
  <1>3. \A d \in Calls : Leader \notin Holds(calls'[d])
    BY <1>2 DEF Followers
  <1>. QED BY <1>3 DEF Followers, Holds

LEMMA HeldRecords ==
    ASSUME NEW r \in Call, NEW s \in Server, NEW S
    PROVE  /\ Returning(r).held = r.held /\ ProposalReturns(r).held = r.held
           /\ Holds(Over(r, S)) = {}
           /\ Holds(ForwardFrom(r, s)) = Holds(r) \cup {s}
  <1>1. /\ Returning(r).held = r.held /\ ProposalReturns(r).held = r.held
        /\ Over(r, S).held = <<>>
        /\ ForwardFrom(r, s).held = Append(r.held, s)
    BY DEF Returning, ProposalReturns, Over, ForwardFrom, Idle
  <1>2. r.held \in Seq(Server) BY CallFields
  <1>3. Range(Append(r.held, s)) = Range(r.held) \cup {s}
    <2>1. DOMAIN r.held = 1 .. Len(r.held) /\ Len(r.held) \in Nat BY <1>2
    <2>2. /\ DOMAIN Append(r.held, s) = 1 .. Len(r.held) + 1
          /\ \A i \in 1 .. Len(r.held) : Append(r.held, s)[i] = r.held[i]
          /\ Append(r.held, s)[Len(r.held) + 1] = s
      BY <1>2
    <2>3. 1 .. Len(r.held) + 1 = 1 .. Len(r.held) \cup {Len(r.held) + 1}
      BY <2>1
    <2>. QED BY <2>1, <2>2, <2>3 DEF Range
  <1>. QED BY <1>1, <1>3 DEF Holds, Range

LEMMA CallFollowers ==
    ASSUME TypesOK, Sound, LogInv, Followers, NEW c \in Calls, CallStep(c)
    PROVE  Followers'
  <1>. DEFINE r == calls[c]
  <1>0. /\ r \in Call /\ RoleOK(r, up[Leader]) /\ r.at \in Server
        /\ Leader \notin Holds(r) /\ (Leads(r.at) => r.at = Leader)
    BY LogFacts, CallFields DEF Followers, Leads, Leader
  <1>1. ASSUME NEW new, Goto(c, new), new.held = r.held PROVE Followers'
    BY <1>0, <1>1, GotoFollowers DEF Holds
  <1>2. ASSUME NEW S, Goto(c, Over(r, S)) PROVE Followers'
    BY <1>0, <1>2, HeldRecords, GotoFollowers
  <1>3. Returning(r).held = r.held /\ ProposalReturns(r).held = r.held
    BY <1>0, HeldRecords
  <1>4. CASE Forward(c)
    <2>1. r.pc = "forward" /\ r.at # Leader
      BY <1>0, <1>4 DEF Forward, RoleOK
    <2>2. Goto(c, ForwardFrom(r, r.at)) BY <1>0, <1>4, <2>1 DEF Forward
    <2>3. Leader \notin Holds(ForwardFrom(r, r.at))
      BY <1>0, <2>1, HeldRecords
    <2>. QED BY <2>2, <2>3, GotoFollowers
  <1>5. CASE Nested(c) BY <1>0, <1>5 DEF Nested, RoleOK
  <1>6. CASE \/ StartIgnored(c) \/ ForwardFails(c) \/ Return(c)
             \/ LearnEnds(c) \/ Orphaned(c)
    BY <1>1, <1>2, <1>3, <1>6
    DEF StartIgnored, ForwardFails, Return, LearnEnds, Orphaned
  <1>7. CASE Start(c) \/ ReadView(c) \/ LockSlot(c) \/ Begin(c)
    <2>1. ASSUME NEW x, NEW v, NEW l, NEW t
          PROVE  /\ [r EXCEPT !.pc = x].held = r.held
                 /\ [r EXCEPT !.pc = x, !.my_view = v].held = r.held
                 /\ [r EXCEPT !.pc = x, !.locked = l].held = r.held
                 /\ [r EXCEPT !.todo = t, !.pc = x].held = r.held
      BY <1>0 DEF Call
    <2>2. \/ Goto(c, Returning(r))
          \/ \E x, v, l, t :
               \/ Goto(c, [r EXCEPT !.pc = x])
               \/ Goto(c, [r EXCEPT !.pc = x, !.my_view = v])
               \/ Goto(c, [r EXCEPT !.pc = x, !.locked = l])
               \/ Goto(c, [r EXCEPT !.todo = t, !.pc = x])
      BY <1>7 DEF Start, ReadView, LockSlot, Begin, Goto
    <2>. QED BY <1>1, <1>3, <2>1, <2>2
  <1>8. CASE PrepareEnds(c) \/ AcceptEnds(c)
    <2>. DEFINE next == [r EXCEPT !.oks = 0, !.hna = -1, !.dec = FALSE,
                                  !.val = ValueToAccept(c, @)]
                away == [r EXCEPT !.pc = "forward", !.val = c]
                accept == [next EXCEPT !.pc = "accept", !.todo = Server]
                gone == [away EXCEPT !.doomed = @ \cup {r.at}]
    <2>1. /\ ToLearn(next).held = r.held /\ accept.held = r.held
          /\ away.held = r.held /\ gone.held = r.held
          /\ ToLearn(r).held = r.held
      BY <1>0 DEF ToLearn, Call
    <2>2. \/ Goto(c, ToLearn(next)) \/ Goto(c, accept)
          \/ Goto(c, away) \/ Goto(c, gone)
          \/ Goto(c, ToLearn(r)) \/ Goto(c, ProposalReturns(r))
      BY <1>8 DEF PrepareEnds, AcceptEnds
    <2>. HIDE DEF next, away, accept, gone
    <2>. QED BY <1>1, <1>3, <2>1, <2>2
  <1>9. ASSUME NEW p \in Server,
               \/ PrepareEnters(c, p) \/ PrepareFails(c, p)
               \/ PrepareAnswers(c, p) \/ LearnSends(c, p)
               \/ LearnEnters(c, p) \/ LearnDecides(c, p)
               \/ LearnStores(c, p)
        PROVE  Followers'
    <2>1. /\ [r EXCEPT !.inside = {p}].held = r.held
          /\ [r EXCEPT !.todo = @ \ {p}, !.inside = {}].held = r.held
          /\ TallyPrepare(r, p, slots[p][r.seq]).held = r.held
          /\ [r EXCEPT !.unsent = @ \ {p}, !.todo = @ \cup {p}].held = r.held
          /\ [r EXCEPT !.unsent = @ \ {p}, !.todo = @ \ {p},
                       !.inside = @ \cup {p}].held = r.held
          /\ [r EXCEPT !.noting = @ \cup {p}].held = r.held
          /\ [r EXCEPT !.inside = @ \ {p}].held = r.held
          /\ [r EXCEPT !.inside = @ \ {p}, !.noting = @ \ {p}].held = r.held
      BY <1>0 DEF TallyPrepare, Call
    <2>2. \/ Goto(c, [r EXCEPT !.inside = {p}])
          \/ Goto(c, [r EXCEPT !.todo = @ \ {p}, !.inside = {}])
          \/ Goto(c, TallyPrepare(r, p, slots[p][r.seq]))
          \/ Goto(c, [r EXCEPT !.unsent = @ \ {p}, !.todo = @ \cup {p}])
          \/ Goto(c, [r EXCEPT !.unsent = @ \ {p}, !.todo = @ \ {p},
                              !.inside = @ \cup {p}])
          \/ Goto(c, [r EXCEPT !.noting = @ \cup {p}])
          \/ Goto(c, [r EXCEPT !.inside = @ \ {p}])
          \/ Goto(c, [r EXCEPT !.inside = @ \ {p}, !.noting = @ \ {p}])
      BY <1>9
      DEF PrepareEnters, PrepareFails, PrepareAnswers, LearnSends,
          LearnEnters, LearnDecides, LearnStores
    <2>. QED BY <1>1, <2>1, <2>2
  <1>10. ASSUME NEW p \in Server,
                \/ AcceptEnters(c, p) \/ AcceptRecords(c, p)
                \/ AcceptNotes(c, p) \/ CallFails(c, p)
         PROVE  Followers'
    <2>. DEFINE over == [r EXCEPT !.inside = @ \ {p}, !.noting = @ \ {p}]
                enters == [r EXCEPT !.todo = @ \ {p}, !.inside = @ \cup {p}]
                records == [r EXCEPT !.noting = @ \cup {p}]
                answers == [over EXCEPT
                              !.dec = @ \/ KnownDecided(slots[p][r.seq])]
                fails == [r EXCEPT !.unsent = @ \ {p},
                                   !.todo = @ \ {p}, !.inside = @ \ {p},
                                   !.noting = @ \ {p}]
    <2>1. /\ over.held = r.held /\ enters.held = r.held
          /\ records.held = r.held /\ answers.held = r.held
          /\ fails.held = r.held
      BY <1>0 DEF Call
    <2>2. \/ Goto(c, over) \/ Goto(c, enters) \/ Goto(c, records)
          \/ Goto(c, answers) \/ Goto(c, fails)
      BY <1>10
      DEF AcceptEnters, AcceptRecords, AcceptNotes, CallFails, AcceptAnswers
    <2>. HIDE DEF over, enters, records, answers, fails
    <2>. QED BY <1>1, <2>1, <2>2
  <1>. QED
    BY <1>4, <1>5, <1>6, <1>7, <1>8, <1>9, <1>10 DEF CallStep

LEMMA AheadHeld ==
    ASSUME NEW r \in Call, NEW x
    PROVE  Range(Ahead(r, x)) \subseteq Range(r.held)
  <1>1. r.held \in Seq(Server) BY CallFields
  <1>2. CASE x \in Holds(r)
    <2>. DEFINE i == CHOOSE i \in DOMAIN r.held : r.held[i] = x
    <2>1. \E j \in DOMAIN r.held : r.held[j] = x
      BY <1>2 DEF Holds, Range
    <2>2. i \in DOMAIN r.held BY <2>1
    <2>3. DOMAIN r.held = 1 .. Len(r.held) /\ Len(r.held) \in Nat
      BY <1>1
    <2>4. Ahead(r, x) = SubSeq(r.held, i + 1, Len(r.held))
      BY <1>2 DEF Ahead
    <2>. HIDE DEF i
    <2>. DEFINE t == SubSeq(r.held, i + 1, Len(r.held))
    <2>5. /\ t \in Seq(Server)
          /\ Len(t) = IF i + 1 <= Len(r.held) THEN Len(r.held) - i ELSE 0
          /\ \A j \in 1 .. Len(r.held) - i : t[j] = r.held[i + j]
      <3>1. /\ i + 1 \in Int /\ Len(r.held) \in Int
            /\ \A j \in i + 1 .. Len(r.held) : r.held[j] \in Server
        BY <1>1, <2>2, <2>3
      <3>2. /\ t \in Seq(Server)
            /\ Len(t) = IF i + 1 <= Len(r.held)
                       THEN Len(r.held) - (i + 1) + 1 ELSE 0
            /\ \A j \in 1 .. Len(r.held) - (i + 1) + 1 :
                 t[j] = r.held[i + 1 + j - 1]
        BY <3>1, SubSeqProperties
      <3>. HIDE DEF t
      <3>. QED BY <2>2, <2>3, <3>2
    <2>. HIDE DEF t
    <2>6. DOMAIN t = 1 .. Len(t) BY <2>5
    <2>7. ASSUME NEW j \in DOMAIN t
          PROVE  i + j \in DOMAIN r.held /\ t[j] = r.held[i + j]
      BY <2>2, <2>3, <2>5, <2>6
    <2>8. t = Ahead(r, x) BY <2>4 DEF t
    <2>. QED BY <2>7, <2>8 DEF Range
  <1>3. CASE x \notin Holds(r) BY <1>3 DEF Ahead
  <1>. QED BY <1>2, <1>3

\* Whoever waited for server x is a follower, and the frames that stay waited
\* before.
LEMMA CrashFollowers ==
    ASSUME TypesOK, Followers, NEW x \in Server, PaxosCrash(x)
    PROVE  Followers'
  <1>. SUFFICES ASSUME NEW d \in Calls PROVE Leader \notin Holds(calls'[d])
    BY DEF Followers, Holds
  <1>. DEFINE r == [calls[d] EXCEPT !.locked = @ \ {x}]
  <1>1. /\ r \in Call /\ r.held = calls[d].held
        /\ Leader \notin Range(r.held)
    <2>1. calls[d] \in Call /\ Leader \notin Holds(calls[d])
      BY DEF TypesOK, PaxosTypeOK, Followers
    <2>. QED BY <2>1 DEF Call, Holds
  <1>2. calls'[d] \in {r, Bereft(r, x), Severed(r, x)} BY DEF PaxosCrash
  <1>. HIDE DEF r
  <1>3. Holds(Bereft(r, x)) = {}
    <2>1. CASE Proposing(r)
      <3>1. Bereft(r, x).held = <<>> BY <1>1, <2>1 DEF Bereft, Call
      <3>. QED BY <3>1 DEF Holds, Range
    <2>2. CASE ~Proposing(r) BY <1>1, <2>2, HeldRecords DEF Bereft
    <2>. QED BY <2>1, <2>2
  <1>4. Holds(Severed(r, x)) \subseteq Range(r.held)
    <2>1. Severed(r, x).held = Ahead(r, x) BY <1>1 DEF Severed, Call
    <2>2. Range(Ahead(r, x)) \subseteq Range(r.held)
      BY <1>1, AheadHeld
    <2>. QED BY <2>1, <2>2 DEF Holds
  <1>. QED BY <1>1, <1>2, <1>3, <1>4 DEF Holds

LEMMA StepFollowers ==
    ASSUME TypesOK, Sound, LogInv, Followers, [StableNext]_allVars
    PROVE  Followers'
  <1>1. CASE calls' = calls BY <1>1 DEF Followers, Holds
  <1>2. ASSUME NEW c \in Calls, NEW s \in Server, NEW q \in Seqs,
               Request(c, s, q)
        PROVE  Followers'
    <2>1. LET new == [Idle EXCEPT !.pc = "start", !.at = s, !.seq = q,
                                  !.val = c]
          IN  Leader \notin Holds(new)
      BY DEF Idle, Holds, Range
    <2>. QED BY <1>2, <2>1, GotoFollowers DEF Request
  <1>3. CASE UNCHANGED allVars BY <1>1, <1>3 DEF allVars, paxosVars
  <1>. QED
    BY <1>1, <1>2, <1>3, CallFollowers, CrashFollowers, HeartbeatQuiet
    DEF StableNext, ProposalStep

LEMMA CallLoses ==
    ASSUME TypesOK, Sound, LogInv, Followers, LeaderOwns, ~LossyRPC,
           NEW c \in Calls, CallStep(c)
    PROVE  LeaderOwns'
  <1>. DEFINE r == calls[c]
  <1>0. /\ RoleOK(r, up[Leader]) /\ r.at \in Server
        /\ Leader \notin Holds(r)
    BY LogFacts, CallFields DEF Followers
  <1>2. CASE mu_lost' = mu_lost BY <1>2 DEF LeaderOwns
  <1>3. CASE Nested(c) BY <1>0, <1>3 DEF Nested, RoleOK
  <1>4. CASE ForwardFails(c)
    BY <1>0, <1>4 DEF ForwardFails, LeaderOwns
  <1>5. CASE Return(c)
    BY <1>2, <1>5 DEF Return
  <1>6. ASSUME \/ Start(c) \/ StartIgnored(c) \/ ReadView(c) \/ Forward(c)
               \/ LockSlot(c) \/ Begin(c) \/ PrepareEnds(c)
               \/ AcceptEnds(c) \/ LearnEnds(c) \/ Orphaned(c)
        PROVE  mu_lost' = mu_lost
    BY <1>6
    DEF Start, StartIgnored, ReadView, Forward, LockSlot, Begin,
        PrepareEnds, AcceptEnds, LearnEnds, Orphaned, OtherPaxos
  <1>7. ASSUME NEW p \in Server,
               \/ PrepareEnters(c, p) \/ PrepareAnswers(c, p)
               \/ PrepareFails(c, p) \/ AcceptEnters(c, p)
               \/ AcceptRecords(c, p) \/ AcceptNotes(c, p)
               \/ LearnSends(c, p) \/ LearnEnters(c, p)
               \/ LearnDecides(c, p) \/ LearnStores(c, p) \/ CallFails(c, p)
        PROVE  mu_lost' = mu_lost
    BY <1>7
    DEF PrepareEnters, PrepareAnswers, PrepareFails, AcceptEnters,
        AcceptRecords, AcceptNotes, LearnSends, LearnEnters, LearnDecides,
        LearnStores, CallFails, OtherPaxos
  <1>. QED BY <1>2, <1>3, <1>4, <1>5, <1>6, <1>7 DEF CallStep

LEMMA HeartbeatLoses ==
    ASSUME CatchUpNeverWaits, NEW s \in Server, HeartbeatStep(s)
    PROVE  mu_lost' = mu_lost
  <1>1. ASSUME BeginRound(s) \/ FillRequest(s) \/ TakeReply(s)
        PROVE  mu_lost' = mu_lost
    BY <1>1 DEF BeginRound, FillRequest, TakeReply
  <1>2. ~TakeReplyBlocks(s)
    BY DEF TakeReplyBlocks, CatchUpBlocks, CatchUpNeverWaits
  <1>3. ASSUME NEW p \in Server
        PROVE  ~HeartbeatBlocks(s, p)
    BY DEF HeartbeatBlocks, CatchUpBlocks, CatchUpNeverWaits
  <1>4. ASSUME NEW p \in Server, HeartbeatCall(s, p) \/ HeartbeatFails(s, p)
        PROVE  mu_lost' = mu_lost
    BY <1>4 DEF HeartbeatCall, HeartbeatFails
  <1>. QED BY <1>1, <1>2, <1>3, <1>4 DEF HeartbeatStep

LEMMA CrashLoses ==
    ASSUME TypesOK, Followers, LeaderOwns, NEW x \in Server, PaxosCrash(x)
    PROVE  LeaderOwns'
  <1>1. \A c \in Calls : Behind(calls[c], x) \subseteq Holds(calls[c])
    BY DEF Behind, Holds, Range
  <1>. QED BY <1>1 DEF PaxosCrash, LeaderOwns, Followers

LEMMA StepLoses ==
    ASSUME TypesOK, Sound, LogInv, Followers, LeaderOwns, CatchUpNeverWaits,
           ~LossyRPC, [StableNext]_allVars
    PROVE  LeaderOwns'
  <1>1. ASSUME mu_lost' = mu_lost PROVE LeaderOwns'
    BY <1>1 DEF LeaderOwns
  <1>2. ASSUME NEW c \in Calls, NEW s \in Server, NEW q \in Seqs,
               Request(c, s, q)
        PROVE  LeaderOwns'
    BY <1>1, <1>2 DEF Request, OtherPaxos
  <1>3. ASSUME NEW s \in Server, HeartbeatStep(s) PROVE LeaderOwns'
    BY <1>1, <1>3, HeartbeatLoses
  <1>4. CASE UNCHANGED allVars
    BY <1>1, <1>4 DEF allVars, paxosVars
  <1>. QED
    BY <1>2, <1>3, <1>4, CallLoses, CrashLoses DEF StableNext, ProposalStep

\* Under one leader, while calls to live servers return, the leader's mutex is
\* free between any two steps: whoever locks it gives it up without waiting for
\* another server or for a thread that wants it.
THEOREM LeaderKeepsMuFree ==
    ASSUME \A u, w \in Fresh : u = w, LossyRPC = FALSE
    PROVE  StableSpec => []LeaderMuStaysFree
  <1>1. PaxosInit => Followers /\ LeaderOwns
    BY DEF PaxosInit, Idle, Followers, LeaderOwns, Holds, Range
  <1>2. PaxosInv /\ LogInv => CatchUpNeverWaits BY NobodyWaits
  <1>3. PaxosInv /\ LogInv /\ CatchUpNeverWaits /\ Followers /\ LeaderOwns
        /\ [StableNext]_allVars => Followers' /\ LeaderOwns'
    BY StepFollowers, StepLoses DEF PaxosInv
  <1>4. ASSUME PaxosInv, LogInv, Followers, LeaderOwns
        PROVE  LeaderMuStaysFree
    <2>1. \A s \in Server : view[s] = StartView
      BY <1>4, ViewFacts DEF PaxosInv, LogInv, OneView
    <2>. QED
      BY <1>4, <2>1
      DEF Followers, LeaderOwns, LeaderMuStaysFree, MuFree, Leads, Leader
  <1>. QED
    BY <1>1, <1>2, <1>3, <1>4, LogInvariant, PTL DEF StableSpec
=============================================================================
