------------------------- MODULE PaxosServerProofs -------------------------
(***************************************************************************)
(* What holds of the proposals for every number of servers, slots and      *)
(* requests, with any loss of calls, crashes and view changes: what a slot *)
(* is decided with was asked for, and stays once it is written; what is    *)
(* stored was decided; no slot is ahead of its server's view; and          *)
(* proposals move views only in the ways module Views allows for.          *)
(***************************************************************************)
EXTENDS PaxosServer, ViewsProofs, SequenceTheorems

\* The requests made for slot q, each with a value of its own.
Asked(q) == {c \in Calls : calls[c].pc # "idle" /\ calls[c].seq = q}

\* A slot of a server in view v is sound, where `views` have been held by
\* servers and `values` asked for in this slot.
SlotSound(slot, v, views, values) ==
    /\ slot.n_a \in views \cup {0}
    /\ slot.n_a <= v
    /\ slot.v_a \in values \cup {NoValue}
    /\ slot.value \in values \cup {NoValue}
    /\ ~Decided(slot) => slot.value = NoValue

SlotsSound ==
    \A s \in Server, q \in Seqs :
      SlotSound(slots[s][q], view[s], seen, Asked(q))

\* The phases of a call with a value to propose.
Valued == {"start", "read", "lock", "begin", "forward", "accept", "learn"}

\* A call is sound, where servers are in view `now`: its views were held by
\* servers, the highest n_a it was told of is one of them, its value was asked
\* for, whoever is handling its Accept request has taken its view, and only the
\* handlers of Accept and Learn keep slot->mu_ locked.
CallSound(r, now, views, values) ==
    /\ r.pc # "idle" => r.seq \in Seqs
    /\ r.pc \in {"lock", "begin", "prepare", "accept"} => r.my_view \in views
    /\ r.hna \in views \cup {0, -1}
    /\ r.val \in values \cup {NoValue}
    /\ r.pc \in Valued \/ (r.pc = "prepare" /\ r.dec) => r.val # NoValue
    /\ r.pc = "accept" => \A p \in r.inside : now[p] >= r.my_view
    /\ ~Proposing(r) => r.inside = {}
    /\ r.noting \subseteq r.inside
    /\ r.pc = "prepare" => r.noting = {}

CallsSound ==
    \A c \in Calls : CallSound(calls[c], view, seen, Asked(calls[c].seq))

\* The slots in a message were asked for.
LogSound(log) == \A q \in Seqs : log[q] \in Asked(q) \cup {NoValue, Absent}

MessagesSound ==
    \A s \in Server : LogSound(hb_sent[s]) /\ LogSound(hb_reply[s])

\* No two handlers have one slot locked.
NotedAlone ==
    \A c, d \in Calls : \A p \in calls[c].noting \cap calls[d].noting :
      calls[c].seq = calls[d].seq => c = d

\* Where a handler of Learn is about to write the value, there is none yet.
HalfDecided ==
    \A c \in Calls : \A p \in calls[c].noting :
      calls[c].pc = "learn" =>
        /\ Decided(slots[p][calls[c].seq])
        /\ slots[p][calls[c].seq].value = NoValue

TypesOK == ViewTypeOK /\ PaxosTypeOK

Sound == /\ ViewsSeen /\ SlotsSound /\ CallsSound /\ MessagesSound
         /\ NotedAlone /\ HalfDecided

\* The inductive invariant.
PaxosInv == TypesOK /\ Sound /\ StoredIsDecided
----------------------------------------------------------------------------
(* Slots.                                                                  *)

\* What a slot may become: a decision stays.
Follows(old, new) ==
    Decided(old) => Decided(new) /\ new.value = old.value

LEMMA NoSlotSound ==
    ASSUME NEW v \in Nat, NEW views, NEW values
    PROVE  NoSlot \in Slot /\ SlotSound(NoSlot, v, views, values)
  BY DEF NoSlot, Slot, SlotSound, Decided, Value

\* A slot that is visited keeps its decision and takes n_a from the view.
LEMMA AddSlotsSound ==
    ASSUME NEW slot \in Slot, NEW u \in Nat, NEW v \in Nat,
           NEW views, NEW values, v \in views,
           SlotSound(slot, u, views, values)
    PROVE  LET new == AddSlots(slot, v)
           IN  /\ new \in Slot
               /\ SlotSound(new, v, views, values)
               /\ Follows(slot, new)
  <1>1. InitSlot(v) \in Slot /\ InitSlot(v).v_a = NoValue
        /\ InitSlot(v).status = "PENDING" /\ InitSlot(v).value = NoValue
    <2>1. ASSUME NEW x \in Slot
          PROVE  LET y == [x EXCEPT !.status = "PENDING", !.n = v, !.n_a = v,
                                    !.highest_N = v]
                 IN  /\ y \in Slot /\ y.v_a = x.v_a /\ y.value = x.value
                     /\ y.status = "PENDING"
      BY DEF Slot
    <2>2. NoSlot \in Slot /\ NoSlot.v_a = NoValue /\ NoSlot.value = NoValue
      BY DEF NoSlot, Slot, Value
    <2>. QED BY <2>1, <2>2 DEF InitSlot
  <1>2. ASSUME NEW x \in Slot
        PROVE  LET y == [x EXCEPT !.n_a = v]
               IN  /\ y \in Slot /\ y.n_a = v /\ y.status = x.status
                   /\ y.value = x.value /\ y.v_a = x.v_a
    BY DEF Slot
  <1>3. CASE slot.status = "NONE"
    <2>1. AddSlots(slot, v) = [InitSlot(v) EXCEPT !.n_a = v]
      BY <1>3 DEF AddSlots
    <2>. QED BY <1>1, <1>2, <1>3, <2>1 DEF SlotSound, Follows, Decided
  <1>4. CASE slot.status # "NONE"
    <2>1. AddSlots(slot, v) = [slot EXCEPT !.n_a = v]
      BY <1>4 DEF AddSlots
    <2>. QED BY <1>2, <2>1 DEF SlotSound, Follows, Decided
  <1>. QED BY <1>3, <1>4

\* A slot that learns a value keeps an earlier decision.
LEMMA LearnValueSound ==
    ASSUME NEW slot \in Slot, NEW w \in Value, NEW v, NEW views, NEW values,
           w \in values \cup {NoValue}, SlotSound(slot, v, views, values)
    PROVE  LET new == LearnValue(slot, w)
           IN  /\ new \in Slot
               /\ SlotSound(new, v, views, values)
               /\ Follows(slot, new)
               /\ Decided(new)
               /\ ~Decided(slot) => new.value = w
  <1>1. LET new == [slot EXCEPT !.status = "DECIDED", !.value = w]
        IN  /\ new \in Slot /\ new.status = "DECIDED" /\ new.value = w
            /\ new.n_a = slot.n_a /\ new.v_a = slot.v_a
    BY DEF Slot, Value
  <1>. QED BY <1>1 DEF LearnValue, SlotSound, Follows, Decided

\* Views and requests only add to what a slot may hold.
LEMMA SlotStaysSound ==
    ASSUME NEW slot \in Slot, NEW v \in Nat, NEW w \in Nat, w >= v,
           NEW views, NEW more, views \subseteq more,
           NEW values, NEW further, values \subseteq further,
           SlotSound(slot, v, views, values)
    PROVE  SlotSound(slot, w, more, further)
  BY DEF SlotSound, Slot

\* A message of decided slots is taken over slot by slot.
LEMMA CatchUpSound ==
    ASSUME NEW log \in [Seqs -> Slot], NEW decided \in Carried,
           NEW u \in Nat, NEW v \in Nat, v >= u, NEW views, NEW values,
           v \in views,
           NEW q \in Seqs, SlotSound(log[q], u, views, values),
           decided[q] \in values \cup {NoValue, Absent}
    PROVE  LET new == CatchUp(log, decided, v)[q]
           IN  /\ new \in Slot
               /\ SlotSound(new, v, views, values)
               /\ Follows(log[q], new)
  <1>. log[q] \in Slot OBVIOUS
  <1>1. CASE decided[q] = Absent
    <2>1. CatchUp(log, decided, v)[q] = log[q] BY <1>1 DEF CatchUp
    <2>2. SlotSound(log[q], v, views, values) BY SlotStaysSound
    <2>. QED BY <2>1, <2>2 DEF Follows
  <1>2. CASE decided[q] # Absent
    <2>. DEFINE x == AddSlots(log[q], v)
    <2>1. CatchUp(log, decided, v)[q] = LearnValue(x, decided[q])
      BY <1>2 DEF CatchUp
    <2>2. decided[q] \in Value /\ decided[q] \in values \cup {NoValue}
      BY <1>2 DEF Carried
    <2>3. x \in Slot /\ SlotSound(x, v, views, values) /\ Follows(log[q], x)
      BY AddSlotsSound
    <2>. HIDE DEF x
    <2>. QED
      BY <2>1, <2>2, <2>3, LearnValueSound DEF Follows
  <1>. QED BY <1>1, <1>2
----------------------------------------------------------------------------
(* Calls.                                                                  *)

Pcs == {"idle", "start", "read", "lock", "begin", "forward", "nested",
        "prepare", "accept", "learn", "return", "done", "stuck"}

\* A call that was made remains the same request.
Continues(r, new) == r.pc # "idle" => new.pc # "idle" /\ new.seq = r.seq

\* What a call may become.
May(r, new, now, views, values) ==
    /\ new \in Call
    /\ Continues(r, new)
    /\ CallSound(new, now, views, values)
    /\ new.noting # {} => new.pc = r.pc

LEMMA CallFields ==
    ASSUME NEW r \in Call
    PROVE  /\ r.pc \in Pcs /\ r.at \in Server /\ r.seq \in Nat
           /\ r.my_view \in Nat /\ r.held \in Seq(Server)
           /\ r.locked \subseteq Server /\ r.doomed \subseteq Server
           /\ r.unsent \subseteq Server /\ r.todo \subseteq Server
           /\ r.inside \subseteq Server /\ r.noting \subseteq Server
           /\ r.oks \in Nat /\ r.hna \in Int /\ r.val \in Value
  BY DEF Call, Pcs

LEMMA HoldsType == ASSUME NEW r \in Call PROVE Holds(r) \subseteq Server
  BY CallFields DEF Holds, Range

LEMMA IdleType == Idle \in Call
  <1>1. 0 \in Server BY ServerFacts DEF Server
  <1>. QED BY <1>1, EmptySeq DEF Call, Idle, Value

LEMMA IdleSound ==
    ASSUME NEW now, NEW views, NEW values
    PROVE  CallSound(Idle, now, views, values)
  BY DEF CallSound, Idle, Valued, Proposing

LEMMA ReturningSound ==
    ASSUME NEW r \in Call, NEW now, NEW views, NEW values,
           CallSound(r, now, views, values), r.pc # "idle"
    PROVE  May(r, Returning(r), now, views, values)
  <1>. DEFINE new == Returning(r)
  <1>1. new \in Call BY IdleType DEF Call, Returning
  <1>2. /\ new.pc = "return" /\ new.seq = r.seq
        /\ new.hna = -1 /\ new.val = NoValue /\ new.inside = {}
        /\ new.noting = {}
    BY DEF Returning, Idle
  <1>. QED BY <1>1, <1>2 DEF May, Continues, CallSound, Proposing, Valued

LEMMA ProposalReturnsSound ==
    ASSUME NEW r \in Call, NEW now, NEW views, NEW values,
           CallSound(r, now, views, values), r.pc # "idle"
    PROVE  May(r, ProposalReturns(r), now, views, values)
  <1>. DEFINE x == Returning(r)
              new == ProposalReturns(r)
  <1>1. /\ x \in Call /\ x.pc = "return" /\ x.seq = r.seq
        /\ CallSound(x, now, views, values) /\ x.noting = {}
    BY ReturningSound DEF May, Continues, Returning, Idle
  <1>2. r.locked \ {r.at} \subseteq Server BY CallFields
  <1>3. new = [x EXCEPT !.locked = r.locked \ {r.at}]
    BY DEF ProposalReturns, ReleaseSlotMu
  <1>. HIDE DEF x, new
  <1>4. /\ new \in Call /\ new.pc = x.pc /\ new.seq = x.seq /\ new.val = x.val
        /\ new.my_view = x.my_view /\ new.hna = x.hna /\ new.dec = x.dec
        /\ new.inside = x.inside /\ new.noting = x.noting
    BY <1>1, <1>2, <1>3 DEF Call
  <1>. QED BY <1>1, <1>4 DEF May, Continues, CallSound, Proposing, new

LEMMA OverSound ==
    ASSUME NEW r \in Call, NEW stuck, NEW now, NEW views, NEW values,
           CallSound(r, now, views, values), r.pc # "idle"
    PROVE  May(r, Over(r, stuck), now, views, values)
  <1>. DEFINE new == Over(r, stuck)
              pc == IF stuck # {} \/ r.cut THEN "stuck" ELSE "done"
  <1>1. pc \in {"stuck", "done"} OBVIOUS
  <1>2. r.seq \in Nat /\ r.locked \ (Holds(r) \ stuck) \subseteq Server
    BY CallFields
  <1>3. new = [Idle EXCEPT !.pc = pc, !.seq = r.seq,
                           !.locked = r.locked \ (Holds(r) \ stuck)]
    BY DEF Over
  <1>. HIDE DEF pc
  <1>4. new \in Call BY IdleType, <1>1, <1>2, <1>3 DEF Call
  <1>5. /\ new.pc = pc /\ new.seq = r.seq
        /\ new.hna = -1 /\ new.val = NoValue /\ new.inside = {}
        /\ new.noting = {}
    BY <1>3 DEF Idle
  <1>. HIDE DEF new
  <1>6. May(r, new, now, views, values)
    BY <1>1, <1>4, <1>5 DEF May, Continues, CallSound, Proposing, Valued
  <1>. QED BY <1>6 DEF new

LEMMA ForwardFromSound ==
    ASSUME NEW r \in Call, NEW s \in Server, view[s] \in Nat,
           NEW now, NEW views, NEW values,
           CallSound(r, now, views, values), r.pc = "forward"
    PROVE  May(r, ForwardFrom(r, s), now, views, values)
  <1>. DEFINE new == ForwardFrom(r, s)
  <1>1. Append(r.held, s) \in Seq(Server)
    BY CallFields, AppendProperties
  <1>2. view[s] % N \in Server BY DivMod DEF Server
  <1>3. new \in Call
    BY IdleType, <1>1, <1>2 DEF Call, ForwardFrom
  <1>4. /\ new.pc = "start" /\ new.seq = r.seq
        /\ new.hna = -1 /\ new.val = r.val /\ new.inside = {}
        /\ new.noting = {}
    BY DEF ForwardFrom, Idle
  <1>. HIDE DEF new
  <1>5. May(r, new, now, views, values)
    BY <1>3, <1>4 DEF May, Continues, CallSound, Proposing, Valued
  <1>. QED BY <1>5 DEF new

\* The part of a call that proposals are made of.
SameProposal(r, new) ==
    /\ new.seq = r.seq /\ new.my_view = r.my_view
    /\ new.hna = r.hna /\ new.val = r.val /\ new.dec = r.dec

\* A call may send and receive and wait as it likes.
LEMMA QuietSound ==
    ASSUME NEW r \in Call, NEW new \in Call, NEW now, NEW views, NEW values,
           CallSound(r, now, views, values),
           SameProposal(r, new), new.pc = r.pc,
           new.inside \subseteq r.inside \/ r.pc \in {"prepare", "learn"},
           new.noting \subseteq new.inside, r.pc = "prepare" => new.noting = {}
    PROVE  May(r, new, now, views, values)
  BY DEF May, Continues, CallSound, Proposing, SameProposal

\* ... and go on with a value it has.
LEMMA AdvanceSound ==
    ASSUME NEW r \in Call, NEW new \in Call, NEW now, NEW views, NEW values,
           CallSound(r, now, views, values),
           SameProposal(r, new), r.pc \in Valued, r.inside = {},
           \/ new.pc \in {"read", "forward", "nested"}
           \/ /\ new.pc \in {"begin", "prepare", "accept"}
              /\ r.pc \in {"lock", "begin"}
           \/ new.pc = "learn" /\ r.pc = "accept",
           new.inside = r.inside, new.noting = r.noting
    PROVE  May(r, new, now, views, values)
  <1>1. r.val # NoValue /\ r.pc # "idle" /\ new.pc # "idle"
    BY DEF CallSound, Valued
  <1>2. new.inside = {} /\ new.noting = {}
    BY DEF CallSound
  <1>. QED
    BY <1>1, <1>2
    DEF May, Continues, CallSound, Proposing, SameProposal, Valued

LEMMA GoesOnSound ==
    ASSUME NEW r \in Call, NEW now, NEW views, NEW values,
           CallSound(r, now, views, values), r.pc = "start",
           NEW pc \in {"read", "forward"}
    PROVE  May(r, [r EXCEPT !.pc = pc], now, views, values)
  <1>. DEFINE new == [r EXCEPT !.pc = pc]
  <1>1. /\ new \in Call /\ new.pc = pc /\ SameProposal(r, new)
        /\ new.inside = r.inside /\ new.noting = r.noting
    BY DEF Call, SameProposal
  <1>. HIDE DEF new
  <1>2. May(r, new, now, views, values)
    BY <1>1, AdvanceSound DEF Valued, CallSound, Proposing
  <1>. QED BY <1>2 DEF new

LEMMA ReadViewSound ==
    ASSUME NEW r \in Call, NEW now, NEW views, NEW values,
           CallSound(r, now, views, values), r.pc = "read",
           NEW v \in Nat, v \in views
    PROVE  May(r, [r EXCEPT !.pc = "lock", !.my_view = v], now, views, values)
  <1>. DEFINE new == [r EXCEPT !.pc = "lock", !.my_view = v]
  <1>1. /\ new \in Call /\ new.pc = "lock" /\ new.my_view = v
        /\ new.seq = r.seq /\ new.hna = r.hna /\ new.val = r.val
        /\ new.inside = r.inside /\ new.noting = r.noting
    BY DEF Call
  <1>. HIDE DEF new
  <1>2. May(r, new, now, views, values)
    BY <1>1 DEF May, Continues, CallSound, Proposing, Valued
  <1>. QED BY <1>2 DEF new

LEMMA NestedSound ==
    ASSUME NEW r \in Call, NEW now, NEW views, NEW values,
           CallSound(r, now, views, values), r.pc = "forward",
           NEW s \in Server
    PROVE  May(r, [r EXCEPT !.pc = "nested", !.held = Append(@, s)],
               now, views, values)
  <1>. DEFINE h == Append(r.held, s)
              new == [r EXCEPT !.pc = "nested", !.held = h]
  <1>1. h \in Seq(Server) BY CallFields, AppendProperties
  <1>. HIDE DEF h
  <1>2. /\ new \in Call /\ new.pc = "nested" /\ SameProposal(r, new)
        /\ new.inside = r.inside /\ new.noting = r.noting
    BY <1>1 DEF Call, SameProposal
  <1>. HIDE DEF new
  <1>3. May(r, new, now, views, values)
    BY <1>2, AdvanceSound DEF Valued, CallSound, Proposing
  <1>. QED BY <1>3 DEF new, h

\* The thread that locks a mutex its own caller holds.
LEMMA NestedOverSound ==
    ASSUME NEW r \in Call, NEW now, NEW views, NEW values,
           CallSound(r, now, views, values), r.pc = "nested",
           NEW s \in Server, NEW stuck
    PROVE  May(r, Over([r EXCEPT !.locked = @ \cup {s}], stuck),
               now, views, values)
  <1>. DEFINE x == [r EXCEPT !.locked = @ \cup {s}]
  <1>1. /\ x \in Call /\ x.pc = r.pc /\ x.inside = r.inside
        /\ x.noting = r.noting /\ SameProposal(r, x)
    BY DEF Call, SameProposal
  <1>. HIDE DEF x
  <1>2. CallSound(x, now, views, values)
    BY <1>1, QuietSound DEF May, CallSound
  <1>3. x.pc # "idle" BY <1>1
  <1>4. May(x, Over(x, stuck), now, views, values) BY <1>1, <1>2, <1>3, OverSound
  <1>5. x.seq = r.seq BY <1>1 DEF SameProposal
  <1>6. May(r, Over(x, stuck), now, views, values)
    BY <1>1, <1>3, <1>4, <1>5 DEF May, Continues
  <1>. QED BY <1>6 DEF x

LEMMA LockedSound ==
    ASSUME NEW r \in Call, NEW now, NEW views, NEW values,
           CallSound(r, now, views, values), r.pc = "lock"
    PROVE  May(r, [r EXCEPT !.pc = "begin", !.locked = @ \cup {r.at}],
               now, views, values)
  <1>. DEFINE l == r.locked \cup {r.at}
              new == [r EXCEPT !.pc = "begin", !.locked = l]
  <1>1. l \subseteq Server BY CallFields
  <1>. HIDE DEF l
  <1>2. /\ new \in Call /\ new.pc = "begin" /\ SameProposal(r, new)
        /\ new.inside = r.inside /\ new.noting = r.noting
    BY <1>1 DEF Call, SameProposal
  <1>. HIDE DEF new
  <1>3. May(r, new, now, views, values)
    BY <1>2, AdvanceSound DEF Valued, CallSound, Proposing
  <1>. QED BY <1>3 DEF new, l

LEMMA BeginSound ==
    ASSUME NEW r \in Call, NEW now, NEW views, NEW values,
           CallSound(r, now, views, values), r.pc = "begin",
           NEW pc \in {"prepare", "accept"}
    PROVE  May(r, [[r EXCEPT !.todo = Server] EXCEPT !.pc = pc],
               now, views, values)
  <1>. DEFINE new == [[r EXCEPT !.todo = Server] EXCEPT !.pc = pc]
  <1>1. /\ new \in Call /\ new.pc = pc /\ SameProposal(r, new)
        /\ new.inside = r.inside /\ new.noting = r.noting
    BY DEF Call, SameProposal
  <1>. HIDE DEF new
  <1>2. May(r, new, now, views, values)
    BY <1>1, AdvanceSound DEF Valued, CallSound, Proposing
  <1>. QED BY <1>2 DEF new

\* A phase calls a server: the request is on its way, handled, or done with.
LEMMA CallingSound ==
    ASSUME NEW r \in Call, NEW now, NEW views, NEW values,
           CallSound(r, now, views, values), r.pc # "idle",
           NEW u \in SUBSET Server, NEW t \in SUBSET Server,
           NEW i \in SUBSET Server, NEW n \in SUBSET Server,
           i \subseteq r.inside \/ r.pc \in {"prepare", "learn"},
           r.pc = "prepare" => n = {}
    PROVE  /\ May(r, [r EXCEPT !.unsent = u, !.todo = t], now, views, values)
           /\ n \subseteq r.inside =>
                May(r, [r EXCEPT !.noting = n], now, views, values)
           /\ r.noting \subseteq i =>
                /\ May(r, [r EXCEPT !.inside = i], now, views, values)
                /\ May(r, [r EXCEPT !.todo = t, !.inside = i],
                       now, views, values)
                /\ May(r, [r EXCEPT !.unsent = u, !.todo = t, !.inside = i],
                       now, views, values)
           /\ n \subseteq i =>
                /\ May(r, [r EXCEPT !.inside = i, !.noting = n],
                       now, views, values)
                /\ May(r, [r EXCEPT !.unsent = u, !.todo = t, !.inside = i,
                                    !.noting = n], now, views, values)
  <1>0. r.noting \subseteq r.inside /\ (r.pc = "prepare" => r.noting = {})
    BY DEF CallSound
  <1>. DEFINE As(new, inside, noting) ==
                /\ new \in Call /\ new.pc = r.pc /\ SameProposal(r, new)
                /\ new.inside = inside /\ new.noting = noting
  <1>1. /\ As([r EXCEPT !.unsent = u, !.todo = t], r.inside, r.noting)
        /\ As([r EXCEPT !.noting = n], r.inside, n)
        /\ As([r EXCEPT !.inside = i], i, r.noting)
        /\ As([r EXCEPT !.todo = t, !.inside = i], i, r.noting)
    BY DEF Call, SameProposal
  <1>2. /\ As([r EXCEPT !.unsent = u, !.todo = t, !.inside = i], i, r.noting)
        /\ As([r EXCEPT !.inside = i, !.noting = n], i, n)
        /\ As([r EXCEPT !.unsent = u, !.todo = t, !.inside = i, !.noting = n],
              i, n)
    BY DEF Call, SameProposal
  <1>3. ASSUME NEW new, NEW j \in {r.inside, i}, NEW m \in {r.noting, n},
               As(new, j, m), m \subseteq j
        PROVE  May(r, new, now, views, values)
    BY <1>0, <1>3, QuietSound
  <1>. HIDE DEF As
  <1>. QED BY <1>0, <1>1, <1>2, <1>3

\* An answer to Prepare.
LEMMA TallySound ==
    ASSUME NEW r \in Call, NEW now, NEW v, NEW views, NEW values,
           values \subseteq Calls, CallSound(r, now, views, values),
           r.pc = "prepare", NEW p \in Server,
           NEW slot \in Slot, SlotSound(slot, v, views, values)
    PROVE  May(r, TallyPrepare(r, p, slot), now, views, values)
  <1>. DEFINE higher == slot.n_a > r.hna
              done == KnownDecided(slot) \/ r.oks + 1 > N \div 2
              t == IF done THEN {} ELSE r.todo \ {p}
              o == r.oks + 1
              h == IF higher THEN slot.n_a ELSE r.hna
              v1 == IF KnownDecided(slot) THEN slot.value
                    ELSE IF higher THEN slot.v_a ELSE r.val
              d == KnownDecided(slot)
              new == [r EXCEPT !.inside = {}, !.todo = t, !.oks = o,
                               !.hna = h, !.val = v1, !.dec = d]
  <1>1. t \in SUBSET Server /\ o \in Nat BY CallFields
  <1>2. h \in Int /\ h \in views \cup {0, -1}
    BY CallFields DEF SlotSound, CallSound, Slot
  <1>3. /\ v1 \in Value /\ v1 \in values \cup {NoValue}
        /\ d => v1 # NoValue
    BY CallFields, PaxosAssumption
    DEF SlotSound, CallSound, Slot, Value, KnownDecided
  <1>4. d \in BOOLEAN BY DEF KnownDecided
  <1>5. TallyPrepare(r, p, slot) = new BY DEF TallyPrepare
  <1>. HIDE DEF t, o, h, v1, d
  <1>6. /\ new \in Call /\ new.pc = r.pc /\ new.seq = r.seq
        /\ new.my_view = r.my_view /\ new.hna = h /\ new.val = v1
        /\ new.dec = d /\ new.inside = {} /\ new.noting = r.noting
    BY <1>1, <1>2, <1>3, <1>4 DEF Call
  <1>. HIDE DEF new
  <1>7. May(r, new, now, views, values)
    BY <1>2, <1>3, <1>6 DEF May, Continues, CallSound, Proposing, Valued
  <1>. QED BY <1>5, <1>7

LEMMA ValueToAcceptSound ==
    ASSUME NEW c \in Calls, NEW values, c \in values, values \subseteq Calls,
           NEW v \in values \cup {NoValue}
    PROVE  /\ ValueToAccept(c, v) \in values
           /\ ValueToAccept(c, v) # NoValue
  BY PaxosAssumption DEF ValueToAccept

\* After Prepare: away to a leader in a higher view, ...
LEMMA AwaySound ==
    ASSUME NEW r \in Call, NEW now, NEW views, NEW values,
           CallSound(r, now, views, values), r.pc = "prepare", r.inside = {},
           NEW c \in Calls, c \in values, NEW d \in SUBSET Server
    PROVE  LET away == [r EXCEPT !.pc = "forward", !.val = c]
           IN  /\ May(r, away, now, views, values)
               /\ May(r, [away EXCEPT !.doomed = d], now, views, values)
  <1>. DEFINE away == [r EXCEPT !.pc = "forward", !.val = c]
              new == [away EXCEPT !.doomed = d]
  <1>1. /\ away \in Call /\ away.pc = "forward" /\ away.seq = r.seq
        /\ away.my_view = r.my_view /\ away.hna = r.hna /\ away.val = c
        /\ away.inside = {} /\ away.noting = {}
    BY DEF Call, Value, CallSound
  <1>2. c # NoValue BY PaxosAssumption
  <1>. HIDE DEF away
  <1>3. May(r, away, now, views, values)
    BY <1>1, <1>2 DEF May, Continues, CallSound, Proposing, Valued
  <1>4. /\ new \in Call /\ new.pc = away.pc /\ SameProposal(away, new)
        /\ new.inside = away.inside /\ new.noting = away.noting
    BY <1>1 DEF Call, SameProposal
  <1>. HIDE DEF new
  <1>5. May(away, new, now, views, values)
    BY <1>1, <1>3, <1>4, QuietSound DEF May
  <1>6. new.pc = "forward" /\ new.seq = r.seq /\ new.noting = {}
    BY <1>1, <1>4 DEF SameProposal
  <1>7. May(r, new, now, views, values)
    BY <1>5, <1>6 DEF May, Continues
  <1>. QED BY <1>3, <1>7 DEF new, away

\* ... or on with a value.
LEMMA PreparedSound ==
    ASSUME NEW r \in Call, NEW now, NEW views, NEW values,
           CallSound(r, now, views, values), r.pc = "prepare", r.inside = {},
           NEW v \in values, v # NoValue, values \subseteq Calls
    PROVE  LET next == [r EXCEPT !.oks = 0, !.hna = -1, !.dec = FALSE,
                                 !.val = v]
           IN  /\ May(r, ToLearn(next), now, views, values)
               /\ May(r, [next EXCEPT !.pc = "accept", !.todo = Server],
                      now, views, values)
  <1>. DEFINE next == [r EXCEPT !.oks = 0, !.hna = -1, !.dec = FALSE,
                                !.val = v]
  <1>1. /\ next \in Call /\ next.pc = r.pc /\ next.seq = r.seq
        /\ next.my_view = r.my_view /\ next.hna = -1 /\ next.val = v
        /\ next.inside = {} /\ next.noting = {}
    <2>0. r.noting = {} BY DEF CallSound
    <2>1. v \in Value BY DEF Value
    <2>2. ASSUME NEW o \in Nat, NEW h \in Int
          PROVE  LET x == [r EXCEPT !.oks = o, !.hna = h, !.dec = FALSE,
                                    !.val = v]
                 IN  /\ x \in Call /\ x.pc = r.pc /\ x.seq = r.seq
                     /\ x.my_view = r.my_view /\ x.hna = h /\ x.val = v
                     /\ x.inside = r.inside /\ x.noting = r.noting
      BY <2>1 DEF Call
    <2>3. 0 \in Nat /\ -1 \in Int OBVIOUS
    <2>. QED BY <2>0, <2>2, <2>3
  <1>. HIDE DEF next
  <1>2. ASSUME NEW new \in Call, new.pc \in {"accept", "learn"},
               SameProposal(next, new), new.inside = {}, new.noting = {}
        PROVE  May(r, new, now, views, values)
    BY <1>1, <1>2
    DEF May, Continues, CallSound, Proposing, SameProposal, Valued
  <1>3. LET new == ToLearn(next)
        IN  /\ new \in Call /\ new.pc = "learn" /\ new.inside = {}
            /\ new.noting = {} /\ SameProposal(next, new)
    BY <1>1 DEF ToLearn, Call, SameProposal
  <1>4. LET new == [next EXCEPT !.pc = "accept", !.todo = Server]
        IN  /\ new \in Call /\ new.pc = "accept" /\ new.inside = {}
            /\ new.noting = {} /\ SameProposal(next, new)
    BY <1>1 DEF Call, SameProposal
  <1>5. May(r, ToLearn(next), now, views, values) BY <1>2, <1>3
  <1>6. May(r, [next EXCEPT !.pc = "accept", !.todo = Server],
            now, views, values)
    BY <1>2, <1>4
  <1>. QED BY <1>5, <1>6 DEF next

\* Accept at a server that is in the view of the proposal by now.
LEMMA AcceptEnteredSound ==
    ASSUME NEW r \in Call, NEW now, NEW views, NEW values,
           CallSound(r, now, views, values), r.pc = "accept",
           NEW t \in SUBSET Server, NEW p \in Server, now[p] >= r.my_view
    PROVE  May(r, [r EXCEPT !.todo = t, !.inside = @ \cup {p}],
               now, views, values)
  <1>. DEFINE i == r.inside \cup {p}
              new == [r EXCEPT !.todo = t, !.inside = i]
  <1>1. i \in SUBSET Server BY CallFields
  <1>2. /\ new \in Call /\ new.pc = "accept" /\ new.inside = i
        /\ new.noting = r.noting /\ SameProposal(r, new)
    BY <1>1 DEF Call, SameProposal
  <1>. HIDE DEF new
  <1>3. May(r, new, now, views, values)
    BY <1>2 DEF May, Continues, CallSound, Proposing, SameProposal, Valued
  <1>. QED BY <1>3 DEF new

\* An answer to Accept may bring the news that the slot is decided.
LEMMA AcceptAnsweredSound ==
    ASSUME NEW r \in Call, NEW now, NEW views, NEW values,
           CallSound(r, now, views, values), r.pc = "accept",
           NEW i \in SUBSET r.inside, NEW n \in SUBSET i,
           NEW d \in BOOLEAN
    PROVE  LET over == [r EXCEPT !.inside = i, !.noting = n]
           IN  /\ May(r, over, now, views, values)
               /\ May(r, [over EXCEPT !.dec = @ \/ d], now, views, values)
  <1>. DEFINE over == [r EXCEPT !.inside = i, !.noting = n]
              e == over.dec \/ d
              new == [over EXCEPT !.dec = e]
  <1>1. i \in SUBSET Server /\ n \in SUBSET Server BY CallFields
  <1>2. May(r, over, now, views, values) BY <1>1, CallingSound
  <1>3. over \in Call /\ CallSound(over, now, views, values)
    BY <1>2 DEF May
  <1>4. over.pc = "accept" /\ over.seq = r.seq OBVIOUS
  <1>. HIDE DEF over
  <1>5. e \in BOOLEAN OBVIOUS
  <1>. HIDE DEF e
  <1>6. /\ new \in Call /\ new.pc = "accept" /\ new.inside = over.inside
        /\ new.seq = over.seq /\ new.my_view = over.my_view
        /\ new.hna = over.hna /\ new.val = over.val
        /\ new.noting = over.noting
    BY <1>3, <1>4, <1>5 DEF Call
  <1>. HIDE DEF new
  <1>7. May(r, new, now, views, values)
    BY <1>3, <1>4, <1>6 DEF May, Continues, CallSound, Proposing, Valued
  <1>. QED BY <1>2, <1>7 DEF new, e, over

LEMMA ToLearnSound ==
    ASSUME NEW r \in Call, NEW now, NEW views, NEW values,
           CallSound(r, now, views, values), r.pc = "accept", r.inside = {}
    PROVE  May(r, ToLearn(r), now, views, values)
  <1>1. LET new == ToLearn(r)
        IN  /\ new \in Call /\ new.pc = "learn" /\ new.inside = r.inside
            /\ new.noting = r.noting /\ SameProposal(r, new)
    BY DEF ToLearn, Call, SameProposal
  <1>. QED BY <1>1, AdvanceSound DEF Valued

LEMMA RequestSound ==
    ASSUME NEW c \in Calls, NEW s \in Server, NEW q \in Seqs,
           NEW now, NEW views, NEW values, c \in values
    PROVE  LET new == [Idle EXCEPT !.pc = "start", !.at = s, !.seq = q,
                                   !.val = c]
           IN  /\ new \in Call /\ new.pc = "start" /\ new.seq = q
               /\ new.noting = {} /\ CallSound(new, now, views, values)
  <1>. DEFINE new == [Idle EXCEPT !.pc = "start", !.at = s, !.seq = q,
                                  !.val = c]
  <1>1. q \in Nat BY ViewsAssumption
  <1>2. new \in Call BY <1>1, IdleType DEF Call, Value
  <1>3. /\ new.pc = "start" /\ new.seq = q /\ new.hna = -1 /\ new.val = c
        /\ new.inside = {} /\ new.noting = {}
    BY DEF Idle
  <1>4. c # NoValue BY PaxosAssumption
  <1>. HIDE DEF new
  <1>5. CallSound(new, now, views, values)
    BY <1>3, <1>4 DEF CallSound, Proposing
  <1>. QED BY <1>2, <1>3, <1>5 DEF new

\* The frames that outlive the one at a server that died.
LEMMA AheadType ==
    ASSUME NEW r \in Call, NEW x
    PROVE  Ahead(r, x) \in Seq(Server)
  <1>1. r.held \in Seq(Server) BY CallFields
  <1>2. CASE x \in Holds(r)
    <2>. DEFINE i == CHOOSE i \in DOMAIN r.held : r.held[i] = x
    <2>1. \E j \in DOMAIN r.held : r.held[j] = x
      BY <1>2 DEF Holds, Range
    <2>2. i \in DOMAIN r.held BY <2>1
    <2>3. DOMAIN r.held = 1 .. Len(r.held) /\ Len(r.held) \in Nat
      BY <1>1
    <2>. HIDE DEF i
    <2>4. SubSeq(r.held, i + 1, Len(r.held)) \in Seq(Server)
      BY <1>1, <2>2, <2>3, SubSeqProperties
    <2>. QED BY <1>2, <2>4 DEF Ahead, i
  <1>3. CASE x \notin Holds(r) BY <1>1, <1>3 DEF Ahead
  <1>. QED BY <1>2, <1>3

\* What the death of server x makes of a call.
LEMMA CrashSound ==
    ASSUME NEW call \in Call, NEW x \in Server,
           NEW now, NEW views, NEW values,
           CallSound(call, now, views, values)
    PROVE  LET r == [call EXCEPT !.locked = @ \ {x}]
           IN  /\ May(call, r, now, views, values)
               /\ r.pc \notin {"idle", "done", "stuck"} =>
                    /\ May(call, Bereft(r, x), now, views, values)
                    /\ May(call, Severed(r, x), now, views, values)
  <1>. DEFINE r == [call EXCEPT !.locked = @ \ {x}]
  <1>1. /\ r \in Call /\ r.pc = call.pc /\ r.inside = call.inside
        /\ r.noting = call.noting /\ SameProposal(call, r)
    BY DEF Call, SameProposal
  <1>2. r.seq = call.seq BY <1>1 DEF SameProposal
  <1>. HIDE DEF r
  <1>3. May(call, r, now, views, values) BY <1>1, QuietSound DEF CallSound
  <1>4. CallSound(r, now, views, values) BY <1>3 DEF May
  <1>5. ASSUME NEW new, May(r, new, now, views, values)
        PROVE  May(call, new, now, views, values)
    BY <1>1, <1>2, <1>5 DEF May, Continues
  <1>6. ASSUME Proposing(r) PROVE May(r, Bereft(r, x), now, views, values)
    <2>. DEFINE c == r.cut \/ Holds(r) \ {x} # {}
                i == r.inside \ {x}
                n == r.noting \ {x}
                new == [r EXCEPT !.unsent = {}, !.todo = {}, !.inside = i,
                                 !.noting = n, !.held = <<>>, !.doomed = {},
                                 !.cut = c]
    <2>1. Bereft(r, x) = new BY <1>6 DEF Bereft
    <2>2. c \in BOOLEAN OBVIOUS
    <2>3. /\ i \in SUBSET r.inside /\ i \in SUBSET Server
          /\ n \in SUBSET i /\ n \in SUBSET Server
          /\ r.pc = "prepare" => n = {}
      BY <1>1, <1>4, CallFields DEF CallSound
    <2>4. <<>> \in Seq(Server) BY EmptySeq
    <2>. HIDE DEF c, i, n
    <2>5. /\ new \in Call /\ new.pc = r.pc /\ new.inside = i
          /\ new.noting = n /\ SameProposal(r, new)
      BY <1>1, <2>2, <2>3, <2>4 DEF Call, SameProposal
    <2>. HIDE DEF new
    <2>6. May(r, new, now, views, values)
      BY <1>1, <1>4, <1>6, <2>3, <2>5, QuietSound DEF Proposing
    <2>. QED BY <2>1, <2>6
  <1>7. ASSUME r.pc # "idle", ~Proposing(r)
        PROVE  May(r, Bereft(r, x), now, views, values)
    BY <1>1, <1>4, <1>7, OverSound DEF Bereft
  <1>8. May(r, Severed(r, x), now, views, values)
    <2>. DEFINE h == Ahead(r, x)
                c == r.cut \/ Behind(r, x) # {}
                new == [r EXCEPT !.held = h, !.cut = c]
    <2>1. h \in Seq(Server) BY <1>1, AheadType
    <2>2. c \in BOOLEAN OBVIOUS
    <2>3. Severed(r, x) = new BY DEF Severed
    <2>. HIDE DEF h, c
    <2>4. /\ new \in Call /\ new.pc = r.pc /\ new.inside = r.inside
          /\ new.noting = r.noting /\ SameProposal(r, new)
      BY <1>1, <2>1, <2>2 DEF Call, SameProposal
    <2>. HIDE DEF new
    <2>5. May(r, new, now, views, values)
      BY <1>1, <1>4, <2>4, QuietSound DEF CallSound
    <2>. QED BY <2>3, <2>5
  <1>. QED BY <1>3, <1>5, <1>6, <1>7, <1>8 DEF r

----------------------------------------------------------------------------
(* Every step is a step of module Views, or leaves it alone.               *)

LEMMA CallFacts ==
    ASSUME TypesOK, Sound, NEW c \in Calls
    PROVE  LET r == calls[c]
           IN  /\ r \in Call
               /\ CallSound(r, view, seen, Asked(r.seq))
               /\ r.pc # "idle" => r.seq \in Seqs /\ c \in Asked(r.seq)
  BY DEF TypesOK, PaxosTypeOK, Sound, CallsSound, CallSound, Asked

LEMMA ViewFacts ==
    ASSUME TypesOK, Sound, NEW s \in Server
    PROVE  /\ view[s] \in Nat /\ view[s] \in seen
           /\ heartbeat[s].view \in Nat
           /\ heartbeat[s].todo # {} => heartbeat[s].view \in seen
           /\ seen \subseteq Nat
  BY DEF TypesOK, ViewTypeOK, Round, Sound, ViewsSeen

\* Taking over a view held before is TakeHigherView, or nothing.
LEMMA RaiseIsViewStep ==
    ASSUME NEW s \in Server, up[s], NEW v \in seen,
           RaiseView(s, v), OtherViews
    PROVE  [ViewNext]_viewVars
  <1>1. CASE v > view[s]
    <2>1. TakeHigherView(s)
      BY <1>1 DEF RaiseView, OtherViews, TakeHigherView
    <2>. QED BY <2>1 DEF ViewNext
  <1>2. CASE ~(v > view[s])
    BY <1>2
    DEF RaiseView, KeepView, OtherViews, UnchangedButViews, viewVars
  <1>. QED BY <1>1, <1>2

LEMMA CallViewStep ==
    ASSUME TypesOK, Sound, NEW c \in Calls, CallStep(c)
    PROVE  [ViewNext]_viewVars
  <1>1. CASE UNCHANGED viewVars BY <1>1
  <1>2. ASSUME PrepareEnds(c) PROVE [ViewNext]_viewVars
    <2>. DEFINE r == calls[c]
    <2>. r \in Call /\ r.pc = "prepare" /\ up[r.at] /\ r.at \in Server
      BY <1>2, CallFacts, CallFields DEF PrepareEnds
    <2>1. CASE /\ r.hna > r.my_view /\ r.hna > view[r.at]
               /\ SetView(r.at, r.hna) /\ OtherViews
      <3>1. r.hna \in seen
        BY <2>1, CallFacts, CallFields DEF CallSound
      <3>2. RaiseView(r.at, r.hna) BY <2>1 DEF RaiseView
      <3>. QED BY <2>1, <3>1, <3>2, RaiseIsViewStep
    <2>. QED BY <1>1, <1>2, <2>1 DEF PrepareEnds
  <1>3. ASSUME NEW p \in Server, AcceptEnters(c, p)
        PROVE  [ViewNext]_viewVars
    <2>1. calls[c].my_view \in seen
      BY <1>3, CallFacts DEF AcceptEnters, CallSound
    <2>. QED BY <1>3, <2>1, RaiseIsViewStep DEF AcceptEnters
  <1>4. ASSUME NEW p \in Server, AcceptNotes(c, p)
        PROVE  [ViewNext]_viewVars
    <2>1. calls[c].seq \in Seqs
      BY <1>4, CallFacts DEF AcceptNotes
    <2>. QED BY <1>1, <1>4, <2>1 DEF AcceptNotes, ViewNext
  <1>5. ASSUME \/ Start(c) \/ StartIgnored(c) \/ ReadView(c) \/ Forward(c)
               \/ Nested(c) \/ ForwardFails(c) \/ Return(c) \/ LockSlot(c)
               \/ Begin(c) \/ AcceptEnds(c) \/ LearnEnds(c) \/ Orphaned(c)
        PROVE  UNCHANGED viewVars
    BY <1>5
    DEF Start, StartIgnored, ReadView, Forward, Nested, ForwardFails, Return,
        LockSlot, Begin, AcceptEnds, LearnEnds, Orphaned
  <1>6. ASSUME NEW p \in Server,
               \/ PrepareEnters(c, p) \/ PrepareAnswers(c, p)
               \/ PrepareFails(c, p) \/ AcceptRecords(c, p)
               \/ LearnSends(c, p) \/ LearnEnters(c, p) \/ LearnDecides(c, p)
               \/ LearnStores(c, p) \/ CallFails(c, p)
        PROVE  UNCHANGED viewVars
    BY <1>6
    DEF PrepareEnters, PrepareAnswers, PrepareFails, AcceptRecords,
        LearnSends, LearnEnters, LearnDecides, LearnStores, CallFails
  <1>. QED BY <1>1, <1>2, <1>3, <1>4, <1>5, <1>6 DEF CallStep

LEMMA HeartbeatViewStep ==
    ASSUME TypesOK, Sound, NEW s \in Server, HeartbeatStep(s)
    PROVE  [ViewNext]_viewVars
  <1>1. CASE BeginRound(s)
    BY <1>1 DEF BeginRound, ViewNext, ElectionNext
  <1>2. CASE FillRequest(s) \/ TakeReply(s) \/ TakeReplyBlocks(s)
    BY <1>2 DEF FillRequest, TakeReply, TakeReplyBlocks
  <1>3. ASSUME NEW p \in Server, HeartbeatCall(s, p) \/ HeartbeatFails(s, p)
        PROVE  [ViewNext]_viewVars
    BY <1>3 DEF HeartbeatCall, HeartbeatFails, ViewNext, ElectionNext
  <1>4. ASSUME NEW p \in Server, HeartbeatBlocks(s, p)
        PROVE  [ViewNext]_viewVars
    <2>1. heartbeat[s].view \in seen
      BY <1>4, ViewFacts DEF HeartbeatBlocks, NextCallee
    <2>. QED BY <1>4, <2>1, RaiseIsViewStep DEF HeartbeatBlocks
  <1>. QED BY <1>1, <1>2, <1>3, <1>4 DEF HeartbeatStep

LEMMA StepIsViewStep ==
    ASSUME TypesOK, Sound, [PaxosNext]_allVars
    PROVE  [ViewNext]_viewVars
  <1>1. ASSUME NEW c \in Calls, CallStep(c) PROVE [ViewNext]_viewVars
    BY <1>1, CallViewStep
  <1>2. ASSUME NEW c \in Calls, NEW s \in Server, NEW q \in Seqs,
               Request(c, s, q)
        PROVE  UNCHANGED viewVars
    BY <1>2 DEF Request
  <1>3. ASSUME NEW s \in Server, PaxosCrash(s) PROVE [ViewNext]_viewVars
    BY <1>3 DEF PaxosCrash, ViewNext, ElectionNext
  <1>4. ASSUME NEW s \in Server, HeartbeatStep(s) PROVE [ViewNext]_viewVars
    BY <1>4, HeartbeatViewStep
  <1>5. CASE ViewStep
    BY <1>5 DEF ViewStep, ViewNext, ElectionNext, ElectionStep
  <1>6. CASE UNCHANGED allVars BY <1>6 DEF allVars
  <1>. QED BY <1>1, <1>2, <1>3, <1>4, <1>5, <1>6
       DEF PaxosNext, StableNext, ProposalStep

\* What views and requests can do in a step: more of them, and later ones.
Grows ==
    /\ view' \in [Server -> Nat] /\ ViewsGrow
    /\ seen \subseteq seen'

LEMMA StepGrows ==
    ASSUME TypesOK, Sound, [PaxosNext]_allVars
    PROVE  Grows /\ ViewTypeOK' /\ ViewsSeen'
  <1>1. [ViewNext]_viewVars BY StepIsViewStep
  <1>2. ViewTypeOK' /\ ViewsGrow BY <1>1, TypeStep, StepForward DEF TypesOK
  <1>3. ViewsSeen' /\ seen \subseteq seen' BY <1>1, SeenStep DEF TypesOK, Sound
  <1>. QED BY <1>2, <1>3 DEF Grows, ViewTypeOK

----------------------------------------------------------------------------
(* What a step does to the calls.                                          *)

\* Every call is still sound, and no request is forgotten.
CallsAfter ==
    /\ calls' \in [Calls -> Call]
    /\ CallsSound'
    /\ \A q \in Nat : Asked(q) \subseteq Asked(q)'
    /\ \A d \in Calls : calls'[d].noting # {} =>
         calls'[d].pc = calls[d].pc /\ calls'[d].seq = calls[d].seq

LEMMA CallStaysSound ==
    ASSUME Grows, TypesOK, NEW r \in Call,
           NEW values, NEW further, values \subseteq further,
           CallSound(r, view, seen, values)
    PROVE  CallSound(r, view', seen', further)
  <1>1. ASSUME NEW p \in Server, view[p] >= r.my_view
        PROVE  view'[p] >= r.my_view
    BY <1>1, CallFields DEF Grows, ViewsGrow, TypesOK, ViewTypeOK
  <1>2. r.inside \subseteq Server BY CallFields
  <1>. QED BY <1>1, <1>2 DEF CallSound, Grows

\* The call of a step, as it is to be judged after the step.
LEMMA CallBefore ==
    ASSUME TypesOK, Sound, Grows, NEW c \in Calls
    PROVE  LET r == calls[c]
           IN  /\ r \in Call
               /\ CallSound(r, view', seen', Asked(r.seq))
               /\ r.pc # "idle" => r.seq \in Seqs /\ c \in Asked(r.seq)
               /\ Asked(r.seq) \subseteq Calls
  BY CallFacts, CallStaysSound DEF Asked

LEMMA GotoAfter ==
    ASSUME TypesOK, Sound, Grows, NEW c \in Calls, NEW new, Goto(c, new),
           calls[c].pc # "idle",
           May(calls[c], new, view', seen', Asked(calls[c].seq))
    PROVE  CallsAfter
  <1>1. /\ new \in Call /\ new.pc # "idle" /\ new.seq = calls[c].seq
        /\ CallSound(new, view', seen', Asked(new.seq))
        /\ new.noting # {} => new.pc = calls[c].pc
    BY DEF May, Continues
  <1>2. /\ calls \in [Calls -> Call]
        /\ calls' = [calls EXCEPT ![c] = new]
    BY DEF TypesOK, PaxosTypeOK, Goto
  <1>3. ASSUME NEW q \in Nat PROVE Asked(q) \subseteq Asked(q)'
    BY <1>1, <1>2 DEF Asked
  <1>4. ASSUME NEW d \in Calls
        PROVE  CallSound(calls[d], view, seen, Asked(calls[d].seq))'
    <2>1. calls'[d] \in Call /\ calls'[d].seq \in Nat
      BY <1>1, <1>2, CallFields
    <2>2. CallSound(calls'[d], view', seen', Asked(calls'[d].seq))
      BY <1>1, <1>2, CallBefore
    <2>3. Asked(calls'[d].seq) \subseteq Asked(calls[d].seq)'
      BY <1>3, <2>1 DEF Asked
    <2>. QED BY <2>2, <2>3 DEF CallSound
  <1>. QED BY <1>1, <1>2, <1>3, <1>4 DEF CallsAfter, CallsSound

\* The steps of a call outside a proposal.
LEMMA ForwardingAfter ==
    ASSUME TypesOK, Sound, Grows, NEW c \in Calls,
           \/ Start(c) \/ StartIgnored(c) \/ ReadView(c) \/ Forward(c)
           \/ Nested(c) \/ ForwardFails(c) \/ Return(c) \/ LockSlot(c)
           \/ Orphaned(c)
    PROVE  CallsAfter
  <1>. DEFINE r == calls[c]
              values == Asked(r.seq)
              OK(new) == May(r, new, view', seen', values)
  <1>0. r \in Call /\ CallSound(r, view', seen', values) BY CallBefore
  <1>1. r.pc # "idle"
    BY DEF Start, StartIgnored, ReadView, Forward, Nested, ForwardFails,
           Return, LockSlot, Orphaned, Proposing
  <1>2. r.at \in Server /\ view[r.at] \in Nat /\ view[r.at] \in seen'
    BY <1>0, CallFields, ViewFacts DEF Grows
  <1>. SUFFICES \E new : Goto(c, new) /\ OK(new)
    BY <1>1, GotoAfter
  <1>3. OK(Returning(r)) BY <1>0, <1>1, ReturningSound
  <1>4. \A stuck : OK(Over(r, stuck)) BY <1>0, <1>1, OverSound
  <1>. HIDE DEF OK
  <1>5. CASE Start(c)
    <2>1. OK([r EXCEPT !.pc = "read"]) /\ OK([r EXCEPT !.pc = "forward"])
      BY <1>0, <1>5, GoesOnSound DEF Start, OK
    <2>. QED BY <1>3, <1>5, <2>1 DEF Start
  <1>6. CASE StartIgnored(c) BY <1>3, <1>6 DEF StartIgnored
  <1>7. CASE ReadView(c)
    <2>1. OK([r EXCEPT !.pc = "lock", !.my_view = view[r.at]])
      BY <1>0, <1>2, <1>7, ReadViewSound DEF ReadView, OK
    <2>. QED BY <1>7, <2>1 DEF ReadView
  <1>8. CASE Forward(c)
    <2>1. OK([r EXCEPT !.pc = "nested", !.held = Append(@, r.at)])
      BY <1>0, <1>2, <1>8, NestedSound DEF Forward, OK
    <2>2. OK(ForwardFrom(r, r.at))
      BY <1>0, <1>2, <1>8, ForwardFromSound DEF Forward, OK
    <2>. QED BY <1>8, <2>1, <2>2 DEF Forward
  <1>9. CASE Nested(c)
    <2>1. OK(Over([r EXCEPT !.locked = @ \cup {r.at}], Holds(r)))
      BY <1>0, <1>2, <1>9, NestedOverSound DEF Nested, OK
    <2>. QED BY <1>3, <1>9, <2>1 DEF Nested
  <1>10. CASE ForwardFails(c) BY <1>4, <1>10 DEF ForwardFails
  <1>11. CASE Return(c) BY <1>4, <1>11 DEF Return
  <1>12. CASE LockSlot(c)
    <2>1. OK([r EXCEPT !.pc = "begin", !.locked = @ \cup {r.at}])
      BY <1>0, <1>12, LockedSound DEF LockSlot, OK
    <2>. QED BY <1>3, <1>12, <2>1 DEF LockSlot
  <1>13. CASE Orphaned(c) BY <1>4, <1>13 DEF Orphaned
  <1>. QED
    BY <1>5, <1>6, <1>7, <1>8, <1>9, <1>10, <1>11, <1>12, <1>13

\* The beginning and the ends of the phases of a proposal.
LEMMA PhaseAfter ==
    ASSUME TypesOK, Sound, Grows, NEW c \in Calls,
           Begin(c) \/ PrepareEnds(c) \/ AcceptEnds(c) \/ LearnEnds(c)
    PROVE  CallsAfter
  <1>. DEFINE r == calls[c]
              values == Asked(r.seq)
              OK(new) == May(r, new, view', seen', values)
  <1>0. r \in Call /\ CallSound(r, view', seen', values) /\ values \subseteq Calls
    BY CallBefore
  <1>1. r.pc # "idle"
    BY DEF Begin, PrepareEnds, AcceptEnds, LearnEnds
  <1>. SUFFICES \E new : Goto(c, new) /\ OK(new)
    BY <1>1, GotoAfter
  <1>2. c \in values BY <1>1, CallBefore
  <1>. HIDE DEF OK
  <1>3. CASE Begin(c)
    <2>1. /\ OK([[r EXCEPT !.todo = Server] EXCEPT !.pc = "prepare"])
          /\ OK([[r EXCEPT !.todo = Server] EXCEPT !.pc = "accept"])
      BY <1>0, <1>3, BeginSound DEF Begin, OK
    <2>. QED BY <1>3, <2>1 DEF Begin
  <1>4. CASE PrepareEnds(c)
    <2>. DEFINE next == [r EXCEPT !.oks = 0, !.hna = -1, !.dec = FALSE,
                                  !.val = ValueToAccept(c, @)]
                away == [r EXCEPT !.pc = "forward", !.val = c]
    <2>1. r.pc = "prepare" /\ r.inside = {} BY <1>4 DEF PrepareEnds
    <2>2. r.doomed \cup {r.at} \subseteq Server BY <1>0, CallFields
    <2>3. OK(away) /\ OK([away EXCEPT !.doomed = r.doomed \cup {r.at}])
      BY <1>0, <1>2, <2>1, <2>2, AwaySound DEF OK
    <2>4. OK([away EXCEPT !.doomed = @ \cup {r.at}])
      <3>1. away.doomed = r.doomed BY <1>0 DEF Call
      <3>. QED BY <2>3, <3>1
    <2>5. /\ ValueToAccept(c, r.val) \in values
          /\ ValueToAccept(c, r.val) # NoValue
      BY <1>0, <1>2, ValueToAcceptSound DEF CallSound
    <2>6. /\ OK(ToLearn(next))
          /\ OK([next EXCEPT !.pc = "accept", !.todo = Server])
      BY <1>0, <2>1, <2>5, PreparedSound DEF OK
    <2>7. \/ Goto(c, [away EXCEPT !.doomed = @ \cup {r.at}])
          \/ Goto(c, away)
          \/ Goto(c, IF r.dec THEN ToLearn(next)
                     ELSE [next EXCEPT !.pc = "accept", !.todo = Server])
      BY <1>4 DEF PrepareEnds
    <2>. HIDE DEF next, away
    <2>. QED BY <2>3, <2>4, <2>6, <2>7
  <1>5. CASE AcceptEnds(c)
    <2>1. OK(ToLearn(r)) BY <1>0, <1>5, ToLearnSound DEF AcceptEnds, OK
    <2>2. OK(ProposalReturns(r)) BY <1>0, <1>1, ProposalReturnsSound DEF OK
    <2>. QED BY <1>5, <2>1, <2>2 DEF AcceptEnds
  <1>6. CASE LearnEnds(c)
    <2>1. OK(ProposalReturns(r)) BY <1>0, <1>1, ProposalReturnsSound DEF OK
    <2>. QED BY <1>6, <2>1 DEF LearnEnds
  <1>. QED BY <1>3, <1>4, <1>5, <1>6

\* The calls of a phase.
LEMMA CalleeAfter ==
    ASSUME TypesOK, Sound, Grows, NEW c \in Calls, NEW p \in Server,
           \/ PrepareEnters(c, p) \/ PrepareAnswers(c, p)
           \/ PrepareFails(c, p) \/ AcceptEnters(c, p)
           \/ AcceptRecords(c, p) \/ AcceptNotes(c, p) \/ LearnSends(c, p)
           \/ LearnEnters(c, p) \/ LearnDecides(c, p) \/ LearnStores(c, p)
           \/ CallFails(c, p),
           calls[c].pc # "idle"
    PROVE  CallsAfter
  <1>. DEFINE r == calls[c]
              values == Asked(r.seq)
              OK(new) == May(r, new, view', seen', values)
  <1>0. /\ r \in Call /\ CallSound(r, view', seen', values)
        /\ values \subseteq Calls /\ r.seq \in Seqs
    BY CallBefore
  <1>1. /\ r.todo \subseteq Server /\ r.inside \subseteq Server
        /\ r.unsent \subseteq Server /\ r.noting \subseteq Server
    BY <1>0, CallFields
  <1>. SUFFICES \E new : Goto(c, new) /\ OK(new)
    BY GotoAfter
  <1>2. ASSUME NEW i \in SUBSET Server, NEW u \in SUBSET Server,
               NEW t \in SUBSET Server, NEW n \in SUBSET Server,
               i \subseteq r.inside \/ r.pc \in {"prepare", "learn"},
               r.pc = "prepare" => n = {}
        PROVE  /\ OK([r EXCEPT !.unsent = u, !.todo = t])
               /\ n \subseteq r.inside => OK([r EXCEPT !.noting = n])
               /\ r.noting \subseteq i =>
                    /\ OK([r EXCEPT !.inside = i])
                    /\ OK([r EXCEPT !.todo = t, !.inside = i])
                    /\ OK([r EXCEPT !.unsent = u, !.todo = t, !.inside = i])
               /\ n \subseteq i =>
                    /\ OK([r EXCEPT !.inside = i, !.noting = n])
                    /\ OK([r EXCEPT !.unsent = u, !.todo = t, !.inside = i,
                                    !.noting = n])
    BY <1>0, <1>2, CallingSound
  <1>21. r.noting \subseteq r.inside /\ (r.pc = "prepare" => r.noting = {})
    BY <1>0 DEF CallSound
  <1>. HIDE DEF OK
  <1>3. CASE PrepareEnters(c, p)
    <2>1. OK([r EXCEPT !.inside = {p}])
      BY <1>2, <1>21, <1>3 DEF PrepareEnters
    <2>. QED BY <1>3, <2>1 DEF PrepareEnters
  <1>4. CASE PrepareAnswers(c, p)
    <2>. DEFINE slot == slots[p][r.seq]
    <2>1. slot \in Slot /\ SlotSound(slot, view[p], seen, values)
      BY <1>0 DEF TypesOK, PaxosTypeOK, Sound, SlotsSound
    <2>2. /\ view[p] \in Nat /\ view'[p] \in Nat /\ view'[p] >= view[p]
          /\ seen \subseteq seen'
      BY ViewFacts DEF Grows, ViewsGrow
    <2>. HIDE DEF slot
    <2>3. SlotSound(slot, view'[p], seen', values)
      BY <2>1, <2>2, SlotStaysSound
    <2>4. r.pc = "prepare" BY <1>4 DEF PrepareAnswers
    <2>5. OK(TallyPrepare(r, p, slot))
      BY <1>0, <2>1, <2>3, <2>4, TallySound DEF OK
    <2>6. OK([r EXCEPT !.todo = @ \ {p}, !.inside = {}])
      BY <1>1, <1>2, <1>21, <2>4
    <2>. QED BY <1>4, <2>5, <2>6 DEF PrepareAnswers, slot
  <1>5. CASE PrepareFails(c, p)
    <2>1. OK([r EXCEPT !.todo = @ \ {p}, !.inside = {}])
      BY <1>1, <1>2, <1>21, <1>5 DEF PrepareFails
    <2>. QED BY <1>5, <2>1 DEF PrepareFails
  <1>6. CASE AcceptEnters(c, p)
    <2>1. view'[p] >= r.my_view
      BY <1>0, <1>6, ViewFacts, CallFields
      DEF AcceptEnters, RaiseView, SetView, KeepView, Grows, TypesOK, ViewTypeOK
    <2>2. r.todo \ {p} \in SUBSET Server /\ r.pc = "accept"
      BY <1>1, <1>6 DEF AcceptEnters
    <2>3. OK([r EXCEPT !.todo = @ \ {p}, !.inside = @ \cup {p}])
      BY <1>0, <2>1, <2>2, AcceptEnteredSound DEF OK
    <2>. QED BY <1>6, <2>3 DEF AcceptEnters
  <1>7. CASE AcceptRecords(c, p) \/ AcceptNotes(c, p)
    <2>. DEFINE over == [r EXCEPT !.inside = @ \ {p}, !.noting = @ \ {p}]
                d == KnownDecided(slots[p][r.seq])
    <2>1. r.pc = "accept" /\ p \in r.inside
      BY <1>7, <1>21 DEF AcceptRecords, AcceptNotes
    <2>2. OK([r EXCEPT !.noting = @ \cup {p}]) BY <1>1, <1>2, <1>21, <2>1
    <2>3. /\ r.inside \ {p} \in SUBSET r.inside
          /\ r.noting \ {p} \in SUBSET (r.inside \ {p}) /\ d \in BOOLEAN
      BY <1>1, <1>21 DEF KnownDecided
    <2>4. OK(over) /\ OK([over EXCEPT !.dec = @ \/ d])
      BY <1>0, <2>1, <2>3, AcceptAnsweredSound DEF OK
    <2>5. \/ Goto(c, [r EXCEPT !.noting = @ \cup {p}])
          \/ Goto(c, over) \/ Goto(c, [over EXCEPT !.dec = @ \/ d])
      BY <1>7 DEF AcceptRecords, AcceptNotes, AcceptAnswers
    <2>. HIDE DEF over
    <2>. QED BY <2>2, <2>4, <2>5
  <1>8. CASE LearnSends(c, p)
    <2>1. OK([r EXCEPT !.unsent = @ \ {p}, !.todo = @ \cup {p}])
      BY <1>1, <1>2, <1>21
    <2>. QED BY <1>8, <2>1 DEF LearnSends
  <1>9. CASE LearnEnters(c, p)
    <2>1. r.pc = "learn" BY <1>9 DEF LearnEnters
    <2>2. OK([r EXCEPT !.unsent = @ \ {p}, !.todo = @ \ {p},
                       !.inside = @ \cup {p}])
      BY <1>1, <1>2, <1>21, <2>1
    <2>. QED BY <1>9, <2>2 DEF LearnEnters
  <1>10. CASE LearnDecides(c, p) \/ LearnStores(c, p)
    <2>1. r.pc = "learn" /\ p \in r.inside
      BY <1>10, <1>21 DEF LearnDecides, LearnStores
    <2>2. /\ OK([r EXCEPT !.noting = @ \cup {p}])
          /\ OK([r EXCEPT !.inside = @ \ {p}, !.noting = @ \ {p}])
          /\ p \notin r.noting => OK([r EXCEPT !.inside = @ \ {p}])
      BY <1>1, <1>2, <1>21, <2>1
    <2>. QED BY <1>10, <2>2 DEF LearnDecides, LearnStores
  <1>11. CASE CallFails(c, p)
    <2>0. r.pc # "prepare" BY <1>11 DEF CallFails
    <2>1. OK([r EXCEPT !.unsent = @ \ {p}, !.todo = @ \ {p},
                       !.inside = @ \ {p}, !.noting = @ \ {p}])
      BY <1>1, <1>2, <1>21, <2>0
    <2>. QED BY <1>11, <2>1 DEF CallFails
  <1>. QED
    BY <1>3, <1>4, <1>5, <1>6, <1>7, <1>8, <1>9, <1>10, <1>11

LEMMA CallStepAfter ==
    ASSUME TypesOK, Sound, Grows, NEW c \in Calls, CallStep(c)
    PROVE  CallsAfter
  <1>1. ASSUME NEW p \in Server,
               \/ PrepareEnters(c, p) \/ PrepareAnswers(c, p)
               \/ PrepareFails(c, p) \/ AcceptEnters(c, p)
               \/ AcceptRecords(c, p) \/ AcceptNotes(c, p)
               \/ LearnSends(c, p) \/ LearnEnters(c, p)
               \/ LearnDecides(c, p) \/ LearnStores(c, p) \/ CallFails(c, p)
        PROVE  CallsAfter
    <2>1. calls[c].pc # "idle"
      BY <1>1
      DEF PrepareEnters, PrepareAnswers, PrepareFails, AcceptEnters,
          AcceptRecords, AcceptNotes, LearnSends, LearnEnters, LearnDecides,
          LearnStores, CallFails
    <2>. QED BY <1>1, <2>1, CalleeAfter
  <1>. QED BY <1>1, ForwardingAfter, PhaseAfter DEF CallStep

\* A new request is one more value asked for.
LEMMA RequestAfter ==
    ASSUME TypesOK, Sound, Grows, NEW c \in Calls, NEW s \in Server,
           NEW q \in Seqs, Request(c, s, q)
    PROVE  CallsAfter
  <1>. DEFINE new == [Idle EXCEPT !.pc = "start", !.at = s, !.seq = q,
                                  !.val = c]
  <1>1. /\ calls[c].pc = "idle" /\ calls \in [Calls -> Call]
        /\ calls' = [calls EXCEPT ![c] = new]
    BY DEF Request, Goto, TypesOK, PaxosTypeOK
  <1>2. ASSUME NEW values, c \in values
        PROVE  /\ new \in Call /\ new.pc = "start" /\ new.seq = q
               /\ new.noting = {} /\ CallSound(new, view', seen', values)
    BY <1>2, RequestSound
  <1>3. new \in Call /\ new.pc = "start" /\ new.seq = q /\ new.noting = {}
    BY <1>2
  <1>. HIDE DEF new
  <1>4. ASSUME NEW n \in Nat PROVE Asked(n) \subseteq Asked(n)'
    BY <1>1 DEF Asked
  <1>5. ASSUME NEW d \in Calls
        PROVE  CallSound(calls[d], view, seen, Asked(calls[d].seq))'
    <2>1. CASE d = c
      <3>1. c \in Asked(calls[c].seq)' BY <1>1, <1>3 DEF Asked
      <3>2. calls'[c] = new BY <1>1
      <3>. QED BY <1>2, <2>1, <3>1, <3>2
    <2>2. CASE d # c
      <3>1. calls'[d] = calls[d] /\ calls[d].seq \in Nat
        BY <1>1, <2>2, CallFields
      <3>2. CallSound(calls[d], view', seen', Asked(calls[d].seq))
        BY CallBefore
      <3>3. Asked(calls[d].seq) \subseteq Asked(calls[d].seq)'
        BY <1>4, <3>1 DEF Asked
      <3>. QED BY <3>1, <3>2, <3>3 DEF CallSound
    <2>. QED BY <2>1, <2>2
  <1>. QED BY <1>1, <1>3, <1>4, <1>5 DEF CallsAfter, CallsSound

LEMMA CrashAfter ==
    ASSUME TypesOK, Sound, Grows, NEW x \in Server, PaxosCrash(x)
    PROVE  CallsAfter
  <1>1. ASSUME NEW d \in Calls
        PROVE  May(calls[d], calls'[d], view', seen', Asked(calls[d].seq))
    <2>. DEFINE r == [calls[d] EXCEPT !.locked = @ \ {x}]
    <2>1. calls[d] \in Call
          /\ CallSound(calls[d], view', seen', Asked(calls[d].seq))
      BY CallBefore
    <2>2. \/ calls'[d] = r
          \/ /\ r.pc \notin {"idle", "done", "stuck"}
             /\ calls'[d] \in {Bereft(r, x), Severed(r, x)}
      BY DEF PaxosCrash
    <2>. HIDE DEF r
    <2>3. /\ May(calls[d], r, view', seen', Asked(calls[d].seq))
          /\ r.pc \notin {"idle", "done", "stuck"} =>
               /\ May(calls[d], Bereft(r, x), view', seen', Asked(calls[d].seq))
               /\ May(calls[d], Severed(r, x), view', seen',
                      Asked(calls[d].seq))
      BY <2>1, CrashSound DEF r
    <2>. QED BY <2>2, <2>3
  <1>2. calls' \in [Calls -> Call]
    <2>1. \A d \in Calls : calls'[d] \in Call BY <1>1 DEF May
    <2>2. calls' = [d \in Calls |-> calls'[d]] BY DEF PaxosCrash
    <2>. QED BY <2>1, <2>2
  <1>3. ASSUME NEW n \in Nat PROVE Asked(n) \subseteq Asked(n)'
    BY <1>1 DEF Asked, May, Continues
  <1>4. ASSUME NEW d \in Calls
        PROVE  CallSound(calls[d], view, seen, Asked(calls[d].seq))'
    <2>1. calls[d] \in Call /\ calls'[d] \in Call BY <1>1, CallBefore DEF May
    <2>2. calls[d].seq \in Nat BY <2>1, CallFields
    <2>3. CallSound(calls'[d], view', seen', Asked(calls[d].seq))
      BY <1>1 DEF May
    <2>4. CASE calls[d].pc = "idle"
      <3>1. LET r == [calls[d] EXCEPT !.locked = @ \ {x}]
            IN  calls'[d] = r /\ r.seq = calls[d].seq
        <4>1. LET r == [calls[d] EXCEPT !.locked = @ \ {x}]
              IN  r.pc = "idle" /\ r.seq = calls[d].seq
          BY <2>1, <2>4
        <4>. QED BY <4>1 DEF PaxosCrash
      <3>2. Asked(calls[d].seq) \subseteq Asked(calls[d].seq)'
        BY <1>3, <2>2, <3>1 DEF Asked
      <3>. QED BY <2>3, <3>2 DEF CallSound
    <2>5. CASE calls[d].pc # "idle"
      <3>1. calls'[d].seq = calls[d].seq
        BY <1>1, <2>5 DEF May, Continues
      <3>2. Asked(calls[d].seq) \subseteq Asked(calls[d].seq)'
        BY <1>3, <2>2, <3>1 DEF Asked
      <3>. QED BY <2>3, <3>2 DEF CallSound
    <2>. QED BY <2>4, <2>5
  <1>5. ASSUME NEW d \in Calls, calls'[d].noting # {}
        PROVE  calls'[d].pc = calls[d].pc /\ calls'[d].seq = calls[d].seq
    <2>1. calls'[d].pc = calls[d].pc /\ calls'[d].inside # {}
      BY <1>1, <1>5 DEF May, CallSound
    <2>2. calls[d].pc # "idle" BY <1>1, <2>1 DEF May, CallSound, Proposing
    <2>. QED BY <1>1, <2>1, <2>2 DEF May, Continues
  <1>. QED BY <1>2, <1>3, <1>4, <1>5 DEF CallsAfter, CallsSound

LEMMA SameCallsAfter ==
    ASSUME TypesOK, Sound, Grows, calls' = calls
    PROVE  CallsAfter
  <1>1. \A q : Asked(q)' = Asked(q) BY DEF Asked
  <1>2. ASSUME NEW d \in Calls
        PROVE  CallSound(calls[d], view, seen, Asked(calls[d].seq))'
    <2>1. CallSound(calls[d], view', seen', Asked(calls[d].seq))
      BY CallBefore
    <2>. QED BY <2>1, <1>1 DEF Asked
  <1>. QED
    BY <1>1, <1>2 DEF CallsAfter, CallsSound, TypesOK, PaxosTypeOK

LEMMA StepCalls ==
    ASSUME TypesOK, Sound, Grows, [PaxosNext]_allVars
    PROVE  CallsAfter
  <1>1. ASSUME NEW s \in Server, HeartbeatStep(s) PROVE calls' = calls
    BY <1>1 DEF HeartbeatStep, BeginRound, FillRequest, TakeReply,
       TakeReplyBlocks, HeartbeatCall, HeartbeatFails, HeartbeatBlocks
  <1>2. CASE ViewStep BY <1>2, SameCallsAfter DEF ViewStep, paxosVars
  <1>3. CASE UNCHANGED allVars
    BY <1>3, SameCallsAfter DEF allVars, paxosVars
  <1>. QED
    BY <1>1, <1>2, <1>3, SameCallsAfter, CallStepAfter, RequestAfter,
       CrashAfter
    DEF PaxosNext, StableNext, ProposalStep

\* Whoever locks slot->mu_ finds it free, and is alone in this step.
Notes(d, p) ==
    /\ SlotMu_Free(p, calls[d].seq)
    /\ \A e \in Calls \ {d} : calls'[e] = calls[e]
    /\ AcceptRecords(d, p) \/ LearnDecides(d, p)

LEMMA NotesOfCall ==
    ASSUME TypesOK, CallsAfter, NEW c \in Calls, CallStep(c),
           NEW p \in calls'[c].noting, p \notin calls[c].noting
    PROVE  Notes(c, p)
  <1>. DEFINE r == calls[c]
  <1>1. /\ calls \in [Calls -> Call] /\ r \in Call
        /\ calls'[c].pc = r.pc /\ calls'[c] \in Call
    BY DEF TypesOK, PaxosTypeOK, CallsAfter
  <1>2. r.pc \in {"accept", "learn"}
    BY <1>1 DEF CallsAfter, CallsSound, CallSound, Proposing
  <1>3. ASSUME NEW new, Goto(c, new)
        PROVE  /\ calls'[c] = new
               /\ \A e \in Calls \ {c} : calls'[e] = calls[e]
    BY <1>1, <1>3 DEF Goto
  <1>4. \A S : Over(r, S).noting = {} /\ ProposalReturns(r).noting = {}
    BY DEF Over, ProposalReturns, Returning, Idle
  <1>5. ASSUME NEW new, Goto(c, new), new.noting \subseteq r.noting PROVE FALSE
    BY <1>3, <1>5
  <1>6. ASSUME \/ Start(c) \/ StartIgnored(c) \/ ReadView(c) \/ Forward(c)
               \/ Nested(c) \/ ForwardFails(c) \/ Return(c) \/ LockSlot(c)
               \/ Begin(c) \/ PrepareEnds(c)
               \/ \E x \in Server : \/ PrepareEnters(c, x) \/ PrepareFails(c, x)
                                    \/ PrepareAnswers(c, x)
        PROVE  FALSE
    BY <1>2, <1>6
    DEF Start, StartIgnored, ReadView, Forward, Nested, ForwardFails, Return,
        LockSlot, Begin, PrepareEnds, PrepareEnters, PrepareFails,
        PrepareAnswers
  <1>7. ASSUME AcceptEnds(c) \/ LearnEnds(c) \/ Orphaned(c) PROVE FALSE
    <2>1. ToLearn(r).pc = "learn" BY <1>1 DEF ToLearn, Call
    <2>2. CASE AcceptEnds(c)
      BY <1>1, <1>3, <1>4, <1>5, <2>1, <2>2 DEF AcceptEnds
    <2>. QED BY <1>4, <1>5, <1>7, <2>2 DEF LearnEnds, Orphaned
  <1>8. ASSUME NEW x \in Server,
               \/ AcceptEnters(c, x) \/ AcceptNotes(c, x) \/ LearnSends(c, x)
               \/ LearnEnters(c, x) \/ LearnStores(c, x) \/ CallFails(c, x)
        PROVE  FALSE
    <2>. DEFINE enters == [r EXCEPT !.todo = @ \ {x}, !.inside = @ \cup {x}]
                over == [r EXCEPT !.inside = @ \ {x}, !.noting = @ \ {x}]
                answers == [over EXCEPT !.dec =
                              @ \/ KnownDecided(slots[x][r.seq])]
                sends == [r EXCEPT !.unsent = @ \ {x}, !.todo = @ \cup {x}]
                learns == [r EXCEPT !.unsent = @ \ {x}, !.todo = @ \ {x},
                                    !.inside = @ \cup {x}]
                fails == [r EXCEPT !.unsent = @ \ {x}, !.todo = @ \ {x},
                                   !.inside = @ \ {x}, !.noting = @ \ {x}]
    <2>1. /\ enters.noting = r.noting /\ over.noting \subseteq r.noting
          /\ answers.noting \subseteq r.noting /\ sends.noting = r.noting
          /\ learns.noting = r.noting /\ fails.noting \subseteq r.noting
      BY <1>1 DEF Call
    <2>2. \/ Goto(c, enters) \/ Goto(c, over) \/ Goto(c, answers)
          \/ Goto(c, sends) \/ Goto(c, learns) \/ Goto(c, fails)
      BY <1>8
      DEF AcceptEnters, AcceptNotes, AcceptAnswers, LearnSends, LearnEnters,
          LearnStores, CallFails
    <2>. HIDE DEF enters, over, answers, sends, learns, fails
    <2>. QED BY <1>5, <2>1, <2>2
  <1>9. ASSUME NEW x \in Server, AcceptRecords(c, x) \/ LearnDecides(c, x)
        PROVE  Notes(c, p)
    <2>. DEFINE notes == [r EXCEPT !.noting = @ \cup {x}]
                over == [r EXCEPT !.inside = @ \ {x}, !.noting = @ \ {x}]
                answers == [over EXCEPT !.dec =
                              @ \/ KnownDecided(slots[x][r.seq])]
                leaves == [r EXCEPT !.inside = @ \ {x}]
    <2>1. /\ notes.noting = r.noting \cup {x}
          /\ over.noting \subseteq r.noting
          /\ answers.noting \subseteq r.noting /\ leaves.noting = r.noting
      BY <1>1 DEF Call
    <2>2. \/ Goto(c, notes) \/ Goto(c, over) \/ Goto(c, answers)
          \/ Goto(c, leaves)
      BY <1>9 DEF AcceptRecords, AcceptAnswers, LearnDecides
    <2>. HIDE DEF notes, over, answers, leaves
    <2>3. Goto(c, notes) BY <1>5, <2>1, <2>2
    <2>4. p = x BY <1>3, <2>1, <2>3
    <2>5. SlotMu_Free(x, r.seq) BY <1>9 DEF AcceptRecords, LearnDecides
    <2>. QED BY <1>3, <1>9, <2>3, <2>4, <2>5 DEF Notes
  <1>. QED BY <1>6, <1>7, <1>8, <1>9 DEF CallStep

LEMMA StepNotes ==
    ASSUME TypesOK, CallsAfter, [PaxosNext]_allVars, NEW d \in Calls,
           NEW p \in calls'[d].noting
    PROVE  p \in calls[d].noting \/ Notes(d, p)
  <1>0. calls \in [Calls -> Call] BY DEF TypesOK, PaxosTypeOK
  <1>1. ASSUME NEW c \in Calls, CallStep(c)
        PROVE  p \in calls[d].noting \/ Notes(d, p)
    <2>1. CASE d = c BY <1>1, <2>1, NotesOfCall
    <2>2. CASE d # c
      <3>1. \E new : Goto(c, new)
        BY <1>1
        DEF CallStep, Start, StartIgnored, ReadView, Forward, Nested,
            ForwardFails, Return, LockSlot, Begin, PrepareEnds, AcceptEnds,
            LearnEnds, Orphaned, PrepareEnters, PrepareAnswers, PrepareFails,
            AcceptEnters, AcceptRecords, AcceptNotes, AcceptAnswers,
            LearnSends, LearnEnters, LearnDecides, LearnStores, CallFails
      <3>. QED BY <1>0, <2>2, <3>1 DEF Goto
    <2>. QED BY <2>1, <2>2
  <1>2. ASSUME NEW c \in Calls, NEW s \in Server, NEW q \in Seqs,
               Request(c, s, q)
        PROVE  p \in calls[d].noting
    <2>. DEFINE new == [Idle EXCEPT !.pc = "start", !.at = s, !.seq = q,
                                    !.val = c]
    <2>1. new.noting = {} BY DEF Idle
    <2>2. calls' = [calls EXCEPT ![c] = new] BY <1>2 DEF Request, Goto
    <2>. HIDE DEF new
    <2>. QED BY <1>0, <2>1, <2>2
  <1>3. ASSUME NEW x \in Server, PaxosCrash(x)
        PROVE  p \in calls[d].noting
    <2>. DEFINE r == [calls[d] EXCEPT !.locked = @ \ {x}]
    <2>0. calls[d] \in Call BY <1>0
    <2>1. r \in Call /\ r.noting = calls[d].noting BY <2>0 DEF Call
    <2>2. calls'[d] \in {r, Bereft(r, x), Severed(r, x)}
      BY <1>3 DEF PaxosCrash
    <2>. HIDE DEF r
    <2>3. Severed(r, x).noting = r.noting BY <2>1 DEF Severed, Call
    <2>4. Bereft(r, x).noting \subseteq r.noting
      <3>1. CASE Proposing(r) BY <2>1, <3>1 DEF Bereft, Call
      <3>2. CASE ~Proposing(r) BY <3>2 DEF Bereft, Over, Idle
      <3>. QED BY <3>1, <3>2
    <2>. QED BY <2>1, <2>2, <2>3, <2>4
  <1>4. ASSUME NEW s \in Server, HeartbeatStep(s) PROVE calls' = calls
    BY <1>4 DEF HeartbeatStep, BeginRound, FillRequest, TakeReply,
       TakeReplyBlocks, HeartbeatCall, HeartbeatFails, HeartbeatBlocks
  <1>5. CASE ViewStep \/ UNCHANGED allVars
    BY <1>5 DEF ViewStep, allVars, paxosVars
  <1>. QED
    BY <1>1, <1>2, <1>3, <1>4, <1>5 DEF PaxosNext, StableNext, ProposalStep

LEMMA NotedAloneAfter ==
    ASSUME TypesOK, Sound, CallsAfter, [PaxosNext]_allVars
    PROVE  NotedAlone'
  <1>. SUFFICES ASSUME NEW c \in Calls, NEW d \in Calls, c # d,
                       NEW p \in calls'[c].noting \cap calls'[d].noting,
                       calls'[c].seq = calls'[d].seq
                PROVE  FALSE
    BY DEF NotedAlone
  <1>1. calls[c].seq = calls[d].seq BY DEF CallsAfter
  <1>2. p \in calls[c].noting \/ Notes(c, p) BY StepNotes
  <1>3. p \in calls[d].noting \/ Notes(d, p) BY StepNotes
  <1>4. ~(p \in calls[c].noting /\ p \in calls[d].noting)
    BY <1>1 DEF Sound, NotedAlone
  <1>5. ASSUME NEW x \in Calls, NEW y \in Calls, x # y, Notes(x, p),
               p \in calls'[y].noting, calls[x].seq = calls[y].seq
        PROVE  FALSE
    BY <1>5 DEF Notes, SlotMu_Free
  <1>. QED BY <1>1, <1>2, <1>3, <1>4, <1>5

----------------------------------------------------------------------------
(* What a step does to the slots.                                          *)

\* Slot q of server s is sound as `new` and keeps a decision.
SlotMay(s, q, new) ==
    /\ new \in Slot
    /\ SlotSound(new, view'[s], seen', Asked(q))
    /\ Follows(slots[s][q], new)

SlotsAfter ==
    /\ slots' \in [Server -> [Seqs -> Slot]]
    /\ \A s \in Server, q \in Seqs : SlotMay(s, q, slots'[s][q])

LEMMA SlotBefore ==
    ASSUME TypesOK, Sound, Grows, NEW s \in Server, NEW q \in Seqs
    PROVE  /\ slots[s][q] \in Slot
           /\ SlotSound(slots[s][q], view[s], seen, Asked(q))
           /\ SlotMay(s, q, slots[s][q])
  <1>1. /\ slots[s][q] \in Slot
        /\ SlotSound(slots[s][q], view[s], seen, Asked(q))
    BY DEF TypesOK, PaxosTypeOK, Sound, SlotsSound
  <1>2. /\ view[s] \in Nat /\ view'[s] \in Nat /\ view'[s] >= view[s]
        /\ seen \subseteq seen'
    BY ViewFacts DEF Grows, ViewsGrow
  <1>3. SlotSound(slots[s][q], view'[s], seen', Asked(q))
    BY <1>1, <1>2, SlotStaysSound
  <1>. QED BY <1>1, <1>3 DEF SlotMay, Follows

LEMMA SameSlotsAfter ==
    ASSUME TypesOK, Sound, Grows, slots' = slots
    PROVE  SlotsAfter
  BY SlotBefore DEF SlotsAfter, TypesOK, PaxosTypeOK

LEMMA LogAfter ==
    ASSUME TypesOK, Sound, Grows, NEW s \in Server,
           NEW log \in [Seqs -> Slot], slots' = [slots EXCEPT ![s] = log],
           \A q \in Seqs : SlotMay(s, q, log[q])
    PROVE  SlotsAfter
  <1>1. slots \in [Server -> [Seqs -> Slot]] BY DEF TypesOK, PaxosTypeOK
  <1>2. slots' \in [Server -> [Seqs -> Slot]] BY <1>1
  <1>3. ASSUME NEW x \in Server, NEW q \in Seqs
        PROVE  SlotMay(x, q, slots'[x][q])
    BY <1>1, SlotBefore
  <1>. QED BY <1>2, <1>3 DEF SlotsAfter

LEMMA OneSlotAfter ==
    ASSUME TypesOK, Sound, Grows, NEW s \in Server, NEW q \in Seqs,
           NEW new, SlotMay(s, q, new), slots' = [slots EXCEPT ![s][q] = new]
    PROVE  SlotsAfter
  <1>. DEFINE log == [slots[s] EXCEPT ![q] = new]
  <1>1. slots[s] \in [Seqs -> Slot] /\ new \in Slot
    BY DEF TypesOK, PaxosTypeOK, SlotMay
  <1>2. log \in [Seqs -> Slot] BY <1>1
  <1>3. slots' = [slots EXCEPT ![s] = log] OBVIOUS
  <1>4. ASSUME NEW x \in Seqs PROVE SlotMay(s, x, log[x])
    BY <1>1, SlotBefore
  <1>. HIDE DEF log
  <1>. QED BY <1>2, <1>3, <1>4, LogAfter

\* The numbers of the proposer and the promises of the acceptor are not what
\* decisions are made of.
SameContents(old, new) ==
    /\ new \in Slot
    /\ new.status = old.status /\ new.value = old.value
    /\ new.n_a = old.n_a /\ new.v_a = old.v_a

LEMMA SameContentsAfter ==
    ASSUME TypesOK, Sound, Grows, slots' \in [Server -> [Seqs -> Slot]],
           \A s \in Server, q \in Seqs : SameContents(slots[s][q], slots'[s][q])
    PROVE  SlotsAfter
  <1>1. ASSUME NEW s \in Server, NEW q \in Seqs
        PROVE  SlotMay(s, q, slots'[s][q])
    <2>1. SlotSound(slots[s][q], view'[s], seen', Asked(q))
      BY SlotBefore DEF SlotMay
    <2>. QED BY <2>1 DEF SameContents, SlotMay, SlotSound, Follows, Decided
  <1>. QED BY <1>1 DEF SlotsAfter

LEMMA VisitAfter ==
    ASSUME TypesOK, Sound, Grows, NEW s \in Server, NEW q \in Seqs,
           Visit(s, q)
    PROVE  SlotsAfter
  <1>. DEFINE new == AddSlots(slots[s][q], view[s])
  <1>1. new \in Slot /\ SlotSound(new, view[s], seen, Asked(q))
        /\ Follows(slots[s][q], new)
    BY SlotBefore, ViewFacts, AddSlotsSound
  <1>2. /\ view[s] \in Nat /\ view'[s] \in Nat /\ view'[s] >= view[s]
        /\ seen \subseteq seen'
    BY ViewFacts DEF Grows, ViewsGrow
  <1>3. slots' = [slots EXCEPT ![s][q] = new] BY DEF Visit
  <1>. HIDE DEF new
  <1>4. SlotMay(s, q, new)
    BY <1>1, <1>2, SlotStaysSound DEF SlotMay
  <1>. QED BY <1>3, <1>4, OneSlotAfter

\* Server p takes over a message in the view it is in after the step.
LEMMA CatchUpAfter ==
    ASSUME TypesOK, Sound, Grows, NEW p \in Server,
           NEW msg \in Carried, LogSound(msg),
           NEW v, v = view'[p], v \in seen'
    PROVE  /\ CatchUp(slots[p], msg, v) \in [Seqs -> Slot]
           /\ \A q \in Seqs : SlotMay(p, q, CatchUp(slots[p], msg, v)[q])
  <1>1. slots[p] \in [Seqs -> Slot] BY DEF TypesOK, PaxosTypeOK
  <1>2. v \in Nat BY DEF Grows
  <1>3. ASSUME NEW q \in Seqs
        PROVE  SlotMay(p, q, CatchUp(slots[p], msg, v)[q])
    <2>1. SlotSound(slots[p][q], v, seen', Asked(q))
      BY SlotBefore DEF SlotMay
    <2>2. msg[q] \in Asked(q) \cup {NoValue, Absent} BY DEF LogSound
    <2>3. v >= v BY <1>2
    <2>. QED
      BY <1>1, <1>2, <2>1, <2>2, <2>3, CatchUpSound DEF SlotMay
  <1>4. CatchUp(slots[p], msg, v) =
          [q \in Seqs |-> CatchUp(slots[p], msg, v)[q]]
    BY DEF CatchUp
  <1>. QED BY <1>3, <1>4 DEF SlotMay

LEMMA CatchUpBlocksAfter ==
    ASSUME TypesOK, Sound, Grows, NEW p \in Server,
           NEW msg \in Carried, LogSound(msg),
           NEW v, v = view'[p], v \in seen', CatchUpBlocks(p, msg, v)
    PROVE  SlotsAfter
  <1>1. PICK b \in Seqs :
          LET before == [q \in Seqs |-> IF q < b THEN msg[q] ELSE Absent]
          IN  slots' = [slots EXCEPT ![p] =
                          [CatchUp(@, before, v) EXCEPT ![b].n_a = v]]
    BY DEF CatchUpBlocks, Blocked, LockedBy
  <1>. DEFINE before == [q \in Seqs |-> IF q < b THEN msg[q] ELSE Absent]
              mid == CatchUp(slots[p], before, v)
              log == [mid EXCEPT ![b].n_a = v]
  <1>2. before \in Carried /\ LogSound(before)
    BY DEF Carried, LogSound
  <1>. HIDE DEF before
  <1>3. mid \in [Seqs -> Slot] /\ \A q \in Seqs : SlotMay(p, q, mid[q])
    BY <1>2, CatchUpAfter
  <1>4. slots \in [Server -> [Seqs -> Slot]] BY DEF TypesOK, PaxosTypeOK
  <1>5. slots' = [slots EXCEPT ![p] = log] BY <1>1, <1>4 DEF before
  <1>6. v \in Nat BY DEF Grows
  <1>. HIDE DEF mid
  <1>7. log \in [Seqs -> Slot] BY <1>3, <1>6 DEF Slot
  <1>8. ASSUME NEW q \in Seqs PROVE SlotMay(p, q, log[q])
    <2>1. CASE q # b
      <3>1. log[q] = mid[q] BY <1>3, <2>1
      <3>. QED BY <1>3, <3>1
    <2>2. CASE q = b
      <3>1. LET x == log[q]
            IN  /\ x \in Slot /\ x.status = mid[q].status /\ x.n_a = v
                /\ x.value = mid[q].value /\ x.v_a = mid[q].v_a
        BY <1>3, <1>6, <2>2 DEF Slot
      <3>2. SlotMay(p, q, mid[q]) BY <1>3
      <3>3. v <= view'[p] BY <1>6
      <3>. HIDE DEF log
      <3>. QED
        BY <3>1, <3>2, <3>3 DEF SlotMay, SlotSound, Follows, Decided
    <2>. QED BY <2>1, <2>2
  <1>. HIDE DEF log
  <1>. QED BY <1>5, <1>7, <1>8, LogAfter

LEMMA NextNumberType ==
    ASSUME NEW slot \in Slot
    PROVE  NextNumber(slot) \in Nat
  <1>1. slot.n \in Nat /\ slot.highest_N \in Nat BY DEF Slot
  <1>2. CASE slot.n > slot.highest_N BY <1>1, <1>2 DEF NextNumber
  <1>3. CASE slot.n <= slot.highest_N
    <2>. DEFINE k == (slot.highest_N - slot.n) \div N + 1
    <2>1. slot.highest_N - slot.n \in Nat BY <1>1, <1>3
    <2>2. k \in Nat \ {0} BY <2>1, DivMod
    <2>. HIDE DEF k
    <2>3. N * k \in Nat BY <2>2, MultipleGrows, ServerFacts
    <2>4. NextNumber(slot) = slot.n + N * k
      BY <1>1, <1>3 DEF NextNumber, k
    <2>. QED BY <1>1, <2>3, <2>4
  <1>. QED BY <1>1, <1>2, <1>3

LEMMA NumbersOfSlot ==
    ASSUME NEW slot \in Slot, NEW n \in Nat
    PROVE  /\ SameContents(slot, [slot EXCEPT !.n = n])
           /\ SameContents(slot, [slot EXCEPT !.n_p = n])
           /\ SameContents(slot, [slot EXCEPT !.highest_N = n])
  <1>1. SameContents(slot, [slot EXCEPT !.n = n])
    BY DEF SameContents, Slot
  <1>2. SameContents(slot, [slot EXCEPT !.n_p = n])
    BY DEF SameContents, Slot
  <1>3. SameContents(slot, [slot EXCEPT !.highest_N = n])
    BY DEF SameContents, Slot
  <1>. QED BY <1>1, <1>2, <1>3

\* All slots have the contents they had, where one of them was replaced.
Alike(x, y) ==
    /\ y \in [Server -> [Seqs -> Slot]]
    /\ \A s \in Server, q \in Seqs : SameContents(x[s][q], y[s][q])

LEMMA OneReplaced ==
    ASSUME NEW x \in [Server -> [Seqs -> Slot]], NEW s \in Server,
           NEW q \in Seqs, NEW new, SameContents(x[s][q], new)
    PROVE  Alike(x, [x EXCEPT ![s][q] = new])
  BY DEF Alike, SameContents

LEMMA AlikeAgain ==
    ASSUME NEW x, NEW y, NEW z, Alike(x, y), Alike(y, z)
    PROVE  Alike(x, z)
  BY DEF Alike, SameContents

LEMMA AlikeAfter ==
    ASSUME TypesOK, Sound, Grows, Alike(slots, slots')
    PROVE  SlotsAfter
  BY SameContentsAfter DEF Alike

\* Numbers and promises.
LEMMA PromiseAlike ==
    ASSUME TypesOK, Sound, Grows, NEW c \in Calls, NEW p \in Server,
           Begin(c) \/ PrepareAnswers(c, p)
    PROVE  Alike(slots, slots')
  <1>. DEFINE r == calls[c]
              s == r.at
              q == r.seq
  <1>1. r \in Call /\ r.pc # "idle"
    BY CallBefore DEF Begin, PrepareAnswers
  <1>2. s \in Server /\ q \in Seqs BY <1>1, CallBefore, CallFields
  <1>3. slots \in [Server -> [Seqs -> Slot]] BY DEF TypesOK, PaxosTypeOK
  <1>4. CASE Begin(c)
    <2>1. CASE slots' = [slots EXCEPT ![s][q].n = NextNumber(slots[s][q])]
      <3>. DEFINE new == [slots[s][q] EXCEPT !.n = NextNumber(slots[s][q])]
      <3>1. NextNumber(slots[s][q]) \in Nat /\ slots[s][q] \in Slot
        BY <1>2, <1>3, NextNumberType
      <3>2. SameContents(slots[s][q], new) BY <3>1, NumbersOfSlot
      <3>3. slots' = [slots EXCEPT ![s][q] = new] BY <1>2, <1>3, <2>1
      <3>. HIDE DEF new
      <3>. QED BY <1>2, <1>3, <3>2, <3>3, OneReplaced
    <2>2. CASE slots' = slots
      BY <1>3, <2>2 DEF Alike, SameContents
    <2>. QED BY <1>4, <2>1, <2>2 DEF Begin
  <1>5. CASE PrepareAnswers(c, p)
    <2>. DEFINE n == slots[s][q].n
                slot == slots[p][q]
                ok == n > slot.n_p
                promised == IF ok THEN [slots EXCEPT ![p][q].n_p = n]
                            ELSE slots
                higher == [promised EXCEPT ![s][q].highest_N =
                             IF @ < n THEN n ELSE @]
    <2>1. slots' = promised \/ slots' = higher
      BY <1>5 DEF PrepareAnswers
    <2>2. n \in Nat BY <1>2, <1>3 DEF Slot
    <2>. HIDE DEF n
    <2>3. Alike(slots, promised)
      <3>1. CASE ~ok
        BY <1>3, <3>1 DEF Alike, SameContents
      <3>2. CASE ok
        <4>. DEFINE new == [slots[p][q] EXCEPT !.n_p = n]
        <4>1. slots[p][q] \in Slot BY <1>2, <1>3
        <4>2. SameContents(slots[p][q], new) BY <2>2, <4>1, NumbersOfSlot
        <4>3. promised = [slots EXCEPT ![p][q] = new] BY <1>2, <1>3, <3>2
        <4>. HIDE DEF new
        <4>4. Alike(slots, [slots EXCEPT ![p][q] = new])
          BY <1>2, <1>3, <4>2, OneReplaced
        <4>. HIDE DEF promised
        <4>. QED BY <4>3, <4>4
      <3>. QED BY <3>1, <3>2
    <2>. HIDE DEF promised
    <2>4. Alike(promised, higher)
      <3>. DEFINE h == IF promised[s][q].highest_N < n THEN n
                       ELSE promised[s][q].highest_N
                  new == [promised[s][q] EXCEPT !.highest_N = h]
      <3>1. promised \in [Server -> [Seqs -> Slot]] BY <2>3 DEF Alike
      <3>2. promised[s][q] \in Slot BY <1>2, <3>1
      <3>3. h \in Nat BY <2>2, <3>2 DEF Slot
      <3>4. higher = [promised EXCEPT ![s][q] = new] BY <1>2, <3>1
      <3>. HIDE DEF h
      <3>5. SameContents(promised[s][q], new) BY <3>2, <3>3, NumbersOfSlot
      <3>. HIDE DEF new
      <3>. QED BY <1>2, <3>1, <3>4, <3>5, OneReplaced
    <2>. HIDE DEF higher
    <2>. QED BY <2>1, <2>3, <2>4, AlikeAgain
  <1>. QED BY <1>4, <1>5

LEMMA PromiseAfter ==
    ASSUME TypesOK, Sound, Grows, NEW c \in Calls, NEW p \in Server,
           Begin(c) \/ PrepareAnswers(c, p)
    PROVE  SlotsAfter
  BY PromiseAlike, AlikeAfter

\* An acceptor records the value of a proposal in its view; a learner decides
\* its slot, still without a value.
LEMMA RecordAfter ==
    ASSUME TypesOK, Sound, Grows, NEW c \in Calls, NEW p \in Server,
           AcceptRecords(c, p) \/ LearnDecides(c, p)
    PROVE  SlotsAfter
  <1>. DEFINE r == calls[c]
              q == r.seq
              old == slots[p][q]
  <1>1. /\ r \in Call /\ CallSound(r, view', seen', Asked(q))
        /\ r.pc \in {"accept", "learn"} /\ p \in r.inside /\ q \in Seqs
    BY CallBefore DEF AcceptRecords, LearnDecides
  <1>2. old \in Slot /\ SlotSound(old, view'[p], seen', Asked(q))
    BY <1>1, SlotBefore DEF SlotMay
  <1>3. r.val \in Asked(q) /\ r.val \in Calls
    BY <1>1 DEF CallSound, Valued, Asked
  <1>4. slots \in [Server -> [Seqs -> Slot]] BY DEF TypesOK, PaxosTypeOK
  <1>5. CASE AcceptRecords(c, p)
    <2>1. CASE slots' = [slots EXCEPT ![p][q].n_a = r.my_view,
                                      ![p][q].v_a = r.val]
      <3>. DEFINE new == [old EXCEPT !.n_a = r.my_view, !.v_a = r.val]
      <3>1. slots' = [slots EXCEPT ![p][q] = new] BY <1>1, <1>4, <2>1
      <3>2. /\ r.my_view \in Nat /\ r.my_view \in seen'
            /\ r.my_view <= view'[p] /\ r.val \in Value
        BY <1>1, <1>5, CallFields
        DEF AcceptRecords, CallSound, Grows
      <3>3. /\ new \in Slot /\ new.status = old.status
            /\ new.value = old.value /\ new.n_a = r.my_view
            /\ new.v_a = r.val
        BY <1>2, <3>2 DEF Slot
      <3>. HIDE DEF new
      <3>4. SlotMay(p, q, new)
        BY <1>2, <1>3, <3>2, <3>3 DEF SlotMay, SlotSound, Follows, Decided
      <3>. QED BY <1>1, <3>1, <3>4, OneSlotAfter
    <2>. QED BY <1>5, <2>1, SameSlotsAfter DEF AcceptRecords
  <1>6. CASE LearnDecides(c, p)
    <2>1. CASE /\ ~Decided(old)
               /\ slots' = [slots EXCEPT ![p][q].status = "DECIDED"]
      <3>. DEFINE new == [old EXCEPT !.status = "DECIDED"]
      <3>1. slots' = [slots EXCEPT ![p][q] = new] BY <1>1, <1>4, <2>1
      <3>2. /\ new \in Slot /\ new.status = "DECIDED"
            /\ new.value = old.value /\ new.n_a = old.n_a
            /\ new.v_a = old.v_a
        BY <1>2 DEF Slot
      <3>. HIDE DEF new
      <3>3. SlotMay(p, q, new)
        BY <1>2, <2>1, <3>2 DEF SlotMay, SlotSound, Follows, Decided
      <3>. QED BY <1>1, <3>1, <3>3, OneSlotAfter
    <2>. QED BY <1>6, <2>1, SameSlotsAfter DEF LearnDecides
  <1>. QED BY <1>5, <1>6

\* What may happen to the slots in any step: a decision stays, and its value
\* is written once.
SlotsKeep ==
    /\ slots' \in [Server -> [Seqs -> Slot]]
    /\ \A s \in Server, q \in Seqs :
         /\ SlotSound(slots'[s][q], view'[s], seen', Asked(q))
         /\ Decided(slots[s][q]) =>
              /\ Decided(slots'[s][q])
              /\ slots[s][q].value \in {NoValue, slots'[s][q].value}

LEMMA KeepAfter ==
    ASSUME SlotsAfter
    PROVE  SlotsKeep
  BY DEF SlotsAfter, SlotMay, Follows, SlotsKeep

\* A learner writes the value of a slot that has none.
LEMMA StoreFacts ==
    ASSUME TypesOK, Sound, NEW c \in Calls, NEW p \in Server,
           LearnStores(c, p)
    PROVE  LET r == calls[c]
               q == r.seq
           IN  /\ r \in Call /\ q \in Seqs /\ r.val \in Asked(q)
               /\ slots[p][q] \in Slot /\ Decided(slots[p][q])
               /\ slots[p][q].value = NoValue
               /\ slots' \in [Server -> [Seqs -> Slot]]
               /\ slots'[p][q] = [slots[p][q] EXCEPT !.value = r.val]
               /\ \A s \in Server, x \in Seqs :
                    s # p \/ x # q => slots'[s][x] = slots[s][x]
  <1>. DEFINE r == calls[c]
              q == r.seq
              new == [slots[p][q] EXCEPT !.value = r.val]
  <1>1. /\ r \in Call /\ CallSound(r, view, seen, Asked(q))
        /\ r.pc = "learn" /\ q \in Seqs /\ p \in r.noting
    BY CallFacts DEF LearnStores
  <1>2. r.val \in Asked(q) /\ r.val \in Calls
    BY <1>1 DEF CallSound, Valued, Asked
  <1>3. slots \in [Server -> [Seqs -> Slot]] BY DEF TypesOK, PaxosTypeOK
  <1>4. Decided(slots[p][q]) /\ slots[p][q].value = NoValue
    BY <1>1 DEF Sound, HalfDecided
  <1>5. slots' = [slots EXCEPT ![p][q] = new]
    BY <1>1, <1>3 DEF LearnStores
  <1>6. new \in Slot
    <2>1. slots[p][q] \in Slot /\ r.val \in Value
      BY <1>1, <1>2, <1>3 DEF Value
    <2>. QED BY <2>1 DEF Slot
  <1>. HIDE DEF new
  <1>7. /\ slots' \in [Server -> [Seqs -> Slot]] /\ slots'[p][q] = new
        /\ \A s \in Server, x \in Seqs :
             s # p \/ x # q => slots'[s][x] = slots[s][x]
    BY <1>1, <1>3, <1>5, <1>6
  <1>. QED BY <1>1, <1>2, <1>3, <1>4, <1>7 DEF new

LEMMA StoreAfter ==
    ASSUME TypesOK, Sound, Grows, NEW c \in Calls, NEW p \in Server,
           LearnStores(c, p)
    PROVE  SlotsKeep
  <1>. DEFINE r == calls[c]
              q == r.seq
              new == [slots[p][q] EXCEPT !.value = r.val]
  <1>1. /\ q \in Seqs /\ r.val \in Asked(q)
        /\ slots[p][q] \in Slot /\ Decided(slots[p][q])
        /\ slots[p][q].value = NoValue
        /\ slots' \in [Server -> [Seqs -> Slot]] /\ slots'[p][q] = new
        /\ \A s \in Server, x \in Seqs :
             s # p \/ x # q => slots'[s][x] = slots[s][x]
    BY StoreFacts
  <1>2. ASSUME NEW s \in Server, NEW x \in Seqs
        PROVE  /\ SlotSound(slots[s][x], view'[s], seen', Asked(x))
               /\ Follows(slots[s][x], slots[s][x])
    BY SlotBefore DEF SlotMay
  <1>3. /\ new.status = slots[p][q].status /\ new.value = r.val
        /\ new.n_a = slots[p][q].n_a /\ new.v_a = slots[p][q].v_a
    BY <1>1 DEF Slot
  <1>. HIDE DEF new
  <1>4. SlotSound(new, view'[p], seen', Asked(q)) /\ Decided(new)
    BY <1>1, <1>2, <1>3 DEF SlotSound, Decided
  <1>5. ASSUME NEW s \in Server, NEW x \in Seqs
        PROVE  /\ SlotSound(slots'[s][x], view'[s], seen', Asked(x))
               /\ Decided(slots[s][x]) =>
                    /\ Decided(slots'[s][x])
                    /\ slots[s][x].value \in {NoValue, slots'[s][x].value}
    <2>1. CASE s = p /\ x = q BY <1>1, <1>4, <2>1
    <2>2. CASE ~(s = p /\ x = q) BY <1>1, <1>2, <2>2
    <2>. QED BY <2>1, <2>2
  <1>. QED BY <1>1, <1>5 DEF SlotsKeep

LEMMA CallSlots ==
    ASSUME TypesOK, Sound, Grows, NEW c \in Calls, CallStep(c)
    PROVE  SlotsAfter \/ \E p \in Server : LearnStores(c, p)
  <1>1. ASSUME Start(c) \/ Forward(c) PROVE SlotsAfter
    <2>1. calls[c].pc # "idle" /\ Visit(calls[c].at, calls[c].seq)
      BY <1>1 DEF Start, Forward
    <2>. QED BY <2>1, CallBefore, CallFields, VisitAfter
  <1>2. ASSUME NEW p \in Server,
               PrepareEnters(c, p) \/ AcceptEnters(c, p) \/ LearnEnters(c, p)
        PROVE  SlotsAfter
    <2>1. calls[c].pc # "idle" /\ Visit(p, calls[c].seq)
      BY <1>2 DEF PrepareEnters, AcceptEnters, LearnEnters
    <2>. QED BY <2>1, CallBefore, VisitAfter
  <1>3. ASSUME \/ StartIgnored(c) \/ ReadView(c) \/ Nested(c)
               \/ ForwardFails(c) \/ Return(c) \/ LockSlot(c)
               \/ PrepareEnds(c) \/ AcceptEnds(c) \/ LearnEnds(c)
               \/ Orphaned(c)
               \/ \E p \in Server :
                    \/ PrepareFails(c, p) \/ AcceptNotes(c, p)
                    \/ LearnSends(c, p) \/ CallFails(c, p)
        PROVE  slots' = slots
    BY <1>3
    DEF StartIgnored, ReadView, Nested, ForwardFails, Return, LockSlot,
        PrepareEnds, AcceptEnds, LearnEnds, Orphaned, PrepareFails,
        AcceptNotes, LearnSends, CallFails
  <1>4. ASSUME Begin(c) PROVE SlotsAfter
    <2>1. calls[c].at \in Server BY CallBefore, CallFields
    <2>. QED BY <1>4, <2>1, PromiseAfter
  <1>. QED
    BY <1>1, <1>2, <1>3, <1>4, PromiseAfter, RecordAfter, SameSlotsAfter
    DEF CallStep

----------------------------------------------------------------------------
(* What a step does to the messages, and a message to the slots.           *)

LEMMA NothingSound == Nothing \in Carried /\ LogSound(Nothing)
  BY DEF Nothing, Carried, LogSound

LEMMA MessageFacts ==
    ASSUME TypesOK, Sound, NEW s \in Server
    PROVE  /\ hb_sent[s] \in Carried /\ LogSound(hb_sent[s])
           /\ hb_reply[s] \in Carried /\ LogSound(hb_reply[s])
  BY DEF TypesOK, PaxosTypeOK, Sound, MessagesSound

LEMMA DecidedOfSound ==
    ASSUME TypesOK, Sound, NEW s \in Server
    PROVE  DecidedOf(s) \in Carried /\ LogSound(DecidedOf(s))
  <1>1. ASSUME NEW q \in Seqs
        PROVE  /\ DecidedOf(s)[q] \in Asked(q) \cup {NoValue, Absent}
               /\ DecidedOf(s)[q] \in Value \cup {Absent}
    <2>1. slots[s][q] \in Slot /\ SlotSound(slots[s][q], view[s], seen, Asked(q))
      BY DEF TypesOK, PaxosTypeOK, Sound, SlotsSound
    <2>. QED BY <2>1 DEF DecidedOf, SlotSound, Asked, Value
  <1>2. DecidedOf(s) = [q \in Seqs |-> DecidedOf(s)[q]] BY DEF DecidedOf
  <1>. QED BY <1>1, <1>2 DEF LogSound, Carried

MessagesAfter ==
    /\ hb_sent' \in [Server -> Carried]
    /\ hb_reply' \in [Server -> Carried]
    /\ \A s \in Server : \A q \in Seqs :
         /\ hb_sent'[s][q] \in Asked(q) \cup {NoValue, Absent}
         /\ hb_reply'[s][q] \in Asked(q) \cup {NoValue, Absent}

\* Messages are kept, forgotten or made of what was decided.
LEMMA HeartbeatMessages ==
    ASSUME TypesOK, Sound, NEW s \in Server,
           NEW a \in Carried, LogSound(a), NEW b \in Carried, LogSound(b),
           hb_sent' \in {hb_sent, [hb_sent EXCEPT ![s] = a]},
           hb_reply' \in {hb_reply, [hb_reply EXCEPT ![s] = b]}
    PROVE  MessagesAfter
  <1>1. /\ hb_sent \in [Server -> Carried]
        /\ hb_reply \in [Server -> Carried]
    BY DEF TypesOK, PaxosTypeOK
  <1>2. ASSUME NEW x \in Server
        PROVE  LogSound(hb_sent[x]) /\ LogSound(hb_reply[x])
    BY MessageFacts
  <1>3. /\ hb_sent' \in [Server -> Carried]
        /\ \A x \in Server : hb_sent'[x] \in {hb_sent[x], a}
    BY <1>1
  <1>4. /\ hb_reply' \in [Server -> Carried]
        /\ \A x \in Server : hb_reply'[x] \in {hb_reply[x], b}
    BY <1>1
  <1>. QED BY <1>2, <1>3, <1>4 DEF MessagesAfter, LogSound

LEMMA StepMessages ==
    ASSUME TypesOK, Sound, [PaxosNext]_allVars
    PROVE  MessagesAfter
  <1>1. ASSUME NEW s \in Server, BeginRound(s) PROVE MessagesAfter
    BY <1>1, DecidedOfSound, HeartbeatMessages DEF BeginRound
  <1>2. ASSUME NEW s \in Server, NEW p \in Server, HeartbeatCall(s, p)
        PROVE  MessagesAfter
    <2>. DEFINE missing == [q \in Seqs |-> IF hb_sent[s][q] = Absent
                                           THEN DecidedOf(p)[q] ELSE Absent]
    <2>1. missing \in Carried /\ LogSound(missing)
      BY DecidedOfSound DEF Carried, LogSound
    <2>2. /\ hb_sent' \in {hb_sent, [hb_sent EXCEPT ![s] = Nothing]}
          /\ hb_reply' \in {hb_reply, [hb_reply EXCEPT ![s] = missing]}
      <3>1. hb_sent' = [hb_sent EXCEPT ![s] =
                          IF heartbeat'[s].todo = {} THEN Nothing ELSE @]
        BY <1>2 DEF HeartbeatCall, RoundGoesOn
      <3>2. hb_sent \in [Server -> Carried]
        BY DEF TypesOK, PaxosTypeOK
      <3>3. hb_sent' \in {hb_sent, [hb_sent EXCEPT ![s] = Nothing]}
        BY <3>1, <3>2
      <3>. QED BY <1>2, <3>3 DEF HeartbeatCall
    <2>. HIDE DEF missing
    <2>. QED BY <2>1, <2>2, NothingSound, HeartbeatMessages
  <1>3. ASSUME NEW s \in Server, NEW p \in Server, HeartbeatFails(s, p)
        PROVE  MessagesAfter
    <2>1. hb_sent' = [hb_sent EXCEPT ![s] =
                        IF heartbeat'[s].todo = {} THEN Nothing ELSE @]
      BY <1>3 DEF HeartbeatFails, RoundGoesOn
    <2>2. hb_sent \in [Server -> Carried]
      BY DEF TypesOK, PaxosTypeOK
    <2>3. hb_sent' \in {hb_sent, [hb_sent EXCEPT ![s] = Nothing]}
      BY <2>1, <2>2
    <2>4. hb_reply' = hb_reply BY <1>3 DEF HeartbeatFails
    <2>. QED BY <2>3, <2>4, NothingSound, HeartbeatMessages
  <1>4. ASSUME NEW s \in Server, TakeReply(s) \/ PaxosCrash(s)
        PROVE  MessagesAfter
    BY <1>4, NothingSound, HeartbeatMessages DEF TakeReply, PaxosCrash
  <1>5. CASE UNCHANGED <<hb_sent, hb_reply>>
    <2>1. 0 \in Server BY ServerFacts DEF Server
    <2>. QED BY <1>5, <2>1, NothingSound, HeartbeatMessages
  <1>6. ASSUME NEW c \in Calls, CallStep(c) PROVE UNCHANGED hbVars
    BY <1>6
    DEF CallStep, OtherPaxos, Start, StartIgnored, ReadView, Forward, Nested,
        ForwardFails, Return, LockSlot, Begin, PrepareEnds, AcceptEnds,
        LearnEnds, Orphaned, PrepareEnters, PrepareAnswers, PrepareFails,
        AcceptEnters, AcceptRecords, AcceptNotes, LearnSends, LearnEnters,
        LearnDecides, LearnStores, CallFails
  <1>7. ASSUME NEW c \in Calls, NEW s \in Server, NEW q \in Seqs,
               Request(c, s, q)
        PROVE  UNCHANGED hbVars
    BY <1>7 DEF Request, OtherPaxos
  <1>8. ASSUME NEW s \in Server, FillRequest(s)
        PROVE  UNCHANGED <<hb_sent, hb_reply>>
    BY <1>8 DEF FillRequest
  <1>9. ASSUME NEW s \in Server,
               TakeReplyBlocks(s) \/ \E p \in Server : HeartbeatBlocks(s, p)
        PROVE  UNCHANGED hbVars
    BY <1>9 DEF TakeReplyBlocks, HeartbeatBlocks
  <1>10. CASE ViewStep \/ UNCHANGED allVars
    BY <1>5, <1>10 DEF ViewStep, allVars, paxosVars
  <1>. QED
    BY <1>1, <1>2, <1>3, <1>4, <1>5, <1>6, <1>7, <1>8, <1>9, <1>10
    DEF PaxosNext, StableNext, ProposalStep, HeartbeatStep, hbVars

LEMMA HeartbeatSlots ==
    ASSUME TypesOK, Sound, Grows, ViewsSeen', NEW s \in Server,
           HeartbeatStep(s)
    PROVE  SlotsAfter
  <1>0. \A p \in Server : view'[p] \in seen' BY DEF ViewsSeen
  <1>1. CASE BeginRound(s) \/ FillRequest(s)
    BY <1>1, SameSlotsAfter DEF BeginRound, FillRequest
  <1>2. CASE TakeReply(s)
    <2>. DEFINE log == CatchUp(slots[s], hb_reply[s], view[s])
    <2>1. view' = view BY <1>2 DEF TakeReply, viewVars
    <2>2. log \in [Seqs -> Slot] /\ \A q \in Seqs : SlotMay(s, q, log[q])
      BY <1>0, <2>1, MessageFacts, CatchUpAfter
    <2>3. slots' = [slots EXCEPT ![s] = log] BY <1>2 DEF TakeReply
    <2>. HIDE DEF log
    <2>. QED BY <2>2, <2>3, LogAfter
  <1>3. CASE TakeReplyBlocks(s)
    <2>1. view' = view BY <1>3 DEF TakeReplyBlocks, viewVars
    <2>. QED
      BY <1>0, <1>3, <2>1, MessageFacts, CatchUpBlocksAfter
      DEF TakeReplyBlocks
  <1>4. ASSUME NEW p \in Server, HeartbeatCall(s, p) PROVE SlotsAfter
    <2>. DEFINE v == view'[p]
                log == CatchUp(slots[p], hb_sent[s], v)
    <2>1. log \in [Seqs -> Slot] /\ \A q \in Seqs : SlotMay(p, q, log[q])
      BY <1>0, MessageFacts, CatchUpAfter
    <2>2. slots' = slots \/ slots' = [slots EXCEPT ![p] = log]
      BY <1>4 DEF HeartbeatCall
    <2>. HIDE DEF log
    <2>. QED BY <2>1, <2>2, LogAfter, SameSlotsAfter
  <1>5. ASSUME NEW p \in Server, HeartbeatFails(s, p) PROVE SlotsAfter
    BY <1>5, SameSlotsAfter DEF HeartbeatFails
  <1>6. ASSUME NEW p \in Server, HeartbeatBlocks(s, p) PROVE SlotsAfter
    <2>1. /\ view[p] \in Nat /\ heartbeat[s].view \in Nat
          /\ view[p] <= heartbeat[s].view /\ RaiseView(p, heartbeat[s].view)
      BY <1>6, ViewFacts DEF HeartbeatBlocks, Obeyed
    <2>2. view'[p] = heartbeat[s].view
      <3>1. CASE heartbeat[s].view > view[p]
        BY <2>1, <3>1 DEF RaiseView, SetView, TypesOK, ViewTypeOK
      <3>2. CASE heartbeat[s].view = view[p]
        BY <2>1, <3>2 DEF RaiseView, KeepView
      <3>. QED BY <2>1, <3>1, <3>2
    <2>. QED
      BY <1>0, <1>6, <2>2, MessageFacts, CatchUpBlocksAfter
      DEF HeartbeatBlocks
  <1>. QED BY <1>1, <1>2, <1>3, <1>4, <1>5, <1>6 DEF HeartbeatStep

LEMMA StepSlots ==
    ASSUME TypesOK, Sound, Grows, ViewsSeen', [PaxosNext]_allVars
    PROVE  SlotsAfter \/ \E c \in Calls, p \in Server : LearnStores(c, p)
  <1>1. ASSUME NEW c \in Calls, NEW s \in Server, NEW q \in Seqs,
               Request(c, s, q)
        PROVE  SlotsAfter
    BY <1>1, SameSlotsAfter DEF Request
  <1>2. ASSUME NEW s \in Server, PaxosCrash(s) PROVE SlotsAfter
    BY <1>2, SameSlotsAfter DEF PaxosCrash
  <1>3. CASE ViewStep \/ UNCHANGED allVars
    BY <1>3, SameSlotsAfter DEF ViewStep, allVars, paxosVars
  <1>. QED
    BY <1>1, <1>2, <1>3, CallSlots, HeartbeatSlots
    DEF PaxosNext, StableNext, ProposalStep

LEMMA StepKeeps ==
    ASSUME TypesOK, Sound, Grows, ViewsSeen', [PaxosNext]_allVars
    PROVE  SlotsKeep
  BY StepSlots, KeepAfter, StoreAfter

\* While a learner has its slot locked between its two writes, nobody else
\* touches the decision.
LEMMA HalfDecidedAfter ==
    ASSUME TypesOK, Sound, Grows, ViewsSeen', CallsAfter, [PaxosNext]_allVars
    PROVE  HalfDecided'
  <1>. SUFFICES ASSUME NEW d \in Calls, NEW p \in calls'[d].noting,
                       calls'[d].pc = "learn"
                PROVE  /\ Decided(slots'[p][calls'[d].seq])
                       /\ slots'[p][calls'[d].seq].value = NoValue
    BY DEF HalfDecided, Decided
  <1>1. /\ calls[d] \in Call /\ calls'[d] \in Call
        /\ calls[d].pc = "learn" /\ calls'[d].seq = calls[d].seq
    BY DEF CallsAfter, TypesOK, PaxosTypeOK
  <1>. DEFINE q == calls[d].seq
  <1>2. q \in Seqs /\ p \in Server BY <1>1, CallFacts, CallFields
  <1>3. CASE p \in calls[d].noting
    <2>1. Decided(slots[p][q]) /\ slots[p][q].value = NoValue
      BY <1>1, <1>3 DEF Sound, HalfDecided
    <2>2. CASE SlotsAfter
      BY <1>1, <1>2, <2>1, <2>2 DEF SlotsAfter, SlotMay, Follows
    <2>3. ASSUME NEW c \in Calls, NEW x \in Server, LearnStores(c, x)
          PROVE  slots'[p][q] = slots[p][q]
      <3>0. p # x \/ q # calls[c].seq => slots'[p][q] = slots[p][q]
        <4>1. \A s \in Server, y \in Seqs :
                s # x \/ y # calls[c].seq => slots'[s][y] = slots[s][y]
          BY <2>3, StoreFacts
        <4>. QED BY <1>2, <4>1
      <3>1. CASE c = d /\ x = p
        <4>. DEFINE new == [calls[d] EXCEPT !.inside = @ \ {p},
                                            !.noting = @ \ {p}]
        <4>1. new.noting = calls[d].noting \ {p} BY <1>1 DEF Call
        <4>2. calls' = [calls EXCEPT ![d] = new]
          BY <2>3, <3>1 DEF LearnStores, Goto
        <4>3. calls \in [Calls -> Call] BY DEF TypesOK, PaxosTypeOK
        <4>. HIDE DEF new
        <4>. QED BY <4>1, <4>2, <4>3
      <3>2. CASE c # d /\ x = p
        <4>1. x \in calls[c].noting BY <2>3 DEF LearnStores
        <4>2. calls[c].seq # q
          BY <1>3, <3>2, <4>1 DEF Sound, NotedAlone
        <4>. QED BY <3>0, <4>2
      <3>3. CASE x # p BY <3>0, <3>3
      <3>. QED BY <3>1, <3>2, <3>3
    <2>. QED BY <1>1, <2>1, <2>2, <2>3, StepSlots
  <1>4. CASE p \notin calls[d].noting
    <2>1. LearnDecides(d, p)
      BY <1>1, <1>4, StepNotes DEF Notes, AcceptRecords
    <2>2. slots[p][q] \in Slot /\ slots \in [Server -> [Seqs -> Slot]]
      BY <1>2 DEF TypesOK, PaxosTypeOK
    <2>3. /\ ~Decided(slots[p][q])
          /\ slots' = [slots EXCEPT ![p][q].status = "DECIDED"]
      <3>1. SUFFICES ASSUME Goto(d, [calls[d] EXCEPT !.inside = @ \ {p}])
                     PROVE  FALSE
        BY <2>1 DEF LearnDecides
      <3>. DEFINE new == [calls[d] EXCEPT !.inside = @ \ {p}]
      <3>2. new.noting = calls[d].noting BY <1>1 DEF Call
      <3>3. calls' = [calls EXCEPT ![d] = new] BY <3>1 DEF Goto
      <3>4. calls \in [Calls -> Call] BY DEF TypesOK, PaxosTypeOK
      <3>. HIDE DEF new
      <3>. QED BY <1>4, <3>2, <3>3, <3>4
    <2>4. slots[p][q].value = NoValue
      BY <1>2, <2>3 DEF Sound, SlotsSound, SlotSound
    <2>5. slots'[p][q] = [slots[p][q] EXCEPT !.status = "DECIDED"]
      BY <1>2, <2>2, <2>3
    <2>6. slots'[p][q].status = "DECIDED" /\ slots'[p][q].value = NoValue
      BY <2>2, <2>4, <2>5 DEF Slot
    <2>. QED BY <1>1, <2>6 DEF Decided
  <1>. QED BY <1>3, <1>4

----------------------------------------------------------------------------
(* The theorems.                                                           *)

\* What is stored is decided, by this step or before.
LEMMA StoredStep ==
    ASSUME TypesOK, Sound, StoredIsDecided, SlotsKeep, [PaxosNext]_allVars
    PROVE  StoredIsDecided' /\ paxos_db' \in [Server -> Value]
  <1>1. paxos_db \in [Server -> Value] BY DEF TypesOK, PaxosTypeOK
  <1>2. ASSUME NEW s \in Server, paxos_db[s] # NoValue
        PROVE  \E q \in Seqs : /\ Decided(slots'[s][q])
                               /\ slots'[s][q].value = paxos_db[s]
    BY <1>2 DEF SlotsKeep, StoredIsDecided
  <1>3. CASE paxos_db' = paxos_db
    BY <1>1, <1>2, <1>3 DEF StoredIsDecided, Decided
  <1>4. ASSUME NEW c \in Calls, NEW p \in Server, LearnStores(c, p)
        PROVE  StoredIsDecided' /\ paxos_db' \in [Server -> Value]
    <2>. DEFINE r == calls[c]
                q == r.seq
    <2>1. /\ r \in Call /\ q \in Seqs /\ slots[p][q] \in Slot
          /\ Decided(slots[p][q])
          /\ slots'[p][q] = [slots[p][q] EXCEPT !.value = r.val]
      BY <1>4, StoreFacts
    <2>2. r.val \in Value BY <2>1, CallFields
    <2>3. Decided(slots'[p][q]) /\ slots'[p][q].value = r.val
      BY <2>1 DEF Decided, Slot
    <2>4. /\ paxos_db' \in [Server -> Value] /\ paxos_db'[p] = r.val
          /\ \A s \in Server \ {p} : paxos_db'[s] = paxos_db[s]
      BY <1>1, <1>4, <2>2 DEF LearnStores
    <2>5. ASSUME NEW s \in Server, paxos_db'[s] # NoValue
          PROVE  \E x \in Seqs : /\ Decided(slots'[s][x])
                                 /\ slots'[s][x].value = paxos_db'[s]
      BY <1>2, <2>1, <2>3, <2>4, <2>5
    <2>. QED BY <2>4, <2>5 DEF StoredIsDecided, Decided
  <1>5. ASSUME NEW c \in Calls, CallStep(c),
               ~\E p \in Server : LearnStores(c, p)
        PROVE  paxos_db' = paxos_db
    BY <1>5
    DEF CallStep, OtherPaxos, Start, StartIgnored, ReadView, Forward, Nested,
        ForwardFails, Return, LockSlot, Begin, PrepareEnds, AcceptEnds,
        LearnEnds, Orphaned, PrepareEnters, PrepareAnswers, PrepareFails,
        AcceptEnters, AcceptRecords, AcceptNotes, LearnSends, LearnEnters,
        LearnDecides, CallFails
  <1>6. ASSUME NEW c \in Calls, NEW s \in Server, NEW q \in Seqs,
               Request(c, s, q)
        PROVE  paxos_db' = paxos_db
    BY <1>6 DEF Request, OtherPaxos
  <1>7. ASSUME NEW s \in Server, HeartbeatStep(s) \/ PaxosCrash(s)
        PROVE  paxos_db' = paxos_db
    BY <1>7
    DEF HeartbeatStep, BeginRound, FillRequest, TakeReply, TakeReplyBlocks,
        HeartbeatCall, HeartbeatFails, HeartbeatBlocks, PaxosCrash
  <1>8. CASE ViewStep \/ UNCHANGED allVars
    BY <1>3, <1>8 DEF ViewStep, allVars, paxosVars
  <1>. QED
    BY <1>3, <1>4, <1>5, <1>6, <1>7, <1>8
    DEF PaxosNext, StableNext, ProposalStep

\* The mutexes lost and the requests filled in are those of servers.
LEMMA StepRest ==
    ASSUME TypesOK, [PaxosNext]_allVars
    PROVE  mu_lost' \subseteq Server /\ hb_ready' \subseteq Server
  <1>1. mu_lost \subseteq Server /\ hb_ready \subseteq Server
        /\ \A c \in Calls : calls[c] \in Call
    BY DEF TypesOK, PaxosTypeOK
  <1>2. ASSUME NEW c \in Calls PROVE Holds(calls[c]) \subseteq Server
    BY <1>1, HoldsType
  <1>3. ASSUME NEW c \in Calls, NEW x PROVE Behind(calls[c], x) \subseteq Server
    BY <1>2 DEF Behind, Holds, Range
  <1>4. ASSUME NEW c \in Calls, CallStep(c)
        PROVE  mu_lost' \subseteq Server /\ hb_ready' \subseteq Server
    <2>1. CASE Nested(c) \/ ForwardFails(c)
      BY <1>1, <1>2, <2>1 DEF Nested, ForwardFails, hbVars
    <2>2. CASE Return(c)
      BY <1>1, <1>2, <1>3, <2>2 DEF Return, hbVars
    <2>3. ASSUME \/ Start(c) \/ StartIgnored(c) \/ ReadView(c) \/ Forward(c)
                 \/ LockSlot(c) \/ Begin(c) \/ PrepareEnds(c)
                 \/ AcceptEnds(c) \/ LearnEnds(c) \/ Orphaned(c)
                 \/ \E p \in Server :
                      \/ PrepareEnters(c, p) \/ PrepareAnswers(c, p)
                      \/ PrepareFails(c, p) \/ AcceptEnters(c, p)
                      \/ AcceptRecords(c, p) \/ AcceptNotes(c, p)
                      \/ LearnSends(c, p) \/ LearnEnters(c, p)
                      \/ LearnDecides(c, p) \/ LearnStores(c, p)
                      \/ CallFails(c, p)
          PROVE  mu_lost' = mu_lost /\ hb_ready' = hb_ready
      BY <2>3
      DEF OtherPaxos, hbVars, Start, StartIgnored, ReadView, Forward,
          LockSlot, Begin, PrepareEnds, AcceptEnds, LearnEnds, Orphaned,
          PrepareEnters, PrepareAnswers, PrepareFails, AcceptEnters,
          AcceptRecords, AcceptNotes, LearnSends, LearnEnters, LearnDecides,
          LearnStores, CallFails
    <2>. QED BY <1>1, <1>4, <2>1, <2>2, <2>3 DEF CallStep
  <1>5. ASSUME NEW c \in Calls, NEW s \in Server, NEW q \in Seqs,
               Request(c, s, q)
        PROVE  mu_lost' \subseteq Server /\ hb_ready' \subseteq Server
    BY <1>1, <1>5 DEF Request, OtherPaxos, hbVars
  <1>6. ASSUME NEW s \in Server, HeartbeatStep(s)
        PROVE  mu_lost' \subseteq Server /\ hb_ready' \subseteq Server
    BY <1>1, <1>6
    DEF HeartbeatStep, BeginRound, FillRequest, TakeReply, TakeReplyBlocks,
        HeartbeatCall, HeartbeatFails, HeartbeatBlocks, CatchUpBlocks,
        RoundGoesOn, hbVars
  <1>7. ASSUME NEW s \in Server, PaxosCrash(s)
        PROVE  mu_lost' \subseteq Server /\ hb_ready' \subseteq Server
    <2>1. UNION {IF calls[c].at = s THEN Holds(calls[c]) \ {s}
                 ELSE Behind(calls[c], s) : c \in Calls} \subseteq Server
      BY <1>2, <1>3
    <2>. QED BY <1>1, <1>7, <2>1 DEF PaxosCrash
  <1>8. CASE ViewStep \/ UNCHANGED allVars
    BY <1>1, <1>8 DEF ViewStep, allVars, paxosVars
  <1>. QED BY <1>4, <1>5, <1>6, <1>7, <1>8
       DEF PaxosNext, StableNext, ProposalStep

LEMMA InvInit == PaxosInit => PaxosInv
  <1>. SUFFICES ASSUME PaxosInit PROVE PaxosInv
    OBVIOUS
  <1>1. ViewTypeOK /\ ViewsSeen BY TypeInit, SeenInit DEF PaxosInit
  <1>2. NoSlot \in Slot BY DEF NoSlot, Slot, Value
  <1>3. Idle \in Call BY IdleType
  <1>4. Nothing \in Carried BY NothingSound
  <1>5. PaxosTypeOK
    BY <1>2, <1>3, <1>4 DEF PaxosInit, PaxosTypeOK, Value
  <1>6. ASSUME NEW s \in Server, NEW q \in Seqs
        PROVE  SlotSound(slots[s][q], view[s], seen, Asked(q))
    <2>1. view[s] \in Nat /\ slots[s][q] = NoSlot
      BY <1>1, <1>6 DEF PaxosInit, ViewTypeOK
    <2>. QED BY <2>1, NoSlotSound
  <1>7. ASSUME NEW c \in Calls
        PROVE  CallSound(calls[c], view, seen, Asked(calls[c].seq))
    BY IdleSound DEF PaxosInit
  <1>8. MessagesSound
    BY NothingSound DEF PaxosInit, MessagesSound
  <1>9. StoredIsDecided BY DEF PaxosInit, StoredIsDecided
  <1>10. NotedAlone /\ HalfDecided
    BY DEF PaxosInit, Idle, NotedAlone, HalfDecided
  <1>. QED
    BY <1>1, <1>5, <1>6, <1>7, <1>8, <1>9, <1>10
    DEF PaxosInv, TypesOK, Sound, SlotsSound, CallsSound

LEMMA InvStep == PaxosInv /\ [PaxosNext]_allVars => PaxosInv' /\ SlotsKeep
  <1>. SUFFICES ASSUME PaxosInv, [PaxosNext]_allVars
                PROVE  PaxosInv' /\ SlotsKeep
    OBVIOUS
  <1>0. TypesOK /\ Sound /\ StoredIsDecided BY DEF PaxosInv
  <1>1. Grows /\ ViewTypeOK' /\ ViewsSeen' BY <1>0, StepGrows
  <1>2. CallsAfter BY <1>0, <1>1, StepCalls
  <1>3. SlotsKeep BY <1>0, <1>1, StepKeeps
  <1>4. MessagesAfter BY <1>0, StepMessages
  <1>5. StoredIsDecided' /\ paxos_db' \in [Server -> Value]
    BY <1>0, <1>3, StoredStep
  <1>6. mu_lost' \subseteq Server /\ hb_ready' \subseteq Server
    BY <1>0, StepRest
  <1>7. PaxosTypeOK'
    BY <1>2, <1>3, <1>4, <1>5, <1>6
    DEF CallsAfter, SlotsKeep, MessagesAfter, PaxosTypeOK
  <1>8. ASSUME NEW q \in Seqs PROVE Asked(q) \subseteq Asked(q)'
    BY <1>2, ViewsAssumption DEF CallsAfter
  <1>9. SlotsSound'
    <2>. SUFFICES ASSUME NEW s \in Server, NEW q \in Seqs
                  PROVE  SlotSound(slots'[s][q], view'[s], seen', Asked(q)')
      BY DEF SlotsSound
    <2>1. SlotSound(slots'[s][q], view'[s], seen', Asked(q))
      BY <1>3 DEF SlotsKeep
    <2>. QED BY <1>8, <2>1 DEF SlotSound
  <1>10. MessagesSound'
    <2>. SUFFICES ASSUME NEW s \in Server, NEW q \in Seqs
                  PROVE  /\ hb_sent'[s][q] \in Asked(q)' \cup {NoValue, Absent}
                         /\ hb_reply'[s][q] \in Asked(q)' \cup {NoValue, Absent}
      BY DEF MessagesSound, LogSound
    <2>. QED BY <1>4, <1>8 DEF MessagesAfter
  <1>11. NotedAlone' BY <1>0, <1>2, NotedAloneAfter
  <1>12. HalfDecided' BY <1>0, <1>1, <1>2, HalfDecidedAfter
  <1>. QED
    BY <1>1, <1>2, <1>3, <1>5, <1>7, <1>9, <1>10, <1>11, <1>12
    DEF PaxosInv, TypesOK, Sound, CallsAfter

LEMMA PaxosInvariant == PaxosSpec => []PaxosInv
  BY InvInit, InvStep, PTL DEF PaxosSpec

\* The variables of a server keep their types: in particular the thread that
\* forwards a call computes the index of a server, and the numbers of
\* proposals stay natural numbers.
THEOREM PaxosTypeCorrect == PaxosSpec => []PaxosTypeOK
  <1>1. PaxosInv => PaxosTypeOK BY DEF PaxosInv, TypesOK
  <1>. QED BY <1>1, PaxosInvariant, PTL

\* The value of a decided slot, once written, and every value on its way to an
\* acceptor or a learner is one a client asked to put in this very slot, with any
\* number of servers, leaders, lost calls and crashes.
THEOREM DecisionsValid == PaxosSpec => []Validity
  <1>1. PaxosInv => Validity
    <2>. SUFFICES ASSUME PaxosInv PROVE Validity OBVIOUS
    <2>1. ASSUME NEW s \in Server, NEW q \in Seqs, KnownDecided(slots[s][q])
          PROVE  slots[s][q].value \in Asked(q)
      BY <2>1 DEF PaxosInv, Sound, SlotsSound, SlotSound, KnownDecided
    <2>2. ASSUME NEW c \in Calls, calls[c].pc \in {"accept", "learn"}
          PROVE  calls[c].val \in Asked(calls[c].seq)
      BY <2>2 DEF PaxosInv, Sound, CallsSound, CallSound, Valued
    <2>. QED BY <2>1, <2>2 DEF Validity, Asked
  <1>. QED BY <1>1, PaxosInvariant, PTL

\* No slot is ahead of the view of its server, although the two are assigned
\* under different mutexes.
THEOREM SlotsInView == PaxosSpec => []AcceptedInView
  <1>1. PaxosInv => AcceptedInView
    BY DEF PaxosInv, Sound, SlotsSound, SlotSound, AcceptedInView
  <1>. QED BY <1>1, PaxosInvariant, PTL

\* What Learn has written to the database is the decision of some slot.
THEOREM StoreIsDecision == PaxosSpec => []StoredIsDecided
  <1>1. PaxosInv => StoredIsDecided BY DEF PaxosInv
  <1>. QED BY <1>1, PaxosInvariant, PTL

\* A decided slot stays decided, and its value, once written, stays the same,
\* whoever else proposes.
THEOREM DecisionsStay == PaxosSpec => DecisionStable
  <1>. DEFINE Keeps == \A s \in Server, q \in Seqs :
                 Decided(slots[s][q]) =>
                   /\ Decided(slots'[s][q])
                   /\ slots[s][q].value \in {NoValue, slots'[s][q].value}
  <1>1. PaxosInv /\ [PaxosNext]_allVars => [Keeps]_slots
    BY InvStep DEF SlotsKeep
  <1>. QED BY <1>1, PaxosInvariant, PTL DEF PaxosSpec, DecisionStable

\* Proposals change views only in the ways module Views allows for: what is
\* proved of the view changes alone holds of the servers as a whole.
THEOREM PaxosImplementsViews == PaxosSpec => ViewsRefined
  <1>1. PaxosInit => ViewInit BY DEF PaxosInit
  <1>2. PaxosInv /\ [PaxosNext]_allVars => [ViewNext]_viewVars
    BY StepIsViewStep DEF PaxosInv
  <1>. QED
    BY <1>1, <1>2, PaxosInvariant, PTL DEF PaxosSpec, ViewsRefined, ViewSpec

\* So a view once won keeps a majority behind it also among proposals, which
\* spread views on their own.
THEOREM QuorumsAmongProposals == PaxosSpec => []ElectedByQuorum
  BY PaxosImplementsViews, WonViewsKeepQuorum, PTL DEF ViewsRefined

\* With three servers or two, the leader of a view nobody started in has a
\* majority behind it also when proposals have spread the view.
THEOREM LeadersAmongProposals ==
    ASSUME N \in 2 .. 3 PROVE PaxosSpec => []LeaderBacked
  <1>1. ViewSpec => []LeaderBacked BY LeadersAreBacked
  <1>. QED BY <1>1, PaxosImplementsViews, PTL DEF ViewsRefined

\* A step without view changes is one of the steps above.
LEMMA StableIsPaxos == StableSpec => PaxosSpec
  <1>1. [StableNext]_allVars => [PaxosNext]_allVars BY DEF PaxosNext
  <1>. QED BY <1>1, PTL DEF StableSpec, PaxosSpec
=============================================================================
