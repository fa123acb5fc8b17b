---------------------------- MODULE PaxosServer ----------------------------
(***************************************************************************)
(* PaxosImpl as a whole: the view changes of module Views, composed with   *)
(* the proposals (Start, StartOnForward, StartOnNewSlot and the Prepare,   *)
(* Accept and Learn handlers), the slots and the catch-up by heartbeats.   *)
(*                                                                         *)
(* One request to Start, with the ForwardLeader calls it leads to, is one  *)
(* call c; the value it proposes is c itself.  Steps end where the code    *)
(* takes or gives up a mutex or waits for another server.  `mu` is held    *)
(* across steps only by StartOnForward, which keeps it during its remote   *)
(* call; slot->mu is held by StartOnNewSlot from begin to end; slot->mu_   *)
(* by an Accept handler that waits for mu, and by a Learn handler between  *)
(* its writes of status and of value, which the heartbeats read under mu.  *)
(***************************************************************************)
EXTENDS Views, Sequences, Functions

CONSTANTS
    Calls,          \* the requests to Start, each with a value of its own
    Entries,        \* Entries[c]: the servers whose clients may make request c
    NoValue,        \* ""
    Absent,         \* what a heartbeat says of a slot it does not carry
    IsDead,         \* the servers whose is_dead, never assigned, is not zero
    Discards        \* the servers whose lowest_slot, never assigned, is beyond
                    \* every slot: they treat all of them as collected

ASSUME PaxosAssumption ==
    /\ N > 1
    /\ Entries \in [Calls -> SUBSET Server] /\ IsDead \cup Discards \subseteq Server
    /\ NoValue \notin Calls /\ Absent \notin Calls \cup {NoValue}

VARIABLES
    slots,          \* slots[s][q]: the PaxosSlot of server s
    paxos_db,       \* paxos_db[s]: what is stored under the path written to
    calls,          \* calls[c]: where call c is, and its local variables
    mu_lost,        \* the servers whose mu will never be released again
    hb_sent,        \* hb_sent[s]: the slots in the requests of its round
    hb_ready,       \* the servers whose next Heartbeat request is filled in
    hb_reply        \* hb_reply[s]: the slots of an answer not yet processed

paxosVars == <<slots, paxos_db, calls, mu_lost, hb_sent, hb_ready,
               hb_reply>>

hbVars == <<hb_sent, hb_ready, hb_reply>>

Value == Calls \cup {NoValue}

\* The slots of a heartbeat or of its answer: carried with a value, possibly
\* "", or not carried.
Carried == [Seqs -> Value \cup {Absent}]

Nothing == [q \in Seqs |-> Absent]

\* The frames of a call, outermost first, wait in StartOnForward at the
\* servers `held`; it runs at `at`, and has slot->mu locked at `locked`.  Of
\* the requests of a phase, `unsent` are not filled in yet, `todo` not
\* delivered, and for `inside` the handler has given up mu; at `noting` it
\* keeps slot->mu_ locked, in Accept to wait for mu again, in Learn to write
\* the value.
Idle == [pc |-> "idle", at |-> 0, seq |-> 0, my_view |-> 0, held |-> <<>>,
         locked |-> {}, doomed |-> {}, cut |-> FALSE, unsent |-> {},
         todo |-> {}, inside |-> {}, noting |-> {}, oks |-> 0, hna |-> -1,
         val |-> NoValue, dec |-> FALSE]

Holds(r) == Range(r.held)

\* Is the mutex mu of server s free?
MuFree(s) == s \notin mu_lost /\ \A c \in Calls : s \notin Holds(calls[c])

Proposing(r) == r.pc \in {"prepare", "accept", "learn"}

\* Mutant: the slot is not locked for a proposal.
SlotMuIgnored(s, q) == TRUE

\* Is the mutex mu of slot q of server s free?
SlotMuFree(s, q) ==
    \A c \in Calls : ~(calls[c].seq = q /\ s \in calls[c].locked)

\* Is the mutex mu_ of slot q of server p free?
SlotMu_Free(p, q) ==
    \A c \in Calls : ~(calls[c].seq = q /\ p \in calls[c].noting)

OtherViews == UNCHANGED <<elections, heartbeat>> /\ UnchangedButViews

OtherPaxos == UNCHANGED <<paxos_db, mu_lost, hbVars>>
----------------------------------------------------------------------------
(* Slots.                                                                  *)

NoSlot == [status |-> "NONE", value |-> NoValue, n |-> 0, n_p |-> -1,
           n_a |-> 0, v_a |-> NoValue, highest_N |-> 0]

InitSlot(v) == [NoSlot EXCEPT !.status = "PENDING", !.n = v, !.n_a = v,
                              !.highest_N = v]

\* Mutant: addSlots starts every slot afresh.
AddFresh(slot, v) == InitSlot(v)

\* addSlots in view v: creates a missing slot and overwrites n_a in any case.
AddSlots(slot, v) ==
    [(IF slot.status = "NONE" THEN InitSlot(v) ELSE slot) EXCEPT !.n_a = v]

Visit(s, q) == slots' = [slots EXCEPT ![s][q] = AddSlots(@, view[s])]

Decided(slot) == slot.status = "DECIDED"

\* Is it decided with a value, as an answer to Prepare or Accept tells?
KnownDecided(slot) == Decided(slot) /\ slot.value # NoValue

\* Mutant: a decided slot is overwritten.
LearnTwice(slot, v) == [slot EXCEPT !.status = "DECIDED", !.value = v]

LearnValue(slot, v) ==
    IF Decided(slot) THEN slot
    ELSE [slot EXCEPT !.status = "DECIDED", !.value = v]

\* Read under mu alone: Learn may have written the status and not the value.
DecidedOf(s) ==
    [q \in Seqs |-> IF Decided(slots[s][q]) THEN slots[s][q].value ELSE Absent]

\* The slots of a server in view v after the decided slots of a message.
CatchUp(log, decided, v) ==
    [q \in Seqs |-> IF decided[q] = Absent THEN log[q]
                    ELSE LearnValue(AddSlots(log[q], v), decided[q])]
----------------------------------------------------------------------------
PaxosInit ==
    /\ ViewInit
    /\ slots = [s \in Server |-> [q \in Seqs |-> NoSlot]]
    /\ paxos_db = [s \in Server |-> NoValue]
    /\ calls = [c \in Calls |-> Idle]
    /\ mu_lost = {}
    /\ hb_sent = [s \in Server |-> Nothing]
    /\ hb_ready = {}
    /\ hb_reply = [s \in Server |-> Nothing]
----------------------------------------------------------------------------
(* Start and StartOnForward.                                               *)

Goto(c, r) == calls' = [calls EXCEPT ![c] = r]

\* The innermost Start is over; its callers are still waiting.
Returning(r) == [Idle EXCEPT !.pc = "return", !.at = r.at, !.seq = r.seq,
                             !.held = r.held, !.locked = r.locked,
                             !.doomed = r.doomed, !.cut = r.cut]

\* Mutant: a proposal that returns keeps its slot locked.
KeepSlotMu(r) == r.locked

\* slot_lock goes out of scope.
ReleaseSlotMu(r) == r.locked \ {r.at}

ProposalReturns(r) == [Returning(r) EXCEPT !.locked = ReleaseSlotMu(r)]

\* Nothing of the call runs any more: its frames have returned, except those
\* at the servers `stuck`, which have locked a mutex they hold.
Over(r, stuck) ==
    [Idle EXCEPT !.pc = IF stuck # {} \/ r.cut THEN "stuck" ELSE "done",
                 !.seq = r.seq, !.locked = r.locked \ (Holds(r) \ stuck)]

\* A client of s asks for slot q.
Request(c, s, q) ==
    /\ calls[c].pc = "idle" /\ s \in Entries[c] /\ up[s]
    /\ Goto(c, [Idle EXCEPT !.pc = "start", !.at = s, !.seq = q, !.val = c])
    /\ UNCHANGED <<slots, viewVars>>
    /\ OtherPaxos

\* Start, under mu: give up, propose, or forward to the leader.
Start(c) ==
    LET r == calls[c]
        s == r.at
        slot == AddSlots(slots[s][r.seq], view[s])
    IN  /\ r.pc = "start" /\ up[s] /\ MuFree(s) /\ s \notin Discards
        /\ Visit(s, r.seq)
        /\ \/ /\ Decided(slot) \/ s \in IsDead \/ (Leads(s) /\ leader_dead[s])
              /\ Goto(c, Returning(r))
           \/ /\ ~Decided(slot) /\ s \notin IsDead
              /\ Leads(s) /\ ~leader_dead[s]
              /\ Goto(c, [r EXCEPT !.pc = "read"])
           \/ /\ ~Decided(slot) /\ s \notin IsDead /\ ~Leads(s)
              /\ Goto(c, [r EXCEPT !.pc = "forward"])
        /\ UNCHANGED viewVars
        /\ OtherPaxos

\* Start at a server that takes the slot for a collected one.
StartIgnored(c) ==
    /\ calls[c].pc = "start" /\ up[calls[c].at] /\ MuFree(calls[c].at)
    /\ calls[c].at \in Discards
    /\ Goto(c, Returning(calls[c]))
    /\ UNCHANGED <<slots, viewVars>>
    /\ OtherPaxos

\* The argument my_view is read after mu was released.
ReadView(c) ==
    LET r == calls[c]
    IN  /\ r.pc = "read"
        /\ Goto(c, [r EXCEPT !.pc = "lock", !.my_view = view[r.at]])
        /\ UNCHANGED <<slots, viewVars>>
        /\ OtherPaxos

\* Mutant: the address of the leader is taken relative to this server.
ForwardRelative(r, s) ==
    [Idle EXCEPT !.pc = "start", !.at = (view[s] % N) - s, !.seq = r.seq,
                 !.val = r.val, !.held = Append(r.held, s),
                 !.locked = r.locked, !.doomed = r.doomed, !.cut = r.cut]

\* StartOnForward sends the call on to the leader and keeps mu.
ForwardFrom(r, s) ==
    [Idle EXCEPT !.pc = "start", !.at = view[s] % N, !.seq = r.seq,
                 !.val = r.val, !.held = Append(r.held, s),
                 !.locked = r.locked, !.doomed = r.doomed, !.cut = r.cut]

\* StartOnForward: a server that leads by now proposes under mu (and will
\* block on it), any other server calls ForwardLeader at the leader.
Forward(c) ==
    LET r == calls[c]
        s == r.at
        mine == /\ ~Decided(slots[s][r.seq])
                /\ Leads(s) /\ ~leader_dead[s]
    IN  /\ r.pc = "forward" /\ MuFree(s)
        /\ Visit(s, r.seq)
        /\ Goto(c, IF mine THEN [r EXCEPT !.pc = "nested",
                                          !.held = Append(@, s)]
                   ELSE ForwardFrom(r, s))
        /\ UNCHANGED viewVars
        /\ OtherPaxos

\* StartOnNewSlot called with mu held: unless there is nothing to do, the
\* thread locks the mutex it holds, and its callers wait for ever.
Nested(c) ==
    LET r == calls[c]
        s == r.at
    IN  /\ r.pc = "nested" /\ SlotMuFree(s, r.seq)
        /\ IF Decided(slots[s][r.seq]) \/ s \in IsDead
           THEN Goto(c, Returning(r)) /\ UNCHANGED mu_lost
           ELSE /\ Goto(c, Over([r EXCEPT !.locked = @ \cup {s}], Holds(r)))
                /\ mu_lost' = mu_lost \cup Holds(r)
        /\ UNCHANGED <<slots, viewVars, paxos_db, hbVars>>

\* ForwardLeader fails: the caller locks the mutex it holds.
ForwardFails(c) ==
    LET r == calls[c]
    IN  /\ r.pc = "start" /\ r.held # <<>>
        /\ LossyRPC \/ ~up[r.at]
        /\ Goto(c, Over(r, Holds(r)))
        /\ mu_lost' = mu_lost \cup Holds(r)
        /\ UNCHANGED <<slots, viewVars, paxos_db, hbVars>>

\* The callers behind the frame at x in call r.
Behind(r, x) ==
    {r.held[j] : j \in {j \in DOMAIN r.held :
                          \E i \in DOMAIN r.held : j < i /\ r.held[i] = x}}

\* The callers return one after the other: all of them, or those ahead of one
\* that does not get its answer.
\* No frame that is doomed returns: its process ends instead (PaxosCrash).
Return(c) ==
    LET r == calls[c]
        Unwound(stuck) ==
            /\ r.doomed \cap (Holds(r) \ stuck) = {}
            /\ Goto(c, Over(r, stuck))
            /\ mu_lost' = mu_lost \cup stuck
    IN  /\ r.pc = "return"
        /\ \/ Unwound({})
           \/ LossyRPC /\ \E x \in Holds(r) : Unwound(Behind(r, x) \cup {x})
        /\ UNCHANGED <<slots, viewVars, paxos_db, hbVars>>
----------------------------------------------------------------------------
(* StartOnNewSlot.                                                         *)

\* The slot is locked for the whole of the proposal.
LockSlot(c) ==
    LET r == calls[c]
    IN  /\ r.pc = "lock" /\ SlotMuFree(r.at, r.seq)
        /\ Goto(c, IF Decided(slots[r.at][r.seq]) THEN Returning(r)
                   ELSE [r EXCEPT !.pc = "begin", !.locked = @ \cup {r.at}])
        /\ UNCHANGED <<slots, viewVars>>
        /\ OtherPaxos

\* The proposal number after `while (slot->n <= slot->highest_N)`.
NextNumber(slot) ==
    IF slot.n > slot.highest_N THEN slot.n
    ELSE slot.n + N * ((slot.highest_N - slot.n) \div N + 1)

\* Under mu: a slot not above highest_accepted_seq goes through Prepare, a
\* later one directly to Accept.
Begin(c) ==
    LET r == calls[c]
        s == r.at
        next == [r EXCEPT !.todo = Server]
    IN  /\ r.pc = "begin" /\ MuFree(s)
        /\ \/ /\ r.seq <= highest_accepted_seq[s]
              /\ slots' = [slots EXCEPT ![s][r.seq].n =
                             NextNumber(slots[s][r.seq])]
              /\ Goto(c, [next EXCEPT !.pc = "prepare"])
           \/ /\ r.seq > highest_accepted_seq[s]
              /\ Goto(c, [next EXCEPT !.pc = "accept"])
              /\ UNCHANGED slots
        /\ UNCHANGED viewVars
        /\ OtherPaxos

\* Prepare at p, under mu.
PrepareEnters(c, p) ==
    LET r == calls[c]
    IN  /\ r.pc = "prepare" /\ r.inside = {}
        /\ NextCallee(r.todo, p) /\ up[p] /\ MuFree(p) /\ p \notin Discards
        /\ Visit(p, r.seq)
        /\ Goto(c, [r EXCEPT !.inside = {p}])
        /\ UNCHANGED viewVars
        /\ OtherPaxos

\* What the loop makes of an OK from p: the value of the highest n_a so far,
\* and no more calls after a majority or a decided value.
TallyPrepare(r, p, slot) ==
    LET higher == slot.n_a > r.hna
        done == KnownDecided(slot) \/ r.oks + 1 > N \div 2
    IN  [r EXCEPT !.inside = {},
                  !.todo = IF done THEN {} ELSE @ \ {p},
                  !.oks = @ + 1,
                  !.hna = IF higher THEN slot.n_a ELSE @,
                  !.val = IF KnownDecided(slot) THEN slot.value
                          ELSE IF higher THEN slot.v_a ELSE @,
                  !.dec = KnownDecided(slot)]

\* Prepare at p, under slot->mu_, and the answer.  For an undecided slot the
\* handler assigns a null pointer to a string, and the call may fail for it.
PrepareAnswers(c, p) ==
    LET r == calls[c]
        s == r.at
        q == r.seq
        n == slots[s][q].n
        slot == slots[p][q]
        ok == n > slot.n_p
        promised == IF ok THEN [slots EXCEPT ![p][q].n_p = n] ELSE slots
        skip == [r EXCEPT !.todo = @ \ {p}, !.inside = {}]
    IN  /\ r.pc = "prepare" /\ p \in r.inside /\ up[p] /\ SlotMu_Free(p, q)
        /\ \/ /\ ok
              /\ Goto(c, TallyPrepare(r, p, slot))
              /\ slots' = IF slot.n_a > r.hna THEN promised
                          ELSE [promised EXCEPT ![s][q].highest_N =
                                  IF @ < n THEN n ELSE @]
           \/ /\ ~ok \/ ~Decided(slot) \/ LossyRPC
              /\ Goto(c, skip)
              /\ slots' = promised
        /\ UNCHANGED viewVars
        /\ OtherPaxos

\* The handlers of p answer that the slot has been garbage collected.
Ignores(p) == p \in Discards /\ MuFree(p)

\* The call to p fails before the handler has run to its end.
PrepareFails(c, p) ==
    LET r == calls[c]
    IN  /\ r.pc = "prepare"
        /\ p \in r.inside \/ (r.inside = {} /\ NextCallee(r.todo, p))
        /\ ~up[p] \/ (r.inside = {} /\ (LossyRPC \/ Ignores(p)))
        /\ Goto(c, [r EXCEPT !.todo = @ \ {p}, !.inside = {}])
        /\ UNCHANGED <<slots, viewVars>>
        /\ OtherPaxos

\* Mutant: an acceptor without a value makes the proposal empty.
ValueOrEmpty(c, v) == v

ValueToAccept(c, v) == IF v = NoValue THEN c ELSE v

ToLearn(r) == [r EXCEPT !.pc = "learn", !.unsent = Server]

\* After the Prepare calls, whether or not a majority answered: on to Learn,
\* to Accept, or, if an acceptor is in a higher view, to its leader.  Having
\* taken the higher view itself the thread will unlock twice on its return.
PrepareEnds(c) ==
    LET r == calls[c]
        s == r.at
        next == [r EXCEPT !.oks = 0, !.hna = -1, !.dec = FALSE,
                          !.val = ValueToAccept(c, @)]
        away == [r EXCEPT !.pc = "forward", !.val = c]
    IN  /\ r.pc = "prepare" /\ r.todo = {} /\ r.inside = {} /\ up[s]
        /\ \/ /\ r.hna > r.my_view /\ MuFree(s) /\ r.hna > view[s]
              /\ SetView(s, r.hna) /\ OtherViews
              /\ Goto(c, [away EXCEPT !.doomed = @ \cup {s}])
           \/ /\ r.hna > r.my_view /\ MuFree(s) /\ r.hna <= view[s]
              /\ Goto(c, away)
              /\ UNCHANGED viewVars
           \/ /\ r.hna <= r.my_view
              /\ Goto(c, IF r.dec THEN ToLearn(next)
                         ELSE [next EXCEPT !.pc = "accept", !.todo = Server])
              /\ UNCHANGED viewVars
        /\ UNCHANGED slots
        /\ OtherPaxos

\* Accept at p, under mu.
AcceptEnters(c, p) ==
    LET r == calls[c]
    IN  /\ r.pc = "accept" /\ p \in r.todo
        /\ up[p] /\ MuFree(p) /\ p \notin Discards
        /\ Visit(p, r.seq)
        /\ RaiseView(p, r.my_view) /\ OtherViews
        /\ Goto(c, [r EXCEPT !.todo = @ \ {p}, !.inside = @ \cup {p}])
        /\ OtherPaxos

Accepts(slot, v) == v >= slot.n_a

\* The answer, which counts for nothing but the news that the slot is decided.
AcceptAnswers(c, p) ==
    LET r == calls[c]
        over == [r EXCEPT !.inside = @ \ {p}, !.noting = @ \ {p}]
    IN  \/ Goto(c, [over EXCEPT !.dec = @ \/ KnownDecided(slots[p][r.seq])])
        \/ LossyRPC /\ Goto(c, over)

\* Accept at p, under slot->mu_: the proposal is recorded or rejected.
AcceptRecords(c, p) ==
    LET r == calls[c]
        q == r.seq
    IN  /\ r.pc = "accept" /\ p \in r.inside \ r.noting /\ up[p]
        /\ SlotMu_Free(p, q)
        /\ \/ /\ Accepts(slots[p][q], r.my_view)
              /\ slots' = [slots EXCEPT ![p][q].n_a = r.my_view,
                                        ![p][q].v_a = r.val]
              /\ Goto(c, [r EXCEPT !.noting = @ \cup {p}])
           \/ /\ ~Accepts(slots[p][q], r.my_view)
              /\ AcceptAnswers(c, p)
              /\ UNCHANGED slots
        /\ UNCHANGED viewVars
        /\ OtherPaxos

\* Accept at p, under slot->mu_ and mu again.
AcceptNotes(c, p) ==
    LET r == calls[c]
    IN  /\ r.pc = "accept" /\ p \in r.noting /\ up[p] /\ MuFree(p)
        /\ IF r.seq > highest_accepted_seq[p] THEN NoteAccepted(p, r.seq)
           ELSE UNCHANGED viewVars
        /\ AcceptAnswers(c, p)
        /\ UNCHANGED slots
        /\ OtherPaxos

\* The requests that are filled in and not delivered.  One to Learn is filled in
\* under mu by a thread of its own; if it goes to its own server, whose handler
\* begins with the same mutex, that is one step with the delivery.
Sent(r) == r.todo \cup {s \in r.unsent : s = r.at /\ MuFree(s)}

\* The call to p fails: not delivered, refused, or p went down.
CallFails(c, p) ==
    LET r == calls[c]
    IN  /\ r.pc \in {"accept", "learn"}
        /\ p \in Sent(r) \cup r.inside
        /\ ~up[p] \/ (p \in Sent(r) /\ (LossyRPC \/ Ignores(p)))
        /\ Goto(c, [r EXCEPT !.unsent = @ \ {p},
                             !.todo = @ \ {p}, !.inside = @ \ {p},
                             !.noting = @ \ {p}])
        /\ UNCHANGED <<slots, viewVars>>
        /\ OtherPaxos

\* After the Accept calls, whether or not a majority accepted: on to Learn,
\* unless an acceptor knew the slot was decided.
AcceptEnds(c) ==
    LET r == calls[c]
    IN  /\ r.pc = "accept" /\ r.todo = {} /\ r.inside = {} /\ up[r.at]
        /\ Goto(c, IF r.dec THEN ProposalReturns(r) ELSE ToLearn(r))
        /\ UNCHANGED <<slots, viewVars>>
        /\ OtherPaxos

\* A request to another server is filled in.
LearnSends(c, p) ==
    LET r == calls[c]
    IN  /\ r.pc = "learn" /\ p \in r.unsent \ {r.at} /\ MuFree(r.at)
        /\ Goto(c, [r EXCEPT !.unsent = @ \ {p}, !.todo = @ \cup {p}])
        /\ UNCHANGED <<slots, viewVars>>
        /\ OtherPaxos

\* Learn at p, under mu.
LearnEnters(c, p) ==
    LET r == calls[c]
    IN  /\ r.pc = "learn" /\ p \in Sent(r)
        /\ up[p] /\ MuFree(p) /\ p \notin Discards
        /\ Visit(p, r.seq)
        /\ Goto(c, [r EXCEPT !.unsent = @ \ {p}, !.todo = @ \ {p},
                             !.inside = @ \cup {p}])
        /\ UNCHANGED viewVars
        /\ OtherPaxos

\* Learn at p, under slot->mu_: the first one decides the slot, whose value is
\* still the empty one ...
LearnDecides(c, p) ==
    LET r == calls[c]
        q == r.seq
    IN  /\ r.pc = "learn" /\ p \in r.inside \ r.noting /\ up[p]
        /\ SlotMu_Free(p, q)
        /\ \/ /\ ~Decided(slots[p][q])
              /\ slots' = [slots EXCEPT ![p][q].status = "DECIDED"]
              /\ Goto(c, [r EXCEPT !.noting = @ \cup {p}])
           \/ /\ Decided(slots[p][q])
              /\ Goto(c, [r EXCEPT !.inside = @ \ {p}])
              /\ UNCHANGED slots
        /\ UNCHANGED viewVars
        /\ OtherPaxos

\* ... and then gives it the value, and stores it.
LearnStores(c, p) ==
    LET r == calls[c]
    IN  /\ r.pc = "learn" /\ p \in r.noting /\ up[p]
        /\ slots' = [slots EXCEPT ![p][r.seq].value = r.val]
        /\ paxos_db' = [paxos_db EXCEPT ![p] = r.val]
        /\ Goto(c, [r EXCEPT !.inside = @ \ {p}, !.noting = @ \ {p}])
        /\ UNCHANGED <<viewVars, mu_lost, hbVars>>

LearnEnds(c) ==
    LET r == calls[c]
    IN  /\ r.pc = "learn" /\ r.unsent \cup r.todo \cup r.inside = {} /\ up[r.at]
        /\ Goto(c, ProposalReturns(r))
        /\ UNCHANGED <<slots, viewVars>>
        /\ OtherPaxos

\* The last handler called by a proposer that is no more has ended.
Orphaned(c) ==
    LET r == calls[c]
    IN  /\ Proposing(r) /\ r.inside = {} /\ ~up[r.at]
        /\ Goto(c, Over(r, {}))
        /\ UNCHANGED <<slots, viewVars>>
        /\ OtherPaxos

CallStep(c) ==
    \/ Start(c) \/ StartIgnored(c) \/ ReadView(c) \/ Forward(c) \/ Nested(c)
    \/ ForwardFails(c) \/ Return(c) \/ LockSlot(c) \/ Begin(c)
    \/ PrepareEnds(c) \/ AcceptEnds(c) \/ LearnEnds(c)
    \/ Orphaned(c)
    \/ \E p \in Server :
         \/ PrepareEnters(c, p) \/ PrepareAnswers(c, p) \/ PrepareFails(c, p)
         \/ AcceptEnters(c, p) \/ AcceptRecords(c, p) \/ AcceptNotes(c, p)
         \/ LearnSends(c, p) \/ LearnEnters(c, p)
         \/ LearnDecides(c, p) \/ LearnStores(c, p) \/ CallFails(c, p)
----------------------------------------------------------------------------
(* Heartbeats carry the decided slots of the leader as of the beginning of *)
(* the round, and bring back those that only the follower has.             *)

BeginRound(s) ==
    /\ MuFree(s) /\ hb_reply[s] = Nothing
    /\ SendHeartbeats(s)
    /\ hb_sent' = [hb_sent EXCEPT ![s] = DecidedOf(s)]
    /\ UNCHANGED <<slots, paxos_db, calls, mu_lost, hb_ready, hb_reply>>

\* The request for the next call is filled in under mu.  (For the call to itself,
\* whose handler begins with the same mutex, that is one step with it.)
FillRequest(s) ==
    /\ MuFree(s) /\ hb_reply[s] = Nothing
    /\ \E p \in Server \ {s} : NextCallee(heartbeat[s].todo, p)
    /\ s \notin hb_ready
    /\ hb_ready' = hb_ready \cup {s}
    /\ UNCHANGED <<slots, paxos_db, calls, mu_lost, hb_sent, hb_reply, viewVars>>

Filled(s, p) == s \in hb_ready \/ (p = s /\ MuFree(s) /\ hb_reply[s] = Nothing)

\* What the round of s still carries after the call.
RoundGoesOn(s) ==
    /\ hb_ready' = hb_ready \ {s}
    /\ hb_sent' = [hb_sent EXCEPT ![s] =
                     IF heartbeat'[s].todo = {} THEN Nothing ELSE @]

\* The slots of `log` whose mu_ a handler of p, in phase pc, keeps locked.
LockedBy(pc, p, log) ==
    {q \in Seqs : log[q] # Absent /\ \E c \in Calls : /\ calls[c].pc = pc
                                                     /\ calls[c].seq = q
                                                     /\ p \in calls[c].noting}

\* Whoever catches up with mu locked waits for ever for a handler of Accept,
\* and for a handler of Learn until it has written its value.
Blocked(p, log) == LockedBy("accept", p, log)
Delayed(p, log) == LockedBy("learn", p, log)

\* A server in view v that catches up waits for the mu_ of the first blocked
\* slot with mu locked, and the Accept handler for mu with mu_ locked.
CatchUpBlocks(p, log, v) ==
    \E b \in Blocked(p, log) :
      /\ Delayed(p, log) = {}
      /\ \A q \in Blocked(p, log) : b <= q
      /\ LET before == [q \in Seqs |-> IF q < b THEN log[q] ELSE Absent]
         IN  slots' = [slots EXCEPT ![p] =
                         [CatchUp(@, before, v) EXCEPT ![b].n_a = v]]
      /\ mu_lost' = mu_lost \cup {p}

Obeyed(s, p) == p # s /\ view[p] <= heartbeat[s].view

\* The handler of p never returns; what it has done to missed_heartbeats nobody
\* will read, for lack of mu.
HeartbeatBlocks(s, p) ==
    /\ s \in hb_ready /\ MuFree(p) /\ up[s] /\ up[p]
    /\ NextCallee(heartbeat[s].todo, p) /\ Obeyed(s, p)
    /\ RaiseView(p, heartbeat[s].view) /\ OtherViews
    /\ CatchUpBlocks(p, hb_sent[s], heartbeat[s].view)
    /\ UNCHANGED <<paxos_db, calls, hbVars>>

HeartbeatCall(s, p) ==
    LET missing == [q \in Seqs |-> IF hb_sent[s][q] = Absent
                                   THEN DecidedOf(p)[q] ELSE Absent]
    IN  /\ Filled(s, p) /\ MuFree(p)
        /\ HeartbeatDelivered(s, p)
        /\ RoundGoesOn(s)
        /\ IF Obeyed(s, p)
           THEN /\ Blocked(p, hb_sent[s]) \cup Delayed(p, hb_sent[s]) = {}
                /\ slots' = [slots EXCEPT ![p] =
                               CatchUp(@, hb_sent[s], view'[p])]
                /\ \/ hb_reply' = [hb_reply EXCEPT ![s] = missing]
                   \/ LossyRPC /\ UNCHANGED hb_reply
           ELSE UNCHANGED <<slots, hb_reply>>
        /\ UNCHANGED <<paxos_db, calls, mu_lost>>

HeartbeatFails(s, p) ==
    /\ Filled(s, p)
    /\ HeartbeatLost(s, p)
    /\ RoundGoesOn(s)
    /\ UNCHANGED <<slots, paxos_db, calls, mu_lost, hb_reply>>

\* SendHeartbeats takes over the slots of an answer ...
TakeReply(s) ==
    /\ MuFree(s) /\ hb_reply[s] # Nothing
    /\ Blocked(s, hb_reply[s]) \cup Delayed(s, hb_reply[s]) = {}
    /\ slots' = [slots EXCEPT ![s] = CatchUp(@, hb_reply[s], view[s])]
    /\ hb_reply' = [hb_reply EXCEPT ![s] = Nothing]
    /\ UNCHANGED <<viewVars, paxos_db, calls, mu_lost, hb_sent, hb_ready>>

\* ... or waits for one of them for ever.
TakeReplyBlocks(s) ==
    /\ MuFree(s) /\ CatchUpBlocks(s, hb_reply[s], view[s])
    /\ UNCHANGED <<viewVars, paxos_db, calls, hbVars>>

HeartbeatStep(s) ==
    \/ BeginRound(s) \/ FillRequest(s) \/ TakeReply(s) \/ TakeReplyBlocks(s)
    \/ \E p \in Server : \/ HeartbeatCall(s, p) \/ HeartbeatFails(s, p)
                         \/ HeartbeatBlocks(s, p)
----------------------------------------------------------------------------
(* The end of a process.                                                   *)

\* A proposer that dies makes no more calls; handlers it has called run on.
Bereft(r, x) ==
    IF Proposing(r)
    THEN [r EXCEPT !.unsent = {}, !.todo = {}, !.inside = @ \ {x},
                   !.noting = @ \ {x}, !.held = <<>>, !.doomed = {},
                   !.cut = @ \/ Holds(r) \ {x} # {}]
    ELSE Over(r, Holds(r) \ {x})

\* The frames of r ahead of the one at x, or all of them.
Ahead(r, x) ==
    IF x \in Holds(r)
    THEN LET i == CHOOSE i \in DOMAIN r.held : r.held[i] = x
         IN  SubSeq(r.held, i + 1, Len(r.held))
    ELSE r.held

\* The frame of r at x is gone; those ahead of it have nobody to answer to.
Severed(r, x) ==
    [r EXCEPT !.held = Ahead(r, x), !.cut = @ \/ Behind(r, x) # {}]

\* Server x dies, killed or by the exception of a thread that unlocks mu twice
\* (one `doomed` at x, which has no other way on): the threads it ran are gone,
\* and whoever waited for one of them locks the mutex it holds.
PaxosCrash(x) ==
    /\ Crash(x)
    /\ calls' = [c \in Calls |->
         LET r == [calls[c] EXCEPT !.locked = @ \ {x}]
         IN  CASE r.pc \in {"idle", "done", "stuck"} -> r
               [] r.pc \notin {"idle", "done", "stuck"} /\ r.at = x -> Bereft(r, x)
               [] OTHER -> Severed(r, x)]
    /\ mu_lost' = (mu_lost \ {x}) \cup
         UNION {IF calls[c].at = x THEN Holds(calls[c]) \ {x}
                ELSE Behind(calls[c], x) : c \in Calls}
    /\ hb_sent' = [hb_sent EXCEPT ![x] = Nothing]
    /\ hb_ready' = hb_ready \ {x}
    /\ hb_reply' = [hb_reply EXCEPT ![x] = Nothing]
    /\ UNCHANGED <<slots, paxos_db>>
----------------------------------------------------------------------------
\* The view changes of module Views, each under the mutex its code takes.
\* WaitTimerFires is not among them: the flag it clears is read by the lock
\* service alone, so that here MaxTimers bounds the suspicions of a server.
ViewStep ==
    /\ \/ \E s \in Server : MuFree(s) /\ DetectLeaderFailure(s)
       \/ \E e \in elections :
            \/ MuFree(e.srv) /\ ElectionEnds(e)
            \/ \E p \in Server : \/ MuFree(p) /\ ElectHandled(e, p)
                                 \/ ElectUnreachable(e, p)
    /\ UNCHANGED paxosVars

ProposalStep ==
    \/ \E c \in Calls :
         \/ CallStep(c)
         \/ \E s \in Server, q \in Seqs : Request(c, s, q)
    \/ \E s \in Server : PaxosCrash(s)

\* No server ever suspects the leader.
StableNext == ProposalStep \/ \E s \in Server : HeartbeatStep(s)

PaxosNext == StableNext \/ ViewStep

allVars == <<viewVars, paxosVars>>

StableSpec == PaxosInit /\ [][StableNext]_allVars

PaxosSpec == PaxosInit /\ [][PaxosNext]_allVars

\* A live process runs its threads, and a call to a live process returns.
FairStableSpec ==
    StableSpec /\ \A c \in Calls : WF_allVars(CallStep(c))
----------------------------------------------------------------------------
(* Properties.                                                             *)

Slot == [status: {"NONE", "PENDING", "DECIDED"}, value: Value, n: Nat,
         n_p: Int, n_a: Nat, v_a: Value, highest_N: Nat]

Call == [pc: {"idle", "start", "read", "lock", "begin", "forward", "nested",
              "prepare", "accept", "learn", "return", "done", "stuck"},
         at: Server, seq: Nat, my_view: Nat, held: Seq(Server),
         locked: SUBSET Server, doomed: SUBSET Server, cut: BOOLEAN,
         unsent: SUBSET Server, todo: SUBSET Server, inside: SUBSET Server,
         noting: SUBSET Server,
         oks: Nat, hna: Int, val: Value, dec: BOOLEAN]

PaxosTypeOK ==
    /\ slots \in [Server -> [Seqs -> Slot]]
    /\ paxos_db \in [Server -> Value]
    /\ calls \in [Calls -> Call]
    /\ mu_lost \subseteq Server
    /\ hb_sent \in [Server -> Carried]
    /\ hb_ready \subseteq Server
    /\ hb_reply \in [Server -> Carried]

\* The value of a decided slot, once it has one, is a value that a client asked
\* to put in this very slot; and so is every value on its way to an acceptor or
\* a learner, never the empty one of an acceptor that has accepted nothing.
Validity ==
    LET AskedFor(v, q) == v \in Calls /\ calls[v].pc # "idle" /\ calls[v].seq = q
    IN  /\ \A s \in Server, q \in Seqs :
             KnownDecided(slots[s][q]) => AskedFor(slots[s][q].value, q)
        /\ \A c \in Calls :
             calls[c].pc \in {"accept", "learn"} => AskedFor(calls[c].val, calls[c].seq)

\* A decided slot stays decided and its value, once written, stays the same,
\* whatever proposals of older and newer leaders and heartbeats still arrive.
DecisionStable ==
    [][\A s \in Server, q \in Seqs :
         Decided(slots[s][q]) =>
           /\ Decided(slots'[s][q])
           /\ slots[s][q].value \in {NoValue, slots'[s][q].value}]_slots

\* "Decided value (V)": a slot that is decided, and whose value no Learn handler
\* is about to write, has a value.
DecisionHasValue ==
    \A s \in Server, q \in Seqs :
      Decided(slots[s][q]) /\ SlotMu_Free(s, q) => slots[s][q].value # NoValue

\* A server that has stored a value has decided it: what Learn writes to the
\* database is the decision of some slot, also when proposers disagree.
StoredIsDecided ==
    \A s \in Server :
      paxos_db[s] # NoValue =>
        \E q \in Seqs : Decided(slots[s][q]) /\ slots[s][q].value = paxos_db[s]

\* The n_a of a slot is never ahead of the view of its server, although the
\* two are assigned under different mutexes.
AcceptedInView ==
    \A s \in Server, q \in Seqs :
      slots[s][q].status # "NONE" => slots[s][q].n_a <= view[s]

\* "Decided value (V)": two servers that have decided a slot with a value have
\* decided it with the same one.
Agreement ==
    \A s, p \in Server, q \in Seqs :
      KnownDecided(slots[s][q]) /\ KnownDecided(slots[p][q])
        => slots[s][q].value = slots[p][q].value

\* A catch-up never waits for a handler of Accept that waits for it: Accept
\* takes mu with the mu_ of a slot locked, Heartbeat and SendHeartbeats take
\* the mu_ of the slots they are told with mu locked.
CatchUpNeverWaits ==
    \A s \in Server :
      /\ Blocked(s, hb_reply[s]) = {}
      /\ \A p \in Server : Blocked(p, hb_sent[s]) = {}

\* The mutex mu of the leader is free between any two steps: no thread of the
\* leader keeps it during a call to another server, locks it twice, or meets a
\* catch-up and an Accept that wait for each other.  (A follower's mu may be
\* kept for ever, see ForwardAnswered.)
LeaderMuStaysFree ==
    \A s \in Server : Leads(s) => MuFree(s)

ValuesOf(s) == [q \in Seqs |-> slots[s][q].value]

L == INSTANCE SlotLog WITH Value <- Calls, None <- NoValue,
                           learned <- [s \in Server |-> ValuesOf(s)]

\* As long as nobody suspects the leader, the values in the slots of all servers
\* together are a write-once log: some servers may miss a value for good, but no
\* two have different ones.
WriteOnceLog == L!Spec

\* The proposals change views only in the ways the view changes allow for.
ViewsRefined == ViewSpec

\* Every request to Start comes to an end.  It does for requests that nobody
\* forwards (a forwarded one may wait for ever, see ForwardAnswered): whatever
\* the Prepare, Accept and Learn calls of a proposal bring, it gives slot->mu up,
\* and the requests that wait for it go on.
StartReturns ==
    \A c \in Calls : calls[c].pc # "idle" ~> calls[c].pc = "done"

\* ForwardLeader is answered: a call sent on to the leader comes to an end.
ForwardAnswered ==
    \A c \in Calls : calls[c].held # <<>> ~> calls[c].pc = "done"
=============================================================================
