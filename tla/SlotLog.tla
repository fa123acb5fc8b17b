------------------------------ MODULE SlotLog ------------------------------
(***************************************************************************)
(* What PaxosImpl promises its users: every slot is written at most once.  *)
(* A server learns slots in any order, some of them several at a time, and *)
(* two servers that have learned a slot have learned the same value.       *)
(***************************************************************************)
CONSTANTS Server, Seqs, Value, None

VARIABLE learned        \* learned[s][q]: what s knows of slot q, or None

Log == [Seqs -> Value \cup {None}]

Init == learned = [s \in Server |-> [q \in Seqs |-> None]]

\* Slot q may get value v when nobody knows it by another value.
MayLearn(q, v) == v \in Value /\ \A p \in Server : learned[p][q] \in {None, v}

\* Server s extends its log to `log`.
Learn(s, log) ==
    /\ \A q \in Seqs : \/ log[q] = learned[s][q]
                       \/ learned[s][q] = None /\ MayLearn(q, log[q])
    /\ learned' = [learned EXCEPT ![s] = log]

Next == \E s \in Server : \E log \in Log : Learn(s, log)

Spec == Init /\ [][Next]_learned
----------------------------------------------------------------------------
LogTypeOK == learned \in [Server -> Log]

\* No two servers know a slot by different values.
Agreed == \A s, p \in Server, q \in Seqs :
            None \in {learned[s][q], learned[p][q]} \/ learned[s][q] = learned[p][q]
=============================================================================
