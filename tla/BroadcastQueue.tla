-------------------------- MODULE BroadcastQueue --------------------------
(***************************************************************************)
(* What MessageQueue promises: a queue with one writer, out of which every *)
(* reader takes every object, in order and once.  The writer may be ahead  *)
(* of a reader on its own node by at most Room objects.                    *)
(***************************************************************************)
EXTENDS Naturals, Sequences

CONSTANTS Readers, LocalReaders, Room

VARIABLES
    sent,       \* how many objects have been enqueued
    taken       \* what each reader has dequeued; the n-th object is n

vars == <<sent, taken>>

Init == sent = 0 /\ taken = [r \in Readers |-> <<>>]

Enqueue ==
    /\ \A r \in LocalReaders : sent - Len(taken[r]) < Room
    /\ sent' = sent + 1
    /\ UNCHANGED taken

Dequeue(r) ==
    /\ Len(taken[r]) < sent
    /\ taken' = [taken EXCEPT ![r] = Append(@, Len(@) + 1)]
    /\ UNCHANGED sent

Next == Enqueue \/ \E r \in Readers : Dequeue(r)

Spec == Init /\ [][Next]_vars
=============================================================================
