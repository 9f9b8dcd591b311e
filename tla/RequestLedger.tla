--------------------------- MODULE RequestLedger ---------------------------
(***************************************************************************)
(* What the inference service promises about requests, without processes,  *)
(* queues or crashes: a request that was accepted is on the ledger, it is  *)
(* answered for its own prompt, a response that is on the ledger is never  *)
(* replaced, and an entry is forgotten only when it has been answered and  *)
(* enough later ones have been.                                            *)
(***************************************************************************)
EXTENDS Integers, FiniteSets

CONSTANTS Prompts, None, MaxId, KeepLatest

VARIABLES
    entry,          \* entry[i]: the prompt of request i
    answer,         \* answer[i]: the prompt that its response answers
    failed,         \* failed[i]: an error was reported for it
    forgotten       \* the requests that are not on the ledger any more

ledger == <<entry, answer, failed, forgotten>>

Ids == 1 .. MaxId

Done(i) == answer[i] # None \/ failed[i]

Init ==
    /\ entry = [i \in Ids |-> None]
    /\ answer = [i \in Ids |-> None]
    /\ failed = [i \in Ids |-> FALSE]
    /\ forgotten = {}

(* Requests are numbered in the order in which they are accepted. *)
Accept(i, p) ==
    /\ entry[i] = None
    /\ \A j \in Ids : j < i => entry[j] # None
    /\ entry' = [entry EXCEPT ![i] = p]
    /\ UNCHANGED <<answer, failed, forgotten>>

Answer(i) ==
    /\ entry[i] # None
    /\ i \notin forgotten
    /\ \/ answer' = [answer EXCEPT ![i] = entry[i]] /\ UNCHANGED failed
       \/ failed' = [failed EXCEPT ![i] = TRUE] /\ UNCHANGED answer
    /\ UNCHANGED <<entry, forgotten>>

Forget(S) ==
    /\ \A i \in S : /\ i \notin forgotten
                    /\ Done(i)
                    /\ Cardinality({j \in Ids : j > i /\ Done(j)}) >= KeepLatest
    /\ forgotten' = forgotten \cup S
    /\ UNCHANGED <<entry, answer, failed>>

Next ==
    \/ \E i \in Ids, p \in Prompts : Accept(i, p)
    \/ \E i \in Ids : Answer(i)
    \/ \E S \in SUBSET Ids : Forget(S)

Spec == Init /\ [][Next]_ledger

=============================================================================
