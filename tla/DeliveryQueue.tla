--------------------------- MODULE DeliveryQueue ---------------------------
(***************************************************************************)
(* What the webhook dispatcher promises, with no pod, worker, group or     *)
(* Redis in sight: a queue that hands its entries out in their order.  An  *)
(* entry leaves it only after an end, which is an answer of the receiver   *)
(* or giving up, and never comes back; and after an end it is not posted   *)
(* again, unless the end was kept from the queue.                          *)
(***************************************************************************)
EXTENDS Naturals

CONSTANT MaxEntries

VARIABLES
    place,    \* where each entry is
    answers,  \* the 2xx answers it got (counted to 2)
    spent,    \* the entries given up
    kept      \* those whose end was kept from the queue at some time

Entry == 1..MaxEntries

TypeOK ==
    /\ place \in [Entry -> {"none", "waiting", "pending", "left"}]
    /\ answers \in [Entry -> 0..2]
    /\ spent \subseteq Entry /\ kept \subseteq Entry

Init ==
    /\ place = [e \in Entry |-> "none"]
    /\ answers = [e \in Entry |-> 0]
    /\ spent = {} /\ kept = {}

Ended(e) == answers[e] > 0 \/ e \in spent

(* An entry is handed out, and either has no end yet or one that was kept  *)
(* from the queue.                                                         *)
Due(e) == place[e] = "pending" /\ (Ended(e) => e \in kept)

Add ==
    \E e \in Entry :
        /\ place[e] = "none" /\ \A f \in Entry : f < e => place[f] # "none"
        /\ place' = [place EXCEPT ![e] = "waiting"]
        /\ UNCHANGED <<answers, spent, kept>>

(* The first ones that wait.                                               *)
HandOut ==
    \E S \in SUBSET Entry :
        /\ \A e \in S : place[e] = "waiting"
        /\ \A e \in S, f \in Entry : f < e /\ place[f] = "waiting" => f \in S
        /\ place' = [e \in Entry |-> IF e \in S THEN "pending" ELSE place[e]]
        /\ UNCHANGED <<answers, spent, kept>>

Answer ==
    \E e \in Entry :
        /\ Due(e)
        /\ answers' = [answers EXCEPT ![e] = IF @ = 2 THEN 2 ELSE @ + 1]
        /\ UNCHANGED <<place, spent, kept>>

GiveUp ==
    \E e \in Entry :
        /\ Due(e)
        /\ spent' = spent \cup {e}
        /\ UNCHANGED <<place, answers, kept>>

Leave ==
    \E e \in Entry :
        /\ place[e] = "pending" /\ Ended(e)
        /\ place' = [place EXCEPT ![e] = "left"]
        /\ UNCHANGED <<answers, spent, kept>>

(* A kill, or a failed call, between the ends of some entries and the      *)
(* queue.                                                                  *)
Keep ==
    \E S \in SUBSET Entry :
        /\ \A e \in S : place[e] = "pending" /\ Ended(e)
        /\ kept' = kept \cup S
        /\ UNCHANGED <<place, answers, spent>>

Next == Add \/ HandOut \/ Answer \/ GiveUp \/ Leave \/ Keep

Spec == Init /\ [][Next]_<<place, answers, spent, kept>>
=============================================================================
