---------------------------- MODULE AtomicStore ----------------------------
(***************************************************************************)
(* What the single writer promises to a repository: a write is applied     *)
(* whole or not at all, and the answer to its caller says which.           *)
(***************************************************************************)
CONSTANTS Calls, Parts \* a write consists of the same parts for every call

VARIABLES answer, store

Init == answer = [c \in Calls |-> "none"] /\ store = {}

Told(c, result) == answer' = [answer EXCEPT ![c] = IF @ = "none" THEN result ELSE @]

\* A cancelled caller is told nothing, and its write may be applied all the same.
Commit(c) ==
    /\ answer[c] \in {"none", "cancelled"}
    /\ store' = store \cup ({c} \X Parts)
    /\ Told(c, "ok")

Refuse(c, result) == answer[c] = "none" /\ Told(c, result) /\ UNCHANGED store

\* Maintenance is answered, and writes nothing.
Maintain(c) == Refuse(c, "done")

Next == \E c \in Calls :
    Commit(c) \/ Maintain(c) \/ \E r \in {"error", "cancelled", "rejected"} : Refuse(c, r)

Spec == Init /\ [][Next]_<<answer, store>>
=============================================================================
