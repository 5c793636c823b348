---------------------------- MODULE FilteredList ----------------------------
(***************************************************************************)
(* What a list handler of cmd/marketplace-vws promises to the API server:  *)
(* one answer, which is an error, or exactly the allowed items of one      *)
(* snapshot, in its order.  No item is left out because nobody decided     *)
(* about it, and nothing is decided for a request that was answered.       *)
(***************************************************************************)
EXTENDS Integers, Sequences

CONSTANTS
    Snapshots,  \* what the datasource may list: sequences of items
    Pending,    \* no answer, or no verdict
    Failed      \* an error for an answer

VARIABLES
    items,    \* the snapshot
    verdict,  \* what was decided about each position of it
    answer    \* an error, or the positions listed

vars == <<items, verdict, answer>>

\* out names the elements of S, once each and in order.
Lists(out, S) ==
    /\ {out[k] : k \in DOMAIN out} = S
    /\ \A j, k \in DOMAIN out : j < k => out[j] < out[k]

Init ==
    /\ items = <<>>
    /\ verdict = <<>>
    /\ answer = Pending

\* Without a checker, every item is allowed from the start.
Snapshot(s) ==
    /\ answer = Pending /\ items = <<>>
    /\ items' = s
    /\ \E v \in {Pending, TRUE} : verdict' = [i \in DOMAIN s |-> v]
    /\ UNCHANGED answer

Decide(i, b) ==
    /\ answer = Pending /\ verdict[i] = Pending
    /\ verdict' = [verdict EXCEPT ![i] = b]
    /\ UNCHANGED <<items, answer>>

AnswerList ==
    /\ answer = Pending
    /\ \A i \in DOMAIN items : verdict[i] \in BOOLEAN
    /\ answer' \in Seq(DOMAIN items)
    /\ Lists(answer', {i \in DOMAIN items : verdict[i] = TRUE})
    /\ UNCHANGED <<items, verdict>>

AnswerError ==
    /\ answer = Pending
    /\ answer' = Failed
    /\ UNCHANGED <<items, verdict>>

Next ==
    \/ \E s \in Snapshots : Snapshot(s)
    \/ \E i \in DOMAIN items, b \in BOOLEAN : Decide(i, b)
    \/ AnswerList
    \/ AnswerError

Spec == Init /\ [][Next]_vars
=============================================================================
