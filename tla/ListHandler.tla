---------------------------- MODULE ListHandler -----------------------------
(***************************************************************************)
(* cmd/marketplace-vws/main.go: a request to listAccessibleWorkspaces or   *)
(* listBindableAPIExports.  Both take a snapshot of the datasource, fan    *)
(* out one review per item in an errgroup with a limit, and list what was  *)
(* allowed; they differ in what an item is and in what is asked about it.  *)
(*                                                                         *)
(* The handler's goroutine is pc, the goroutine of item i is task[i].  A   *)
(* review is external here: it may answer or fail at any time, whatever    *)
(* the state of its context, as an answer of the checker's cache does not  *)
(* look at the context.                                                    *)
(***************************************************************************)
EXTENDS Integers, Sequences, FiniteSets

CONSTANTS
    Snapshots,  \* the slices the datasource may return
    Limit,      \* sarConcurrency
    Pending,    \* not answered yet
    Failed      \* answered with an error

ASSUME SnapshotsAreSeqs == \A s \in Snapshots : Len(s) \in Nat /\ s = [i \in 1 .. Len(s) |-> s[i]]
ASSUME LimitIsPositive == Limit \in Nat \ {0}
ASSUME Answers == Pending # Failed /\ Pending \notin BOOLEAN

VARIABLES
    checked,  \* buildDatasource made a checker
    pc,       \* the handler's place
    ws,       \* the snapshot
    next,     \* how many items g.Go was called for; afterwards, how many were collected
    task,     \* the place of each item's goroutine
    keep,     \* the handler's slice, written by the goroutines
    err,      \* what each goroutine's review returned as its error
    gerr,     \* g.err
    gone,     \* the request's context has ended: the client left, or it took too long
    out,      \* positions collected
    answer

handler == <<pc, ws, next, out, answer>>
group   == <<task, keep, err, gerr>>
vars    == <<checked, handler, group, gone>>

Errors == {"none", "review", "cancelled"}

\* Goroutines of the group that hold a token of its semaphore.
Running == {i \in DOMAIN ws : task[i] \in {"asking", "failed", "ended"}}

TypeOK ==
    /\ checked \in BOOLEAN
    /\ pc \in {"list", "fan", "wait", "collect", "answered"}
    /\ ws \in Snapshots \cup {<<>>}
    /\ next \in 0 .. Len(ws)
    /\ task \in [DOMAIN ws -> {"new", "asking", "failed", "ended", "done"}]
    /\ keep \in [DOMAIN ws -> BOOLEAN]
    /\ err \in [DOMAIN ws -> Errors]
    /\ gerr \in Errors
    /\ gone \in BOOLEAN
    /\ out \in Seq(DOMAIN ws)
    /\ answer \in {Pending, Failed} \cup Seq(DOMAIN ws)

Init ==
    /\ checked \in BOOLEAN
    /\ pc = "list"
    /\ ws = <<>> /\ next = 0 /\ out = <<>> /\ answer = Pending
    /\ task = <<>> /\ keep = <<>> /\ err = <<>> /\ gerr = "none"
    /\ gone = FALSE

\* The client leaves, or the request reaches its deadline.
End ==
    /\ ~gone
    /\ gone' = TRUE
    /\ UNCHANGED <<checked, handler, group>>

-----------------------------------------------------------------------------
(* The handler.                                                            *)

ListFails ==
    /\ pc = "list"
    /\ pc' = "answered"
    /\ answer' = Failed
    /\ UNCHANGED <<checked, ws, next, out, group, gone>>

\* The snapshot is the handler's own; keep starts out false.
List(s) ==
    /\ pc = "list"
    /\ ws' = s
    /\ pc' = IF checked THEN "fan" ELSE "collect"
    /\ task' = [i \in DOMAIN s |-> "new"]
    /\ keep' = [i \in DOMAIN s |-> ~checked]
    /\ err' = [i \in DOMAIN s |-> "none"]
    /\ UNCHANGED <<checked, next, out, answer, gerr, gone>>

\* g.Go blocks while there are as many goroutines as tokens.  It goes on after an error.
GoWith(tokens) ==
    /\ pc = "fan" /\ next < Len(ws)
    /\ Cardinality(Running) < tokens
    /\ next' = next + 1
    /\ task' = [task EXCEPT ![next + 1] = "asking"]
    /\ UNCHANGED <<checked, pc, ws, out, answer, keep, err, gerr, gone>>

\* Fault: the semaphore has one token more than the limit.
GoOneMore == GoWith(Limit + 1)

Go == GoWith(Limit)

Wait ==
    /\ pc = "fan" /\ next = Len(ws)
    /\ pc' = "wait"
    /\ UNCHANGED <<checked, ws, next, out, answer, group, gone>>

GroupDone == \A i \in DOMAIN ws : task[i] = "done"

WaitOK ==
    /\ pc = "wait" /\ GroupDone /\ gerr = "none"
    /\ pc' = "collect" /\ next' = 0
    /\ UNCHANGED <<checked, ws, out, answer, group, gone>>

\* Fault: the handler answers as soon as there is an error.
WaitFailsEarly ==
    /\ pc = "wait" /\ gerr # "none"
    /\ pc' = "answered" /\ answer' = Failed
    /\ UNCHANGED <<checked, ws, next, out, group, gone>>

WaitFails == GroupDone /\ WaitFailsEarly

\* The loop over the snapshot that appends what is kept.
Collect ==
    /\ pc = "collect" /\ next < Len(ws)
    /\ next' = next + 1
    /\ out' = IF keep[next + 1] THEN Append(out, next + 1) ELSE out
    /\ UNCHANGED <<checked, pc, ws, answer, group, gone>>

Answer ==
    /\ pc = "collect" /\ next = Len(ws)
    /\ pc' = "answered" /\ answer' = out
    /\ UNCHANGED <<checked, ws, next, out, group, gone>>

-----------------------------------------------------------------------------
(* The goroutine of item i, and the errgroup around it.                    *)

\* The review answers, from the checker's cache or from kcp.
ReviewOK(i, b) ==
    /\ task[i] = "asking"
    /\ keep' = [keep EXCEPT ![i] = b]
    /\ task' = [task EXCEPT ![i] = "ended"]
    /\ UNCHANGED <<checked, handler, err, gerr, gone>>

\* kcp refuses, or the review's context has ended: with the request's, or because
\* the group has an error.  The checker returns false next to the error.
ReviewReturns(i, e, place) ==
    /\ task[i] = "asking"
    /\ e = "cancelled" => gone \/ gerr # "none"
    /\ keep' = [keep EXCEPT ![i] = FALSE]
    /\ err' = [err EXCEPT ![i] = e]
    /\ task' = [task EXCEPT ![i] = place]
    /\ UNCHANGED <<checked, handler, gerr, gone>>

\* Fault: a goroutine that is told to stop returns without an error.
ReviewFailsQuietly(i, e) == ReviewReturns(i, e, IF e = "review" THEN "failed" ELSE "ended")

ReviewFails(i, e) == ReviewReturns(i, e, "failed")

RecordError(i, e) ==
    /\ task[i] = "failed"
    /\ gerr' = e
    /\ task' = [task EXCEPT ![i] = "ended"]
    /\ UNCHANGED <<checked, handler, keep, err, gone>>

\* Fault: the last error stands.
RecordLast(i) == RecordError(i, err[i])

\* errOnce: the first error stands, and ends the context of the others.
Record(i) == RecordError(i, IF gerr = "none" THEN err[i] ELSE gerr)

Return(i) ==
    /\ task[i] = "ended"
    /\ task' = [task EXCEPT ![i] = "done"]
    /\ UNCHANGED <<checked, handler, keep, err, gerr, gone>>

\* Fault: a goroutine that failed does not give back its token.
DoneIfOK(i) == err[i] = "none" /\ Return(i)

Done(i) == Return(i)

Handler ==
    \/ ListFails \/ \E s \in Snapshots : List(s)
    \/ Go \/ Wait \/ WaitOK \/ WaitFails
    \/ Collect \/ Answer

Task(i) ==
    \/ \E b \in BOOLEAN : ReviewOK(i, b)
    \/ \E e \in {"review", "cancelled"} : ReviewFails(i, e)
    \/ Record(i)
    \/ Done(i)

\* An answered request stays so.
Next == End \/ Handler \/ \E i \in DOMAIN ws : Task(i)

Spec == Init /\ [][Next]_vars

\* Goroutines run, and no review is for ever: it runs on the request's context,
\* which the API server ends at its deadline.
FairSpec == Spec /\ WF_vars(Handler) /\ WF_vars(\E i \in DOMAIN ws : Task(i))

-----------------------------------------------------------------------------
(* Properties.                                                             *)

\* "sarConcurrency bounds the per-list SubjectAccessReview fan-out", and the request ends
\* with its goroutines: no review outlives it or writes into what was answered.
FanOutBounded ==
    /\ Cardinality(Running) <= Limit
    /\ pc = "answered" => Running = {}

\* The error a user is told is the one that made the list fail: that reviews were
\* cancelled is reported only if the request itself was, never in place of the error
\* for which the group cancelled its other reviews.
RootCause ==
    /\ gerr = "cancelled" => gone
    /\ gerr = "review" => \E i \in DOMAIN ws : err[i] = "review"

\* What each goroutine has decided for good.
Verdict == [i \in DOMAIN ws |->
    IF ~checked \/ (task[i] \in {"ended", "done"} /\ err[i] = "none") THEN keep[i] ELSE Pending]

\* The handler answers like FilteredList: "keeps the allowed ones, preserving order".
View == INSTANCE FilteredList WITH items <- ws, verdict <- Verdict
KeepsAllowedInOrder == View!Spec

\* Every request is answered, whatever reviews fail, in whatever order.
EveryRequestAnswered == <>(pc = "answered")
=============================================================================
