---------------------------- MODULE Marketplace -----------------------------
(***************************************************************************)
(* A user's list from end to end: the list handler of main.go composed     *)
(* with the Checker of pkg/sar that its goroutines call.                   *)
(*                                                                         *)
(* ListHandler leaves open what a review answers and when; here it is a    *)
(* call of SarChecker, made by the goroutine of the item.  The handler     *)
(* serves one request after the other, so that the decisions cached for    *)
(* one are there for the next; calls of several requests at a time are the *)
(* business of SarChecker, which allows any callers.                       *)
(***************************************************************************)
EXTENDS Integers, Sequences, FiniteSets

CONSTANTS
    User, Cluster, Attrs, TTL, Deadline, MaxTime, None,  \* as in SarChecker
    Snapshots,                                           \* as in ListHandler; items have a cluster and attrs
    Limit, Pending, Failed

\* As in SarChecker and in ListHandler.
ASSUME Users == \A u \in User : u = [name |-> u.name, groups |-> u.groups]
ASSUME Times == TTL \in Nat /\ Deadline \in Nat /\ MaxTime \in Nat
ASSUME NoneIsNoRequest == None \notin [user : User, cluster : Cluster, attrs : Attrs]
ASSUME SnapshotsAreSeqs == \A s \in Snapshots : Len(s) \in Nat /\ s = [i \in 1 .. Len(s) |-> s[i]]
ASSUME LimitIsPositive == Limit \in Nat \ {0}
ASSUME Answers == Pending # Failed /\ Pending \notin BOOLEAN

\* Every item can be asked about.
ASSUME Items ==
    \A s \in Snapshots : \A i \in DOMAIN s : s[i].cluster \in Cluster /\ s[i].attrs \in Attrs

\* The goroutines of a request, one for each item.
Caller == UNION {DOMAIN s : s \in Snapshots}

VARIABLES
    user, begin,                                 \* who asks, and since when
    checked, pc, ws, next, task, keep, err, gerr, gone, out, answer,  \* ListHandler
    now, policy, ended, cache, spc, req, sent, res                    \* SarChecker

requestVars == <<user, begin>>
handlerVars == <<checked, pc, ws, next, task, keep, err, gerr, gone, out, answer>>
checkerVars == <<now, policy, ended, cache, spc, req, sent, res>>
vars        == <<requestVars, handlerVars, checkerVars>>

Handler == INSTANCE ListHandler
Checker == INSTANCE SarChecker WITH pc <- spc

\* Fault: the review is about the handler's own identity, the same for every user.
ReviewOfSame(item) == [user |-> CHOOSE u \in User : TRUE, cluster |-> item.cluster, attrs |-> item.attrs]

\* What filterWorkspaces and filterAPIExports ask about an item: access to a
\* workspace, the bind of an export by its name.
ReviewOf(item) == [user |-> user, cluster |-> item.cluster, attrs |-> item.attrs]

Init ==
    /\ Handler!Init /\ checked
    /\ Checker!Init
    /\ user \in User /\ begin = 0

\* The handler serves the next request: ListHandler starts over.
Request(u) ==
    /\ pc = "answered"
    /\ user' = u /\ begin' = now
    /\ pc' = "list" /\ ws' = <<>> /\ next' = 0 /\ out' = <<>> /\ answer' = Pending
    /\ task' = <<>> /\ keep' = <<>> /\ err' = <<>> /\ gerr' = "none" /\ gone' = FALSE
    /\ UNCHANGED <<checked, checkerVars>>

\* Fault: requests have no deadline.
TickForEver ==
    /\ Checker!Tick
    /\ UNCHANGED <<requestVars, handlerVars>>

\* The API server ends a request at its deadline, with all of its reviews.
Tick ==
    /\ pc # "answered" => now < begin + Deadline
    /\ Checker!Tick
    /\ UNCHANGED <<requestVars, handlerVars>>

\* g.Go starts a goroutine, which enters the checker.
Go ==
    /\ Handler!Go
    /\ Checker!Review(next + 1, ReviewOf(ws[next + 1]))
    /\ UNCHANGED requestVars

HandlerStep ==
    /\ \/ Handler!ListFails \/ \E s \in Snapshots : Handler!List(s)
       \/ Handler!Wait \/ Handler!WaitOK \/ Handler!WaitFails
       \/ Handler!Collect \/ Handler!Answer
       \/ Handler!End
       \/ \E i \in DOMAIN ws : Handler!Record(i) \/ Handler!Done(i)
    /\ UNCHANGED <<requestVars, checkerVars>>

\* Inside the checker.
Reviewing(p) ==
    /\ Checker!GetMiss(p) \/ Checker!Decide(p)
    /\ UNCHANGED <<requestVars, handlerVars>>

\* Fault: the handler keeps what was denied.
ReviewedInverted(i) ==
    /\ Checker!GetHit(i) \/ Checker!Put(i)
    /\ Handler!ReviewOK(i, res'[i] # "allowed")
    /\ UNCHANGED requestVars

\* The checker returns to the goroutine of item i.
Reviewed(i) ==
    /\ Checker!GetHit(i) \/ Checker!Put(i)
    /\ Handler!ReviewOK(i, res'[i] = "allowed")
    /\ UNCHANGED requestVars

ReviewFailed(i) ==
    /\ Checker!CreateFails(i)
    /\ \E e \in {"review", "cancelled"} : Handler!ReviewFails(i, e)
    /\ UNCHANGED requestVars

Policy ==
    /\ \E r \in Checker!Request : Checker!ChangePolicy(r)
    /\ UNCHANGED <<requestVars, handlerVars>>

Next ==
    \/ Tick
    \/ Policy
    \/ \E u \in User : Request(u)
    \/ Go \/ HandlerStep
    \/ \E i \in DOMAIN ws : Reviewing(i) \/ Reviewed(i) \/ ReviewFailed(i)

Spec == Init /\ [][Next]_vars

-----------------------------------------------------------------------------
(* Properties.                                                             *)

\* The question that decides whether the user sees item i.
Asked(i) == [user |-> user, cluster |-> ws[i].cluster, attrs |-> ws[i].attrs]

\* What a user sees is what kcp would have decided about that user, for every item
\* listed and for every item left out, at most a ttl and two deadlines before it is
\* sent: one deadline for the review whose answer was cached, one for this request.
\* That holds whoever asked before, and however reviews fail or are answered late.
SeesRecentDecisions ==
    [][answer = Pending /\ answer' \notin {Pending, Failed} =>
          \A i \in DOMAIN ws :
              LET listed == \E k \in DOMAIN answer' : answer'[k] = i
              IN  Checker!LastHeld(Asked(i), listed) + TTL + 2 * Deadline >= now]_vars

\* A goroutine of the handler is in the checker exactly while its task runs there, and
\* asks about the item and the user the handler will list for: nothing of a request
\* that was answered is left behind in the checker.
InStep ==
    \A p \in Caller :
        /\ spc[p] # "idle" <=> p \in DOMAIN ws /\ task[p] = "asking"
        /\ spc[p] # "idle" => req[p] = Asked(p) /\ begin <= now /\ now <= begin + Deadline
=============================================================================
