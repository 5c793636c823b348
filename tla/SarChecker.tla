----------------------------- MODULE SarChecker -----------------------------
(***************************************************************************)
(* pkg/sar/sar.go: the Checker, which asks kcp for SubjectAccessReviews on *)
(* behalf of the list handlers and caches the decisions.                   *)
(*                                                                         *)
(* Several goroutines are inside review at once.  c.mu covers one read or  *)
(* one write of the cache at a time, so get and put are single steps, with *)
(* any number of other steps, and of clock ticks, between them.            *)
(***************************************************************************)
EXTENDS Integers

CONSTANTS
    User,      \* user.Info values, with the fields name and groups
    Cluster,   \* logical clusters
    Attrs,     \* access to "/", or bind of an APIExport: what is asked for
    Caller,    \* goroutines that call CanAccessWorkspace and CanBindAPIExport
    TTL,       \* the ttl given to New
    Deadline,  \* how long a review may take: the deadline of the request's context
    MaxTime,   \* bound of the clock
    None       \* no entry, no request

\* A user.Info also carries the UID and the extra attributes: they are part of groups here.
ASSUME Users == \A u \in User : u = [name |-> u.name, groups |-> u.groups]
ASSUME Times == TTL \in Nat /\ Deadline \in Nat /\ MaxTime \in Nat

Request == [user : User, cluster : Cluster, attrs : Attrs]

ASSUME NoneIsNoRequest == None \notin Request

VARIABLES
    now,     \* the clock
    policy,  \* what kcp decides about each request
    ended,   \* history: when the decision that is not policy's was last in force
    cache,   \* c.cache
    pc, req, sent, res  \* each caller's place, request, start of the review, and result

clockVars == <<now, policy, ended>>
callVars  == <<pc, req, sent, res>>
vars      == <<clockVars, cache, callVars>>

-----------------------------------------------------------------------------

\* The fields of the SubjectAccessReviewSpec that review fills in.
SpecOf(r) == [user |-> r.user.name, groups |-> r.user.groups, attrs |-> r.attrs]

\* Fault: the key leaves out what the user is besides a name.
CacheKeyByName(r) == <<r.cluster, [user |-> r.user.name, attrs |-> r.attrs]>>

\* The hash of the spec stands for the spec.
CacheKey(r) == <<r.cluster, SpecOf(r)>>

Key == {CacheKey(r) : r \in Request}

\* Before any answer that could still be given.
Never == -1 - TTL - Deadline

\* The last time at which kcp would have decided b about r.
LastHeld(r, b) == IF policy[r] = b THEN now ELSE ended[r]

\* The results of a review under way and of one that failed.
Result == {"none", "error", "allowed", "denied"}

Verdict(b) == IF b THEN "allowed" ELSE "denied"

TypeOK ==
    /\ now \in 0 .. MaxTime
    /\ policy \in [Request -> BOOLEAN]
    /\ ended \in [Request -> Never .. now]
    /\ \A k \in Key : cache[k] # None =>
           cache[k] \in [allowed : BOOLEAN, expires : TTL .. MaxTime + TTL]
    /\ DOMAIN cache = Key
    /\ pc \in [Caller -> {"idle", "get", "create", "put"}]
    /\ req \in [Caller -> Request \cup {None}]
    /\ sent \in [Caller -> 0 .. MaxTime]
    /\ res \in [Caller -> Result]
    /\ \A p \in Caller :
        /\ pc[p] # "idle" => req[p] \in Request
        /\ pc[p] \in {"create", "put"} => sent[p] <= now /\ now <= sent[p] + Deadline
        /\ pc[p] = "put" => res[p] \in {"allowed", "denied"}

Init ==
    /\ now = 0
    /\ policy \in [Request -> BOOLEAN]
    /\ ended = [r \in Request |-> Never]
    /\ cache = [k \in Key |-> None]
    /\ pc = [p \in Caller |-> "idle"]
    /\ req = [p \in Caller |-> None]
    /\ sent = [p \in Caller |-> 0]
    /\ res = [p \in Caller |-> "none"]

\* Fault: the review does not run on the request's context.
TickUnbounded ==
    /\ now < MaxTime
    /\ now' = now + 1
    /\ UNCHANGED <<policy, ended, cache, callVars>>

\* No review outlives the context of the request it is made for.
Tick ==
    /\ now < MaxTime
    /\ \A p \in Caller : pc[p] \in {"create", "put"} => now < sent[p] + Deadline
    /\ now' = now + 1
    /\ UNCHANGED <<policy, ended, cache, callVars>>

\* A grant or a revocation in kcp.
ChangePolicy(r) ==
    /\ policy' = [policy EXCEPT ![r] = ~@]
    /\ ended' = [ended EXCEPT ![r] = now]
    /\ UNCHANGED <<now, cache, callVars>>

-----------------------------------------------------------------------------
(* review.                                                                 *)

Review(p, r) ==
    /\ pc[p] = "idle"
    /\ pc' = [pc EXCEPT ![p] = "get"]
    /\ req' = [req EXCEPT ![p] = r]
    /\ res' = [res EXCEPT ![p] = "none"]
    /\ UNCHANGED <<clockVars, cache, sent>>

Return(p, v) ==
    /\ pc' = [pc EXCEPT ![p] = "idle"]
    /\ req' = [req EXCEPT ![p] = None]
    /\ sent' = [sent EXCEPT ![p] = 0]
    /\ res' = [res EXCEPT ![p] = v]

\* Fault: an entry is used for one tick too long.
ValidOneMore(e) == e # None /\ now <= e.expires + 1

\* get: an entry is used until the clock is after its expiry, that moment included.
Valid(e) == e # None /\ now <= e.expires

GetHit(p) ==
    /\ pc[p] = "get"
    /\ Valid(cache[CacheKey(req[p])])
    /\ Return(p, Verdict(cache[CacheKey(req[p])].allowed))
    /\ UNCHANGED <<clockVars, cache>>

GetMiss(p) ==
    /\ pc[p] = "get"
    /\ ~Valid(cache[CacheKey(req[p])])
    /\ pc' = [pc EXCEPT ![p] = "create"]
    /\ sent' = [sent EXCEPT ![p] = now]
    /\ UNCHANGED <<clockVars, cache, req, res>>

\* kcp decides; the answer is on its way.
Decide(p) ==
    /\ pc[p] = "create"
    /\ pc' = [pc EXCEPT ![p] = "put"]
    /\ res' = [res EXCEPT ![p] = Verdict(policy[req[p]])]
    /\ UNCHANGED <<clockVars, cache, req, sent>>

\* Fault: a failed review is remembered as a denial.
CreateFailsCached(p) ==
    /\ pc[p] \in {"create", "put"}
    /\ cache' = [cache EXCEPT ![CacheKey(req[p])] = [allowed |-> FALSE, expires |-> now + TTL]]
    /\ Return(p, "error")
    /\ UNCHANGED clockVars

\* The request, or its answer, is lost or out of time.
CreateFails(p) ==
    /\ pc[p] \in {"create", "put"}
    /\ Return(p, "error")
    /\ UNCHANGED <<clockVars, cache>>

\* Fault: the entry expires two ttls from now.
PutLonger(p) ==
    /\ pc[p] = "put"
    /\ cache' = [cache EXCEPT ![CacheKey(req[p])] =
           [allowed |-> res[p] = "allowed", expires |-> now + 2 * TTL]]
    /\ Return(p, res[p])
    /\ UNCHANGED clockVars

\* The entry is valid for ttl from now on, however long ago kcp decided.
Put(p) ==
    /\ pc[p] = "put"
    /\ cache' = [cache EXCEPT ![CacheKey(req[p])] =
           [allowed |-> res[p] = "allowed", expires |-> now + TTL]]
    /\ Return(p, res[p])
    /\ UNCHANGED clockVars

CallStep(p) ==
    \/ \E r \in Request : Review(p, r)
    \/ GetHit(p)
    \/ GetMiss(p)
    \/ Decide(p)
    \/ CreateFails(p)
    \/ Put(p)

Next ==
    \/ Tick
    \/ \E r \in Request : ChangePolicy(r)
    \/ \E p \in Caller : CallStep(p)

Spec == Init /\ [][Next]_vars

-----------------------------------------------------------------------------
(* Properties.                                                             *)

\* "caching decisions for ttl", "distinct users never share a decision": a review
\* answers what kcp would have decided about that very request, for that very
\* user, at most a ttl and the duration of one review ago, whatever answers were
\* slow, lost, or stored over one another.
Answers(p, b) == pc[p] # "idle" /\ pc'[p] = "idle" /\ res'[p] = Verdict(b)

RecentDecision ==
    [][\A p \in Caller, b \in BOOLEAN :
        Answers(p, b) => LastHeld(req[p], b) + TTL + Deadline >= now]_vars

\* What the cache holds is no older than that either, so no sequence of reviews
\* that answer from it, or renew it, carries a decision on.
EntriesAge ==
    \A r \in Request :
        LET e == cache[CacheKey(r)]
        IN  e # None => LastHeld(r, e.allowed) + TTL + Deadline >= e.expires
=============================================================================
