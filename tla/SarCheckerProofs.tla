-------------------------- MODULE SarCheckerProofs --------------------------
(***************************************************************************)
(* Proofs about SarChecker, for any users, clusters, callers, ttl and      *)
(* deadline, and however far the clock goes.                               *)
(***************************************************************************)
EXTENDS SarChecker, TLAPS

\* Two requests with the same cache key are the same request.
LEMMA CacheKeyInjective ==
    ASSUME NEW r \in Request, NEW s \in Request, CacheKey(r) = CacheKey(s)
    PROVE  r = s
  <1>1. r.cluster = s.cluster /\ SpecOf(r) = SpecOf(s)
    BY DEF CacheKey
  <1>2. r.attrs = s.attrs /\ r.user.name = s.user.name /\ r.user.groups = s.user.groups
    BY <1>1 DEF SpecOf
  <1>3. r.user = s.user
    BY <1>2, Users DEF Request
  <1> QED
    BY <1>1, <1>2, <1>3 DEF Request

\* An answer about to be stored was in force when its review began, or later.
Asked ==
    \A p \in Caller, b \in BOOLEAN :
        pc[p] = "put" /\ res[p] = Verdict(b) => LastHeld(req[p], b) >= sent[p]

IInv == TypeOK /\ Asked /\ EntriesAge

LEMMA InitIInv == Init => IInv
  <1> SUFFICES ASSUME Init PROVE IInv
    OBVIOUS
  <1>1. TypeOK
    BY Times DEF Init, TypeOK, Result, Never
  <1>2. Asked
    BY DEF Init, Asked
  <1>3. EntriesAge
    BY DEF Init, EntriesAge, Key
  <1> QED
    BY <1>1, <1>2, <1>3 DEF IInv

LEMMA TypeOKNext == TypeOK /\ [Next]_vars => TypeOK'
  <1> SUFFICES ASSUME TypeOK, [Next]_vars PROVE TypeOK'
    OBVIOUS
  <1> USE Times DEF TypeOK, Result, Never, clockVars, callVars
  <1>1. CASE Tick
    BY <1>1 DEF Tick
  <1>2. ASSUME NEW r \in Request, ChangePolicy(r) PROVE TypeOK'
    BY <1>2 DEF ChangePolicy
  <1>3. ASSUME NEW p \in Caller, NEW r \in Request, Review(p, r) PROVE TypeOK'
    BY <1>3 DEF Review
  <1>4. ASSUME NEW p \in Caller, GetHit(p) PROVE TypeOK'
    BY <1>4 DEF GetHit, Return, Verdict
  <1>5. ASSUME NEW p \in Caller, GetMiss(p) PROVE TypeOK'
    BY <1>5 DEF GetMiss
  <1>6. ASSUME NEW p \in Caller, Decide(p) PROVE TypeOK'
    BY <1>6 DEF Decide, Verdict
  <1>7. ASSUME NEW p \in Caller, CreateFails(p) PROVE TypeOK'
    BY <1>7 DEF CreateFails, Return
  <1>8. ASSUME NEW p \in Caller, Put(p) PROVE TypeOK'
    BY <1>8 DEF Put, Return
  <1>9. CASE UNCHANGED vars
    BY <1>9 DEF vars
  <1> QED
    BY <1>1, <1>2, <1>3, <1>4, <1>5, <1>6, <1>7, <1>8, <1>9 DEF Next, CallStep

\* LastHeld after the step.
HeldNext(r, b) == IF policy'[r] = b THEN now' ELSE ended'[r]

\* What was in force at some time stays so: LastHeld never goes back.
LEMMA LastHeldGrows ==
    ASSUME TypeOK, [Next]_vars, NEW r \in Request, NEW b \in BOOLEAN
    PROVE  /\ LastHeld(r, b) \in Int
           /\ HeldNext(r, b) \in Int
           /\ HeldNext(r, b) >= LastHeld(r, b)
  <1> USE Times DEF TypeOK, Never, LastHeld, HeldNext
  <1>1. CASE Tick
    BY <1>1 DEF Tick
  <1>2. ASSUME NEW q \in Request, ChangePolicy(q) PROVE
           /\ LastHeld(r, b) \in Int
           /\ HeldNext(r, b) \in Int
           /\ HeldNext(r, b) >= LastHeld(r, b)
    BY <1>2 DEF ChangePolicy
  <1>3. CASE UNCHANGED clockVars
    BY <1>3 DEF clockVars
  <1> QED
    BY <1>1, <1>2, <1>3 DEF Next, CallStep, vars, Review, GetHit, GetMiss, Decide,
       CreateFails, Put

LEMMA AskedNext == IInv /\ [Next]_vars => Asked'
  <1> SUFFICES ASSUME IInv, [Next]_vars,
                      NEW p \in Caller, NEW b \in BOOLEAN,
                      pc'[p] = "put", res'[p] = Verdict(b)
               PROVE  HeldNext(req'[p], b) >= sent'[p]
    BY DEF Asked, LastHeld, HeldNext
  <1> USE DEF IInv
  <1>1. CASE Decide(p)
    <2>1. req[p] \in Request /\ sent[p] <= now /\ policy[req[p]] = b
      BY <1>1 DEF TypeOK, Decide, Verdict
    <2> QED
      BY <1>1, <2>1 DEF Decide, HeldNext, clockVars, TypeOK
  <1>2. CASE pc[p] = "put" /\ UNCHANGED <<req[p], sent[p], res[p]>>
    <2>1. req[p] \in Request /\ sent[p] \in Int
      BY <1>2 DEF TypeOK
    <2>2. LastHeld(req[p], b) >= sent[p]
      BY <1>2 DEF Asked
    <2>3. /\ HeldNext(req[p], b) >= LastHeld(req[p], b)
          /\ LastHeld(req[p], b) \in Int /\ HeldNext(req[p], b) \in Int
      BY <2>1, LastHeldGrows
    <2> QED
      BY <1>2, <2>1, <2>2, <2>3
  <1>3. Decide(p) \/ (pc[p] = "put" /\ UNCHANGED <<req[p], sent[p], res[p]>>)
    BY DEF TypeOK, Next, CallStep, vars, callVars, Tick, ChangePolicy, Review, GetHit,
       GetMiss, Decide, CreateFails, Put, Return
  <1> QED
    BY <1>1, <1>2, <1>3

LEMMA EntriesAgeNext == IInv /\ [Next]_vars => EntriesAge'
  <1> SUFFICES ASSUME IInv, [Next]_vars, NEW r \in Request,
                      cache'[CacheKey(r)] # None
               PROVE  HeldNext(r, cache'[CacheKey(r)].allowed) + TTL + Deadline
                          >= cache'[CacheKey(r)].expires
    BY DEF EntriesAge, CacheKey, SpecOf, LastHeld, HeldNext
  <1> DEFINE k == CacheKey(r)
  <1> USE DEF IInv
  <1>0. k \in Key
    BY DEF Key
  <1>1. CASE cache'[k] = cache[k]
    <2>1. cache[k].allowed \in BOOLEAN /\ cache[k].expires \in Int
      BY <1>0, <1>1, Times DEF TypeOK
    <2>2. LastHeld(r, cache[k].allowed) + TTL + Deadline >= cache[k].expires
      BY <1>1 DEF EntriesAge
    <2>3. /\ LastHeld(r, cache[k].allowed) \in Int
          /\ HeldNext(r, cache[k].allowed) \in Int
          /\ HeldNext(r, cache[k].allowed) >= LastHeld(r, cache[k].allowed)
      BY <2>1, LastHeldGrows
    <2> QED
      BY <1>1, <2>1, <2>2, <2>3, Times
  <1>2. ASSUME NEW p \in Caller, Put(p), cache'[k] # cache[k]
        PROVE  HeldNext(r, cache'[k].allowed) + TTL + Deadline >= cache'[k].expires
    <2>1. req[p] \in Request /\ CacheKey(req[p]) = k
      BY <1>0, <1>2 DEF Put, TypeOK
    <2>2. req[p] = r
      BY <2>1, CacheKeyInjective
    <2>3. cache'[k] = [allowed |-> res[p] = "allowed", expires |-> now + TTL]
      BY <1>0, <1>2, <2>1 DEF Put, TypeOK
    <2> DEFINE b == res[p] = "allowed"
    <2>4. res[p] = Verdict(b) /\ cache'[k].allowed = b /\ b \in BOOLEAN
      <3>1. res[p] \in {"allowed", "denied"}
        BY <1>2 DEF Put, TypeOK
      <3> QED
        BY <2>3, <3>1 DEF Verdict
    <2>5. LastHeld(r, b) >= sent[p] /\ now <= sent[p] + Deadline
      BY <1>2, <2>2, <2>4 DEF Put, TypeOK, Asked
    <2>6. HeldNext(r, b) = LastHeld(r, b) /\ LastHeld(r, b) \in Int
      BY <1>2, <2>2, Times DEF Put, LastHeld, HeldNext, clockVars, TypeOK, Never
    <2>7. now \in Int /\ sent[p] \in Int
      BY DEF TypeOK
    <2> QED
      BY <2>3, <2>4, <2>5, <2>6, <2>7, Times
  <1>3. cache'[k] = cache[k] \/ \E p \in Caller : Put(p)
    BY DEF Next, CallStep, vars, Tick, ChangePolicy, Review, GetHit, GetMiss, Decide,
       CreateFails
  <1> QED
    BY <1>1, <1>2, <1>3

LEMMA Invariance == Spec => []IInv
  <1>1. IInv /\ [Next]_vars => IInv'
    BY TypeOKNext, AskedNext, EntriesAgeNext DEF IInv
  <1> QED
    BY <1>1, InitIInv, PTL DEF Spec

\* sar.go keeps its types, and no review outlives its context.
THEOREM TypeCorrect == Spec => []TypeOK
  <1>1. IInv => TypeOK
    BY DEF IInv
  <1> QED
    BY <1>1, Invariance, PTL

\* Every entry of the cache expires within a ttl and a deadline of a time when
\* kcp would have decided so about the request it is looked up for.
THEOREM EntriesExpire == Spec => []EntriesAge
  <1>1. IInv => EntriesAge
    BY DEF IInv
  <1> QED
    BY <1>1, Invariance, PTL

Recent == \A p \in Caller, b \in BOOLEAN :
              Answers(p, b) => LastHeld(req[p], b) + TTL + Deadline >= now

LEMMA RecentStep == IInv /\ [Next]_vars => Recent
  <1> SUFFICES ASSUME IInv, [Next]_vars, NEW p \in Caller, NEW b \in BOOLEAN, Answers(p, b)
               PROVE  LastHeld(req[p], b) + TTL + Deadline >= now
    BY DEF Recent
  <1> USE DEF IInv
  <1>1. req[p] \in Request /\ CacheKey(req[p]) \in Key
    BY DEF Answers, TypeOK, Key
  <1>2. LastHeld(req[p], b) \in Int
    BY <1>1, Times DEF LastHeld, TypeOK, Never
  <1>3. CASE GetHit(p)
    <2> DEFINE e == cache[CacheKey(req[p])]
    <2>1. e # None /\ now <= e.expires /\ e.allowed \in BOOLEAN /\ e.expires \in Int
      BY <1>1, <1>3, Times DEF GetHit, Valid, TypeOK
    <2>2. e.allowed = b
      BY <1>3, <2>1 DEF GetHit, Return, Answers, Verdict, TypeOK
    <2> QED
      BY <1>1, <1>2, <2>1, <2>2, Times DEF EntriesAge, TypeOK
  <1>4. CASE Put(p)
    <2>1. res[p] = Verdict(b) /\ sent[p] \in Int /\ now <= sent[p] + Deadline
      BY <1>4 DEF Put, Return, Answers, TypeOK
    <2>2. LastHeld(req[p], b) >= sent[p]
      BY <1>4, <2>1 DEF Put, Asked
    <2> QED
      BY <1>2, <2>1, <2>2, Times DEF TypeOK
  <1>5. CASE CreateFails(p)
    BY <1>5 DEF CreateFails, Return, Answers, Verdict, TypeOK
  <1>6. GetHit(p) \/ Put(p) \/ CreateFails(p)
    BY DEF Answers, TypeOK, Next, CallStep, vars, callVars, Tick, ChangePolicy, Review,
       GetHit, GetMiss, Decide, CreateFails, Put, Return
  <1> QED
    BY <1>3, <1>4, <1>5, <1>6

\* A review answers what kcp would have decided about that request, for that
\* user, at most a ttl and a deadline ago.
THEOREM AnswersAreRecent == Spec => RecentDecision
  <1>1. IInv /\ [Next]_vars => [Recent]_vars
    BY RecentStep
  <1>2. Spec => [][Recent]_vars
    BY <1>1, Invariance, PTL DEF Spec
  <1> QED
    BY <1>2 DEF RecentDecision, Recent
=============================================================================
