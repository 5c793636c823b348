------------------------- MODULE MarketplaceProofs --------------------------
(***************************************************************************)
(* Proofs about Marketplace, for any users, snapshots, ttl and deadline:   *)
(* what was proved of the handler and of the checker alone holds of the    *)
(* two together, and gives the age of what a user is shown.                *)
(***************************************************************************)
EXTENDS Marketplace, TLAPS

LHP == INSTANCE ListHandlerProofs
SCP == INSTANCE SarCheckerProofs WITH pc <- spc

\* What the two modules assume holds here.
LEMMA Assumptions ==
    /\ SCP!Users /\ SCP!Times /\ SCP!NoneIsNoRequest
    /\ LHP!SnapshotsAreSeqs /\ LHP!LimitIsPositive /\ LHP!Answers
  BY Users, Times, NoneIsNoRequest, SnapshotsAreSeqs, LimitIsPositive, Answers
  DEF SCP!Users, SCP!Times, SCP!NoneIsNoRequest, SCP!Request,
      LHP!SnapshotsAreSeqs, LHP!LimitIsPositive, LHP!Answers

-----------------------------------------------------------------------------
(* Every step is one of the handler, or the next request, and one of the   *)
(* checker.                                                                *)

\* A user is asked about, and a request that is not answered is within its deadline.
Timely ==
    /\ user \in User
    /\ begin \in Int /\ begin <= now
    /\ pc # "answered" => now <= begin + Deadline

\* A review that answered since the request began has its verdict in the handler's slice,
\* and was right at most a ttl and a deadline before the request began.
Kept ==
    pc # "answered" =>
        \A i \in DOMAIN ws :
            task[i] \in {"ended", "done"} /\ err[i] = "none" =>
                Checker!LastHeld(Asked(i), keep[i]) + TTL + Deadline >= begin

\* Inductive: InStep needs that an answered request has no goroutines, which the handler's own
\* invariant gives; the age of a verdict needs that the checker's cache ages, and Timely.
IInv == LHP!IInv /\ SCP!IInv /\ checked /\ Timely /\ InStep /\ Kept

\* The steps of the handler alone.
LEMMA HandlerOnly ==
    ASSUME HandlerStep
    PROVE  LHP!Next /\ UNCHANGED <<user, begin>> /\ UNCHANGED checkerVars
  <1> USE DEF Handler!handler, LHP!handler, Handler!group, LHP!group
  <1>1. ASSUME Handler!ListFails PROVE LHP!ListFails
    BY <1>1 DEF Handler!ListFails, LHP!ListFails
  <1>2. ASSUME NEW s \in Snapshots, Handler!List(s) PROVE LHP!List(s)
    BY <1>2 DEF Handler!List, LHP!List
  <1>3. ASSUME Handler!Wait PROVE LHP!Wait
    BY <1>3 DEF Handler!Wait, LHP!Wait
  <1>4. ASSUME Handler!WaitOK PROVE LHP!WaitOK
    BY <1>4 DEF Handler!WaitOK, LHP!WaitOK, Handler!GroupDone, LHP!GroupDone
  <1>5. ASSUME Handler!WaitFails PROVE LHP!WaitFails
    BY <1>5 DEF Handler!WaitFails, LHP!WaitFails, Handler!WaitFailsEarly, LHP!WaitFailsEarly,
                Handler!GroupDone, LHP!GroupDone
  <1>6. ASSUME Handler!Collect PROVE LHP!Collect
    BY <1>6 DEF Handler!Collect, LHP!Collect
  <1>7. ASSUME Handler!Answer PROVE LHP!Answer
    BY <1>7 DEF Handler!Answer, LHP!Answer
  <1>8. ASSUME Handler!End PROVE LHP!End
    BY <1>8 DEF Handler!End, LHP!End
  <1>9. ASSUME NEW i \in DOMAIN ws, Handler!Record(i) PROVE LHP!Record(i)
    BY <1>9 DEF Handler!Record, LHP!Record, Handler!RecordError, LHP!RecordError
  <1>10. ASSUME NEW i \in DOMAIN ws, Handler!Done(i) PROVE LHP!Done(i)
    BY <1>10 DEF Handler!Done, LHP!Done, Handler!Return, LHP!Return
  <1> QED
    BY <1>1, <1>2, <1>3, <1>4, <1>5, <1>6, <1>7, <1>8, <1>9, <1>10
    DEF HandlerStep, requestVars, LHP!Next, LHP!Handler, LHP!Task

\* What the handler takes part in is a step of ListHandler, or starts it over.
LEMMA HandlerNext ==
    ASSUME [Next]_vars
    PROVE  [LHP!Next]_(LHP!vars) \/ \E u \in User : Request(u)
  <1> USE DEF Handler!handler, LHP!handler, Handler!group, LHP!group
  <1>1. ASSUME UNCHANGED handlerVars PROVE UNCHANGED LHP!vars
    BY <1>1 DEF handlerVars, LHP!vars
  <1>2. CASE Go
    <2>1. LHP!Go
      BY <1>2 DEF Go, Handler!Go, LHP!Go, Handler!GoWith, LHP!GoWith, Handler!Running, LHP!Running,
                  Handler!Cardinality, LHP!Cardinality, Handler!IsFiniteSet, LHP!IsFiniteSet
    <2> QED
      BY <2>1 DEF LHP!Next, LHP!Handler
  <1>3. ASSUME NEW i \in DOMAIN ws, Reviewed(i) PROVE LHP!Next
    <2>1. LHP!ReviewOK(i, res'[i] = "allowed")
      BY <1>3 DEF Reviewed, Handler!ReviewOK, LHP!ReviewOK
    <2> QED
      BY <2>1 DEF LHP!Next, LHP!Task
  <1>4. ASSUME NEW i \in DOMAIN ws, ReviewFailed(i) PROVE LHP!Next
    <2>1. PICK e \in {"review", "cancelled"} : LHP!ReviewFails(i, e)
      BY <1>4 DEF ReviewFailed, Handler!ReviewFails, LHP!ReviewFails,
                  Handler!ReviewReturns, LHP!ReviewReturns
    <2> QED
      BY <2>1 DEF LHP!Next, LHP!Task
  <1> QED
    BY <1>1, <1>2, <1>3, <1>4, HandlerOnly
    DEF Next, Tick, Policy, Reviewing, vars

\* The goroutines of a request are callers of the checker.
LEMMA Callers ==
    ASSUME LHP!TypeOK
    PROVE  DOMAIN ws \subseteq Caller
  BY Assumptions DEF LHP!TypeOK, Caller

\* An item is asked about on behalf of who asked for the list.
LEMMA Asks ==
    ASSUME LHP!TypeOK, user \in User, NEW i \in DOMAIN ws
    PROVE  ReviewOf(ws[i]) = Asked(i) /\ Asked(i) \in SCP!Request
  <1>1. ws \in Snapshots
    BY DEF LHP!TypeOK
  <1> QED
    BY <1>1, Items DEF ReviewOf, Asked, SCP!Request

\* What the checker takes part in is a step of SarChecker.
LEMMA CheckerNext ==
    ASSUME LHP!TypeOK, user \in User, [Next]_vars
    PROVE  [SCP!Next]_(SCP!vars)
  <1> USE DEF Checker!clockVars, SCP!clockVars, Checker!callVars, SCP!callVars
  <1>1. ASSUME UNCHANGED checkerVars PROVE UNCHANGED SCP!vars
    BY <1>1 DEF checkerVars, SCP!vars
  <1>2. CASE Tick
    <2>1. SCP!Tick
      BY <1>2 DEF Tick, Checker!Tick, SCP!Tick
    <2> QED
      BY <2>1 DEF SCP!Next
  <1>3. CASE Policy
    <2>1. PICK r \in SCP!Request : SCP!ChangePolicy(r)
      BY <1>3 DEF Policy, Checker!Request, SCP!Request, Checker!ChangePolicy, SCP!ChangePolicy
    <2> QED
      BY <2>1 DEF SCP!Next
  <1>4. CASE Go
    <2>1. next + 1 \in DOMAIN ws
      BY <1>4, LHP!Positions, Assumptions DEF Go, Handler!Go, Handler!GoWith, LHP!TypeOK
    <2>2. SCP!Review(next + 1, ReviewOf(ws[next + 1]))
      BY <1>4 DEF Go, Checker!Review, SCP!Review
    <2> QED
      BY <2>1, <2>2, Asks, Callers DEF SCP!Next, SCP!CallStep
  <1>5. ASSUME NEW i \in DOMAIN ws, Reviewing(i) PROVE SCP!Next
    <2>1. SCP!GetMiss(i) \/ SCP!Decide(i)
      BY <1>5 DEF Reviewing, Checker!GetMiss, SCP!GetMiss, Checker!Decide, SCP!Decide,
                  Checker!Valid, SCP!Valid, Checker!CacheKey, SCP!CacheKey,
                  Checker!SpecOf, SCP!SpecOf, Checker!Verdict, SCP!Verdict
    <2> QED
      BY <2>1, Callers DEF SCP!Next, SCP!CallStep
  <1>6. ASSUME NEW i \in DOMAIN ws, Reviewed(i) PROVE SCP!Next
    <2>1. SCP!GetHit(i) \/ SCP!Put(i)
      BY <1>6 DEF Reviewed, Checker!GetHit, SCP!GetHit, Checker!Put, SCP!Put,
                  Checker!Return, SCP!Return, Checker!Valid, SCP!Valid,
                  Checker!CacheKey, SCP!CacheKey, Checker!SpecOf, SCP!SpecOf,
                  Checker!Verdict, SCP!Verdict
    <2> QED
      BY <2>1, Callers DEF SCP!Next, SCP!CallStep
  <1>7. ASSUME NEW i \in DOMAIN ws, ReviewFailed(i) PROVE SCP!Next
    <2>1. SCP!CreateFails(i)
      BY <1>7 DEF ReviewFailed, Checker!CreateFails, SCP!CreateFails, Checker!Return, SCP!Return
    <2> QED
      BY <2>1, Callers DEF SCP!Next, SCP!CallStep
  <1> QED
    BY <1>1, <1>2, <1>3, <1>4, <1>5, <1>6, <1>7 DEF Next, HandlerStep, Request, vars

-----------------------------------------------------------------------------
(* The invariant.                                                          *)

LEMMA InitIInv == Init => IInv
  <1> SUFFICES ASSUME Init PROVE IInv
    OBVIOUS
  <1>1. LHP!Init
    BY DEF Init, Handler!Init, LHP!Init
  <1>2. LHP!IInv
    BY <1>1, LHP!InitIInv, Assumptions
  <1>3. SCP!Init
    BY DEF Init, Checker!Init, SCP!Init, Checker!Request, SCP!Request, Checker!Never,
           SCP!Never, Checker!Key, SCP!Key, Checker!CacheKey, SCP!CacheKey, Checker!SpecOf,
           SCP!SpecOf
  <1>4. SCP!IInv
    BY <1>3, SCP!InitIInv, Assumptions
  <1>5. Timely
    BY <1>1, Times DEF Init, Checker!Init, Timely
  <1>6. InStep /\ Kept
    BY <1>1 DEF Init, LHP!Init, Checker!Init, InStep, Kept
  <1> QED
    BY <1>2, <1>4, <1>5, <1>6 DEF Init, IInv

\* The next request finds the handler as the first one did.
LEMMA HandlerInvNext ==
    ASSUME IInv, [Next]_vars
    PROVE  LHP!IInv' /\ checked'
  <1>1. ASSUME [LHP!Next]_(LHP!vars) PROVE LHP!IInv'
    BY <1>1, Assumptions, LHP!TypeOKNext, LHP!EarlyNext, LHP!UnreviewedNext, LHP!GroupedNext,
       LHP!BlamedNext, LHP!CollectedNext, LHP!FanOutBoundedNext, LHP!RootCauseNext
    DEF IInv, LHP!IInv
  <1>2. ASSUME NEW u \in User, Request(u) PROVE LHP!IInv'
    <2>1. LHP!Init'
      BY <1>2 DEF Request, LHP!Init, IInv
    <2>2. LHP!Init' => LHP!IInv'
      BY LHP!InitIInv, Assumptions, PTL
    <2> QED
      BY <2>1, <2>2
  <1>3. checked' = checked
    BY DEF Next, Tick, Policy, Request, Go, HandlerStep, Reviewing, Reviewed, ReviewFailed, vars,
           handlerVars, Handler!Go, Handler!GoWith, Handler!ListFails, Handler!List,
           Handler!Wait, Handler!WaitOK, Handler!WaitFails, Handler!WaitFailsEarly,
           Handler!Collect, Handler!Answer, Handler!End, Handler!Record, Handler!RecordError,
           Handler!Done, Handler!Return, Handler!ReviewOK, Handler!ReviewFails,
           Handler!ReviewReturns
  <1> QED
    BY <1>1, <1>2, <1>3, HandlerNext DEF IInv

LEMMA CheckerInvNext ==
    ASSUME IInv, [Next]_vars
    PROVE  SCP!IInv'
  <1>1. [SCP!Next]_(SCP!vars)
    BY CheckerNext DEF IInv, Timely, LHP!IInv
  <1> QED
    BY <1>1, Assumptions, SCP!TypeOKNext, SCP!AskedNext, SCP!EntriesAgeNext DEF IInv, SCP!IInv

\* The clock stops at the deadline of a request.
LEMMA TimelyNext ==
    ASSUME IInv, [Next]_vars
    PROVE  Timely'
  <1> USE Times DEF IInv, SCP!IInv, SCP!TypeOK, Timely
  <1>1. CASE Tick
    BY <1>1 DEF Tick, Checker!Tick, requestVars, handlerVars
  <1>2. ASSUME NEW u \in User, Request(u) PROVE Timely'
    BY <1>2 DEF Request, checkerVars
  <1>3. ASSUME UNCHANGED <<user, begin, now>>, pc' # "answered" => pc # "answered" PROVE Timely'
    BY <1>3
  <1>4. CASE Policy
    BY <1>3, <1>4 DEF Policy, Checker!ChangePolicy, requestVars, handlerVars
  <1>5. CASE Go
    BY <1>3, <1>5 DEF Go, Handler!Go, Handler!GoWith, Checker!Review, Checker!clockVars, requestVars
  <1>6. CASE HandlerStep
    BY <1>3, <1>6
    DEF HandlerStep, requestVars, checkerVars, Handler!ListFails, Handler!List, Handler!Wait,
        Handler!WaitOK, Handler!WaitFails, Handler!WaitFailsEarly, Handler!Collect,
        Handler!Answer, Handler!End, Handler!Record, Handler!RecordError, Handler!Done,
        Handler!Return, Handler!handler
  <1>7. ASSUME NEW i \in DOMAIN ws, Reviewing(i) PROVE Timely'
    BY <1>3, <1>7 DEF Reviewing, Checker!GetMiss, Checker!Decide, Checker!clockVars,
                      requestVars, handlerVars
  <1>8. ASSUME NEW i \in DOMAIN ws, Reviewed(i) PROVE Timely'
    BY <1>3, <1>8 DEF Reviewed, Checker!GetHit, Checker!Put, Checker!clockVars, requestVars,
                      Handler!ReviewOK, Handler!handler
  <1>9. ASSUME NEW i \in DOMAIN ws, ReviewFailed(i) PROVE Timely'
    BY <1>3, <1>9 DEF ReviewFailed, Checker!CreateFails, Checker!clockVars, requestVars,
                      Handler!ReviewFails, Handler!ReviewReturns, Handler!handler
  <1>10. CASE UNCHANGED vars
    BY <1>3, <1>10 DEF vars, requestVars, handlerVars, checkerVars
  <1> QED
    BY <1>1, <1>2, <1>4, <1>5, <1>6, <1>7, <1>8, <1>9, <1>10 DEF Next

\* A goroutine enters the checker when its task starts, and leaves it with its verdict.
LEMMA InStepNext ==
    ASSUME IInv, [Next]_vars
    PROVE  InStep'
  <1> USE Callers DEF IInv, LHP!IInv, LHP!TypeOK, SCP!IInv, SCP!TypeOK
  <1>0. /\ \A p \in Caller : spc[p] # "idle" => pc # "answered"
        /\ \A i \in DOMAIN ws : task[i] = "asking" => pc \in {"fan", "wait"}
    BY DEF InStep, LHP!Grouped, LHP!Running
  <1>1. CASE Tick
    BY <1>0, <1>1, Times DEF Tick, Checker!Tick, Checker!callVars, requestVars, handlerVars,
                      InStep, Asked, Timely
  <1>2. CASE Policy
    BY <1>2 DEF Policy, Checker!ChangePolicy, Checker!callVars, requestVars, handlerVars,
                InStep, Asked
  <1>3. ASSUME NEW u \in User, Request(u) PROVE InStep'
    <2>1. \A p \in Caller : spc'[p] = "idle"
      BY <1>0, <1>3 DEF Request, checkerVars
    <2> QED
      BY <1>3, <2>1 DEF Request, InStep
  <1>4. CASE Go
    <2>1. next + 1 \in DOMAIN ws
      BY <1>4, LHP!Positions, Assumptions DEF Go, Handler!Go, Handler!GoWith
    <2>2. ReviewOf(ws[next + 1]) = Asked(next + 1)
      BY <2>1, Asks DEF Timely
    <2>3. begin <= now /\ now <= begin + Deadline
      BY <1>4 DEF Go, Handler!Go, Handler!GoWith, Timely
    <2> QED
      BY <1>4, <2>1, <2>2, <2>3 DEF Go, Handler!Go, Handler!GoWith, Checker!Review,
                      Checker!clockVars, requestVars, InStep, Asked
  <1>5. CASE HandlerStep
    <2>1. UNCHANGED <<user, begin, now, spc, req>>
      BY <1>5 DEF HandlerStep, requestVars, checkerVars
    <2>2. ASSUME NEW s \in Snapshots, Handler!List(s) PROVE InStep'
      <3>1. ws = <<>>
        BY <2>2 DEF Handler!List, LHP!Early
      <3> QED
        BY <2>1, <2>2, <3>1 DEF Handler!List, InStep
    <2>3. ASSUME NEW i \in DOMAIN ws, Handler!Record(i) \/ Handler!Done(i) PROVE InStep'
      BY <2>1, <2>3 DEF Handler!Record, Handler!RecordError, Handler!Done, Handler!Return,
                        Handler!handler, InStep, Asked
    <2>4. CASE UNCHANGED <<ws, task>>
      BY <2>1, <2>4 DEF InStep, Asked
    <2> QED
      BY <1>5, <2>2, <2>3, <2>4
      DEF HandlerStep, Handler!ListFails, Handler!Wait, Handler!WaitOK, Handler!WaitFails,
          Handler!WaitFailsEarly, Handler!Collect, Handler!Answer, Handler!End,
          Handler!handler, Handler!group
  <1>6. ASSUME NEW i \in DOMAIN ws, Reviewing(i) PROVE InStep'
    BY <1>6 DEF Reviewing, Checker!GetMiss, Checker!Decide, Checker!clockVars,
                requestVars, handlerVars, InStep, Asked
  <1>7. ASSUME NEW i \in DOMAIN ws, Reviewed(i) PROVE InStep'
    BY <1>7 DEF Reviewed, Checker!GetHit, Checker!Put, Checker!Return, Checker!clockVars,
                requestVars, Handler!ReviewOK, Handler!handler, InStep, Asked
  <1>8. ASSUME NEW i \in DOMAIN ws, ReviewFailed(i) PROVE InStep'
    BY <1>8 DEF ReviewFailed, Checker!CreateFails, Checker!Return, Checker!clockVars,
                requestVars, Handler!ReviewFails, Handler!ReviewReturns, Handler!handler,
                InStep, Asked
  <1>9. CASE UNCHANGED vars
    BY <1>9 DEF vars, requestVars, handlerVars, checkerVars, InStep, Asked
  <1> QED
    BY <1>1, <1>2, <1>3, <1>4, <1>5, <1>6, <1>7, <1>8, <1>9 DEF Next

\* LastHeld after the step.
HeldNext(r, b) == IF policy'[r] = b THEN now' ELSE ended'[r]

LEMMA HeldGrows ==
    ASSUME IInv, [Next]_vars, NEW r \in SCP!Request, NEW b \in BOOLEAN
    PROVE  /\ Checker!LastHeld(r, b) \in Int /\ HeldNext(r, b) \in Int
           /\ HeldNext(r, b) >= Checker!LastHeld(r, b)
  <1>1. [SCP!Next]_(SCP!vars)
    BY CheckerNext DEF IInv, Timely, LHP!IInv
  <1> QED
    BY <1>1, Assumptions, SCP!LastHeldGrows
    DEF IInv, SCP!IInv, HeldNext, SCP!HeldNext, Checker!LastHeld, SCP!LastHeld

\* A verdict is as recent as the review's answer; what is decided later does not age it.
LEMMA KeptNext ==
    ASSUME IInv, [Next]_vars
    PROVE  Kept'
  <1> USE DEF IInv, LHP!IInv, LHP!TypeOK
  <1> SUFFICES ASSUME pc' # "answered", NEW i \in DOMAIN ws',
                      task'[i] \in {"ended", "done"}, err'[i] = "none"
               PROVE  HeldNext(Asked(i)', keep'[i]) + TTL + Deadline >= begin'
    BY DEF Kept, HeldNext, Checker!LastHeld
  <1> DEFINE Before ==
        /\ UNCHANGED <<user, begin, ws>> /\ i \in DOMAIN ws /\ pc # "answered"
        /\ err[i] = "none" /\ keep'[i] = keep[i] /\ task[i] \in {"ended", "done"}
  <1>1. CASE Before
    <2>1. Asked(i)' = Asked(i) /\ Asked(i) \in SCP!Request /\ keep[i] \in BOOLEAN
      BY <1>1, Asks DEF Asked, Timely
    <2>2. Checker!LastHeld(Asked(i), keep[i]) + TTL + Deadline >= begin
      BY <1>1 DEF Kept
    <2>3. /\ Checker!LastHeld(Asked(i), keep[i]) \in Int /\ HeldNext(Asked(i), keep[i]) \in Int
          /\ HeldNext(Asked(i), keep[i]) >= Checker!LastHeld(Asked(i), keep[i])
      BY <2>1, HeldGrows
    <2> QED
      BY <1>1, <2>1, <2>2, <2>3, Times DEF Timely
  <1>2. ASSUME NEW j \in DOMAIN ws, Reviewed(j), j = i
        PROVE  HeldNext(Asked(i)', keep'[i]) + TTL + Deadline >= begin'
    <2>1. /\ UNCHANGED <<user, begin, ws, policy, now, ended>> /\ keep'[i] = (res'[i] = "allowed")
          /\ task[i] = "asking"
      BY <1>2 DEF Reviewed, requestVars, Handler!ReviewOK, Handler!handler, Checker!GetHit,
                  Checker!Put, Checker!clockVars
    <2>2. i \in Caller /\ spc[i] # "idle" /\ spc'[i] = "idle" /\ req[i] = Asked(i)
      BY <1>2, <2>1, Callers DEF Reviewed, Checker!GetHit, Checker!Put, Checker!Return, InStep,
                            SCP!IInv, SCP!TypeOK
    <2>3. res'[i] = SCP!Verdict(keep'[i]) /\ keep'[i] \in BOOLEAN
      BY <1>2, <2>1, <2>2 DEF Reviewed, Checker!GetHit, Checker!Put, Checker!Return,
                            Checker!Verdict, SCP!Verdict, SCP!IInv, SCP!TypeOK, SCP!Result
    <2>4. SCP!Answers(i, keep'[i])
      BY <2>2, <2>3 DEF SCP!Answers
    <2>5. SCP!Recent
      BY CheckerNext, SCP!RecentStep, Assumptions DEF Timely
    <2>6. SCP!LastHeld(req[i], keep'[i]) + TTL + Deadline >= now
      BY <2>2, <2>3, <2>4, <2>5 DEF SCP!Recent
    <2>7. Asked(i)' = Asked(i) /\ Asked(i) \in SCP!Request
      BY <1>2, <2>1, Asks DEF Asked, Timely
    <2>8. HeldNext(Asked(i), keep'[i]) = SCP!LastHeld(req[i], keep'[i])
      BY <2>1, <2>2 DEF HeldNext, SCP!LastHeld
    <2>9. HeldNext(Asked(i), keep'[i]) \in Int /\ now \in Int /\ begin <= now
      BY <2>3, <2>7, HeldGrows DEF Timely, SCP!IInv, SCP!TypeOK
    <2> QED
      BY <2>1, <2>6, <2>7, <2>8, <2>9, Times DEF Timely
  <1>3. Before \/ \E j \in DOMAIN ws : Reviewed(j) /\ j = i
    <2>1. CASE Tick \/ Policy \/ UNCHANGED vars
      BY <2>1 DEF Tick, Policy, vars, requestVars, handlerVars
    <2>2. ASSUME NEW u \in User, Request(u) PROVE FALSE
      BY <2>2 DEF Request
    <2>3. CASE Go
      BY <2>3 DEF Go, Handler!Go, Handler!GoWith, requestVars
    <2>4. CASE HandlerStep
      <3>1. UNCHANGED <<user, begin>>
        BY <2>4 DEF HandlerStep, requestVars
      <3>2. ASSUME NEW s \in Snapshots, Handler!List(s) PROVE FALSE
        BY <3>2 DEF Handler!List
      <3>3. ASSUME NEW j \in DOMAIN ws, Handler!Record(j) PROVE Before
        <4>1. j # i
          BY <3>3 DEF Handler!Record, Handler!RecordError, Handler!handler, LHP!Blamed
        <4> QED
          BY <3>1, <3>3, <4>1 DEF Handler!Record, Handler!RecordError, Handler!handler
      <3>4. ASSUME NEW j \in DOMAIN ws, Handler!Done(j) PROVE Before
        BY <3>1, <3>4 DEF Handler!Done, Handler!Return, Handler!handler
      <3>5. ASSUME UNCHANGED <<ws, task, keep, err>>, pc # "answered" PROVE Before
        BY <3>1, <3>5
      <3> QED
        BY <2>4, <3>2, <3>3, <3>4, <3>5
        DEF HandlerStep, Handler!ListFails, Handler!Wait, Handler!WaitOK, Handler!WaitFails,
            Handler!WaitFailsEarly, Handler!Collect, Handler!Answer, Handler!End,
            Handler!handler, Handler!group
    <2>5. ASSUME NEW j \in DOMAIN ws, Reviewing(j) PROVE Before
      BY <2>5 DEF Reviewing, requestVars, handlerVars
    <2>6. ASSUME NEW j \in DOMAIN ws, Reviewed(j), j # i PROVE Before
      BY <2>6 DEF Reviewed, requestVars, Handler!ReviewOK, Handler!handler
    <2>7. ASSUME NEW j \in DOMAIN ws, ReviewFailed(j) PROVE Before
      BY <2>7 DEF ReviewFailed, requestVars, Handler!ReviewFails, Handler!ReviewReturns,
                  Handler!handler
    <2> HIDE DEF Before, IInv
    <2>8. ASSUME NEW j \in DOMAIN ws, Reviewed(j)
          PROVE  Before \/ \E k \in DOMAIN ws : Reviewed(k) /\ k = i
      BY <2>6, <2>8
    <2>9. \/ Tick \/ Policy \/ UNCHANGED vars
          \/ Go \/ HandlerStep
          \/ \E u \in User : Request(u)
          \/ \E j \in DOMAIN ws : Reviewing(j) \/ Reviewed(j) \/ ReviewFailed(j)
      BY DEF Next
    <2> QED
      BY <2>1, <2>2, <2>3, <2>4, <2>5, <2>7, <2>8, <2>9
  <1> QED
    BY <1>1, <1>2, <1>3

\* IInv holds in every state, whatever was asked before.
THEOREM Invariance == Spec => []IInv
  <1>1. IInv /\ [Next]_vars => IInv'
    BY HandlerInvNext, CheckerInvNext, TimelyNext, InStepNext, KeptNext DEF IInv
  <1> QED
    BY <1>1, InitIInv, PTL DEF Spec

\* Whatever fails or is cancelled, the handler's goroutines and the checker's calls are the same:
\* no review of an answered request is left in the checker, none asks for another user, and none
\* is under way past its request's deadline.
THEOREM NothingLeftBehind == Spec => []InStep
  BY Invariance, PTL DEF IInv

\* Whoever asked before: what a user is shown, and what is left out, is what kcp would have
\* decided about that user at most a ttl and two deadlines before.
THEOREM ListsAreRecent == Spec => SeesRecentDecisions
  <1> DEFINE Step ==
        answer = Pending /\ answer' \notin {Pending, Failed} =>
            \A i \in DOMAIN ws :
                LET listed == \E k \in DOMAIN answer' : answer'[k] = i
                IN  Checker!LastHeld(Asked(i), listed) + TTL + 2 * Deadline >= now
  <1>1. IInv /\ [Next]_vars => [Step]_vars
    <2> SUFFICES ASSUME IInv, [Next]_vars, answer = Pending, answer' \notin {Pending, Failed},
                        NEW i \in DOMAIN ws
                 PROVE  Checker!LastHeld(Asked(i), \E k \in DOMAIN answer' : answer'[k] = i)
                            + TTL + 2 * Deadline >= now
      OBVIOUS
    <2> USE DEF IInv, LHP!IInv, LHP!TypeOK
    <2>1. pc = "collect" /\ next = Len(ws) /\ answer' = out
      BY DEF Next, Tick, Policy, Request, Go, HandlerStep, Reviewing, Reviewed, ReviewFailed, vars,
             handlerVars, Handler!Go, Handler!GoWith, Handler!ListFails, Handler!List,
             Handler!Wait, Handler!WaitOK, Handler!WaitFails, Handler!WaitFailsEarly,
             Handler!Collect, Handler!Answer, Handler!End, Handler!Record, Handler!RecordError,
             Handler!Done, Handler!Return, Handler!ReviewOK, Handler!ReviewFails,
             Handler!ReviewReturns, Handler!handler
    <2>2. (\E k \in DOMAIN answer' : answer'[k] = i) = keep[i] /\ keep[i] \in BOOLEAN
      <3>1. i \in 1 .. next
        BY <2>1, LHP!Positions, Assumptions
      <3>2. {out[k] : k \in DOMAIN out} = {j \in 1 .. next : keep[j] = TRUE}
        BY <2>1 DEF LHP!Collected, LHP!View!Lists
      <3>3. keep[i] \in BOOLEAN
        OBVIOUS
      <3>4. (\E k \in DOMAIN out : out[k] = i) <=> i \in {out[k] : k \in DOMAIN out}
        OBVIOUS
      <3>5. (\E k \in DOMAIN out : out[k] = i) <=> keep[i] = TRUE
        BY <3>1, <3>2, <3>4
      <3> QED
        BY <2>1, <3>3, <3>5
    <2>3. Checker!LastHeld(Asked(i), keep[i]) + TTL + Deadline >= begin
      BY <2>1 DEF Kept, LHP!Grouped
    <2>4. Checker!LastHeld(Asked(i), keep[i]) \in Int
      BY <2>2, Asks, HeldGrows DEF Timely
    <2>5. now <= begin + Deadline /\ now \in Int /\ begin \in Int
      BY <2>1 DEF Timely, SCP!IInv, SCP!TypeOK
    <2> DEFINE listed == \E k \in DOMAIN answer' : answer'[k] = i
    <2>6. Checker!LastHeld(Asked(i), listed) = Checker!LastHeld(Asked(i), keep[i])
      <3> HIDE DEF listed
      <3>1. listed = keep[i]
        BY <2>2 DEF listed
      <3> QED
        BY <3>1
    <2> HIDE DEF listed
    <2>7. Checker!LastHeld(Asked(i), listed) + TTL + 2 * Deadline >= now
      BY <2>3, <2>4, <2>5, <2>6, Times
    <2> QED
      BY <2>7 DEF listed
  <1> QED
    BY <1>1, Invariance, PTL DEF Spec, SeesRecentDecisions
=============================================================================
