------------------------- MODULE ListHandlerProofs -------------------------
(***************************************************************************)
(* Proofs about ListHandler, for any snapshots, however long, and any      *)
(* limit of reviews at once.                                               *)
(***************************************************************************)
EXTENDS ListHandler, FiniteSetTheorems, TLAPS

\* Before there is an answer, and before anything is collected.
Early ==
    /\ pc = "list" => ws = <<>> /\ next = 0
    /\ pc \in {"list", "fan", "wait"} => out = <<>>
    /\ pc # "answered" => answer = Pending

\* Without a checker no review is made.
Unreviewed ==
    ~checked => /\ pc \in {"list", "collect", "answered"}
                /\ \A i \in DOMAIN ws : task[i] = "new" /\ keep[i] = TRUE

\* Goroutines are started in order; none runs before the group has one, or after the wait,
\* and the loop runs only if every review has answered.
Grouped ==
    /\ pc = "fan" => \A i \in DOMAIN ws : i > next => task[i] = "new"
    /\ pc \in {"list", "collect", "answered"} => Running = {}
    /\ pc = "collect" /\ checked => \A i \in DOMAIN ws : task[i] = "done" /\ err[i] = "none"

\* Which errors there are where: a review that was cancelled had a reason to be, and the
\* group has an error once one of its goroutines is past recording one.
Blamed ==
    \A i \in DOMAIN ws :
        /\ task[i] \in {"new", "asking"} => err[i] = "none"
        /\ task[i] = "failed" => err[i] # "none"
        /\ task[i] \in {"ended", "done"} /\ err[i] # "none" => gerr # "none"
        /\ err[i] = "cancelled" => gone \/ gerr # "none"

\* The loop has collected what is kept of the items it has seen.
Collected ==
    pc = "collect" => View!Lists(out, {i \in 1 .. next : keep[i] = TRUE})

\* Inductive: FanOutBounded needs that no goroutine runs where none may be started, RootCause
\* that every error has its reason, the refinement what was collected.
IInv ==
    /\ TypeOK /\ Early /\ Unreviewed /\ Grouped /\ Blamed /\ Collected
    /\ FanOutBounded /\ RootCause

\* The positions of a snapshot.
LEMMA Positions ==
    ASSUME ws \in Snapshots \cup {<<>>}
    PROVE  /\ Len(ws) \in Nat /\ DOMAIN ws = 1 .. Len(ws)
           /\ \A s \in Snapshots : Len(s) \in Nat /\ DOMAIN s = 1 .. Len(s)
  <1>1. \A s \in Snapshots : Len(s) \in Nat /\ DOMAIN s = 1 .. Len(s)
    BY SnapshotsAreSeqs
  <1>2. Len(<<>>) = 0 /\ DOMAIN <<>> = 1 .. 0
    OBVIOUS
  <1> QED
    BY <1>1, <1>2

\* Types are kept; the last item is collected from the snapshot.
LEMMA TypeOKNext ==
    ASSUME TypeOK, Early, [Next]_vars
    PROVE  TypeOK'
  <1> USE Positions DEF TypeOK, Early, Errors, handler, group
  <1>1. CASE End
    BY <1>1 DEF End
  <1>2. CASE ListFails
    BY <1>2 DEF ListFails
  <1>3. ASSUME NEW s \in Snapshots, List(s) PROVE TypeOK'
    BY <1>3 DEF List
  <1>4. CASE Go
    BY <1>4 DEF Go, GoWith
  <1>5. CASE Wait
    BY <1>5 DEF Wait
  <1>6. CASE WaitOK
    BY <1>6 DEF WaitOK, GroupDone
  <1>7. CASE WaitFails
    BY <1>7 DEF WaitFails, WaitFailsEarly, GroupDone
  <1>8. CASE Collect
    <2>1. next + 1 \in DOMAIN ws /\ next' \in 0 .. Len(ws)
      BY <1>8 DEF Collect
    <2>2. out' \in Seq(DOMAIN ws)
      <3>1. Append(out, next + 1) \in Seq(DOMAIN ws)
        BY <2>1
      <3>2. out' = Append(out, next + 1) \/ out' = out
        BY <1>8 DEF Collect
      <3> QED
        BY <3>1, <3>2
    <2> QED
      BY <1>8, <2>1, <2>2 DEF Collect
  <1>9. CASE Answer
    BY <1>9 DEF Answer
  <1>10. ASSUME NEW i \in DOMAIN ws, NEW b \in BOOLEAN, ReviewOK(i, b) PROVE TypeOK'
    BY <1>10 DEF ReviewOK
  <1>11. ASSUME NEW i \in DOMAIN ws, NEW e \in {"review", "cancelled"}, ReviewFails(i, e) PROVE TypeOK'
    BY <1>11 DEF ReviewFails, ReviewReturns
  <1>12. ASSUME NEW i \in DOMAIN ws, Record(i) PROVE TypeOK'
    BY <1>12 DEF Record, RecordError
  <1>13. ASSUME NEW i \in DOMAIN ws, Done(i) PROVE TypeOK'
    BY <1>13 DEF Done, Return
  <1>14. CASE UNCHANGED vars
    BY <1>14 DEF vars
  <1> QED
    BY <1>1, <1>2, <1>3, <1>4, <1>5, <1>6, <1>7, <1>8, <1>9, <1>10, <1>11, <1>12, <1>13, <1>14 DEF Next, Handler, Task

\* Nothing is collected or answered early.
LEMMA EarlyNext ==
    ASSUME TypeOK, Early, [Next]_vars
    PROVE  Early'
  <1> USE DEF Early, handler, group
  <1>1. CASE End
    BY <1>1 DEF End
  <1>2. CASE ListFails
    BY <1>2 DEF ListFails
  <1>3. ASSUME NEW s \in Snapshots, List(s) PROVE Early'
    BY <1>3 DEF List
  <1>4. CASE Go
    BY <1>4 DEF Go, GoWith
  <1>5. CASE Wait
    BY <1>5 DEF Wait
  <1>6. CASE WaitOK
    BY <1>6 DEF WaitOK, GroupDone
  <1>7. CASE WaitFails
    BY <1>7 DEF WaitFails, WaitFailsEarly, GroupDone
  <1>8. CASE Collect
    BY <1>8 DEF Collect
  <1>9. CASE Answer
    BY <1>9 DEF Answer
  <1>10. ASSUME NEW i \in DOMAIN ws, NEW b \in BOOLEAN, ReviewOK(i, b) PROVE Early'
    BY <1>10 DEF ReviewOK
  <1>11. ASSUME NEW i \in DOMAIN ws, NEW e \in {"review", "cancelled"}, ReviewFails(i, e) PROVE Early'
    BY <1>11 DEF ReviewFails, ReviewReturns
  <1>12. ASSUME NEW i \in DOMAIN ws, Record(i) PROVE Early'
    BY <1>12 DEF Record, RecordError
  <1>13. ASSUME NEW i \in DOMAIN ws, Done(i) PROVE Early'
    BY <1>13 DEF Done, Return
  <1>14. CASE UNCHANGED vars
    BY <1>14 DEF vars
  <1> QED
    BY <1>1, <1>2, <1>3, <1>4, <1>5, <1>6, <1>7, <1>8, <1>9, <1>10, <1>11, <1>12, <1>13, <1>14 DEF Next, Handler, Task

\* Without a checker, the handler goes from the snapshot to the loop.
LEMMA UnreviewedNext ==
    ASSUME TypeOK, Unreviewed, [Next]_vars
    PROVE  Unreviewed'
  <1> USE Positions DEF TypeOK, Unreviewed, handler, group
  <1>1. CASE End
    BY <1>1 DEF End
  <1>2. CASE ListFails
    BY <1>2 DEF ListFails
  <1>3. ASSUME NEW s \in Snapshots, List(s) PROVE Unreviewed'
    BY <1>3 DEF List
  <1>4. CASE Go
    BY <1>4 DEF Go, GoWith
  <1>5. CASE Wait
    BY <1>5 DEF Wait
  <1>6. CASE WaitOK
    BY <1>6 DEF WaitOK, GroupDone
  <1>7. CASE WaitFails
    BY <1>7 DEF WaitFails, WaitFailsEarly, GroupDone
  <1>8. CASE Collect
    BY <1>8 DEF Collect
  <1>9. CASE Answer
    BY <1>9 DEF Answer
  <1>10. ASSUME NEW i \in DOMAIN ws, NEW b \in BOOLEAN, ReviewOK(i, b) PROVE Unreviewed'
    BY <1>10 DEF ReviewOK
  <1>11. ASSUME NEW i \in DOMAIN ws, NEW e \in {"review", "cancelled"}, ReviewFails(i, e) PROVE Unreviewed'
    BY <1>11 DEF ReviewFails, ReviewReturns
  <1>12. ASSUME NEW i \in DOMAIN ws, Record(i) PROVE Unreviewed'
    BY <1>12 DEF Record, RecordError
  <1>13. ASSUME NEW i \in DOMAIN ws, Done(i) PROVE Unreviewed'
    BY <1>13 DEF Done, Return
  <1>14. CASE UNCHANGED vars
    BY <1>14 DEF vars
  <1> QED
    BY <1>1, <1>2, <1>3, <1>4, <1>5, <1>6, <1>7, <1>8, <1>9, <1>10, <1>11, <1>12, <1>13, <1>14 DEF Next, Handler, Task

\* The wait separates the group from the loop.
LEMMA GroupedNext ==
    ASSUME TypeOK, Early, Unreviewed, Grouped, Blamed, [Next]_vars
    PROVE  Grouped'
  <1> USE Positions DEF TypeOK, Early, Unreviewed, Grouped, Blamed, Running, handler, group
  <1>1. CASE End
    BY <1>1 DEF End
  <1>2. CASE ListFails
    BY <1>2 DEF ListFails
  <1>3. ASSUME NEW s \in Snapshots, List(s) PROVE Grouped'
    BY <1>3 DEF List
  <1>4. CASE Go
    BY <1>4 DEF Go, GoWith
  <1>5. CASE Wait
    BY <1>5 DEF Wait
  <1>6. CASE WaitOK
    BY <1>6 DEF WaitOK, GroupDone
  <1>7. CASE WaitFails
    BY <1>7 DEF WaitFails, WaitFailsEarly, GroupDone
  <1>8. CASE Collect
    BY <1>8 DEF Collect
  <1>9. CASE Answer
    BY <1>9 DEF Answer
  <1>10. ASSUME NEW i \in DOMAIN ws, NEW b \in BOOLEAN, ReviewOK(i, b) PROVE Grouped'
    BY <1>10 DEF ReviewOK
  <1>11. ASSUME NEW i \in DOMAIN ws, NEW e \in {"review", "cancelled"}, ReviewFails(i, e) PROVE Grouped'
    BY <1>11 DEF ReviewFails, ReviewReturns
  <1>12. ASSUME NEW i \in DOMAIN ws, Record(i) PROVE Grouped'
    BY <1>12 DEF Record, RecordError
  <1>13. ASSUME NEW i \in DOMAIN ws, Done(i) PROVE Grouped'
    BY <1>13 DEF Done, Return
  <1>14. CASE UNCHANGED vars
    BY <1>14 DEF vars
  <1> QED
    BY <1>1, <1>2, <1>3, <1>4, <1>5, <1>6, <1>7, <1>8, <1>9, <1>10, <1>11, <1>12, <1>13, <1>14 DEF Next, Handler, Task

\* Errors are recorded before a goroutine ends.
LEMMA BlamedNext ==
    ASSUME TypeOK, Early, Grouped, Blamed, [Next]_vars
    PROVE  Blamed'
  <1> USE Positions DEF TypeOK, Early, Grouped, Blamed, Errors, handler, group
  <1>1. CASE End
    BY <1>1 DEF End
  <1>2. CASE ListFails
    BY <1>2 DEF ListFails
  <1>3. ASSUME NEW s \in Snapshots, List(s) PROVE Blamed'
    BY <1>3 DEF List
  <1>4. CASE Go
    BY <1>4 DEF Go, GoWith
  <1>5. CASE Wait
    BY <1>5 DEF Wait
  <1>6. CASE WaitOK
    BY <1>6 DEF WaitOK, GroupDone
  <1>7. CASE WaitFails
    BY <1>7 DEF WaitFails, WaitFailsEarly, GroupDone
  <1>8. CASE Collect
    BY <1>8 DEF Collect
  <1>9. CASE Answer
    BY <1>9 DEF Answer
  <1>10. ASSUME NEW i \in DOMAIN ws, NEW b \in BOOLEAN, ReviewOK(i, b) PROVE Blamed'
    BY <1>10 DEF ReviewOK
  <1>11. ASSUME NEW i \in DOMAIN ws, NEW e \in {"review", "cancelled"}, ReviewFails(i, e) PROVE Blamed'
    BY <1>11 DEF ReviewFails, ReviewReturns
  <1>12. ASSUME NEW i \in DOMAIN ws, Record(i) PROVE Blamed'
    BY <1>12 DEF Record, RecordError
  <1>13. ASSUME NEW i \in DOMAIN ws, Done(i) PROVE Blamed'
    BY <1>13 DEF Done, Return
  <1>14. CASE UNCHANGED vars
    BY <1>14 DEF vars
  <1> QED
    BY <1>1, <1>2, <1>3, <1>4, <1>5, <1>6, <1>7, <1>8, <1>9, <1>10, <1>11, <1>12, <1>13, <1>14 DEF Next, Handler, Task

\* The loop appends in the order of the snapshot.
LEMMA CollectedNext ==
    ASSUME TypeOK, Early, Grouped, Collected, [Next]_vars
    PROVE  Collected'
  <1> USE Positions DEF TypeOK, Early, Grouped, Collected, Running, View!Lists, handler, group
  <1>1. CASE End
    BY <1>1 DEF End
  <1>2. CASE ListFails
    BY <1>2 DEF ListFails
  <1>3. ASSUME NEW s \in Snapshots, List(s) PROVE Collected'
    BY <1>3 DEF List
  <1>4. CASE Go
    BY <1>4 DEF Go, GoWith
  <1>5. CASE Wait
    BY <1>5 DEF Wait
  <1>6. CASE WaitOK
    BY <1>6 DEF WaitOK, GroupDone
  <1>7. CASE WaitFails
    BY <1>7 DEF WaitFails, WaitFailsEarly, GroupDone
  <1>8. CASE Collect
    <2>1. next + 1 \in DOMAIN ws /\ keep[next + 1] \in BOOLEAN
      BY <1>8 DEF Collect
    <2>2. \A k \in DOMAIN out : out[k] \in 1 .. next
      BY <1>8 DEF Collect
    <2>3. CASE keep[next + 1]
      <3>1. out' = Append(out, next + 1) /\ keep' = keep /\ next' = next + 1 /\ pc' = pc
        BY <1>8, <2>3 DEF Collect
      <3>2. Len(out) \in Nat /\ DOMAIN out = 1 .. Len(out) /\ DOMAIN out' = 1 .. Len(out) + 1
        BY <2>1, <3>1
      <3>3. /\ out'[Len(out) + 1] = next + 1
            /\ \A k \in DOMAIN out : out'[k] = out[k]
        BY <2>1, <3>1, <3>2
      <3>4. {out'[k] : k \in DOMAIN out'} = {out[k] : k \in DOMAIN out} \cup {next + 1}
        <4>1. DOMAIN out' = DOMAIN out \cup {Len(out) + 1}
          BY <3>2
        <4> QED
          BY <3>3, <4>1
      <3>5. {i \in 1 .. next + 1 : keep[i] = TRUE} = {i \in 1 .. next : keep[i] = TRUE} \cup {next + 1}
        BY <2>1, <2>3
      <3>6. \A j, k \in DOMAIN out' : j < k => out'[j] < out'[k]
        BY <1>8, <2>2, <3>2, <3>3 DEF Collect
      <3> QED
        BY <1>8, <3>1, <3>4, <3>5, <3>6 DEF Collect
    <2>4. CASE ~keep[next + 1]
      <3>1. {i \in 1 .. next + 1 : keep[i] = TRUE} = {i \in 1 .. next : keep[i] = TRUE}
        BY <2>1, <2>4
      <3> QED
        BY <1>8, <2>4, <3>1 DEF Collect
    <2> QED
      BY <2>3, <2>4
  <1>9. CASE Answer
    BY <1>9 DEF Answer
  <1>10. ASSUME NEW i \in DOMAIN ws, NEW b \in BOOLEAN, ReviewOK(i, b) PROVE Collected'
    BY <1>10 DEF ReviewOK
  <1>11. ASSUME NEW i \in DOMAIN ws, NEW e \in {"review", "cancelled"}, ReviewFails(i, e) PROVE Collected'
    BY <1>11 DEF ReviewFails, ReviewReturns
  <1>12. ASSUME NEW i \in DOMAIN ws, Record(i) PROVE Collected'
    BY <1>12 DEF Record, RecordError
  <1>13. ASSUME NEW i \in DOMAIN ws, Done(i) PROVE Collected'
    BY <1>13 DEF Done, Return
  <1>14. CASE UNCHANGED vars
    BY <1>14 DEF vars
  <1> QED
    BY <1>1, <1>2, <1>3, <1>4, <1>5, <1>6, <1>7, <1>8, <1>9, <1>10, <1>11, <1>12, <1>13, <1>14 DEF Next, Handler, Task

\* Only a review that failed by itself ends the others.
LEMMA RootCauseNext ==
    ASSUME TypeOK, Early, Blamed, RootCause, [Next]_vars
    PROVE  RootCause'
  <1> USE Positions DEF TypeOK, Early, Blamed, RootCause, Errors, handler, group
  <1>1. CASE End
    BY <1>1 DEF End
  <1>2. CASE ListFails
    BY <1>2 DEF ListFails
  <1>3. ASSUME NEW s \in Snapshots, List(s) PROVE RootCause'
    BY <1>3 DEF List
  <1>4. CASE Go
    BY <1>4 DEF Go, GoWith
  <1>5. CASE Wait
    BY <1>5 DEF Wait
  <1>6. CASE WaitOK
    BY <1>6 DEF WaitOK, GroupDone
  <1>7. CASE WaitFails
    BY <1>7 DEF WaitFails, WaitFailsEarly, GroupDone
  <1>8. CASE Collect
    BY <1>8 DEF Collect
  <1>9. CASE Answer
    BY <1>9 DEF Answer
  <1>10. ASSUME NEW i \in DOMAIN ws, NEW b \in BOOLEAN, ReviewOK(i, b) PROVE RootCause'
    BY <1>10 DEF ReviewOK
  <1>11. ASSUME NEW i \in DOMAIN ws, NEW e \in {"review", "cancelled"}, ReviewFails(i, e) PROVE RootCause'
    BY <1>11 DEF ReviewFails, ReviewReturns
  <1>12. ASSUME NEW i \in DOMAIN ws, Record(i) PROVE RootCause'
    BY <1>12 DEF Record, RecordError
  <1>13. ASSUME NEW i \in DOMAIN ws, Done(i) PROVE RootCause'
    BY <1>13 DEF Done, Return
  <1>14. CASE UNCHANGED vars
    BY <1>14 DEF vars
  <1> QED
    BY <1>1, <1>2, <1>3, <1>4, <1>5, <1>6, <1>7, <1>8, <1>9, <1>10, <1>11, <1>12, <1>13, <1>14 DEF Next, Handler, Task

\* Only Go takes a token.
LEMMA RunningNext ==
    ASSUME TypeOK, [Next]_vars
    PROVE  Go \/ Running' \subseteq Running
  <1> USE Positions DEF TypeOK, Running, handler, group
  <1>1. CASE End
    BY <1>1 DEF End
  <1>2. CASE ListFails
    BY <1>2 DEF ListFails
  <1>3. ASSUME NEW s \in Snapshots, List(s) PROVE Running' \subseteq Running
    BY <1>3 DEF List
  <1>4. CASE Go
    BY <1>4 DEF Go
  <1>5. CASE Wait
    BY <1>5 DEF Wait
  <1>6. CASE WaitOK
    BY <1>6 DEF WaitOK, GroupDone
  <1>7. CASE WaitFails
    BY <1>7 DEF WaitFails, WaitFailsEarly, GroupDone
  <1>8. CASE Collect
    BY <1>8 DEF Collect
  <1>9. CASE Answer
    BY <1>9 DEF Answer
  <1>10. ASSUME NEW i \in DOMAIN ws, NEW b \in BOOLEAN, ReviewOK(i, b) PROVE Running' \subseteq Running
    BY <1>10 DEF ReviewOK
  <1>11. ASSUME NEW i \in DOMAIN ws, NEW e \in {"review", "cancelled"}, ReviewFails(i, e) PROVE Running' \subseteq Running
    BY <1>11 DEF ReviewFails, ReviewReturns
  <1>12. ASSUME NEW i \in DOMAIN ws, Record(i) PROVE Running' \subseteq Running
    BY <1>12 DEF Record, RecordError
  <1>13. ASSUME NEW i \in DOMAIN ws, Done(i) PROVE Running' \subseteq Running
    BY <1>13 DEF Done, Return
  <1>14. CASE UNCHANGED vars
    BY <1>14 DEF vars
  <1> QED
    BY <1>1, <1>2, <1>3, <1>4, <1>5, <1>6, <1>7, <1>8, <1>9, <1>10, <1>11, <1>12, <1>13, <1>14 DEF Next, Handler, Task

\* A goroutine is started only if there is a token for it.
LEMMA FanOutBoundedNext ==
    ASSUME TypeOK, Grouped', FanOutBounded, [Next]_vars
    PROVE  FanOutBounded'
  <1>1. IsFiniteSet(Running) /\ Cardinality(Running) \in Nat
    <2>1. Running \subseteq 1 .. Len(ws) /\ Len(ws) \in Nat
      BY Positions DEF TypeOK, Running
    <2> QED
      <3>1. IsFiniteSet(1 .. Len(ws))
        BY <2>1, FS_Interval
      <3>2. IsFiniteSet(Running)
        BY <2>1, <3>1, FS_Subset
      <3> QED
        BY <3>2, FS_CardinalityType
  <1>2. Cardinality(Running') <= Limit
    <2>1. CASE Go
      <3>1. Running' \subseteq Running \cup {next + 1}
        BY <2>1 DEF Go, GoWith, Running, TypeOK
      <3>2. Cardinality(Running \cup {next + 1}) <= Limit /\ IsFiniteSet(Running \cup {next + 1})
        BY <1>1, <2>1, FS_AddElement, LimitIsPositive DEF Go, GoWith
      <3>3. Cardinality(Running') <= Cardinality(Running \cup {next + 1})
        BY <3>1, <3>2, FS_Subset
      <3>4. Cardinality(Running') \in Nat /\ Cardinality(Running \cup {next + 1}) \in Nat
        BY <3>1, <3>2, FS_Subset, FS_CardinalityType
      <3> QED
        BY <3>2, <3>3, <3>4, LimitIsPositive
    <2>2. CASE Running' \subseteq Running
      <3>1. Cardinality(Running') <= Cardinality(Running) /\ IsFiniteSet(Running')
        BY <1>1, <2>2, FS_Subset
      <3> QED
        BY <1>1, <3>1, FS_CardinalityType, LimitIsPositive DEF FanOutBounded
    <2> QED
      BY <2>1, <2>2, RunningNext
  <1> QED
    BY <1>2 DEF FanOutBounded, Grouped

\* The invariant holds before the request's first step.
LEMMA InitIInv == Init => IInv
  <1> SUFFICES ASSUME Init PROVE IInv
    OBVIOUS
  <1>1. Len(ws) = 0 /\ DOMAIN ws = {} /\ Running = {}
    BY DEF Init, Running
  <1>2. TypeOK
    <2>1. ws = <<>> /\ out \in Seq(DOMAIN ws) /\ next \in 0 .. Len(ws)
      BY <1>1 DEF Init
    <2>2. /\ task \in [DOMAIN ws -> {"new", "asking", "failed", "ended", "done"}]
          /\ keep \in [DOMAIN ws -> BOOLEAN]
          /\ err \in [DOMAIN ws -> Errors]
      BY <1>1 DEF Init
    <2> QED
      BY <2>1, <2>2 DEF Init, TypeOK, Errors
  <1>3. FanOutBounded
    BY <1>1, FS_EmptySet, LimitIsPositive DEF FanOutBounded
  <1> QED
    BY <1>1, <1>2, <1>3 DEF Init, IInv, Early, Unreviewed, Grouped, Blamed, Collected, RootCause

\* IInv holds in every state of the handler and its goroutines.
THEOREM Invariance == Spec => []IInv
  <1>1. IInv /\ [Next]_vars => IInv'
    BY TypeOKNext, EarlyNext, UnreviewedNext, GroupedNext, BlamedNext, CollectedNext,
       FanOutBoundedNext, RootCauseNext DEF IInv
  <1> QED
    BY InitIInv, <1>1, PTL DEF Spec

\* The handler's variables have their types, whatever the snapshot.
THEOREM TypeCorrect == Spec => []TypeOK
  BY Invariance, PTL DEF IInv

\* sarConcurrency bounds the fan-out of a list, and no review outlives its request.
THEOREM ReviewsAreBounded == Spec => []FanOutBounded
  BY Invariance, PTL DEF IInv

\* A user is told the error that made the list fail.
THEOREM ErrorsAreRootCauses == Spec => []RootCause
  BY Invariance, PTL DEF IInv

-----------------------------------------------------------------------------
(* The handler answers like FilteredList.                                  *)

\* A request starts without a snapshot, a verdict or an answer.
LEMMA InitView == Init => View!Init
  BY DEF Init, View!Init, Verdict

\* A step that moves no goroutine to its end, and answers nothing, is not seen.
LEMMA Unseen ==
    ASSUME UNCHANGED <<checked, ws, answer>>,
           \A i \in DOMAIN ws : Verdict'[i] = Verdict[i]
    PROVE  UNCHANGED View!vars
  BY DEF View!vars, Verdict

\* Every step is one of FilteredList, or is not seen there.
LEMMA StepView ==
    ASSUME IInv, [Next]_vars
    PROVE  [View!Next]_View!vars
  <1> USE DEF IInv, handler, group
  <1> DEFINE Step == [View!Next]_View!vars
  <1>1. CASE End
    BY <1>1 DEF End, View!vars, Verdict
  <1>2. CASE ListFails
    <2>1. View!AnswerError
      BY <1>2 DEF ListFails, Early, View!AnswerError, Verdict
    <2> QED
      BY <2>1 DEF View!Next
  <1>3. ASSUME NEW s \in Snapshots, List(s) PROVE Step
    <2>1. Verdict' = [i \in DOMAIN s |-> IF checked THEN Pending ELSE TRUE]
      BY <1>3 DEF List, Verdict
    <2>2. answer = Pending /\ ws = <<>> /\ ws' = s /\ answer' = answer
      BY <1>3 DEF List, Early
    <2>3. View!Snapshot(s)
      BY <2>1, <2>2 DEF View!Snapshot, TypeOK
    <2> QED
      BY <2>3 DEF View!Next
  <1>4. CASE Go
    <2>1. task[next + 1] = "new"
      BY <1>4, Positions DEF Go, GoWith, TypeOK, Grouped
    <2>2. \A i \in DOMAIN ws : Verdict'[i] = Verdict[i]
      BY <1>4, <2>1 DEF Go, GoWith, Verdict, TypeOK
    <2> QED
      BY <1>4, <2>2, Unseen DEF Go, GoWith
  <1>5. CASE Wait
    BY <1>5 DEF Wait, View!vars, Verdict
  <1>6. CASE WaitOK
    BY <1>6 DEF WaitOK, View!vars, Verdict
  <1>7. CASE WaitFails
    <2>1. View!AnswerError
      BY <1>7 DEF WaitFails, WaitFailsEarly, Early, View!AnswerError, Verdict
    <2> QED
      BY <2>1 DEF View!Next
  <1>8. CASE Collect
    BY <1>8 DEF Collect, View!vars, Verdict
  <1>9. CASE Answer
    <2>1. \A i \in DOMAIN ws : Verdict[i] = keep[i] /\ keep[i] \in BOOLEAN
      BY <1>9 DEF Answer, Verdict, TypeOK, Grouped
    <2>2. {i \in DOMAIN ws : Verdict[i] = TRUE} = {i \in 1 .. next : keep[i] = TRUE}
      BY <1>9, <2>1, Positions DEF Answer, TypeOK
    <2>3. View!Lists(answer', {i \in DOMAIN ws : Verdict[i] = TRUE}) /\ answer' \in Seq(DOMAIN ws)
      BY <1>9, <2>2 DEF Answer, Collected, TypeOK
    <2>4. answer = Pending /\ UNCHANGED <<ws, Verdict>>
      BY <1>9 DEF Answer, Early, Verdict
    <2>5. View!AnswerList
      BY <2>1, <2>3, <2>4 DEF View!AnswerList
    <2> QED
      BY <2>5 DEF View!Next
  <1>10. ASSUME NEW i \in DOMAIN ws, NEW b \in BOOLEAN, ReviewOK(i, b) PROVE Step
    <2>1. answer = Pending /\ checked
      BY <1>10 DEF ReviewOK, Early, Grouped, Running, TypeOK, Unreviewed
    <2>2. Verdict[i] = Pending
      BY <1>10, <2>1 DEF ReviewOK, Verdict
    <2>3. err[i] = "none" /\ task'[i] = "ended" /\ keep'[i] = b
      BY <1>10 DEF ReviewOK, Blamed, TypeOK
    <2>4. \A j \in DOMAIN ws \ {i} : task'[j] = task[j] /\ keep'[j] = keep[j]
      BY <1>10 DEF ReviewOK, TypeOK
    <2>5. Verdict' = [Verdict EXCEPT ![i] = b]
      BY <1>10, <2>1, <2>3, <2>4 DEF ReviewOK, Verdict
    <2>6. View!Decide(i, b)
      BY <1>10, <2>1, <2>2, <2>5 DEF ReviewOK, View!Decide
    <2> QED
      BY <2>6 DEF View!Next
  <1>11. ASSUME NEW i \in DOMAIN ws, NEW e \in {"review", "cancelled"}, ReviewFails(i, e) PROVE Step
    <2>1. checked
      BY <1>11 DEF ReviewFails, ReviewReturns, Unreviewed
    <2>2. \A j \in DOMAIN ws : Verdict'[j] = Verdict[j]
      BY <1>11, <2>1 DEF ReviewFails, ReviewReturns, Verdict, TypeOK
    <2> QED
      BY <1>11, <2>2, Unseen DEF ReviewFails, ReviewReturns
  <1>12. ASSUME NEW i \in DOMAIN ws, Record(i) PROVE Step
    <2>1. err[i] # "none"
      BY <1>12 DEF Record, RecordError, Blamed
    <2>2. \A j \in DOMAIN ws : Verdict'[j] = Verdict[j]
      BY <1>12, <2>1 DEF Record, RecordError, Verdict, TypeOK
    <2> QED
      BY <1>12, <2>2, Unseen DEF Record, RecordError
  <1>13. ASSUME NEW i \in DOMAIN ws, Done(i) PROVE Step
    <2>1. \A j \in DOMAIN ws : Verdict'[j] = Verdict[j]
      BY <1>13 DEF Done, Return, Verdict, TypeOK
    <2> QED
      BY <1>13, <2>1, Unseen DEF Done, Return
  <1>14. CASE UNCHANGED vars
    BY <1>14 DEF vars, View!vars, Verdict
  <1> QED
    BY <1>1, <1>2, <1>3, <1>4, <1>5, <1>6, <1>7, <1>8, <1>9, <1>10, <1>11, <1>12, <1>13, <1>14
    DEF Next, Handler, Task

\* A request is answered once, with an error or with exactly the allowed items of one
\* snapshot in its order, whatever order its reviews end in: the handler implements FilteredList.
THEOREM AnswersLikeFilteredList == Spec => KeepsAllowedInOrder
  BY Invariance, InitView, StepView, PTL DEF Spec, KeepsAllowedInOrder, View!Spec
=============================================================================
