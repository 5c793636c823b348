---------------------------- MODULE ServerProofs ----------------------------
(***************************************************************************)
(* Proofs about Server, for any hostnames and number of clients.           *)
(***************************************************************************)
EXTENDS Server, TLAPS

\* Once run is past the flags, the lists have a source, made once and for all.
Sourced ==
    /\ pc \notin {"flags", "datasource", "exited"} => mode # "none"
    /\ pc \in {"flags", "datasource"} => mode = "none"
    /\ mode = "shards" => dials = Dials

\* The readiness check is there before anything listens.
Checked == pc \in {"listen", "serving"} /\ mode = "shards" => gated

\* The hook's context ends after readiness has gone, and nothing but that and an error of its
\* own stops the manager.
Bound ==
    /\ ended => pc \in {"draining", "refusing", "exited"}
    /\ mgr = "stopped" => ended \/ failed

IInv == TypeOK /\ Sourced /\ Checked /\ Bound

\* Types are kept; there is a manager if and only if there are shards.
LEMMA TypeOKNext ==
    ASSUME TypeOK, Sourced, [Next]_vars
    PROVE  TypeOK'
  <1> USE DEF TypeOK, Sourced, startup, manager
  <1>1. CASE OptionsFail
    BY <1>1 DEF OptionsFail, Exit
  <1>2. CASE OptionsOK
    BY <1>2 DEF OptionsOK
  <1>3. CASE Static
    BY <1>3 DEF Static
  <1>4. CASE DatasourceFails
    BY <1>4 DEF DatasourceFails, Exit
  <1>5. CASE BuildShards
    <2>1. DOMAIN dials' = {"root", "sar", "shard"}
      BY <1>5 DEF BuildShards, Dials
    <2> QED
      BY <1>5, <2>1 DEF BuildShards
  <1>6. CASE NewFails
    BY <1>6 DEF NewFails, Exit
  <1>7. CASE NewOK
    BY <1>7 DEF NewOK
  <1>8. CASE AddHooks
    BY <1>8 DEF AddHooks, AddWith
  <1>9. CASE ListenFails
    BY <1>9 DEF ListenFails, Exit
  <1>10. CASE Listen
    BY <1>10 DEF Listen
  <1>11. CASE ShutdownInitiated
    BY <1>11 DEF ShutdownInitiated
  <1>12. CASE NotAcceptingNewRequest
    BY <1>12 DEF NotAcceptingNewRequest
  <1>13. CASE StopHooks
    BY <1>13 DEF StopHooks
  <1>14. CASE Refuse
    BY <1>14 DEF Refuse
  <1>15. CASE RunReturns
    BY <1>15 DEF RunReturns, Exit
  <1>16. CASE Signal
    BY <1>16 DEF Signal
  <1>17. CASE SecondSignal
    BY <1>17 DEF SecondSignal, Exit
  <1>18. CASE StartManager
    BY <1>18 DEF StartManager, Up
  <1>19. CASE ManagerStops
    BY <1>19 DEF ManagerStops
  <1>20. CASE ManagerFails
    BY <1>20 DEF ManagerFails
  <1>21. CASE ShardSyncs
    BY <1>21 DEF ShardSyncs
  <1>22. ASSUME NEW c \in Client, ListStarts(c) PROVE TypeOK'
    BY <1>22 DEF ListStarts
  <1>23. ASSUME NEW c \in Client, ListEnds(c) PROVE TypeOK'
    BY <1>23 DEF ListEnds
  <1>24. CASE UNCHANGED vars
    BY <1>24 DEF vars
  <1> QED
    BY <1>1, <1>2, <1>3, <1>4, <1>5, <1>6, <1>7, <1>8, <1>9, <1>10, <1>11, <1>12, <1>13, <1>14,
       <1>15, <1>16, <1>17, <1>18, <1>19, <1>20, <1>21, <1>22, <1>23, <1>24
    DEF Next, Run

\* What the lists are made from is decided once.
LEMMA SourcedNext ==
    ASSUME TypeOK, Sourced, [Next]_vars
    PROVE  Sourced'
  <1> USE DEF TypeOK, Sourced, Dials, startup, manager
  <1>1. CASE OptionsFail
    BY <1>1 DEF OptionsFail, Exit
  <1>2. CASE OptionsOK
    BY <1>2 DEF OptionsOK
  <1>3. CASE Static
    BY <1>3 DEF Static
  <1>4. CASE DatasourceFails
    BY <1>4 DEF DatasourceFails, Exit
  <1>5. CASE BuildShards
    BY <1>5 DEF BuildShards
  <1>6. CASE NewFails
    BY <1>6 DEF NewFails, Exit
  <1>7. CASE NewOK
    BY <1>7 DEF NewOK
  <1>8. CASE AddHooks
    BY <1>8 DEF AddHooks, AddWith
  <1>9. CASE ListenFails
    BY <1>9 DEF ListenFails, Exit
  <1>10. CASE Listen
    BY <1>10 DEF Listen
  <1>11. CASE ShutdownInitiated
    BY <1>11 DEF ShutdownInitiated
  <1>12. CASE NotAcceptingNewRequest
    BY <1>12 DEF NotAcceptingNewRequest
  <1>13. CASE StopHooks
    BY <1>13 DEF StopHooks
  <1>14. CASE Refuse
    BY <1>14 DEF Refuse
  <1>15. CASE RunReturns
    BY <1>15 DEF RunReturns, Exit
  <1>16. CASE Signal
    BY <1>16 DEF Signal
  <1>17. CASE SecondSignal
    BY <1>17 DEF SecondSignal, Exit
  <1>18. CASE StartManager
    BY <1>18 DEF StartManager, Up
  <1>19. CASE ManagerStops
    BY <1>19 DEF ManagerStops
  <1>20. CASE ManagerFails
    BY <1>20 DEF ManagerFails
  <1>21. CASE ShardSyncs
    BY <1>21 DEF ShardSyncs
  <1>22. ASSUME NEW c \in Client, ListStarts(c) PROVE Sourced'
    BY <1>22 DEF ListStarts
  <1>23. ASSUME NEW c \in Client, ListEnds(c) PROVE Sourced'
    BY <1>23 DEF ListEnds
  <1>24. CASE UNCHANGED vars
    BY <1>24 DEF vars
  <1> QED
    BY <1>1, <1>2, <1>3, <1>4, <1>5, <1>6, <1>7, <1>8, <1>9, <1>10, <1>11, <1>12, <1>13, <1>14,
       <1>15, <1>16, <1>17, <1>18, <1>19, <1>20, <1>21, <1>22, <1>23, <1>24
    DEF Next, Run

\* The hooks are added to a server that is built, and never taken away.
LEMMA CheckedNext ==
    ASSUME TypeOK, Checked, [Next]_vars
    PROVE  Checked'
  <1> USE DEF TypeOK, Checked, startup, manager
  <1>1. CASE OptionsFail
    BY <1>1 DEF OptionsFail, Exit
  <1>2. CASE OptionsOK
    BY <1>2 DEF OptionsOK
  <1>3. CASE Static
    BY <1>3 DEF Static
  <1>4. CASE DatasourceFails
    BY <1>4 DEF DatasourceFails, Exit
  <1>5. CASE BuildShards
    BY <1>5 DEF BuildShards
  <1>6. CASE NewFails
    BY <1>6 DEF NewFails, Exit
  <1>7. CASE NewOK
    BY <1>7 DEF NewOK
  <1>8. CASE AddHooks
    BY <1>8 DEF AddHooks, AddWith
  <1>9. CASE ListenFails
    BY <1>9 DEF ListenFails, Exit
  <1>10. CASE Listen
    BY <1>10 DEF Listen
  <1>11. CASE ShutdownInitiated
    BY <1>11 DEF ShutdownInitiated
  <1>12. CASE NotAcceptingNewRequest
    BY <1>12 DEF NotAcceptingNewRequest
  <1>13. CASE StopHooks
    BY <1>13 DEF StopHooks
  <1>14. CASE Refuse
    BY <1>14 DEF Refuse
  <1>15. CASE RunReturns
    BY <1>15 DEF RunReturns, Exit
  <1>16. CASE Signal
    BY <1>16 DEF Signal
  <1>17. CASE SecondSignal
    BY <1>17 DEF SecondSignal, Exit
  <1>18. CASE StartManager
    BY <1>18 DEF StartManager, Up
  <1>19. CASE ManagerStops
    BY <1>19 DEF ManagerStops
  <1>20. CASE ManagerFails
    BY <1>20 DEF ManagerFails
  <1>21. CASE ShardSyncs
    BY <1>21 DEF ShardSyncs
  <1>22. ASSUME NEW c \in Client, ListStarts(c) PROVE Checked'
    BY <1>22 DEF ListStarts
  <1>23. ASSUME NEW c \in Client, ListEnds(c) PROVE Checked'
    BY <1>23 DEF ListEnds
  <1>24. CASE UNCHANGED vars
    BY <1>24 DEF vars
  <1> QED
    BY <1>1, <1>2, <1>3, <1>4, <1>5, <1>6, <1>7, <1>8, <1>9, <1>10, <1>11, <1>12, <1>13, <1>14,
       <1>15, <1>16, <1>17, <1>18, <1>19, <1>20, <1>21, <1>22, <1>23, <1>24
    DEF Next, Run

\* The manager goes with the hook's context, that one after readiness.
LEMMA BoundNext ==
    ASSUME TypeOK, Bound, [Next]_vars
    PROVE  Bound'
  <1> USE DEF TypeOK, Bound, startup, manager
  <1>1. CASE OptionsFail
    BY <1>1 DEF OptionsFail, Exit
  <1>2. CASE OptionsOK
    BY <1>2 DEF OptionsOK
  <1>3. CASE Static
    BY <1>3 DEF Static
  <1>4. CASE DatasourceFails
    BY <1>4 DEF DatasourceFails, Exit
  <1>5. CASE BuildShards
    BY <1>5 DEF BuildShards
  <1>6. CASE NewFails
    BY <1>6 DEF NewFails, Exit
  <1>7. CASE NewOK
    BY <1>7 DEF NewOK
  <1>8. CASE AddHooks
    BY <1>8 DEF AddHooks, AddWith
  <1>9. CASE ListenFails
    BY <1>9 DEF ListenFails, Exit
  <1>10. CASE Listen
    BY <1>10 DEF Listen
  <1>11. CASE ShutdownInitiated
    BY <1>11 DEF ShutdownInitiated
  <1>12. CASE NotAcceptingNewRequest
    BY <1>12 DEF NotAcceptingNewRequest
  <1>13. CASE StopHooks
    BY <1>13 DEF StopHooks
  <1>14. CASE Refuse
    BY <1>14 DEF Refuse
  <1>15. CASE RunReturns
    BY <1>15 DEF RunReturns, Exit
  <1>16. CASE Signal
    BY <1>16 DEF Signal
  <1>17. CASE SecondSignal
    BY <1>17 DEF SecondSignal, Exit
  <1>18. CASE StartManager
    BY <1>18 DEF StartManager, Up
  <1>19. CASE ManagerStops
    BY <1>19 DEF ManagerStops
  <1>20. CASE ManagerFails
    BY <1>20 DEF ManagerFails
  <1>21. CASE ShardSyncs
    BY <1>21 DEF ShardSyncs
  <1>22. ASSUME NEW c \in Client, ListStarts(c) PROVE Bound'
    BY <1>22 DEF ListStarts
  <1>23. ASSUME NEW c \in Client, ListEnds(c) PROVE Bound'
    BY <1>23 DEF ListEnds
  <1>24. CASE UNCHANGED vars
    BY <1>24 DEF vars
  <1> QED
    BY <1>1, <1>2, <1>3, <1>4, <1>5, <1>6, <1>7, <1>8, <1>9, <1>10, <1>11, <1>12, <1>13, <1>14,
       <1>15, <1>16, <1>17, <1>18, <1>19, <1>20, <1>21, <1>22, <1>23, <1>24
    DEF Next, Run

\* The invariant holds before the flags are read.
LEMMA InitIInv == Init => IInv
  <1> SUFFICES ASSUME Init PROVE IInv
    OBVIOUS
  <1>1. DOMAIN dials # {"root", "sar", "shard"}
    BY DEF Init
  <1> QED
    BY <1>1 DEF Init, IInv, TypeOK, Sourced, Checked, Bound

\* IInv holds from the flags to the exit of the process.
THEOREM Invariance == Spec => []IInv
  <1>1. IInv /\ [Next]_vars => IInv'
    BY TypeOKNext, SourcedNext, CheckedNext, BoundNext DEF IInv
  <1> QED
    BY InitIInv, <1>1, PTL DEF Spec

\* The process's variables have their types.
THEOREM TypeCorrect == Spec => []TypeOK
  BY Invariance, PTL DEF IInv

\* A server with shards that reports ready has had a shard synced, and its manager follows
\* them unless it failed: no order of signals, hooks and lists stops it before readiness goes.
THEOREM ReadyIsLive == Spec => []ReadyMeansLive
  <1>1. ASSUME IInv, Ready, mode = "shards" PROVE synced /\ (mgr = "running" \/ failed)
    <2>1. synced
      BY <1>1 DEF IInv, Checked, Ready
    <2>2. mgr \in {"running", "stopped"}
      BY <1>1 DEF IInv, TypeOK, Ready
    <2>3. ~ended
      BY <1>1 DEF IInv, Bound, Ready
    <2> QED
      BY <1>1, <2>1, <2>2, <2>3 DEF IInv, Bound
  <1>2. IInv => ReadyMeansLive
    BY <1>1 DEF ReadyMeansLive
  <1> QED
    BY <1>2, Invariance, PTL

\* The three configs that buildDatasource makes of one differ as they should, and only so.
THEOREM ConfigsDialFrontProxy == Spec => []DialsFrontProxy
  <1>1. ASSUME IInv, mode = "shards" PROVE DialsFrontProxy
    <2>1. opts.base.host # NoSNI
      BY <1>1, Hosts DEF IInv, TypeOK, URL
    <2>2. CASE opts.gateway = NoURL
      <3> DEFINE base == Config(opts.base.host, opts.base.slash, FALSE, NoSNI)
                 root == [base EXCEPT !.slash = FALSE, !.root = TRUE]
      <3>0. dials = [root |-> root, sar |-> base, shard |-> base]
        BY <1>1, <2>2 DEF IInv, Sourced, Dials
      <3>1. /\ dials["sar"] = Config(opts.base.host, opts.base.slash, FALSE, NoSNI)
            /\ dials["shard"] = Config(opts.base.host, opts.base.slash, FALSE, NoSNI)
        BY <3>0
      <3>2. dials["root"] = Config(opts.base.host, FALSE, TRUE, NoSNI)
        BY <3>0 DEF Config
      <3> QED
        BY <2>2, <3>1, <3>2 DEF Config, DialsFrontProxy
    <2>3. CASE opts.gateway # NoURL
      BY <1>1, <2>1, <2>3 DEF IInv, Sourced, Dials, Config, DialsFrontProxy
    <2> QED
      BY <2>2, <2>3
  <1>2. IInv => DialsFrontProxy
    BY <1>1 DEF DialsFrontProxy
  <1> QED
    BY <1>2, Invariance, PTL
=============================================================================
