-------------------------- MODULE ApiServerProofs ---------------------------
(***************************************************************************)
(* Proofs about ApiServer: for any users, groups and certificates, and     *)
(* for every order in which definitions are built.  In the last part,      *)
(* about Listing: what is in the lists that are answered, for any number   *)
(* of objects.                                                             *)
(***************************************************************************)
EXTENDS ApiServer, ListingMC, FiniteSetTheorems, SequenceTheorems, TLAPS

-----------------------------------------------------------------------------
(* The specification that is built.  First what holds of its data.         *)

\* The types of an object's properties.
TypesOf(props) == {props[f].type : f \in DOMAIN props}

LEMMA TypesOfEach ==
    ASSUME NEW fields, NEW type
    PROVE  TypesOf(Served!Each(fields, type)) \subseteq {type}
  BY DEF TypesOf, Served!Each

LEMMA TypesOfMany ==
    ASSUME NEW field, NEW type
    PROVE  TypesOf(Served!Many(field, type)) \subseteq {type}
  BY DEF TypesOf, Served!Many

\* What refers to nothing but its dependencies in its parts does not as a whole.
LEMMA RefsOfObject ==
    ASSUME NEW parts, NEW required, NEW deps,
           \A p \in parts : TypesOf(p) \subseteq deps \cup Served!Primitive
    PROVE  /\ Served!Refs(Served!Object(parts, required, deps)) \subseteq deps
           /\ Served!Object(parts, required, deps).deps = deps
  <1> DEFINE props == Served!Together(parts)
  <1>1. ASSUME NEW f \in DOMAIN props
        PROVE  props[f].type \in deps \cup Served!Primitive
    <2> DEFINE p == CHOOSE q \in parts : f \in DOMAIN q
    <2>1. p \in parts /\ f \in DOMAIN p /\ props[f] = p[f]
      BY <1>1 DEF Served!Together
    <2>2. props[f].type \in TypesOf(p)
      BY <2>1 DEF TypesOf
    <2> QED
      BY <2>1, <2>2
  <1>2. Served!Object(parts, required, deps).props = props
    BY DEF Served!Object
  <1>3. Served!Object(parts, required, deps).deps = deps
    BY DEF Served!Object
  <1> HIDE DEF props
  <1> QED
    BY <1>1, <1>2, <1>3 DEF Served!Refs

\* A definition's schema refers to its dependencies only, and they are defined.
Closed(d) == Served!Refs(d) \subseteq d.deps /\ d.deps \subseteq Served!Types

LEMMA Names ==
    Served!Types =
    {"AccessibleWorkspace", "AccessibleWorkspaceList", "AccessibleWorkspaceSpec",
     "BindableAPIExport", "BindableAPIExportList", "BindableAPIExportSpec",
     "BindablePermissionClaim", "BindableResource", "APIGroup", "APIGroupList", "APIResource",
     "APIResourceList", "GroupVersionForDiscovery", "ServerAddressByClientCIDR", "ListMeta",
     "ShardInfo", "ObjectMeta", "ManagedFieldsEntry", "OwnerReference", "FieldsV1", "Time",
     "Info"}
  BY DEF Served!Types, Served!Definition

LEMMA DefinitionsClosed == \A t \in Served!Types : Closed(Served!Definition[t])
  <1> USE TypesOfEach, TypesOfMany, RefsOfObject, Names
      DEF Closed, Served!Primitive, Served!KindFields, Served!ObjectMetaParts
  <1>1. Closed(Served!AccessibleWorkspace)
    BY DEF Served!AccessibleWorkspace
  <1>2. Closed(Served!AccessibleWorkspaceList)
    BY DEF Served!AccessibleWorkspaceList
  <1>3. Closed(Served!AccessibleWorkspaceSpec)
    BY DEF Served!AccessibleWorkspaceSpec
  <1>4. Closed(Served!BindableAPIExport)
    BY DEF Served!BindableAPIExport
  <1>5. Closed(Served!BindableAPIExportList)
    BY DEF Served!BindableAPIExportList
  <1>6. Closed(Served!BindableAPIExportSpec)
    BY DEF Served!BindableAPIExportSpec
  <1>7. Closed(Served!BindablePermissionClaim)
    BY DEF Served!BindablePermissionClaim
  <1>8. Closed(Served!BindableResource)
    BY DEF Served!BindableResource
  <1>9. Closed(Served!APIGroup)
    BY DEF Served!APIGroup
  <1>10. Closed(Served!APIGroupList)
    BY DEF Served!APIGroupList
  <1>11. Closed(Served!APIResource)
    BY DEF Served!APIResource
  <1>12. Closed(Served!APIResourceList)
    BY DEF Served!APIResourceList
  <1>13. Closed(Served!GroupVersionForDiscovery)
    BY DEF Served!GroupVersionForDiscovery
  <1>14. Closed(Served!ServerAddressByClientCIDR)
    BY DEF Served!ServerAddressByClientCIDR
  <1>15. Closed(Served!ListMeta)
    BY DEF Served!ListMeta
  <1>16. Closed(Served!ShardInfo)
    BY DEF Served!ShardInfo
  <1>17. Closed(Served!ObjectMeta)
    BY DEF Served!ObjectMeta
  <1>18. Closed(Served!ManagedFieldsEntry)
    BY DEF Served!ManagedFieldsEntry
  <1>19. Closed(Served!OwnerReference)
    BY DEF Served!OwnerReference
  <1>20. Closed(Served!FieldsV1)
    BY DEF Served!FieldsV1
  <1>21. Closed(Served!Time)
    BY DEF Served!Time
  <1>22. Closed(Served!Info)
    BY DEF Served!Info
  <1> QED
    BY <1>1, <1>2, <1>3, <1>4, <1>5, <1>6, <1>7, <1>8, <1>9, <1>10, <1>11, <1>12, <1>13, <1>14,
       <1>15, <1>16, <1>17, <1>18, <1>19, <1>20, <1>21, <1>22
    DEF Served!Definition

\* The types of the marketplace are defined as Go encodes them.
LEMMA DefinitionsMatch ==
    \A t \in DOMAIN Served!GoType :
        /\ Served!Definition[t].props = Served!GoType[t].props
        /\ Served!Definition[t].required = Served!GoType[t].required
  <1>1. ASSUME NEW parts, NEW required, NEW deps
        PROVE  /\ Served!Object(parts, required, deps).props = Served!Together(parts)
               /\ Served!Object(parts, required, deps).required = required
    BY DEF Served!Object
  <1> QED
    BY <1>1
    DEF Served!Definition, Served!GoType,
        Served!AccessibleWorkspace, Served!GoAccessibleWorkspace,
        Served!AccessibleWorkspaceSpec, Served!GoAccessibleWorkspaceSpec,
        Served!AccessibleWorkspaceList, Served!GoAccessibleWorkspaceList,
        Served!BindableAPIExport, Served!GoBindableAPIExport,
        Served!BindableAPIExportSpec, Served!GoBindableAPIExportSpec,
        Served!BindableResource, Served!GoBindableResource,
        Served!BindablePermissionClaim, Served!GoBindablePermissionClaim,
        Served!BindableAPIExportList, Served!GoBindableAPIExportList

\* The dependencies of a stack.
Elements(s) == {s[i] : i \in DOMAIN s}

Waiting(s) == UNION Elements(s)

LEMMA Pushed ==
    ASSUME NEW S, NEW x \in S, NEW s \in Seq(S)
    PROVE  /\ <<x>> \o s \in Seq(S)
           /\ Elements(<<x>> \o s) = {x} \cup Elements(s)
  <1> DEFINE t == <<x>> \o s
  <1>1. t \in Seq(S) /\ Len(t) = Len(s) + 1 /\ t[1] = x
        /\ (\A i \in 1 .. Len(s) : t[i + 1] = s[i])
        /\ (\A i \in 2 .. Len(s) + 1 : t[i] = s[i - 1])
    OBVIOUS
  <1>2. DOMAIN t = 1 .. Len(s) + 1 /\ DOMAIN s = 1 .. Len(s) /\ Len(s) \in Nat
    BY <1>1
  <1> HIDE DEF t
  <1>3. ASSUME NEW i \in DOMAIN t, i # 1
        PROVE  i - 1 \in DOMAIN s /\ t[i] = s[i - 1]
    <2>1. i \in 2 .. Len(s) + 1 /\ i - 1 \in 1 .. Len(s)
      BY <1>2, <1>3
    <2> QED
      BY <1>1, <1>2, <2>1
  <1>4. \A i \in DOMAIN s : i + 1 \in DOMAIN t /\ t[i + 1] = s[i]
    BY <1>1, <1>2
  <1>5. Elements(t) = {x} \cup Elements(s)
    BY <1>1, <1>2, <1>3, <1>4 DEF Elements
  <1> QED
    BY <1>1, <1>5 DEF t

LEMMA WaitingOf ==
    ASSUME NEW t, NEW x, NEW s, Elements(t) = {x} \cup Elements(s)
    PROVE  Waiting(t) = x \cup Waiting(s)
  BY DEF Waiting

LEMMA PushedDeps ==
    ASSUME NEW deps, deps \subseteq Served!Types, NEW s \in Seq(SUBSET Served!Types)
    PROVE  /\ <<deps>> \o s \in Seq(SUBSET Served!Types)
           /\ Waiting(<<deps>> \o s) = deps \cup Waiting(s)
  <1> DEFINE S == SUBSET Served!Types
  <1>1. deps \in S /\ s \in Seq(S)
    OBVIOUS
  <1> HIDE DEF S
  <1>2. <<deps>> \o s \in Seq(S) /\ Elements(<<deps>> \o s) = {deps} \cup Elements(s)
    BY <1>1, Pushed
  <1>3. Waiting(<<deps>> \o s) = deps \cup Waiting(s)
    BY <1>2, WaitingOf
  <1> QED
    BY <1>2, <1>3 DEF S

LEMMA PoppedDeps ==
    ASSUME NEW s \in Seq(SUBSET Served!Types), s # <<>>
    PROVE  /\ Head(s) \in SUBSET Served!Types /\ Tail(s) \in Seq(SUBSET Served!Types)
           /\ Waiting(s) = Head(s) \cup Waiting(Tail(s))
  <1>1. /\ Head(s) \subseteq Served!Types /\ Tail(s) \in Seq(SUBSET Served!Types)
        /\ s = <<Head(s)>> \o Tail(s)
    OBVIOUS
  <1>2. Waiting(<<Head(s)>> \o Tail(s)) = Head(s) \cup Waiting(Tail(s))
    BY <1>1, PushedDeps
  <1> QED
    BY <1>1, <1>2

\* Every storage's kinds are in the scheme, and its list type leads to its items.
LEMMA StoragesKnown ==
    \A s \in DOMAIN Served!Storages :
        /\ {Served!Storages[s].new, Served!Storages[s].list} \subseteq Served!Known
        /\ Served!Storages[s].list \in Served!Types
        /\ Served!Storages[s].new \in Served!Definition[Served!Storages[s].list].deps
  BY Names, RefsOfObject
  DEF Served!Storages, Served!Known, Served!Definition, Served!Object,
      Served!AccessibleWorkspaceList, Served!BindableAPIExportList

-----------------------------------------------------------------------------
(* The invariant.                                                          *)

\* What is installed, to be built, being built and built.
Building ==
    /\ pending \subseteq DOMAIN Served!Storages
    /\ todo \subseteq Served!Types /\ built \subseteq Served!Types
    /\ stack \in Seq(SUBSET Served!Types)
    /\ failed = FALSE

\* A definition's dependencies are built, or wait on the stack.
Followed ==
    \A t \in built : Served!Definition[t].deps \subseteq built \cup Waiting(stack)

\* An installed storage's list is built, or waits for it.
Routed ==
    \A s \in DOMAIN Served!Storages :
        s \in pending \/ Served!Storages[s].list \in todo \cup built

\* The one request was served when all was built.
Answered ==
    /\ prefix \in BOOLEAN /\ allowed \subseteq CommonName
    /\ req # None => req \in Pipeline!Request /\ answer = Pipeline!Serve(req) /\ Served!Built

\* Inductive: that nothing dangles at the end needs what is still to be followed before.
IInv == Building /\ Followed /\ Routed /\ Answered

LEMMA InitIInv == Init => IInv
  <1> SUFFICES ASSUME Init PROVE IInv
    OBVIOUS
  <1>1. Building
    BY Names DEF Init, Served!Init, Building, Served!OwnRoutes
  <1> QED
    BY <1>1 DEF Init, Served!Init, Pipeline!Init, IInv, Followed, Routed, Answered

\* Entering a type builds it, and leaves its dependencies to be followed.
LEMMA EnterKeeps ==
    ASSUME Building, NEW t \in Served!Types, NEW rest \in Seq(SUBSET Served!Types),
           \A u \in built :
               Served!Definition[u].deps \subseteq built \cup Waiting(rest) \cup {t},
           Served!Enter(t, rest)
    PROVE  /\ failed' = FALSE
           /\ built' = built \cup {t}
           /\ stack' \in Seq(SUBSET Served!Types)
           /\ Followed'
  <1>1. CASE t \in built
    <2>1. stack' = rest /\ built' = built /\ failed' = failed
      BY <1>1 DEF Served!Enter
    <2>2. Followed'
      BY <1>1, <2>1 DEF Followed
    <2> QED
      BY <1>1, <2>1, <2>2 DEF Building
  <1>2. CASE t \notin built
    <2> DEFINE deps == Served!Definition[t].deps
    <2>1. /\ built' = built \cup {t} /\ stack' = <<deps>> \o rest /\ failed' = failed
      BY <1>2 DEF Served!Enter, Served!Types
    <2>2. deps \subseteq Served!Types
      BY DefinitionsClosed DEF Closed
    <2>3. stack' \in Seq(SUBSET Served!Types)
      BY <2>1, <2>2, PushedDeps
    <2> HIDE DEF deps
    <2>4. Waiting(stack') = deps \cup Waiting(rest)
      BY <2>1, <2>2, PushedDeps
    <2>5. ASSUME NEW u \in built'
          PROVE  Served!Definition[u].deps \subseteq built' \cup Waiting(stack')
      <3>1. CASE u = t
        BY <2>4, <3>1 DEF deps
      <3>2. CASE u \in built
        BY <2>1, <2>4, <3>2
      <3> QED
        BY <2>1, <3>1, <3>2
    <2>6. Followed'
      BY <2>5 DEF Followed
    <2> QED
      BY <2>1, <2>3, <2>6 DEF Building
  <1> QED
    BY <1>1, <1>2

LEMMA PrepareKeeps ==
    ASSUME Building, Followed, Routed, Served!Next
    PROVE  Building' /\ Followed' /\ Routed'
  <1>1. ASSUME NEW s \in DOMAIN Served!Storages, Served!Install(s)
        PROVE  Building' /\ Followed' /\ Routed'
    <2>1. /\ pending' = pending \ {s} /\ todo' = todo \cup {Served!Storages[s].list}
          /\ UNCHANGED <<stack, built, failed>>
      BY <1>1, StoragesKnown DEF Served!Install
    <2> QED
      BY <2>1, StoragesKnown DEF Building, Followed, Routed, Waiting, Elements
  <1>2. ASSUME NEW t \in Served!Types, Served!Build(t)
        PROVE  Building' /\ Followed' /\ Routed'
    <2>1. stack = <<>> /\ todo' = todo \ {t} /\ pending' = pending /\ Served!Enter(t, <<>>)
      BY <1>2 DEF Served!Build
    <2>2. /\ <<>> \in Seq(SUBSET Served!Types)
          /\ \A u \in built :
                 Served!Definition[u].deps \subseteq built \cup Waiting(<<>>) \cup {t}
      BY <2>1 DEF Followed
    <2>3. failed' = FALSE /\ built' = built \cup {t} /\ stack' \in Seq(SUBSET Served!Types) /\ Followed'
      BY <2>1, <2>2, EnterKeeps
    <2> QED
      BY <2>1, <2>3 DEF Building, Routed
  <1>3. ASSUME NEW t \in Served!Types, Served!Follow(t)
        PROVE  Building' /\ Followed' /\ Routed'
    <2> DEFINE others == Head(stack) \ {t}
               last == Tail(stack)
               rest == <<others>> \o last
    <2>1. stack # <<>> /\ UNCHANGED <<pending, todo>> /\ Served!Enter(t, rest)
      BY <1>3 DEF Served!Follow
    <2>2. /\ Head(stack) \in SUBSET Served!Types /\ Tail(stack) \in Seq(SUBSET Served!Types)
          /\ Waiting(stack) = Head(stack) \cup Waiting(Tail(stack))
      BY <2>1, PoppedDeps DEF Building
    <2>3. /\ rest \in Seq(SUBSET Served!Types)
          /\ Waiting(rest) = others \cup Waiting(last)
      <3>1. others \subseteq Served!Types /\ last \in Seq(SUBSET Served!Types)
        BY <2>2
      <3> HIDE DEF others, last
      <3> QED
        BY <3>1, PushedDeps
    <2> HIDE DEF rest
    <2>4. Waiting(stack) \subseteq Waiting(rest) \cup {t}
      <3>1. Head(stack) \subseteq others \cup {t}
        OBVIOUS
      <3> HIDE DEF others
      <3> QED
        BY <2>2, <2>3, <3>1
    <2>5. \A u \in built : Served!Definition[u].deps \subseteq built \cup Waiting(rest) \cup {t}
      BY <2>4 DEF Followed
    <2>6. failed' = FALSE /\ built' = built \cup {t} /\ stack' \in Seq(SUBSET Served!Types) /\ Followed'
      BY <2>1, <2>3, <2>5, EnterKeeps
    <2> QED
      BY <2>1, <2>6 DEF Building, Routed
  <1>4. CASE Served!Return
    <2>1. stack # <<>> /\ Head(stack) = {} /\ stack' = Tail(stack)
          /\ UNCHANGED <<pending, todo, built, failed>>
      BY <1>4 DEF Served!Return
    <2>2. /\ Tail(stack) \in Seq(SUBSET Served!Types)
          /\ Waiting(stack) = Head(stack) \cup Waiting(Tail(stack))
      BY <2>1, PoppedDeps DEF Building
    <2>3. Waiting(stack) = Waiting(stack')
      BY <2>1, <2>2
    <2>4. Followed'
      BY <2>1, <2>3 DEF Followed, Waiting, Elements
    <2> QED
      BY <2>1, <2>2, <2>4 DEF Building, Routed
  <1> QED
    BY <1>1, <1>2, <1>3, <1>4 DEF Served!Next

\* A request's answer depends on the options only.
LEMMA SameAnswer ==
    ASSUME UNCHANGED <<prefix, allowed>>, NEW r
    PROVE  Pipeline!Serve(r)' = Pipeline!Serve(r)
  BY DEF Pipeline!Serve, Pipeline!Strip, Pipeline!Authenticate, Pipeline!ByToken, Pipeline!ByHeaders,
         Pipeline!Remote, Pipeline!AddAuthenticated, Pipeline!Nameless, Pipeline!Authorize,
         Pipeline!HealthPath, Pipeline!AuthenticatedOnly, Pipeline!Route, Pipeline!List,
         Pipeline!Status

\* The chain serves what it was given, and only when there is nothing left to prepare.
LEMMA AnsweredNext ==
    ASSUME IInv, [Next]_vars
    PROVE  Answered'
  <1>1. CASE Prepare
    <2>1. ~Served!Built
      BY <1>1 DEF Prepare, Served!Next, Served!Built, Served!Install, Served!Build, Served!Follow,
                  Served!Return
    <2> QED
      BY <1>1, <2>1 DEF Prepare, pipelineVars, IInv, Answered
  <1>2. ASSUME NEW r \in Pipeline!Request, Serve(r) PROVE Answered'
    <2>1. UNCHANGED <<prefix, allowed>> /\ req' = r /\ answer' = Pipeline!Serve(r)
      BY <1>2 DEF Serve, Pipeline!Handle
    <2>2. Served!Built /\ Served!Built'
      BY <1>2 DEF Serve, Served!Built, typesVars
    <2>3. Pipeline!Serve(r)' = Pipeline!Serve(r)
      BY <2>1, SameAnswer
    <2> QED
      BY <2>1, <2>2, <2>3 DEF IInv, Answered
  <1>3. CASE UNCHANGED vars
    BY <1>3, SameAnswer DEF vars, typesVars, pipelineVars, IInv, Answered, Served!Built
  <1> QED
    BY <1>1, <1>2, <1>3 DEF Next

\* IInv holds in every state of the API server.
THEOREM Invariance == Spec => []IInv
  <1>1. IInv /\ [Next]_vars => IInv'
    <2> SUFFICES ASSUME IInv, [Next]_vars PROVE IInv'
      OBVIOUS
    <2>1. CASE Prepare
      BY <2>1, PrepareKeeps, AnsweredNext DEF Prepare, IInv
    <2>2. CASE UNCHANGED typesVars
      BY <2>2, AnsweredNext DEF typesVars, IInv, Building, Followed, Routed, Waiting, Elements
    <2> QED
      BY <2>1, <2>2 DEF Next, Serve, vars
  <1> QED
    BY InitIInv, <1>1, PTL DEF Spec

\* The server starts, in whatever order what it describes is built, its specification has every
\* type that it refers to, and a request is served only when all storages are described.
THEOREM AllIsDescribed == Spec => []ServesWhatIsDescribed
  <1>1. IInv => ServesWhatIsDescribed
    <2> SUFFICES ASSUME IInv PROVE ServesWhatIsDescribed
      OBVIOUS
    <2> USE DEF IInv
    <2>1. Served!Starts
      BY DEF Building, Served!Starts
    <2>2. ASSUME Served!Built, NEW t \in built
          PROVE  Served!Definition[t].deps \subseteq built
      <3>1. stack = <<>>
        BY <2>2 DEF Served!Built
      <3>2. Waiting(stack) = {}
        BY <3>1 DEF Waiting, Elements
      <3> QED
        BY <3>2 DEF Followed
    <2>3. Served!NothingDangles
      <3> SUFFICES ASSUME Served!Built, NEW t \in built
                   PROVE  Served!Refs(Served!Definition[t]) \subseteq built
        BY DEF Served!NothingDangles
      <3>1. Served!Refs(Served!Definition[t]) \subseteq Served!Definition[t].deps
        BY DefinitionsClosed DEF Building, Closed
      <3> QED
        BY <2>2, <3>1
    <2>4. ASSUME req # None, NEW s \in DOMAIN Served!Storages
          PROVE  s \notin pending /\ {Served!Storages[s].new, Served!Storages[s].list} \subseteq built
      <3>1. Served!Built /\ pending = {} /\ todo = {}
        BY <2>4 DEF Answered, Served!Built
      <3>2. Served!Storages[s].list \in built
        BY <2>4, <3>1 DEF Routed
      <3>3. Served!Storages[s].new \in built
        BY <2>2, <2>4, <3>1, <3>2, StoragesKnown
      <3> QED
        BY <3>1, <3>2, <3>3
    <2> QED
      BY <2>1, <2>3, <2>4 DEF ServesWhatIsDescribed
  <1> QED
    BY <1>1, Invariance, PTL

\* The generated definitions have the properties that Go encodes, and require the same.
THEOREM SchemasAreGos == Spec => []SchemasMatchTypes
  <1>1. SchemasMatchTypes
    BY DefinitionsMatch DEF SchemasMatchTypes, Served!SchemasMatchTypes
  <1> QED
    BY <1>1, PTL

-----------------------------------------------------------------------------
(* What is answered.                                                       *)

\* A request is refused, or authorized and routed.
LEMMA Outcomes ==
    ASSUME NEW r
    PROVE  \/ Pipeline!Serve(r) = Pipeline!Status("not found")
           \/ Pipeline!Serve(r) = Pipeline!Status("forbidden")
           \/ /\ Pipeline!Authorize(Pipeline!Authenticate(r), Pipeline!Strip(r.path))
              /\ Pipeline!Serve(r) =
                     Pipeline!Route(r, Pipeline!Authenticate(r), Pipeline!Strip(r.path))
  BY DEF Pipeline!Serve

LEMMA StatusOf ==
    ASSUME NEW s
    PROVE  Pipeline!Status(s).status = s /\ Pipeline!Status(s).as = None
  BY DEF Pipeline!Status

\* What the prefix leaves of a path.
LEMMA Stripped ==
    ASSUME Answered, req # None, ~req.path.escaped
    PROVE  /\ req.path.mounts = 0 => Pipeline!Strip(req.path) = req.path
           /\ prefix /\ req.path.mounts # 0 =>
                 Pipeline!Strip(req.path) = [req.path EXCEPT !.mounts = @ - 1]
           /\ req.path \in Pipeline!Path
  BY DEF Answered, Pipeline!Strip, Pipeline!Request, Pipeline!Path

\* Whoever asks, with the front-proxy's prefix or without: a health probe is answered.
THEOREM HealthIsOpen == Spec => []ProbesAnswered
  <1>1. IInv => ProbesAnswered
    <2> SUFFICES ASSUME IInv, req # None, req.path.target = "health", ~req.path.escaped,
                        req.path.mounts = 0 \/ (prefix /\ req.path.mounts = 1)
                 PROVE  answer.status = "health"
      BY DEF ProbesAnswered, Pipeline!ProbesAnswered
    <2> DEFINE p == Pipeline!Strip(req.path)
    <2>1. p \in Pipeline!Path /\ p.mounts = 0 /\ p.target = "health"
      BY Stripped DEF IInv, Pipeline!Path
    <2>2. p # None
      BY <2>1, NoneIsNoPath
    <2>3. Pipeline!Authorize(Pipeline!Authenticate(req), p)
      BY <2>1 DEF Pipeline!Authorize, Pipeline!HealthPath
    <2>4. answer = Pipeline!Route(req, Pipeline!Authenticate(req), p)
      BY <2>2, <2>3 DEF IInv, Answered, Pipeline!Serve
    <2>5. answer = Pipeline!Status("health")
      BY <2>1, <2>4 DEF Pipeline!Route
    <2> QED
      BY <2>5 DEF Pipeline!Status
  <1> QED
    BY <1>1, Invariance, PTL

\* What comes through the front-proxy gets the answer that it gets without: its prefix is
\* stripped, once.
THEOREM PrefixMakesNoDifference == Spec => []PrefixUnseen
  <1>1. IInv => PrefixUnseen
    <2> SUFFICES ASSUME IInv, req # None, prefix, ~req.path.escaped
                 PROVE  /\ req.path.mounts = 1 =>
                              answer = Pipeline!Serve([req EXCEPT !.path.mounts = 0])
                        /\ req.path.mounts = 2 => answer.status \in {"not found", "forbidden"}
      BY DEF PrefixUnseen, Pipeline!PrefixUnseen
    <2> USE DEF IInv, Answered
    <2>1. CASE req.path.mounts = 1
      <3> DEFINE d == [req EXCEPT !.path.mounts = 0]
      <3>1. /\ d.path = [req.path EXCEPT !.mounts = 0] /\ d.get = req.get /\ d.remote = req.remote
            /\ d.cert = req.cert /\ d.token = req.token
        BY DEF Pipeline!Request, Pipeline!Path
      <3>2. d.path.mounts = 0
        BY <3>1 DEF Pipeline!Request, Pipeline!Path
      <3>3. Pipeline!Strip(req.path) = d.path /\ Pipeline!Strip(d.path) = d.path
        BY <2>1, <3>1, <3>2, Stripped DEF Pipeline!Strip
      <3> HIDE DEF d
      <3>4. Pipeline!Authenticate(d) = Pipeline!Authenticate(req)
        BY <3>1 DEF Pipeline!Authenticate, Pipeline!ByToken, Pipeline!ByHeaders, Pipeline!Remote
      <3>5. \A u, p : Pipeline!Route(d, u, p) = Pipeline!Route(req, u, p)
        BY <3>1 DEF Pipeline!Route
      <3>6. Pipeline!Serve(d) = Pipeline!Serve(req)
        BY <3>3, <3>4, <3>5 DEF Pipeline!Serve
      <3> QED
        BY <2>1, <3>6 DEF d
    <2>2. CASE req.path.mounts = 2
      <3> DEFINE p == Pipeline!Strip(req.path)
      <3>1. p.mounts = 1
        BY <2>2, Stripped DEF Pipeline!Path
      <3>2. \A u : Pipeline!Route(req, u, p) = Pipeline!Status("not found")
        BY <3>1 DEF Pipeline!Route
      <3>3. answer = Pipeline!Status("not found") \/ answer = Pipeline!Status("forbidden")
        BY <3>2, Outcomes
      <3>4. answer.status \in {"not found", "forbidden"}
        BY <3>3, StatusOf
      <3>5. req.path.mounts # 1
        BY <2>2
      <3> QED
        BY <3>4, <3>5
    <2> QED
      BY <2>1, <2>2
  <1> QED
    BY <1>1, Invariance, PTL

\* Only the loopback client, and users with a name that a trusted front-proxy vouches for, get a
\* list or see what there is, each as who they are, with no group but the one that is added.
THEOREM ListsAreForTheVouchedFor == Spec => []OnlyTheVouchedFor
  <1>1. IInv => OnlyTheVouchedFor
    <2> SUFFICES ASSUME IInv, req # None,
                        answer.status \in {"list", "discovery", "root", "not supported"}
                 PROVE  OnlyTheVouchedFor
      BY DEF OnlyTheVouchedFor, Pipeline!OnlyTheVouchedFor
    <2> DEFINE p == Pipeline!Strip(req.path)
               u == Pipeline!Authenticate(req)
    <2>1. answer = Pipeline!Route(req, u, p) /\ Pipeline!Authorize(u, p)
      <3>1. answer = Pipeline!Serve(req)
        BY DEF IInv, Answered
      <3> QED
        BY <3>1, Outcomes, StatusOf
    <2>2. answer.as # None => answer.as = u
      BY <2>1 DEF Pipeline!Route, Pipeline!Status, Pipeline!List
    <2>3. ~Pipeline!HealthPath(p)
      BY <2>1 DEF Pipeline!Route, Pipeline!HealthPath, Pipeline!Status
    <2>4. Masters \in u.groups \/ Authenticated \in u.groups
      BY <2>1, <2>3 DEF Pipeline!Authorize, Pipeline!AuthenticatedOnly
    <2> HIDE DEF p, u
    <2>5. CASE u = Pipeline!ByToken(req) /\ req.token = "loopback"
      <3>1. u.name = Loopback
        BY <2>5 DEF Pipeline!ByToken
      <3> QED
        BY <2>2, <2>5, <3>1 DEF OnlyTheVouchedFor, Pipeline!OnlyTheVouchedFor
    <2>6. CASE Pipeline!Remote(req) # None /\ u = Pipeline!AddAuthenticated(Pipeline!Remote(req))
      <3>1. Pipeline!Vouched(req) /\ Pipeline!Remote(req) = req.remote
        BY <2>6 DEF Pipeline!Remote, Pipeline!Vouched
      <3>2. req.remote \in User
        BY <3>1 DEF IInv, Answered, Pipeline!Request, Pipeline!Vouched
      <3>3. u.name = req.remote.name /\ req.remote.name # Anonymous
            /\ u.groups = req.remote.groups \cup {Authenticated}
        <4> DEFINE v == req.remote
        <4>1. /\ v = [name |-> v.name, groups |-> v.groups]
              /\ v.name = Anonymous => Authenticated \notin v.groups /\ Masters \notin v.groups
              /\ Unauthenticated \in v.groups => Masters \notin v.groups
          BY <3>2, Identities
        <4>2. u = Pipeline!AddAuthenticated(v)
          BY <2>6, <3>1
        <4> HIDE DEF v
        <4>3. CASE v.name = Anonymous \/ v.groups \cap {Authenticated, Unauthenticated} # {}
          <5>1. u = v
            BY <4>2, <4>3 DEF Pipeline!AddAuthenticated
          <5>2. v.name # Anonymous /\ Authenticated \in v.groups
            BY <2>4, <4>1, <4>3, <5>1
          <5> QED
            BY <5>1, <5>2 DEF v
        <4>4. CASE ~(v.name = Anonymous \/ v.groups \cap {Authenticated, Unauthenticated} # {})
          <5>1. u = [v EXCEPT !.groups = @ \cup {Authenticated}]
            BY <4>2, <4>4 DEF Pipeline!AddAuthenticated
          <5>2. u.name = v.name /\ u.groups = v.groups \cup {Authenticated}
            BY <4>1, <5>1
          <5> QED
            BY <4>4, <5>2 DEF v
        <4> QED
          BY <4>3, <4>4
      <3> QED
        BY <2>2, <3>1, <3>3 DEF OnlyTheVouchedFor, Pipeline!OnlyTheVouchedFor
    <2>7. CASE u = Pipeline!Nameless
      BY <2>4, <2>7, Groups DEF Pipeline!Nameless
    <2>8. \/ u = Pipeline!ByToken(req) /\ req.token = "loopback"
          \/ Pipeline!Remote(req) # None /\ u = Pipeline!AddAuthenticated(Pipeline!Remote(req))
          \/ u = Pipeline!Nameless
      BY DEF u, Pipeline!Authenticate, Pipeline!ByToken, Pipeline!ByHeaders
    <2> QED
      BY <2>5, <2>6, <2>7, <2>8
  <1> QED
    BY <1>1, Invariance, PTL

-----------------------------------------------------------------------------
(* The lists that are answered, from the objects of the shards to rows.    *)
(* Listing has a state of its own.                                         *)

\* Types are kept; the mapper has seen the whole list before it leaves its loop.
MapperTyped ==
    /\ kind \in {"workspaces", "exports"}
    /\ list \in Seq(Pages!Lists)
    /\ next \in 0 .. Len(list)
    /\ pc \in {"scan", "sort", "show", "shown"}
    /\ pc # "scan" => next = Len(list)

\* What the map has for a key is the last object seen with it.
Latest(k) ==
    \E i \in 1 .. next :
        /\ Pages!Kept(list[i]) /\ Pages!Key(list[i]) = k /\ byKey[k] = Pages!Mapped(list[i])
        /\ \A j \in i + 1 .. next : Pages!Kept(list[j]) => Pages!Key(list[j]) # k

MapInv ==
    /\ IsFiniteSet(DOMAIN byKey)
    /\ \A i \in 1 .. next : Pages!Kept(list[i]) => Pages!Key(list[i]) \in DOMAIN byKey
    /\ \A k \in DOMAIN byKey : Latest(k)

\* The slice has the values of the map, each once.
SliceInv ==
    pc # "scan" =>
        /\ \E n \in Nat : DOMAIN out = 1 .. n
        /\ {out[i] : i \in DOMAIN out} = {byKey[k] : k \in DOMAIN byKey}
        /\ \A i, j \in DOMAIN out : Pages!Key(out[i]) = Pages!Key(out[j]) => i = j

\* Nothing stands after what it comes before.
Sorted == pc \in {"show", "shown"} => \A i, j \in DOMAIN out : i < j => ~Pages!Before(out[j], out[i])

\* What is shown is the slice, item by item.
ShownInv ==
    pc = "shown" =>
        /\ shown = [i \in DOMAIN out |-> Pages!Read(out[i])]
        /\ rows = [i \in DOMAIN out |-> Pages!Row(Pages!API(out[i]))]

\* Inductive: the properties speak of what is shown only, which the map and then the slice decide.
PagesInv == MapperTyped /\ MapInv /\ SliceInv /\ Sorted /\ ShownInv

\* Conversions depend on the kind of the list only.
LEMMA SameKind ==
    ASSUME kind' = kind
    PROVE  /\ \A x : /\ Pages!Key(x)' = Pages!Key(x) /\ Pages!Mapped(x)' = Pages!Mapped(x)
                     /\ Pages!Kept(x)' <=> Pages!Kept(x)
           /\ \A x, y : Pages!Before(x, y)' <=> Pages!Before(x, y)
           /\ \A x : Pages!Read(x)' = Pages!Read(x)
           /\ \A x : Pages!Row(Pages!API(x))' = Pages!Row(Pages!API(x))
  BY DEF Pages!Key, Pages!Mapped, Pages!Kept, Pages!Before, Pages!Read, Pages!Row, Pages!API

\* Objects have one key if and only if they are the same workspace or export.
LEMMA KeyIsSame ==
    ASSUME NEW o, NEW p
    PROVE  Pages!Key(o) = Pages!Key(p) <=> Pages!Same(o, p)
  BY DEF Pages!Key, Pages!Same

\* What a mapper makes of an object has the object's key.
LEMMA KeyOfMapped ==
    ASSUME NEW o
    PROVE  Pages!Key(Pages!Mapped(o)) = Pages!Key(o)
  BY DEF Pages!Key, Pages!Mapped, Pages!Workspace, Pages!Export

\* The user interface reads what the mapper has written.
LEMMA ReadMapped ==
    ASSUME NEW o
    PROVE  Pages!Read(Pages!Mapped(o)) = Pages!Shown(o)
  BY DEF Pages!Read, Pages!Mapped, Pages!Shown, Pages!API, Pages!Workspace, Pages!Export,
         Pages!ReadWorkspace, Pages!ReadExport, Pages!AccessibleWorkspace,
         Pages!BindableAPIExport, Pages!Or

\* A row has the cells of its columns.
LEMMA Cells ==
    ASSUME NEW o, kind \in {"workspaces", "exports"}
    PROVE  Pages!Row(Pages!API(Pages!Mapped(o))) =
               [c \in DOMAIN Pages!Columns |-> Pages!Cell(Pages!Columns[c], Pages!Mapped(o))]
  <1>1. CASE kind = "workspaces"
    <2>1. Pages!Columns = <<"Name", "Path", "Cluster">>
      BY <1>1 DEF Pages!Columns
    <2>2. Pages!Row(Pages!API(Pages!Mapped(o))) = <<o.cluster, o.path, o.cluster>>
      BY <1>1 DEF Pages!Row, Pages!API, Pages!Mapped, Pages!Workspace, Pages!AccessibleWorkspace
    <2>3. /\ Pages!Cell("Name", Pages!Mapped(o)) = o.cluster
          /\ Pages!Cell("Path", Pages!Mapped(o)) = o.path
          /\ Pages!Cell("Cluster", Pages!Mapped(o)) = o.cluster
      BY <1>1 DEF Pages!Cell, Pages!Mapped, Pages!Workspace
    <2> QED
      BY <2>1, <2>2, <2>3
  <1>2. CASE kind = "exports"
    <2>1. Pages!Columns = <<"Name", "Path", "Export", "Cluster">>
      BY <1>2 DEF Pages!Columns
    <2>2. Pages!Row(Pages!API(Pages!Mapped(o))) = <<o.name, o.path, o.name, o.cluster>>
      BY <1>2 DEF Pages!Row, Pages!API, Pages!Mapped, Pages!Export, Pages!BindableAPIExport
    <2>3. /\ Pages!Cell("Name", Pages!Mapped(o)) = o.name
          /\ Pages!Cell("Path", Pages!Mapped(o)) = o.path
          /\ Pages!Cell("Export", Pages!Mapped(o)) = o.name
          /\ Pages!Cell("Cluster", Pages!Mapped(o)) = o.cluster
      BY <1>2 DEF Pages!Cell, Pages!Mapped, Pages!Export
    <2> QED
      BY <2>1, <2>2, <2>3
  <1> QED
    BY <1>1, <1>2

-----------------------------------------------------------------------------
(* Invariance.                                                             *)

\* Before the first object, nothing is in the map.
LEMMA PagesInit == Pages!Init => PagesInv
  <1> SUFFICES ASSUME Pages!Init PROVE PagesInv
    OBVIOUS
  <1>1. PICK n \in 0 .. MaxLen : list \in [1 .. n -> Pages!Lists]
    BY DEF Pages!Init
  <1>2. list \in Seq(Pages!Lists) /\ Len(list) \in Nat
    BY <1>1, SeqDef, LenProperties, Lengths
  <1>3. DOMAIN byKey = {}
    BY DEF Pages!Init
  <1> QED
    BY <1>2, <1>3, FS_EmptySet DEF Pages!Init, PagesInv, MapperTyped, MapInv, SliceInv, Sorted, ShownInv

\* A later object with the same key replaces the one before.
LEMMA ScanKeeps == PagesInv /\ Pages!Scan => PagesInv'
  <1> SUFFICES ASSUME PagesInv, Pages!Scan PROVE PagesInv'
    OBVIOUS
  <1> DEFINE o == list[next + 1]
  <1>1. MapperTyped'
    BY DEF PagesInv, MapperTyped, Pages!Scan, Pages!Lists
  <1>2. next \in Nat /\ next' = next + 1 /\ kind' = kind /\ list' = list
    BY DEF PagesInv, MapperTyped, Pages!Scan
  <1>3. \A x : /\ Pages!Key(x)' = Pages!Key(x) /\ Pages!Mapped(x)' = Pages!Mapped(x)
               /\ Pages!Kept(x)' <=> Pages!Kept(x)
    BY <1>2, SameKind
  <1>4. MapInv'
    <2>1. CASE ~Pages!Kept(o)
      <3>1. byKey' = byKey
        BY <2>1 DEF Pages!Scan
      <3>2. ASSUME NEW k \in DOMAIN byKey PROVE Latest(k)'
        BY <1>2, <1>3, <2>1, <3>1, <3>2 DEF PagesInv, MapInv, Latest
      <3> QED
        BY <1>2, <1>3, <2>1, <3>1, <3>2 DEF PagesInv, MapInv
    <2>2. CASE Pages!Kept(o)
      <3>1. /\ DOMAIN byKey' = DOMAIN byKey \cup {Pages!Key(o)}
            /\ byKey'[Pages!Key(o)] = Pages!Mapped(o)
            /\ \A k \in DOMAIN byKey \ {Pages!Key(o)} : byKey'[k] = byKey[k]
        BY <2>2 DEF Pages!Scan, Pages!Assign
      <3>2. IsFiniteSet(DOMAIN byKey')
        BY <3>1, FS_AddElement DEF PagesInv, MapInv
      <3>3. ASSUME NEW k \in DOMAIN byKey' PROVE Latest(k)'
        <4>1. CASE k = Pages!Key(o)
          BY <1>2, <1>3, <2>2, <3>1, <4>1 DEF Latest
        <4>2. CASE k # Pages!Key(o)
          <5>1. k \in DOMAIN byKey /\ byKey'[k] = byKey[k]
            BY <3>1, <3>3, <4>2
          <5>2. PICK i \in 1 .. next :
                   /\ Pages!Kept(list[i]) /\ Pages!Key(list[i]) = k /\ byKey[k] = Pages!Mapped(list[i])
                   /\ \A j \in i + 1 .. next : Pages!Kept(list[j]) => Pages!Key(list[j]) # k
            BY <5>1 DEF PagesInv, MapInv, Latest
          <5>3. \A j \in i + 1 .. next + 1 : Pages!Kept(list[j]) => Pages!Key(list[j]) # k
            BY <1>2, <4>2, <5>2
          <5> QED
            BY <1>2, <1>3, <5>1, <5>2, <5>3 DEF Latest
        <4> QED
          BY <4>1, <4>2
      <3> QED
        BY <1>2, <1>3, <3>1, <3>2, <3>3 DEF PagesInv, MapInv
    <2> QED
      BY <2>1, <2>2
  <1> QED
    BY <1>1, <1>4 DEF PagesInv, Pages!Scan, SliceInv, Sorted, ShownInv

\* Listing counts as FiniteSets does.
LEMMA SameCardinality == \A S : Pages!Cardinality(S) = Cardinality(S)
  BY DEF Pages!Cardinality, Cardinality, Pages!IsFiniteSet, IsFiniteSet

\* Neither the order of the map nor the sort changes what there is.
LEMMA Permutation ==
    ASSUME NEW S, IsFiniteSet(S), NEW p \in Pages!SetToSeqs(S)
    PROVE  /\ Cardinality(S) \in Nat
           /\ DOMAIN p = 1 .. Cardinality(S)
           /\ \A i \in DOMAIN p : p[i] \in S
           /\ \A i, j \in DOMAIN p : p[i] = p[j] => i = j
           /\ \A s \in S : \E i \in DOMAIN p : p[i] = s
  <1> DEFINE n == Cardinality(S)
  <1>0. Pages!Cardinality(S) = n
    BY SameCardinality
  <1>1. n \in Nat
    BY FS_CardinalityType
  <1>2. p \in [1 .. n -> S] /\ \A i, j \in 1 .. n : i # j => p[i] # p[j]
    BY <1>0 DEF Pages!SetToSeqs
  <1>3. p \in Injection(1 .. n, S)
    BY <1>2 DEF Injection, IsInjective
  <1>4. Cardinality(1 .. n) = n
    BY <1>1, FS_Interval
  <1>5. p \in Surjection(1 .. n, S)
    BY <1>3, <1>4, FS_Injection
  <1> QED
    BY <1>1, <1>2, <1>5 DEF Surjection

\* The keys come in any order, each once, and so do the values.
LEMMA IterateKeeps == PagesInv /\ Pages!Iterate => PagesInv'
  <1> SUFFICES ASSUME PagesInv, Pages!Iterate PROVE PagesInv'
    OBVIOUS
  <1>1. MapperTyped' /\ Sorted' /\ ShownInv'
    BY DEF PagesInv, MapperTyped, Pages!Iterate, Pages!Lists, Sorted, ShownInv
  <1>2. /\ kind' = kind /\ list' = list /\ next' = next /\ byKey' = byKey
        /\ \A x : /\ Pages!Key(x)' = Pages!Key(x) /\ Pages!Mapped(x)' = Pages!Mapped(x)
                  /\ Pages!Kept(x)' <=> Pages!Kept(x)
    BY SameKind DEF Pages!Iterate
  <1>3. MapInv'
    BY <1>2 DEF PagesInv, MapInv, Latest
  <1>4. PICK p \in Pages!SetToSeqs(DOMAIN byKey) : out' = [i \in DOMAIN p |-> byKey[p[i]]]
    BY DEF Pages!Iterate
  <1> DEFINE n == Cardinality(DOMAIN byKey)
  <1>5. /\ n \in Nat /\ DOMAIN p = 1 .. n
        /\ \A i \in DOMAIN p : p[i] \in DOMAIN byKey
        /\ \A i, j \in DOMAIN p : p[i] = p[j] => i = j
        /\ \A k \in DOMAIN byKey : \E i \in DOMAIN p : p[i] = k
    BY Permutation DEF PagesInv, MapInv
  <1>6. \A k \in DOMAIN byKey : Pages!Key(byKey[k]) = k
    BY KeyOfMapped DEF PagesInv, MapInv, Latest
  <1>7. {out'[i] : i \in DOMAIN out'} = {byKey[k] : k \in DOMAIN byKey}
    BY <1>4, <1>5
  <1>8. \A i, j \in DOMAIN out' : Pages!Key(out'[i]) = Pages!Key(out'[j]) => i = j
    BY <1>4, <1>5, <1>6
  <1>9. SliceInv'
    <2>1. \E m \in Nat : DOMAIN out' = 1 .. m
      BY <1>4, <1>5
    <2> QED
      BY <1>2, <1>7, <1>8, <2>1 DEF SliceInv
  <1> QED
    BY <1>1, <1>3, <1>9 DEF PagesInv

\* Sorting only changes places.
LEMMA SortKeeps == PagesInv /\ Pages!Sort => PagesInv'
  <1> SUFFICES ASSUME PagesInv, Pages!Sort PROVE PagesInv'
    OBVIOUS
  <1>1. MapperTyped' /\ ShownInv'
    BY DEF PagesInv, MapperTyped, Pages!Sort, Pages!Lists, ShownInv
  <1>2. /\ kind' = kind /\ list' = list /\ next' = next /\ byKey' = byKey
        /\ \A x : /\ Pages!Key(x)' = Pages!Key(x) /\ Pages!Mapped(x)' = Pages!Mapped(x)
                  /\ Pages!Kept(x)' <=> Pages!Kept(x)
        /\ \A x, y : Pages!Before(x, y)' <=> Pages!Before(x, y)
    BY SameKind DEF Pages!Sort
  <1>3. MapInv'
    BY <1>2 DEF PagesInv, MapInv, Latest
  <1>4. PICK p \in Pages!SetToSeqs(DOMAIN out) :
            /\ \A i, j \in DOMAIN p : i < j => ~Pages!Before(out[p[j]], out[p[i]])
            /\ out' = [i \in DOMAIN p |-> out[p[i]]]
    BY DEF Pages!Sort
  <1>5. PICK n \in Nat : DOMAIN out = 1 .. n
    BY DEF Pages!Sort, PagesInv, SliceInv
  <1>6. IsFiniteSet(DOMAIN out) /\ Cardinality(DOMAIN out) = n
    BY <1>5, FS_Interval
  <1>7. /\ DOMAIN p = DOMAIN out
        /\ \A i \in DOMAIN p : p[i] \in DOMAIN out
        /\ \A i, j \in DOMAIN p : p[i] = p[j] => i = j
        /\ \A k \in DOMAIN out : \E i \in DOMAIN p : p[i] = k
    BY <1>5, <1>6, Permutation
  <1>8. {out'[i] : i \in DOMAIN out'} = {byKey[k] : k \in DOMAIN byKey}
    <2>1. {out'[i] : i \in DOMAIN out'} = {out[i] : i \in DOMAIN out}
      BY <1>4, <1>7
    <2> QED
      BY <2>1 DEF Pages!Sort, PagesInv, SliceInv
  <1>9. \A i, j \in DOMAIN out' : Pages!Key(out'[i]) = Pages!Key(out'[j]) => i = j
    <2>1. \A i, j \in DOMAIN out : Pages!Key(out[i]) = Pages!Key(out[j]) => i = j
      BY DEF Pages!Sort, PagesInv, SliceInv
    <2> QED
      BY <1>4, <1>7, <2>1
  <1>10. SliceInv'
    <2>1. DOMAIN out' = 1 .. n
      BY <1>4, <1>5, <1>7
    <2> QED
      BY <1>2, <1>8, <1>9, <2>1 DEF SliceInv
  <1>11. Sorted'
    BY <1>2, <1>4, <1>7 DEF Sorted
  <1> QED
    BY <1>1, <1>3, <1>10, <1>11 DEF PagesInv

\* Showing changes nothing else.
LEMMA ShowKeeps == PagesInv /\ Pages!Show => PagesInv'
  <1> SUFFICES ASSUME PagesInv, Pages!Show PROVE PagesInv'
    OBVIOUS
  <1>1. /\ kind' = kind /\ list' = list /\ next' = next /\ byKey' = byKey /\ out' = out
        /\ \A x : /\ Pages!Key(x)' = Pages!Key(x) /\ Pages!Mapped(x)' = Pages!Mapped(x)
                  /\ Pages!Kept(x)' <=> Pages!Kept(x)
        /\ \A x, y : Pages!Before(x, y)' <=> Pages!Before(x, y)
        /\ \A x : Pages!Read(x)' = Pages!Read(x) /\ Pages!Row(Pages!API(x))' = Pages!Row(Pages!API(x))
    BY SameKind DEF Pages!Show
  <1>2. MapperTyped'
    BY DEF PagesInv, MapperTyped, Pages!Show, Pages!Lists
  <1>3. MapInv'
    BY <1>1 DEF PagesInv, MapInv, Latest
  <1>4. SliceInv'
    BY <1>1 DEF PagesInv, SliceInv, Pages!Show
  <1>5. Sorted'
    BY <1>1 DEF PagesInv, Sorted, Pages!Show
  <1>6. ShownInv'
    BY <1>1 DEF ShownInv, Pages!Show
  <1> QED
    BY <1>2, <1>3, <1>4, <1>5, <1>6 DEF PagesInv

\* Neither does a stutter.
LEMMA StutterKeeps == PagesInv /\ UNCHANGED Pages!vars => PagesInv'
  <1> SUFFICES ASSUME PagesInv, UNCHANGED Pages!vars PROVE PagesInv'
    OBVIOUS
  <1> USE DEF Pages!vars
  <1>1. /\ \A x : /\ Pages!Key(x)' = Pages!Key(x) /\ Pages!Mapped(x)' = Pages!Mapped(x)
                  /\ Pages!Kept(x)' <=> Pages!Kept(x)
        /\ \A x, y : Pages!Before(x, y)' <=> Pages!Before(x, y)
        /\ \A x : Pages!Read(x)' = Pages!Read(x) /\ Pages!Row(Pages!API(x))' = Pages!Row(Pages!API(x))
    BY SameKind
  <1>2. MapperTyped'
    BY DEF PagesInv, MapperTyped, Pages!Lists
  <1>3. MapInv'
    BY <1>1 DEF PagesInv, MapInv, Latest
  <1>4. SliceInv' /\ Sorted'
    BY <1>1 DEF PagesInv, SliceInv, Sorted
  <1>5. ShownInv'
    BY <1>1 DEF PagesInv, ShownInv
  <1> QED
    BY <1>2, <1>3, <1>4, <1>5 DEF PagesInv

\* The invariant of the mappers (pkg/datasource/mappers.go) holds, for lists of any length.
LEMMA PagesInvariance == PagesSpec => []PagesInv
  <1>1. PagesInv /\ [Pages!Next]_Pages!vars => PagesInv'
    <2> SUFFICES ASSUME PagesInv, [Pages!Next]_Pages!vars PROVE PagesInv'
      OBVIOUS
    <2>1. CASE UNCHANGED Pages!vars
      BY <2>1, StutterKeeps
    <2> QED
      BY <2>1, ScanKeeps, IterateKeeps, SortKeeps, ShowKeeps DEF Pages!Next
  <1> QED
    BY PagesInit, <1>1, PTL DEF PagesSpec, Pages!Spec

-----------------------------------------------------------------------------
(* What is shown.                                                          *)

\* Each place has one of the objects that win.
LEMMA PlaceHasWinner ==
    ASSUME PagesInv, pc = "shown", NEW i \in DOMAIN out
    PROVE  \E j \in DOMAIN list : Pages!Winner(j) /\ out[i] = Pages!Mapped(list[j])
  <1>1. PICK k \in DOMAIN byKey : out[i] = byKey[k]
    BY DEF PagesInv, SliceInv
  <1>2. next = Len(list) /\ DOMAIN list = 1 .. Len(list)
    BY LenProperties DEF PagesInv, MapperTyped
  <1>3. PICK j \in 1 .. next :
           /\ Pages!Kept(list[j]) /\ Pages!Key(list[j]) = k /\ byKey[k] = Pages!Mapped(list[j])
           /\ \A h \in j + 1 .. next : Pages!Kept(list[h]) => Pages!Key(list[h]) # k
    BY DEF PagesInv, MapInv, Latest
  <1>4. \A h \in j + 1 .. Len(list) : Pages!Kept(list[h]) => ~Pages!Same(list[j], list[h])
    BY <1>2, <1>3, KeyIsSame
  <1> QED
    BY <1>1, <1>2, <1>3, <1>4 DEF Pages!Winner

\* An object that is kept has a place, or one that is the same has.
LEMMA KeptHasPlace ==
    ASSUME PagesInv, pc = "shown", NEW j \in DOMAIN list, Pages!Kept(list[j])
    PROVE  \E i \in DOMAIN out, w \in DOMAIN list :
               out[i] = Pages!Mapped(list[w]) /\ Pages!Kept(list[w]) /\ Pages!Same(list[j], list[w])
                   /\ (Pages!Winner(j) => w = j)
  <1> DEFINE k == Pages!Key(list[j])
  <1>1. next = Len(list) /\ DOMAIN list = 1 .. Len(list) /\ Len(list) \in Nat
    BY LenProperties DEF PagesInv, MapperTyped
  <1>2. k \in DOMAIN byKey
    BY <1>1 DEF PagesInv, MapInv
  <1>3. PICK i \in DOMAIN out : out[i] = byKey[k]
    BY <1>2 DEF PagesInv, SliceInv
  <1>4. PICK w \in 1 .. next :
           /\ Pages!Kept(list[w]) /\ Pages!Key(list[w]) = k /\ byKey[k] = Pages!Mapped(list[w])
           /\ \A h \in w + 1 .. next : Pages!Kept(list[h]) => Pages!Key(list[h]) # k
    BY <1>2 DEF PagesInv, MapInv, Latest
  <1>5. Pages!Same(list[j], list[w])
    BY <1>4, KeyIsSame
  <1>6. ASSUME Pages!Winner(j) PROVE w = j
    <2>1. ~(w < j)
      BY <1>1, <1>4
    <2>2. ~(j < w)
      BY <1>1, <1>4, <1>5, <1>6 DEF Pages!Winner
    <2> QED
      BY <1>1, <1>4, <2>1, <2>2
  <1> QED
    BY <1>1, <1>3, <1>4, <1>5, <1>6

\* Every object that is kept is shown once, as a whole, and kubectl prints the same, for lists
\* of any length (mappers.go, storage.go, marketplace.ts).
THEOREM EachOnce == PagesSpec => []ShowsEachOnce
  <1>1. PagesInv => ShowsEachOnce
    <2> SUFFICES ASSUME PagesInv, pc = "shown"
                 PROVE  /\ {shown[i] : i \in DOMAIN shown} =
                               {Pages!Shown(list[i]) : i \in {j \in DOMAIN list : Pages!Winner(j)}}
                        /\ \A i, j \in DOMAIN out : Pages!Same(out[i], out[j]) => i = j
                        /\ \A i \in DOMAIN out :
                               rows[i] = [c \in DOMAIN Pages!Columns |-> Pages!Cell(Pages!Columns[c], out[i])]
      BY DEF ShowsEachOnce, Pages!ShowsEachOnce
    <2>1. DOMAIN shown = DOMAIN out /\ \A i \in DOMAIN out : shown[i] = Pages!Read(out[i])
      BY DEF PagesInv, ShownInv
    <2>2. ASSUME NEW i \in DOMAIN shown
          PROVE  \E j \in DOMAIN list : Pages!Winner(j) /\ shown[i] = Pages!Shown(list[j])
      BY <2>1, <2>2, PlaceHasWinner, ReadMapped
    <2>3. ASSUME NEW j \in DOMAIN list, Pages!Winner(j)
          PROVE  \E i \in DOMAIN shown : shown[i] = Pages!Shown(list[j])
      <3>1. PICK i \in DOMAIN out : out[i] = Pages!Mapped(list[j])
        BY <2>3, KeptHasPlace DEF Pages!Winner
      <3> QED
        BY <2>1, <3>1, ReadMapped
    <2>4. {shown[i] : i \in DOMAIN shown} =
              {Pages!Shown(list[i]) : i \in {j \in DOMAIN list : Pages!Winner(j)}}
      BY <2>2, <2>3
    <2>5. \A i, j \in DOMAIN out : Pages!Same(out[i], out[j]) => i = j
      BY KeyIsSame DEF PagesInv, SliceInv
    <2>6. ASSUME NEW i \in DOMAIN out
          PROVE  rows[i] = [c \in DOMAIN Pages!Columns |-> Pages!Cell(Pages!Columns[c], out[i])]
      <3>1. PICK j \in DOMAIN list : out[i] = Pages!Mapped(list[j])
        BY PlaceHasWinner
      <3>2. rows[i] = Pages!Row(Pages!API(out[i]))
        BY DEF PagesInv, ShownInv
      <3> QED
        BY <3>1, <3>2, Cells DEF PagesInv, MapperTyped
    <2> QED
      BY <2>4, <2>5, <2>6
  <1> QED
    BY <1>1, PagesInvariance, PTL

\* Objects a user could be shown have a place in an order of numbers.
LEMMA CandidatesCompare ==
    ASSUME PagesInv, NEW o \in Pages!Candidates
    PROVE  /\ o.path \in Nat /\ (kind = "exports" => o.name \in Nat)
           /\ \E j \in DOMAIN list : o = list[j] /\ Pages!Kept(list[j])
  <1>1. PICK j \in DOMAIN list : o = list[j] /\ Pages!Kept(list[j])
    BY DEF Pages!Candidates
  <1>2. o \in Pages!Lists
    BY <1>1, LenProperties DEF PagesInv, MapperTyped
  <1> QED
    BY <1>1, <1>2, Strings DEF Pages!Lists, Pages!LogicalCluster, Pages!APIExport,
                      Pages!Empty, PagesInv, MapperTyped

\* The mapper sorts as the property orders.
LEMMA BeforeIsPrecedes ==
    ASSUME NEW o, NEW p
    PROVE  Pages!Before(Pages!Mapped(o), Pages!Mapped(p)) <=> Pages!Precedes(o, p)
  BY DEF Pages!Before, Pages!Precedes, Pages!Mapped, Pages!Workspace, Pages!Export

\* The order of the shards and of the mapper's map is not visible: an object's place is the
\* number of those that precede it (the sort.Slice of mappers.go).
THEOREM OrderUnseen == PagesSpec => []OrderOfShardsUnseen
  <1>1. PagesInv => OrderOfShardsUnseen
    <2> SUFFICES ASSUME PagesInv, pc = "shown",
                        \A o, p \in Pages!Candidates :
                            o # p => ~Pages!Same(o, p) /\ (Pages!Precedes(o, p) \/ Pages!Precedes(p, o)),
                        NEW o \in Pages!Candidates
                 PROVE  shown[Pages!Cardinality({p \in Pages!Candidates : Pages!Precedes(p, o)}) + 1]
                            = Pages!Shown(o)
      BY DEF OrderOfShardsUnseen, Pages!OrderOfShardsUnseen
    <2> DEFINE S == {p \in Pages!Candidates : Pages!Precedes(p, o)}
    <2>1. ASSUME NEW p \in Pages!Candidates PROVE \E i \in DOMAIN out : out[i] = Pages!Mapped(p)
      <3>1. PICK j \in DOMAIN list : p = list[j] /\ Pages!Kept(list[j])
        BY <2>1, CandidatesCompare
      <3>2. PICK i \in DOMAIN out, w \in DOMAIN list :
                   out[i] = Pages!Mapped(list[w]) /\ Pages!Kept(list[w]) /\ Pages!Same(list[j], list[w])
        BY <3>1, KeptHasPlace
      <3>3. list[w] \in Pages!Candidates
        BY <3>2 DEF Pages!Candidates
      <3> QED
        BY <2>1, <3>1, <3>2, <3>3
    <2>2. ASSUME NEW i \in DOMAIN out PROVE \E p \in Pages!Candidates : out[i] = Pages!Mapped(p)
      BY <2>2, PlaceHasWinner DEF Pages!Winner, Pages!Candidates
    <2>3. PICK m \in DOMAIN out : out[m] = Pages!Mapped(o)
      BY <2>1
    <2>4. PICK n \in Nat : DOMAIN out = 1 .. n
      BY DEF PagesInv, SliceInv
    <2> DEFINE g == [i \in 1 .. m - 1 |-> CHOOSE p \in Pages!Candidates : out[i] = Pages!Mapped(p)]
    <2>5. ASSUME NEW i \in 1 .. m - 1 PROVE g[i] \in Pages!Candidates /\ out[i] = Pages!Mapped(g[i])
      BY <2>2, <2>3, <2>4, <2>5
    <2>6. ASSUME NEW i \in 1 .. m - 1 PROVE g[i] \in S
      <3>1. g[i] # o
        <4>1. i \in DOMAIN out /\ i # m
          BY <2>3, <2>4
        <4> QED
          BY <2>3, <2>5, <4>1 DEF PagesInv, SliceInv
      <3>2. ~Pages!Before(out[m], out[i])
        BY <2>3, <2>4 DEF PagesInv, Sorted
      <3>3. ~Pages!Precedes(o, g[i])
        BY <2>3, <2>5, <3>2, BeforeIsPrecedes
      <3> QED
        BY <2>5, <3>1, <3>3
    <2>7. ASSUME NEW p \in S PROVE \E i \in 1 .. m - 1 : g[i] = p
      <3>1. PICK i \in DOMAIN out : out[i] = Pages!Mapped(p)
        BY <2>1
      <3>2. p # o /\ ~Pages!Precedes(o, p)
        BY CandidatesCompare DEF Pages!Precedes
      <3>3. i # m
        BY <2>3, <3>1, <3>2, KeyOfMapped, KeyIsSame
      <3>4. ~(m < i)
        BY <2>3, <2>4, <3>1, BeforeIsPrecedes DEF PagesInv, Sorted
      <3>5. i \in 1 .. m - 1
        BY <2>3, <2>4, <3>3, <3>4
      <3>6. Pages!Mapped(g[i]) = Pages!Mapped(p) /\ g[i] \in Pages!Candidates
        BY <2>5, <3>1, <3>5
      <3>7. g[i] = p
        BY <3>6, KeyOfMapped, KeyIsSame
      <3> QED
        BY <3>5, <3>7
    <2>8. ASSUME NEW i \in 1 .. m - 1, NEW j \in 1 .. m - 1, g[i] = g[j] PROVE i = j
      <3>1. out[i] = out[j] /\ i \in DOMAIN out /\ j \in DOMAIN out
        BY <2>3, <2>4, <2>5, <2>8
      <3> QED
        BY <3>1 DEF PagesInv, SliceInv
    <2> HIDE DEF g, S
    <2>9. g \in Bijection(1 .. m - 1, S)
      <3>1. g \in [1 .. m - 1 -> S]
        BY <2>6 DEF g
      <3> QED
        BY <2>7, <2>8, <3>1 DEF Bijection, Injection, Surjection, IsInjective
    <2>10. m \in Nat /\ m >= 1
      BY <2>3, <2>4
    <2>11. Cardinality(S) = m - 1
      <3>1. IsFiniteSet(1 .. m - 1) /\ Cardinality(1 .. m - 1) = m - 1
        <4> DEFINE k == m - 1
        <4>1. k \in Nat
          BY <2>10
        <4> HIDE DEF k
        <4>2. IsFiniteSet(1 .. k) /\ Cardinality(1 .. k) = k
          BY <4>1, FS_Interval
        <4> QED
          BY <4>2 DEF k
      <3>2. ExistsBijection(1 .. m - 1, S)
        BY <2>9 DEF ExistsBijection
      <3> QED
        BY <3>1, <3>2, FS_Bijection
    <2>12. shown[m] = Pages!Shown(o)
      BY <2>3, ReadMapped DEF PagesInv, ShownInv
    <2>13. Cardinality(S) + 1 = m
      BY <2>10, <2>11
    <2> QED
      BY <2>12, <2>13, SameCardinality DEF S
  <1> QED
    BY <1>1, PagesInvariance, PTL
=============================================================================
