----------------------------- MODULE ServedTypes -----------------------------
(***************************************************************************)
(* What the API server says about what it serves: the API types (apis/     *)
(* marketplace/v1alpha1), their registration in the scheme, the storages   *)
(* of main.go, and the generated OpenAPI definitions (pkg/generated/       *)
(* openapi), which have to agree although each is written or generated on  *)
(* its own.  apiserver.New installs the storages, then a specification is  *)
(* built from the types of all routes; where a kind is not in the scheme   *)
(* or a type has no definition, the server does not start.                 *)
(*                                                                         *)
(* External: the installer and the builder of the specification, which     *)
(* follows the dependencies of a definition depth first and builds each    *)
(* type once.  The generated definitions that no route of this server      *)
(* leads to are left out.                                                  *)
(***************************************************************************)
EXTENDS Sequences

VARIABLES
    pending,   \* storages that are not installed yet
    todo,      \* types of routes that are not built yet
    stack,     \* definitions being built, each with the dependencies left to follow
    built,     \* definitions of the specification
    failed     \* the server does not start

vars == <<pending, todo, stack, built, failed>>

-----------------------------------------------------------------------------
(* Schemas.  A property has a type, or is an array of that type.           *)

Primitive == {"string", "integer", "boolean", "map", "any"}

Each(fields, type) == [f \in fields |-> [type |-> type, many |-> FALSE]]
Many(field, type)  == [f \in {field} |-> [type |-> type, many |-> TRUE]]

\* The properties of several parts of a type.
Together(parts) ==
    [f \in UNION {DOMAIN p : p \in parts} |-> (CHOOSE p \in parts : f \in DOMAIN p)[f]]

\* An object's properties, the required ones, and the dependencies of its definition.
Object(parts, required, deps) == [props |-> Together(parts), required |-> required, deps |-> deps]

Refs(d) == {d.props[f].type : f \in DOMAIN d.props} \ Primitive

KindFields == Each({"kind", "apiVersion"}, "string")

-----------------------------------------------------------------------------
(* The API types, as Go encodes them.  Required is what has no omitempty.  *)

GoAccessibleWorkspace ==
    Object({KindFields, Each({"metadata"}, "ObjectMeta"), Each({"spec"}, "AccessibleWorkspaceSpec")}, {}, {})
GoAccessibleWorkspaceSpec == Object({Each({"path", "cluster"}, "string")}, {}, {})
GoAccessibleWorkspaceList ==
    Object({KindFields, Each({"metadata"}, "ListMeta"), Many("items", "AccessibleWorkspace")}, {"items"}, {})

GoBindableAPIExport ==
    Object({KindFields, Each({"metadata"}, "ObjectMeta"), Each({"spec"}, "BindableAPIExportSpec")}, {}, {})
GoBindableAPIExportSpec ==
    Object({Each({"path", "cluster", "exportName", "identityHash"}, "string"),
            Many("resources", "BindableResource"), Many("permissionClaims", "BindablePermissionClaim")}, {}, {})
GoBindableResource == Object({Each({"group", "resource"}, "string")}, {}, {})
GoBindablePermissionClaim ==
    Object({Each({"group", "resource", "identityHash"}, "string"), Many("verbs", "string")}, {}, {})
GoBindableAPIExportList ==
    Object({KindFields, Each({"metadata"}, "ListMeta"), Many("items", "BindableAPIExport")}, {"items"}, {})

GoType == [
    AccessibleWorkspace |-> GoAccessibleWorkspace, AccessibleWorkspaceSpec |-> GoAccessibleWorkspaceSpec,
    AccessibleWorkspaceList |-> GoAccessibleWorkspaceList,
    BindableAPIExport |-> GoBindableAPIExport, BindableAPIExportSpec |-> GoBindableAPIExportSpec,
    BindableResource |-> GoBindableResource, BindablePermissionClaim |-> GoBindablePermissionClaim,
    BindableAPIExportList |-> GoBindableAPIExportList]

-----------------------------------------------------------------------------
(* The generated definitions.                                              *)

AccessibleWorkspace ==
    Object({KindFields, Each({"metadata"}, "ObjectMeta"), Each({"spec"}, "AccessibleWorkspaceSpec")}, {},
           {"AccessibleWorkspaceSpec", "ObjectMeta"})
AccessibleWorkspaceList ==
    Object({KindFields, Each({"metadata"}, "ListMeta"), Many("items", "AccessibleWorkspace")}, {"items"},
           {"AccessibleWorkspace", "ListMeta"})
AccessibleWorkspaceSpec == Object({Each({"path", "cluster"}, "string")}, {}, {})

BindableAPIExport ==
    Object({KindFields, Each({"metadata"}, "ObjectMeta"), Each({"spec"}, "BindableAPIExportSpec")}, {},
           {"BindableAPIExportSpec", "ObjectMeta"})
BindableAPIExportList ==
    Object({KindFields, Each({"metadata"}, "ListMeta"), Many("items", "BindableAPIExport")}, {"items"},
           {"BindableAPIExport", "ListMeta"})

\* Fault: generated before the type had claims.
BindableAPIExportSpecStale ==
    Object({Each({"path", "cluster", "exportName", "identityHash"}, "string"),
            Many("resources", "BindableResource")}, {}, {"BindableResource"})

BindableAPIExportSpec ==
    Object({Each({"path", "cluster", "exportName", "identityHash"}, "string"),
            Many("resources", "BindableResource"), Many("permissionClaims", "BindablePermissionClaim")}, {},
           {"BindablePermissionClaim", "BindableResource"})
BindablePermissionClaim ==
    Object({Each({"group", "resource", "identityHash"}, "string"), Many("verbs", "string")}, {}, {})
BindableResource == Object({Each({"group", "resource"}, "string")}, {}, {})

APIGroup ==
    Object({KindFields, Each({"name"}, "string"), Many("versions", "GroupVersionForDiscovery"),
            Each({"preferredVersion"}, "GroupVersionForDiscovery"),
            Many("serverAddressByClientCIDRs", "ServerAddressByClientCIDR")}, {"name", "versions"},
           {"GroupVersionForDiscovery", "ServerAddressByClientCIDR"})
APIGroupList == Object({KindFields, Many("groups", "APIGroup")}, {"groups"}, {"APIGroup"})
APIResource ==
    Object({Each({"name", "singularName", "group", "version", "kind", "storageVersionHash"}, "string"),
            Each({"namespaced"}, "boolean"),
            Many("verbs", "string"), Many("shortNames", "string"), Many("categories", "string")},
           {"name", "singularName", "namespaced", "kind", "verbs"}, {})
APIResourceList ==
    Object({KindFields, Each({"groupVersion"}, "string"), Many("resources", "APIResource")},
           {"groupVersion", "resources"}, {"APIResource"})
GroupVersionForDiscovery ==
    Object({Each({"groupVersion", "version"}, "string")}, {"groupVersion", "version"}, {})
ServerAddressByClientCIDR ==
    Object({Each({"clientCIDR", "serverAddress"}, "string")}, {"clientCIDR", "serverAddress"}, {})

ListMeta ==
    Object({Each({"selfLink", "resourceVersion", "continue"}, "string"), Each({"remainingItemCount"}, "integer"),
            Each({"shardInfo"}, "ShardInfo")}, {}, {"ShardInfo"})
ShardInfo == Object({Each({"selector"}, "string")}, {"selector"}, {})

ObjectMetaParts ==
    {Each({"name", "generateName", "namespace", "selfLink", "uid", "resourceVersion"}, "string"),
     Each({"generation", "deletionGracePeriodSeconds"}, "integer"),
     Each({"creationTimestamp", "deletionTimestamp"}, "Time"), Each({"labels", "annotations"}, "map"),
     Many("ownerReferences", "OwnerReference"), Many("finalizers", "string"),
     Many("managedFields", "ManagedFieldsEntry")}

\* Fault: a type that is referred to is not among the dependencies.
ObjectMetaUnlisted == Object(ObjectMetaParts, {}, {"ManagedFieldsEntry", "Time"})

ObjectMeta == Object(ObjectMetaParts, {}, {"ManagedFieldsEntry", "OwnerReference", "Time"})
ManagedFieldsEntry ==
    Object({Each({"manager", "operation", "apiVersion", "fieldsType", "subresource"}, "string"),
            Each({"time"}, "Time"), Each({"fieldsV1"}, "FieldsV1")}, {}, {"FieldsV1", "Time"})
OwnerReference ==
    Object({Each({"apiVersion", "kind", "name", "uid"}, "string"),
            Each({"controller", "blockOwnerDeletion"}, "boolean")}, {"apiVersion", "kind", "name", "uid"}, {})
FieldsV1 == Object({}, {}, {})
Time     == Object({}, {}, {})
Info ==
    LET Always == {"major", "minor", "gitVersion", "gitCommit", "gitTreeState", "buildDate", "goVersion",
                   "compiler", "platform"}
    IN  Object({Each(Always \cup {"emulationMajor", "emulationMinor", "minCompatibilityMajor",
                                  "minCompatibilityMinor"}, "string")}, Always, {})

Definition == [
    AccessibleWorkspace |-> AccessibleWorkspace, AccessibleWorkspaceList |-> AccessibleWorkspaceList,
    AccessibleWorkspaceSpec |-> AccessibleWorkspaceSpec, BindableAPIExport |-> BindableAPIExport,
    BindableAPIExportList |-> BindableAPIExportList, BindableAPIExportSpec |-> BindableAPIExportSpec,
    BindablePermissionClaim |-> BindablePermissionClaim, BindableResource |-> BindableResource,
    APIGroup |-> APIGroup, APIGroupList |-> APIGroupList, APIResource |-> APIResource,
    APIResourceList |-> APIResourceList, GroupVersionForDiscovery |-> GroupVersionForDiscovery,
    ServerAddressByClientCIDR |-> ServerAddressByClientCIDR, ListMeta |-> ListMeta, ShardInfo |-> ShardInfo,
    ObjectMeta |-> ObjectMeta, ManagedFieldsEntry |-> ManagedFieldsEntry, OwnerReference |-> OwnerReference,
    FieldsV1 |-> FieldsV1, Time |-> Time, Info |-> Info]

-----------------------------------------------------------------------------
(* The scheme, the storages and the routes.                                *)

\* Fault: a list type is not registered.
KnownSingle == {"AccessibleWorkspace", "AccessibleWorkspaceList", "BindableAPIExport"}

\* addKnownTypes
Known == {"AccessibleWorkspace", "AccessibleWorkspaceList", "BindableAPIExport", "BindableAPIExportList"}

\* storages: what New and NewList of each return.
Storages == [
    accessibleworkspaces |-> [new |-> "AccessibleWorkspace", list |-> "AccessibleWorkspaceList"],
    bindableapiexports   |-> [new |-> "BindableAPIExport", list |-> "BindableAPIExportList"]]

\* What the routes return that are there besides the storages'.
OwnRoutes == {"APIGroupList", "APIGroup", "APIResourceList", "Info"}

Init ==
    /\ pending = DOMAIN Storages /\ todo = OwnRoutes
    /\ stack = <<>> /\ built = {} /\ failed = FALSE

\* InstallAPIGroup asks the scheme for the kinds of a storage's objects.
Install(s) ==
    /\ ~failed /\ s \in pending
    /\ pending' = pending \ {s}
    /\ IF {Storages[s].new, Storages[s].list} \subseteq Known
       THEN todo' = todo \cup {Storages[s].list} /\ UNCHANGED failed
       ELSE failed' = TRUE /\ UNCHANGED todo
    /\ UNCHANGED <<stack, built>>

\* A type is built once; a type without a definition is the end.
Enter(t, rest) ==
    IF t \in built THEN stack' = rest /\ UNCHANGED <<built, failed>>
    ELSE IF t \in DOMAIN Definition
    THEN built' = built \cup {t} /\ stack' = <<Definition[t].deps>> \o rest /\ UNCHANGED failed
    ELSE failed' = TRUE /\ UNCHANGED <<stack, built>>

Build(t) ==
    /\ ~failed /\ pending = {} /\ stack = <<>> /\ t \in todo
    /\ todo' = todo \ {t}
    /\ Enter(t, <<>>)
    /\ UNCHANGED pending

Follow(t) ==
    /\ ~failed /\ stack # <<>> /\ t \in Head(stack)
    /\ Enter(t, <<Head(stack) \ {t}>> \o Tail(stack))
    /\ UNCHANGED <<pending, todo>>

Return ==
    /\ ~failed /\ stack # <<>> /\ Head(stack) = {}
    /\ stack' = Tail(stack)
    /\ UNCHANGED <<pending, todo, built, failed>>

Built == ~failed /\ pending = {} /\ todo = {} /\ stack = <<>>

Types == DOMAIN Definition

Next ==
    \/ \E s \in DOMAIN Storages : Install(s)
    \/ \E t \in Types : Build(t) \/ Follow(t)
    \/ Return

Spec == Init /\ [][Next]_vars

-----------------------------------------------------------------------------
(* Properties.                                                             *)

\* The server starts: every kind is in the scheme, every type that is reached has a
\* definition, in whatever order routes and dependencies are followed.
Starts == ~failed

\* The specification is closed: each definition in it refers to definitions that are in
\* it as well, since what a schema refers to is what its dependencies lead to.
NothingDangles == Built => \A t \in built : Refs(Definition[t]) \subseteq built

\* What the specification says of the marketplace's types is what Go encodes.
SchemasMatchTypes ==
    \A t \in built \cap DOMAIN GoType :
        /\ Definition[t].props = GoType[t].props
        /\ Definition[t].required = GoType[t].required
=============================================================================
