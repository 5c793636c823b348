------------------------------ MODULE Listing -------------------------------
(***************************************************************************)
(* The way of an object from kcp to the user's screen: mapWorkspaces and   *)
(* mapAPIExports (pkg/datasource/mappers.go), the API types the list       *)
(* handlers of cmd/marketplace-vws make of the result, their JSON, and     *)
(* what ui/src/api/marketplace.ts reads from it.  Which items a user is    *)
(* allowed to see is ListHandler's business.                               *)
(*                                                                         *)
(* The objects of all shards come as one slice, in an order nobody fixes   *)
(* and possibly several times; maps are iterated in any order.             *)
(***************************************************************************)
EXTENDS Integers, Sequences, SequencesExt

CONSTANTS
    Cluster, Path, Name,  \* positive numbers, which stand for strings in their order
    Body,                 \* identity hash, resources and claims of an APIExport
    MaxLen                \* how many objects the shards have; ListingMC has the assumptions

\* The empty string: an annotation that is missing, a field that is not set.
Empty == 0

LogicalCluster == [path : Path \cup {Empty}, cluster : Cluster \cup {Empty}, ready : BOOLEAN]
APIExport      == [path : Path \cup {Empty}, cluster : Cluster \cup {Empty}, name : Name, body : Body]

VARIABLES
    kind,    \* which of the two resources is listed
    list,    \* the objects of the shards
    next,    \* how many of them the mapper has seen
    byKey,   \* the mapper's map
    out,     \* the mapper's slice
    shown,   \* what the user interface reads from the answer
    rows,    \* what kubectl prints
    pc

vars == <<kind, list, next, byKey, out, shown, rows, pc>>

-----------------------------------------------------------------------------
(* Conversions.                                                            *)

\* What mapWorkspaces does not skip, and what it makes of it.
IsWorkspace(o) == o.path # Empty /\ o.cluster # Empty /\ o.ready
Workspace(o)   == [path |-> o.path, cluster |-> o.cluster]

\* The same for mapAPIExports, which takes an export as soon as it has a path.
IsExport(o) == o.path # Empty /\ o.name # Empty
Export(o)   == [path |-> o.path, cluster |-> o.cluster, name |-> o.name, body |-> o.body]

Kept(o)   == IF kind = "workspaces" THEN IsWorkspace(o) ELSE IsExport(o)
Mapped(o) == IF kind = "workspaces" THEN Workspace(o) ELSE Export(o)

\* Fault: exports are told apart by their name.
KeyByName(o) == IF kind = "workspaces" THEN o.cluster ELSE o.name

\* Workspaces are told apart by their cluster, exports by path and name.
Key(o) == IF kind = "workspaces" THEN o.cluster ELSE <<o.path, o.name>>

\* Fault: exports are sorted by path only.
BeforeByPath(x, y) == x.path < y.path

\* The orders of sort.Slice.
Before(x, y) ==
    \/ x.path < y.path
    \/ kind = "exports" /\ x.path = y.path /\ x.name < y.name

\* The API types: list items are named after the cluster, or after the export.
AccessibleWorkspace(w) == [metaName |-> w.cluster, path |-> w.path, cluster |-> w.cluster]
BindableAPIExport(a) ==
    [metaName |-> a.name, path |-> a.path, cluster |-> a.cluster, exportName |-> a.name, body |-> a.body]

\* Every field is omitempty: an empty string is not in the JSON, and the user
\* interface takes the next alternative of x ?? y for it.
Or(x, y) == IF x = Empty THEN y ELSE x

ReadWorkspace(j) == [cluster |-> Or(j.cluster, j.metaName), path |-> j.path]
ReadExport(j) ==
    [cluster |-> j.cluster, path |-> j.path, exportName |-> Or(j.exportName, j.metaName), body |-> j.body]

API(x)  == IF kind = "workspaces" THEN AccessibleWorkspace(x) ELSE BindableAPIExport(x)
Read(x) == IF kind = "workspaces" THEN ReadWorkspace(API(x)) ELSE ReadExport(API(x))

\* The columns of kubectl get, and the cells of a row, which are listed apart from them.
Columns == IF kind = "workspaces" THEN <<"Name", "Path", "Cluster">> ELSE <<"Name", "Path", "Export", "Cluster">>

\* Fault: both kinds have the cells of the first.
RowSame(o) == <<o.metaName, o.path, o.cluster>>

Row(o) ==
    IF kind = "workspaces" THEN <<o.metaName, o.path, o.cluster>> ELSE <<o.metaName, o.path, o.exportName, o.cluster>>

-----------------------------------------------------------------------------
(* The mappers.                                                            *)

Lists == IF kind = "workspaces" THEN LogicalCluster ELSE APIExport

TypeOK ==
    /\ kind \in {"workspaces", "exports"}
    /\ Len(list) <= MaxLen /\ list \in Seq(Lists)
    /\ next \in 0 .. Len(list)
    /\ \A k \in DOMAIN byKey : \E i \in 1 .. next : byKey[k] = Mapped(list[i])
    /\ \A i \in DOMAIN out : out[i] \in {byKey[k] : k \in DOMAIN byKey}
    /\ Len(shown) \in {0, Len(out)} /\ Len(rows) = Len(shown)
    /\ pc \in {"scan", "sort", "show", "shown"}

Init ==
    /\ kind \in {"workspaces", "exports"}
    /\ list \in UNION {[1 .. n -> Lists] : n \in 0 .. MaxLen}
    /\ next = 0 /\ byKey = <<>> /\ out = <<>> /\ shown = <<>> /\ rows = <<>> /\ pc = "scan"

\* m[k] = v
Assign(m, k, v) == [x \in DOMAIN m \cup {k} |-> IF x = k THEN v ELSE m[x]]

\* One object of the list: a later one with the same key replaces it.
Scan ==
    /\ pc = "scan" /\ next < Len(list)
    /\ next' = next + 1
    /\ LET o == list[next + 1]
       IN  byKey' = IF Kept(o) THEN Assign(byKey, Key(o), Mapped(o)) ELSE byKey
    /\ UNCHANGED <<kind, list, out, shown, rows, pc>>

\* The map is iterated in any order.
Iterate ==
    /\ pc = "scan" /\ next = Len(list)
    /\ \E order \in SetToSeqs(DOMAIN byKey) : out' = [i \in DOMAIN order |-> byKey[order[i]]]
    /\ pc' = "sort"
    /\ UNCHANGED <<kind, list, next, byKey, shown, rows>>

\* sort.Slice is not stable: what compares equal may end up in either order.
Sort ==
    /\ pc = "sort"
    /\ \E p \in SetToSeqs(DOMAIN out) :
           /\ \A i, j \in DOMAIN p : i < j => ~Before(out[p[j]], out[p[i]])
           /\ out' = [i \in DOMAIN p |-> out[p[i]]]
    /\ pc' = "show"
    /\ UNCHANGED <<kind, list, next, byKey, shown, rows>>

Show ==
    /\ pc = "show"
    /\ shown' = [i \in DOMAIN out |-> Read(out[i])]
    /\ rows' = [i \in DOMAIN out |-> Row(API(out[i]))]
    /\ pc' = "shown"
    /\ UNCHANGED <<kind, list, next, byKey, out>>

Next == Scan \/ Iterate \/ Sort \/ Show

Spec == Init /\ [][Next]_vars

-----------------------------------------------------------------------------
(* Properties.                                                             *)

\* The same logical cluster, or the same export.
Same(o, p) ==
    IF kind = "workspaces" THEN o.cluster = p.cluster ELSE o.path = p.path /\ o.name = p.name

\* The last object of the list that is the same.
Winner(i) == Kept(list[i]) /\ \A j \in i + 1 .. Len(list) : Kept(list[j]) => ~Same(list[i], list[j])

Shown(o) ==
    IF kind = "workspaces" THEN [cluster |-> o.cluster, path |-> o.path]
    ELSE [cluster |-> o.cluster, path |-> o.path, exportName |-> o.name, body |-> o.body]

\* What belongs in a column.
Cell(column, o) ==
    CASE column = "Name" -> IF kind = "workspaces" THEN o.cluster ELSE o.name
      [] column = "Export" -> o.name
      [] column = "Path" -> o.path
      [] column = "Cluster" -> o.cluster

\* What is shown is what kcp has: every ready workspace and every export with a path,
\* once, and each of them an object some shard listed as a whole, never the cluster of
\* one with the name or the claims of another; nothing besides.  kubectl prints the
\* same, row for row, under the right headers.
ShowsEachOnce ==
    pc = "shown" =>
        /\ {shown[i] : i \in DOMAIN shown} = {Shown(list[i]) : i \in {j \in DOMAIN list : Winner(j)}}
        /\ \A i, j \in DOMAIN out : Same(out[i], out[j]) => i = j
        /\ \A i \in DOMAIN out :
               rows[i] = [c \in DOMAIN Columns |-> Cell(Columns[c], out[i])]

\* The objects a user could be shown, whatever their order in the list.
Candidates == {list[i] : i \in {j \in DOMAIN list : Kept(list[j])}}

\* By path, exports of one workspace by name.
Precedes(o, p) == o.path < p.path \/ (kind = "exports" /\ o.path = p.path /\ o.name < p.name)

\* As long as no two of them have one key, and no two workspaces one path, neither the
\* order of the shards nor that of a map is visible: the n-th row is the object that
\* has n - 1 others before it.
OrderOfShardsUnseen ==
    pc = "shown" /\ (\A o, p \in Candidates : o # p => ~Same(o, p) /\ (Precedes(o, p) \/ Precedes(p, o))) =>
        \A o \in Candidates :
            shown[Cardinality({p \in Candidates : Precedes(p, o)}) + 1] = Shown(o)
=============================================================================
