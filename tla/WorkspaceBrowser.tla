-------------------------- MODULE WorkspaceBrowser --------------------------
(***************************************************************************)
(* What views/WorkspaceBrowser.vue lists: the resources of a workspace and *)
(* the objects of the selected one (loadResources, pick), with             *)
(* discoverResources and listResource of api/kube.ts.  Requests are        *)
(* answered late, in any order or with an error, and none is abandoned     *)
(* when the path or the selection changes.                                 *)
(***************************************************************************)
EXTENDS FiniteSets

CONSTANTS
    Path, Resource,
    Loader, Picker,   \* calls of loadResources and pick that may be under way at once
    None

VARIABLES
    path,      \* props.path
    resources, selected, objects, loadingResources, loadingObjects, error,
    load,      \* for each loader, the path it discovers, "picking", or None
    picks,     \* for each picker, the path and resource it lists and the loader that waits, or None
    stale      \* the answer applied last was for another path or another selection

refs == <<resources, selected, objects, loadingResources, loadingObjects, error>>
vars == <<path, refs, load, picks, stale>>

Lists   == [path : Path, resource : Resource]
Empty   == [path |-> None, resource |-> None]     \* no objects
Pick    == [path : Path, resource : Resource, by : Loader \cup {None}]

TypeOK ==
    /\ path \in Path
    /\ resources \subseteq Resource /\ selected \in Resource \cup {None}
    /\ objects \in Lists \cup {Empty}
    /\ {loadingResources, loadingObjects, error, stale} \subseteq BOOLEAN
    /\ load \in [Loader -> Path \cup {"picking", None}]
    /\ picks \in [Picker -> Pick \cup {None}]
    /\ \A l \in Loader : load[l] = "picking" <=> \E k \in Picker : picks[k] # None /\ picks[k].by = l

Free(k) == picks[k] = None

\* loadResources up to its first await.
Begin(l, p) ==
    /\ load[l] = None
    /\ load' = [load EXCEPT ![l] = p]
    /\ loadingResources' = TRUE /\ error' = FALSE

\* onMounted(loadResources)
Init ==
    /\ path \in Path
    /\ resources = {} /\ selected = None /\ objects = Empty
    /\ loadingResources = TRUE /\ loadingObjects = FALSE /\ error = FALSE
    /\ \E l \in Loader : load = [m \in Loader |-> IF m = l THEN path ELSE None]
    /\ picks = [k \in Picker |-> None] /\ stale = FALSE

\* watch(() => props.path, loadResources)
ChangePath(l) ==
    /\ path' \in Path \ {path} /\ Begin(l, path')
    /\ UNCHANGED <<resources, selected, objects, loadingObjects, picks, stale>>

\* bind and unbind refresh the list.
Refresh(l) ==
    /\ Begin(l, path)
    /\ UNCHANGED <<path, resources, selected, objects, loadingObjects, picks, stale>>

\* pick up to its await, for a click (by None) or for a loader.
StartPick(k, r, by) ==
    /\ Free(k)
    /\ picks' = [picks EXCEPT ![k] = [path |-> path, resource |-> r, by |-> by]]
    /\ selected' = r /\ loadingObjects' = TRUE /\ error' = FALSE

Click(k) ==
    /\ \E r \in resources : StartPick(k, r, None)
    /\ UNCHANGED <<path, resources, objects, loadingResources, load, stale>>

\* Fault: the selection is kept, whatever has been discovered.
KeptAlways(found) == selected # None

\* The selection is still there.
Kept(found) == selected \in found

\* discoverResources answers: what is served changes as APIs are bound, and a group whose
\* list fails is left out, so anything may be found.
Discovered(l) ==
    /\ load[l] \in Path
    /\ \E found \in SUBSET Resource :
        /\ resources' = found
        /\ IF Kept(found)
           THEN /\ \E k \in Picker : StartPick(k, selected, l)
                /\ load' = [load EXCEPT ![l] = "picking"]
                /\ UNCHANGED <<objects, loadingResources>>
           ELSE /\ selected' = None
                /\ objects' = IF selected = None THEN objects ELSE Empty
                /\ load' = [load EXCEPT ![l] = None] /\ loadingResources' = FALSE
                /\ UNCHANGED <<picks, loadingObjects, error>>
    /\ stale' = (load[l] # path)
    /\ UNCHANGED path

\* The list of the groups fails.
DiscoverFails(l) ==
    /\ load[l] \in Path
    /\ load' = [load EXCEPT ![l] = None] /\ loadingResources' = FALSE /\ error' = TRUE
    /\ UNCHANGED <<path, resources, selected, objects, loadingObjects, picks, stale>>

\* Fault: the flag is put back only when all went well.
EndPickForOK(k) ==
    /\ picks' = [picks EXCEPT ![k] = None]
    /\ loadingObjects' = (loadingObjects /\ error')
    /\ load' = [l \in Loader |-> IF l = picks[k].by THEN None ELSE load[l]]
    /\ loadingResources' = (loadingResources /\ picks[k].by = None)

\* The finally of pick, and that of the loader that waits for it.
EndPick(k) ==
    /\ picks' = [picks EXCEPT ![k] = None]
    /\ loadingObjects' = FALSE
    /\ load' = [l \in Loader |-> IF l = picks[k].by THEN None ELSE load[l]]
    /\ loadingResources' = (loadingResources /\ picks[k].by = None)

Listed(k) ==
    /\ ~Free(k)
    /\ objects' = [path |-> picks[k].path, resource |-> picks[k].resource]
    /\ stale' = (objects' # [path |-> path, resource |-> selected])
    /\ error' = error
    /\ EndPick(k)
    /\ UNCHANGED <<path, resources, selected>>

\* Fault: what was listed before stays.
ListFailsQuietly(k) ==
    /\ ~Free(k)
    /\ objects' = objects /\ error' = FALSE /\ stale' = FALSE
    /\ EndPick(k)
    /\ UNCHANGED <<path, resources, selected>>

ListFails(k) ==
    /\ ~Free(k)
    /\ objects' = Empty /\ error' = TRUE /\ stale' = FALSE
    /\ EndPick(k)
    /\ UNCHANGED <<path, resources, selected>>

LoadAnswered(l) == Discovered(l) \/ DiscoverFails(l)
PickAnswered(k) == Listed(k) \/ ListFails(k)

Next ==
    \/ \E l \in Loader : ChangePath(l) \/ Refresh(l) \/ LoadAnswered(l)
    \/ \E k \in Picker : Click(k) \/ PickAnswered(k)

Spec == Init /\ [][Next]_vars

\* Requests are answered, one way or the other.
Fairness == (\A l \in Loader : WF_vars(LoadAnswered(l))) /\ (\A k \in Picker : WF_vars(PickAnswered(k)))

FairSpec == Spec /\ Fairness

-----------------------------------------------------------------------------
(* Properties.                                                             *)

\* "Keep the current selection if it still exists after a refresh": whatever loads and
\* clicks cross each other, the selection is one of the resources listed beside it.
SelectedIsListed == selected # None => selected \in resources

\* Once every request is answered, the objects shown are those of the selection in this
\* workspace, unless an error is shown or the last answer was a late one for something
\* else: only a crossing of answers can put objects under another heading.
ShowsTheSelection ==
    (\A l \in Loader : load[l] = None) /\ (\A k \in Picker : Free(k)) /\ ~error /\ ~stale /\ selected # None
        => objects \in {Empty, [path |-> path, resource |-> selected]}

\* "Loading..." does not stay, whatever fails and however requests overlap.
SpinnersStop == []<>~loadingResources /\ []<>~loadingObjects
=============================================================================
