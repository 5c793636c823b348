-------------------------- MODULE UserInterfaceMC --------------------------
(***************************************************************************)
(* The parts of the user interface that wait for something: the session,   *)
(* the lists of the workspace browser and its bind panel.  They share      *)
(* nothing but the path of the workspace, so one run checks each of them   *)
(* on its own: part says which one moves, and the others stay as they      *)
(* begin.  The bind panel is taken twice, once with several exports and    *)
(* once with a path that changes.                                          *)
(***************************************************************************)
EXTENDS Integers, FiniteSets

CONSTANTS
    Handler, MaxRedirects,   \* as in AuthSession
    Path, None,
    Resource, Loader, Picker,  \* as in WorkspaceBrowser
    Export, Call             \* as in BindPanel

ASSUME Bound == MaxRedirects \in Nat \ {0, 1}
ASSUME Apart == None \notin Path \cup Resource \cup Loader \cup Export
ASSUME Places == "picking" \notin Path \cup {None}
ASSUME Rows == Export # {}

VARIABLES
    part,
    page, view, user, stored, due, reauth, calls, renewing, forced, login, logout, status, stuck,  \* AuthSession
    path,
    resources, selected, objects, loadingResources, loadingObjects, error, load, picks, stale,     \* WorkspaceBrowser
    kcp, showBind, canBind, binding, bindMsg, bindError, bindings, from, call                      \* BindPanel

sessionVars == <<page, view, user, stored, due, reauth, calls, renewing, forced, login, logout, status, stuck>>
browserVars == <<resources, selected, objects, loadingResources, loadingObjects, error, load, picks, stale>>
panelVars   == <<kcp, showBind, canBind, binding, bindMsg, bindError, bindings, from, call>>
vars        == <<part, path, sessionVars, browserVars, panelVars>>

Home == CHOOSE p \in Path : TRUE

Session == INSTANCE AuthSession
Browser == INSTANCE WorkspaceBrowser
Exports == INSTANCE BindPanel WITH Path <- {Home}
Paths   == INSTANCE BindPanel WITH Export <- {CHOOSE e \in Export : TRUE}

\* null is no object.
ASSUME Records ==
    /\ None \notin Browser!Pick
    /\ None \notin [do : {"open", "bind", "unbind"}, exp : Export \cup {None}, path : Path, at : Exports!At]

Part == {"session", "browser", "exports", "paths"}

\* What stands still begins in one state only.
Init ==
    /\ part \in Part
    /\ Session!Init /\ (part = "session" \/ stored = "none")
    /\ Browser!Init
    /\ path = Home
    /\ part = "browser" \/ load[CHOOSE l \in Loader : TRUE] # None
    /\ IF part = "paths" THEN Paths!Init ELSE Exports!Init
    /\ part \in {"exports", "paths"} \/ kcp = [p \in {Home} |-> [e \in Export |-> "none"]]

Next ==
    /\ UNCHANGED part
    /\ \/ part = "session" /\ Session!Next /\ UNCHANGED <<path, browserVars, panelVars>>
       \/ part = "browser" /\ Browser!Next /\ UNCHANGED <<sessionVars, panelVars>>
       \/ part = "exports" /\ Exports!Next /\ UNCHANGED <<sessionVars, browserVars>>
       \/ part = "paths" /\ Paths!Next /\ UNCHANGED <<sessionVars, browserVars>>

Spec == Init /\ [][Next]_vars

\* The fairness of all parts; of those that stand still only the browser waits for
\* anything, and fairness of Exports is that of Paths.
FairSpec ==
    /\ Spec
    /\ Session!Fairness
    /\ Exports!Fairness
    /\ \A l \in Loader : WF_vars(part = "browser" /\ Browser!LoadAnswered(l) /\ UNCHANGED <<part, sessionVars, panelVars>>)
    /\ \A k \in Picker : WF_vars(part = "browser" /\ Browser!PickAnswered(k) /\ UNCHANGED <<part, sessionVars, panelVars>>)

-----------------------------------------------------------------------------
(* Properties, each of the part that moves.                                *)

\* Of several 401s, failed renewals and expiries at once, one redirects.
OneForcedRedirect == Session!OneForcedRedirect

\* A live session is given up only after a silent renewal failed.
SilentFirst == Session!SilentFirst

\* After a 401 a renewal or a redirect is on its way, or has failed on this page.
UnauthorizedIsHandled == Session!UnauthorizedIsHandled

\* A renewal ends with a live session or at the issuer, unless the redirect fails.
SessionRecovers == Session!SessionRecovers

\* The selection is one of the resources listed beside it, and only a crossing of answers
\* or an error can put objects of something else under it.
ShowsTheSelection ==
    /\ Browser!SelectedIsListed
    /\ part = "browser" => Browser!ShowsTheSelection

\* An export's button is busy only while a call for that export is under way; when all
\* calls have ended, the message says how, or an error is shown.
PanelIsHonest == Exports!BusyMeansInFlight /\ Exports!SaysHowItEnded

\* "Loading..." does not stay, and no button of the panel stays busy.
NothingStaysBusy ==
    /\ []<>(part # "browser" \/ ~loadingResources)
    /\ []<>(part # "browser" \/ ~loadingObjects)
    /\ Exports!ButtonsRecover
=============================================================================
