------------------------------ MODULE BindPanel ------------------------------
(***************************************************************************)
(* The bind panel of views/WorkspaceBrowser.vue: openBind, refreshBindings,*)
(* bind and unbind, with the calls of api/kube.ts they wait for.  kcp works*)
(* on a binding after it has answered; requests fail, with their effect or *)
(* without; polls give up; and the path may change while all this goes on. *)
(* Bindings are named after their exports, whose names differ here.        *)
(***************************************************************************)
EXTENDS FiniteSets

CONSTANTS Path, Export, Call, None

VARIABLES
    kcp,       \* for each workspace and export, how far its binding is
    path,      \* props.path
    showBind, canBind, binding, bindMsg, bindError,
    bindings,  \* the exports that have a binding, as listed last ...
    from,      \* ... and the workspace they were listed from
    call       \* calls of openBind, bind and unbind under way

panel == <<showBind, canBind, binding, bindMsg, bindError, bindings, from>>
vars  == <<kcp, path, panel, call>>

At == {"review", "send", "wait", "reload", "refresh"}

TypeOK ==
    /\ kcp \in [Path -> [Export -> {"none", "binding", "bound", "deleting"}]]
    /\ path \in Path /\ from \in Path \cup {None}
    /\ {showBind, bindError} \subseteq BOOLEAN /\ canBind \in {"null", "yes", "no"}
    /\ bindMsg \in {"", "waiting", "bound", "phase", "unbound"}
    /\ binding \in Export \cup {None} /\ bindings \subseteq Export
    /\ call \in [Call -> {None} \cup [do : {"open", "bind", "unbind"}, exp : Export \cup {None}, path : Path, at : At]]
    /\ \A c \in Call : call[c] # None =>
           (call[c].exp = None <=> call[c].do = "open") /\ (call[c].do = "open" => call[c].at \in {"review", "refresh"})

Init ==
    /\ kcp \in [Path -> [Export -> {"none", "bound"}]] /\ path \in Path
    /\ showBind = FALSE /\ canBind = "null" /\ binding = None /\ bindMsg = "" /\ bindError = FALSE
    /\ bindings = {} /\ from = None /\ call = [c \in Call |-> None]

BoundName(e)  == e \in bindings
Busy(c, do, at) == call[c] # None /\ call[c].do = do /\ call[c].at = at

\* A call goes on to a request that reads props.path.
GoOn(c, at) == call' = [call EXCEPT ![c].at = at, ![c].path = path]

\* The beginning of openBind, bind and unbind.
Start(c, do, e) ==
    /\ call[c] = None
    /\ call' = [call EXCEPT ![c] = [do |-> do, exp |-> e, path |-> path,
                                    at |-> IF do = "open" THEN "review" ELSE "send"]]
    /\ bindMsg' = "" /\ bindError' = FALSE

\* openBind; that it may fetch the exports first is left out.
OpenBind(c) ==
    /\ Start(c, "open", None)
    /\ showBind' = TRUE
    /\ UNCHANGED <<kcp, path, canBind, binding, bindings, from>>

\* canCreateAPIBinding; a failure counts as a no.
Reviewed(c) ==
    /\ Busy(c, "open", "review")
    /\ canBind' \in {"yes", "no"} /\ GoOn(c, "refresh")
    /\ UNCHANGED <<kcp, path, showBind, binding, bindMsg, bindError, bindings, from>>

\* refreshBindings: the list as it was at some time, or nothing after an error.
Refreshed(c) ==
    /\ call[c] # None /\ call[c].at = "refresh"
    /\ bindings' \in SUBSET Export /\ from' = call[c].path
    /\ call' = [call EXCEPT ![c] = None]
    /\ UNCHANGED <<kcp, path, showBind, canBind, binding, bindMsg, bindError>>

Close ==
    /\ showBind /\ showBind' = FALSE
    /\ UNCHANGED <<kcp, path, canBind, binding, bindMsg, bindError, bindings, from, call>>

ChangePath ==
    /\ path' \in Path \ {path}
    /\ UNCHANGED <<kcp, panel, call>>

\* A click on the one button of an export's row.
Click(c, e) ==
    /\ showBind /\ canBind # "no" /\ binding # e
    /\ Start(c, IF BoundName(e) THEN "unbind" ELSE "bind", e)
    /\ binding' = e
    /\ UNCHANGED <<kcp, path, showBind, canBind, bindings, from>>

\* What kcp makes of a POST or DELETE.
Serves(c) ==
    LET p == call[c].path  e == call[c].exp IN
    /\ IF call[c].do = "bind" THEN kcp[p][e] = "none" ELSE kcp[p][e] # "none"
    /\ kcp' = [kcp EXCEPT ![p][e] = IF call[c].do = "bind" THEN "binding" ELSE "deleting"]

Sending(c) == call[c] # None /\ call[c].at = "send"

Sent(c) ==
    /\ Sending(c) /\ Serves(c)
    /\ bindMsg' = "waiting" /\ GoOn(c, "wait")
    /\ bindings' = IF call[c].do = "unbind" THEN bindings \ {call[c].exp} ELSE bindings
    /\ UNCHANGED <<path, showBind, canBind, binding, bindError, from>>

\* Fault: the slot is put back only after a success.
FinallyForOK(c) == binding' = (IF bindError' THEN binding ELSE None) /\ GoOn(c, "refresh")

\* The finally of bind and unbind, up to its await.
Finally(c) == binding' = None /\ GoOn(c, "refresh")

\* Refused, or lost on the way there or back.
SendFails(c) ==
    /\ Sending(c) /\ (Serves(c) \/ kcp' = kcp)
    /\ bindError' = TRUE /\ Finally(c)
    /\ UNCHANGED <<path, showBind, canBind, bindMsg, bindings, from>>

Waiting(c) == call[c] # None /\ call[c].at = "wait"

\* Whether the binding is where the poll wants it.
Wanted(c) == kcp[call[c].path][call[c].exp] = IF call[c].do = "bind" THEN "bound" ELSE "none"

Waited(c) ==
    /\ Waiting(c) /\ Wanted(c)
    /\ bindMsg' = (IF call[c].do = "bind" THEN "bound" ELSE "unbound")
    /\ GoOn(c, "reload")
    /\ UNCHANGED <<kcp, path, showBind, canBind, binding, bindError, bindings, from>>

\* Fault: an unbind polls until the binding is gone.
GivesUpBinding(c) ==
    /\ Busy(c, "bind", "wait")
    /\ bindMsg' = "phase" /\ Finally(c)
    /\ UNCHANGED <<kcp, path, showBind, canBind, bindError, bindings, from>>

\* The deadline passes.  bind says how far the binding is; unbind goes on as if it were gone.
GivesUp(c) ==
    \/ /\ Busy(c, "bind", "wait")
       /\ bindMsg' = "phase" /\ bindError' = bindError /\ Finally(c)
       /\ UNCHANGED <<kcp, path, showBind, canBind, bindings, from>>
    \/ /\ Busy(c, "unbind", "wait")
       /\ bindMsg' = "unbound" /\ GoOn(c, "reload")
       /\ UNCHANGED <<kcp, path, showBind, canBind, binding, bindError, bindings, from>>

\* Fault: a poll that fails is nobody's business.
WaitFailsQuietly(c) ==
    /\ Waiting(c)
    /\ bindError' = bindError /\ Finally(c)
    /\ UNCHANGED <<kcp, path, showBind, canBind, bindMsg, bindings, from>>

WaitFails(c) ==
    /\ Waiting(c)
    /\ bindError' = TRUE /\ Finally(c)
    /\ UNCHANGED <<kcp, path, showBind, canBind, bindMsg, bindings, from>>

\* loadResources returns, which catches its errors.
Reloaded(c) ==
    /\ call[c] # None /\ call[c].at = "reload"
    /\ bindError' = bindError /\ Finally(c)
    /\ UNCHANGED <<kcp, path, showBind, canBind, bindMsg, bindings, from>>

\* kcp works on a binding, or somebody else deletes it.
KcpStep(p, e) ==
    /\ \E now \in {<<"binding", "bound">>, <<"bound", "deleting">>, <<"deleting", "none">>} :
           kcp[p][e] = now[1] /\ kcp' = [kcp EXCEPT ![p][e] = now[2]]
    /\ UNCHANGED <<path, panel, call>>

Goes(c) ==
    \/ Reviewed(c) \/ Refreshed(c) \/ Sent(c) \/ SendFails(c)
    \/ Waited(c) \/ GivesUp(c) \/ WaitFails(c) \/ Reloaded(c)

Next ==
    \/ \E c \in Call : OpenBind(c) \/ Goes(c) \/ \E e \in Export : Click(c, e)
    \/ Close \/ ChangePath
    \/ \E p \in Path, e \in Export : KcpStep(p, e)

Spec == Init /\ [][Next]_vars

\* Requests are answered or fail, and polls end: a poll that finds what it wants, that
\* fails, or whose deadline passes.  Nothing is assumed of what kcp does to a binding,
\* nor that polls fail.
Fairness ==
    \A c \in Call :
        /\ WF_vars(Reviewed(c)) /\ WF_vars(Refreshed(c)) /\ WF_vars(Reloaded(c))
        /\ WF_vars(Sent(c) \/ SendFails(c)) /\ WF_vars(Waited(c) \/ GivesUp(c))

FairSpec == Spec /\ Fairness

-----------------------------------------------------------------------------
(* Properties.                                                             *)

\* An export's button is disabled as busy only while a call for that export is before
\* its end, though all share one slot and a later click takes it over.
BusyMeansInFlight ==
    binding # None => \E c \in Call : call[c] # None /\ call[c].exp = binding /\ call[c].at # "refresh"

\* "Binding..." or "Unbinding..." is not the last word: when all calls have ended, the
\* message says how, or an error is shown, whichever calls overlapped.
SaysHowItEnded ==
    (\A c \in Call : call[c] = None) /\ bindMsg = "waiting" => bindError

\* No button stays busy, also when kcp never finishes a binding or its removal.
ButtonsRecover == []<>(binding = None)

\* The comment of unbind: "then wait for kcp to finish removing it before refreshing the
\* resource list".
UnbindWaits ==
    [][\A c \in Call : Busy(c, "unbind", "wait") /\ Busy(c, "unbind", "reload")' => Wanted(c)]_vars
=============================================================================
