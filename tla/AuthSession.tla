----------------------------- MODULE AuthSession -----------------------------
(***************************************************************************)
(* The session of the user interface: ui/src/stores/auth.ts with the       *)
(* UserManager behind auth/oidc.ts, the 401s of api/client.ts, the guard   *)
(* of router/index.ts, the start in main.ts, Login.vue and Callback.vue.   *)
(*                                                                         *)
(* JavaScript runs one callback at a time; what is awaited (a renewal in   *)
(* the hidden frame, the redirect to the issuer, the sign-out) may take    *)
(* long, come in any order, or fail.  A redirect that succeeds ends the    *)
(* page and all it waited for; a page that loads starts from local storage.*)
(***************************************************************************)
EXTENDS Integers, FiniteSets

CONSTANTS
    Handler,      \* requests, each with the handleUnauthorized its 401 leads to
    MaxRedirects  \* bound on redirects that are on their way at once

VARIABLES
    page,      \* the app is loaded, or the browser is at the issuer
    view,      \* what the router shows
    user,      \* the store's user
    stored,    \* the user in local storage
    due,       \* the user's token has expired, its event has not been handled
    reauth,    \* reauthenticating
    calls,     \* requests that are not answered yet
    renewing,  \* handlers that await signinSilent
    forced,    \* redirects of forceReauth that are on their way
    login,     \* a redirect of the login view is on its way
    logout,    \* where a sign-out is
    status,    \* the last answer of a request
    stuck      \* a forced redirect has failed since the page was loaded

inFlight == <<calls, renewing, forced, login, logout, status>>
vars     == <<page, view, user, stored, due, reauth, inFlight, stuck>>

TypeOK ==
    /\ page \in {"app", "issuer"} /\ view \in {"login", "protected"}
    /\ user \in {"none", "live", "expired"} /\ stored \in {"none", "live", "expired"}
    /\ {due, reauth, login, stuck} \subseteq BOOLEAN
    /\ due => user = "expired" \/ stored = "expired"
    /\ calls \subseteq Handler /\ renewing \subseteq Handler \ calls
    /\ forced \in 0 .. MaxRedirects
    /\ logout \in {"no", "removing", "leaving"} /\ status \in {"none", "ok", "401"}

\* The router's guard and its way to the login view.
Shown(u) == IF u = "live" THEN "protected" ELSE "login"

Init ==
    /\ page = "app" /\ stored \in {"none", "live", "expired"} /\ user = stored
    /\ view = Shown(user) /\ due = (stored = "expired")
    /\ reauth = FALSE /\ calls = {} /\ renewing = {} /\ forced = 0 /\ login = FALSE /\ logout = "no" /\ status = "none" /\ stuck = FALSE

-----------------------------------------------------------------------------
(* The store.                                                              *)

\* Fault: the guard is looked at, and not set.
ForceUnguarded == reauth' = reauth /\ user' = "none" /\ forced' = forced + 1

\* forceReauth
ForceReauth ==
    IF reauth THEN UNCHANGED <<reauth, user, forced>>
    ELSE reauth' = TRUE /\ user' = "none" /\ forced' = forced + 1

\* A view asks kcp or the marketplace, or the manager starts a renewal on its own, which
\* ends like a request.
Send(h) ==
    /\ page = "app" /\ view = "protected" /\ h \notin calls \cup renewing
    /\ calls' = calls \cup {h}
    /\ UNCHANGED <<page, view, user, stored, due, reauth, renewing, forced, login, logout, stuck, status>>

Answered(h) ==
    /\ page = "app" /\ h \in calls
    /\ calls' = calls \ {h}
    /\ status' = "ok"
    /\ UNCHANGED <<page, view, user, stored, due, reauth, renewing, forced, login, logout, stuck>>

\* Fault: the guard is set when the renewal begins, and never again reset.
UnauthorizedOnce(h) ==
    /\ page = "app" /\ h \in calls
    /\ calls' = calls \ {h}
    /\ renewing' = IF reauth THEN renewing ELSE renewing \cup {h}
    /\ reauth' = TRUE
    /\ status' = "401"
    /\ UNCHANGED <<page, view, user, stored, due, forced, login, logout, stuck>>

\* Fault: there is no silent renewal.
UnauthorizedAtOnce(h) ==
    /\ page = "app" /\ h \in calls /\ forced < MaxRedirects
    /\ calls' = calls \ {h}
    /\ ForceReauth
    /\ status' = "401"
    /\ UNCHANGED <<page, view, stored, due, renewing, login, logout, stuck>>

\* handleUnauthorized: the answer is a 401, perhaps about a token that has been renewed
\* since, or the automatic renewal has failed.
Unauthorized(h) ==
    /\ page = "app" /\ h \in calls
    /\ calls' = calls \ {h}
    /\ renewing' = IF reauth THEN renewing ELSE renewing \cup {h}
    /\ status' = "401"
    /\ UNCHANGED <<page, view, user, stored, due, reauth, forced, login, logout, stuck>>

\* The manager stores the renewed user and tells the store, which may be late.
RenewOK(h) ==
    /\ page = "app" /\ h \in renewing
    /\ user' = "live" /\ stored' = "live" /\ due' = FALSE
    /\ renewing' = renewing \ {h}
    /\ UNCHANGED <<page, view, reauth, forced, login, logout, stuck, calls, status>>

\* Fault: a renewal that fails is left at that.
RenewGivesUp(h) ==
    /\ page = "app" /\ h \in renewing /\ forced < MaxRedirects
    /\ renewing' = renewing \ {h}
    /\ UNCHANGED <<page, view, user, stored, due, reauth, forced, login, logout, stuck, calls, status>>

\* It throws, or there is nobody, or somebody whose token has expired.
RenewFails(h) ==
    /\ page = "app" /\ h \in renewing /\ forced < MaxRedirects
    /\ renewing' = renewing \ {h}
    /\ ForceReauth
    /\ UNCHANGED <<page, view, stored, due, login, logout, stuck, calls, status>>

Expire ==
    /\ page = "app" /\ stored = "live"
    /\ stored' = "expired" /\ user' = (IF user = "live" THEN "expired" ELSE user) /\ due' = TRUE
    /\ UNCHANGED <<page, view, reauth, inFlight, stuck>>

\* addAccessTokenExpired
Expired ==
    /\ page = "app" /\ due /\ forced < MaxRedirects
    /\ due' = FALSE
    /\ ForceReauth
    /\ UNCHANGED <<page, view, stored, renewing, login, logout, stuck, calls, status>>

\* logout: signoutRedirect removes the user, of which the store is told, and leaves, or
\* fails, as with an issuer that has no place to sign out.
Logout ==
    /\ page = "app" /\ logout = "no" /\ user # "none"
    /\ user' = "none" /\ logout' = "removing"
    /\ UNCHANGED <<page, view, stored, due, reauth, renewing, forced, login, stuck, calls, status>>

LogoutRemoves ==
    /\ page = "app" /\ logout = "removing"
    /\ stored' = "none" /\ user' = "none" /\ due' = FALSE /\ logout' = "leaving"
    /\ UNCHANGED <<page, view, reauth, renewing, forced, login, stuck, calls, status>>

LogoutFails ==
    /\ page = "app" /\ logout # "no"
    /\ logout' = "no"
    /\ UNCHANGED <<page, view, user, stored, due, reauth, renewing, forced, login, stuck, calls, status>>

-----------------------------------------------------------------------------
(* Redirects, page loads and the router.                                   *)

\* The button of the login view.
SignIn ==
    /\ page = "app" /\ view = "login" /\ ~login
    /\ login' = TRUE
    /\ UNCHANGED <<page, view, user, stored, due, reauth, renewing, forced, logout, stuck, calls, status>>

SignInFails ==
    /\ page = "app" /\ login
    /\ login' = FALSE
    /\ UNCHANGED <<page, view, user, stored, due, reauth, renewing, forced, logout, stuck, calls, status>>

\* Nobody catches it, and reauthenticating stays.
RedirectFails ==
    /\ page = "app" /\ forced > 0
    /\ forced' = forced - 1 /\ stuck' = TRUE
    /\ UNCHANGED <<page, view, user, stored, due, reauth, renewing, login, logout, calls, status>>

Redirect ==
    /\ page = "app" /\ (forced > 0 \/ login \/ logout = "leaving")
    /\ page' = "issuer"
    /\ user' = "none" /\ due' = FALSE /\ reauth' = FALSE /\ stuck' = FALSE
    /\ calls' = {} /\ renewing' = {} /\ forced' = 0 /\ login' = FALSE /\ logout' = "no"
    /\ status' = "none"
    /\ UNCHANGED <<view, stored>>

\* The page loads: main.ts restores what is stored, the guard decides.
Load(u) ==
    /\ page = "issuer"
    /\ page' = "app" /\ stored' = u /\ user' = u /\ due' = (u = "expired")
    /\ view' = Shown(u)
    /\ UNCHANGED <<reauth, inFlight, stuck>>

\* The user comes back without having signed in, or Callback.vue completes the sign-in.
ComeBack == Load(stored) \/ Load("live")

\* The guard restores the user before it decides.
Navigate ==
    /\ page = "app"
    /\ LET u == IF user = "live" THEN user ELSE stored
       IN  user' = u /\ view' = Shown(u) /\ due' = (due \/ (user # "live" /\ stored = "expired"))
    /\ UNCHANGED <<page, stored, reauth, inFlight, stuck>>

Renewed(h) == RenewOK(h) \/ RenewFails(h)
Redirected == RedirectFails \/ Redirect

Next ==
    \/ \E h \in Handler : Send(h) \/ Answered(h) \/ Unauthorized(h) \/ Renewed(h)
    \/ Redirected
    \/ Expire \/ Expired
    \/ Logout \/ LogoutRemoves \/ LogoutFails
    \/ SignIn \/ SignInFails \/ ComeBack \/ Navigate

Spec == Init /\ [][Next]_vars

\* Promises settle, one way or the other, and timers fire.
Fairness == (\A h \in Handler : WF_vars(Renewed(h))) /\ WF_vars(Redirected) /\ WF_vars(Expired)

FairSpec == Spec /\ Fairness

-----------------------------------------------------------------------------
(* Properties.                                                             *)

\* "Guards against firing multiple re-auth redirects at once": whatever 401s, renewals
\* that fail and expiries come together, one forced redirect is on its way at most.
OneForcedRedirect == forced <= 1

\* "try a silent renew first, and only fall back to a full re-login if that fails": a
\* live session is given up by a forced redirect only after a renewal failed.
SilentFirst ==
    [][user = "live" /\ forced' > forced => \E h \in renewing : h \notin renewing']_vars

\* A 401 is never just dropped: afterwards a renewal or a redirect is on its way, unless
\* a forced redirect has failed on this page.
UnauthorizedIsHandled ==
    [][calls' \subseteq calls /\ calls' # calls /\ status' = "401" => renewing' # {} \/ forced' > 0 \/ stuck]_vars

\* A renewal that fails ends at the issuer, unless another one or a navigation saves the
\* session, or the redirect fails.
SessionRecovers ==
    (renewing # {}) ~> (user = "live" \/ page = "issuer" \/ stuck)
=============================================================================
