------------------------ MODULE UserInterfaceProofs ------------------------
(***************************************************************************)
(* Proofs about the user interface, for any number of requests, redirects, *)
(* paths, resources, exports and calls that overlap.                       *)
(*                                                                         *)
(* Each part has an invariant of its own, inductive under the steps of its *)
(* module.  The two instances of BindPanel are taken as one, Panel, whose  *)
(* steps theirs are; the last section puts the parts together.             *)
(***************************************************************************)
EXTENDS UserInterfaceMC, TLAPS

\* Both instances take steps of this one.
Panel == INSTANCE BindPanel

-----------------------------------------------------------------------------
(* The session.                                                            *)

\* The store has the user that is stored, or none; a token is due only if it is stored.
SameUser ==
    /\ user \in {"none", stored}
    /\ due => stored = "expired"

\* One forced redirect is on its way at most, and only while reauthenticating is set;
\* which is set only while one is on its way, or after one has failed.
Guarded ==
    /\ forced \in 0 .. 1
    /\ forced > 0 => reauth
    /\ reauth => forced > 0 \/ stuck

\* The steps that SilentFirst and UnauthorizedIsHandled allow.
AfterRenewal ==
    user = "live" /\ forced' > forced => \E h \in renewing : h \notin renewing'
NotDropped ==
    calls' \subseteq calls /\ calls' # calls /\ status' = "401" => renewing' # {} \/ forced' > 0 \/ stuck

SessionInv == Session!TypeOK /\ SameUser /\ Guarded

\* Types are kept; a token is due only while one has expired.
LEMMA SessionTyped ==
    ASSUME Session!TypeOK, Guarded, SameUser', [Session!Next]_Session!vars
    PROVE  Session!TypeOK'
  <1> USE Bound DEF Session!TypeOK, Guarded, Session!inFlight
  <1>1. ASSUME NEW h \in Handler, Session!Send(h) PROVE Session!TypeOK'
    BY <1>1 DEF Session!Send
  <1>2. ASSUME NEW h \in Handler, Session!Answered(h) PROVE Session!TypeOK'
    BY <1>2 DEF Session!Answered
  <1>3. ASSUME NEW h \in Handler, Session!Unauthorized(h) PROVE Session!TypeOK'
    BY <1>3 DEF Session!Unauthorized
  <1>4. ASSUME NEW h \in Handler, Session!RenewOK(h) PROVE Session!TypeOK'
    BY <1>4 DEF Session!RenewOK
  <1>5. ASSUME NEW h \in Handler, Session!RenewFails(h) PROVE Session!TypeOK'
    <2>1. due' \in BOOLEAN /\ reauth' \in BOOLEAN /\ login' \in BOOLEAN /\ stuck' \in BOOLEAN
      BY <1>5 DEF Session!RenewFails, Session!ForceReauth
    <2>2. forced' \in 0 .. MaxRedirects
      BY <1>5 DEF Session!RenewFails, Session!ForceReauth
    <2>3. due' => user' = "expired" \/ stored' = "expired"
      BY DEF SameUser
    <2> QED
      BY <1>5, <2>1, <2>2, <2>3 DEF Session!RenewFails, Session!ForceReauth
  <1>6. CASE Session!RedirectFails
    BY <1>6 DEF Session!RedirectFails
  <1>7. CASE Session!Redirect
    <2>1. due' \in BOOLEAN /\ reauth' \in BOOLEAN /\ login' \in BOOLEAN /\ stuck' \in BOOLEAN
      BY <1>7 DEF Session!Redirect
    <2>2. forced' \in 0 .. MaxRedirects
      BY <1>7 DEF Session!Redirect
    <2>3. due' => user' = "expired" \/ stored' = "expired"
      BY DEF SameUser
    <2> QED
      BY <1>7, <2>1, <2>2, <2>3 DEF Session!Redirect
  <1>8. CASE Session!Expire
    BY <1>8 DEF Session!Expire
  <1>9. CASE Session!Expired
    <2>1. due' \in BOOLEAN /\ reauth' \in BOOLEAN /\ login' \in BOOLEAN /\ stuck' \in BOOLEAN
      BY <1>9 DEF Session!Expired, Session!ForceReauth
    <2>2. forced' \in 0 .. MaxRedirects
      BY <1>9 DEF Session!Expired, Session!ForceReauth
    <2>3. due' => user' = "expired" \/ stored' = "expired"
      BY DEF SameUser
    <2> QED
      BY <1>9, <2>1, <2>2, <2>3 DEF Session!Expired, Session!ForceReauth
  <1>10. CASE Session!Logout
    <2>1. due' \in BOOLEAN /\ reauth' \in BOOLEAN /\ login' \in BOOLEAN /\ stuck' \in BOOLEAN
      BY <1>10 DEF Session!Logout
    <2>2. forced' \in 0 .. MaxRedirects
      BY <1>10 DEF Session!Logout
    <2>3. due' => user' = "expired" \/ stored' = "expired"
      BY DEF SameUser
    <2> QED
      BY <1>10, <2>1, <2>2, <2>3 DEF Session!Logout
  <1>11. CASE Session!LogoutRemoves
    BY <1>11 DEF Session!LogoutRemoves
  <1>12. CASE Session!LogoutFails
    BY <1>12 DEF Session!LogoutFails
  <1>13. CASE Session!SignIn
    BY <1>13 DEF Session!SignIn
  <1>14. CASE Session!SignInFails
    BY <1>14 DEF Session!SignInFails
  <1>15. CASE Session!ComeBack
    BY <1>15 DEF Session!ComeBack, Session!Load, Session!Shown
  <1>16. CASE Session!Navigate
    <2>1. due' \in BOOLEAN /\ reauth' \in BOOLEAN /\ login' \in BOOLEAN /\ stuck' \in BOOLEAN
      BY <1>16 DEF Session!Navigate, Session!Shown
    <2>2. forced' \in 0 .. MaxRedirects
      BY <1>16 DEF Session!Navigate, Session!Shown
    <2>3. due' => user' = "expired" \/ stored' = "expired"
      BY DEF SameUser
    <2> QED
      BY <1>16, <2>1, <2>2, <2>3 DEF Session!Navigate, Session!Shown
  <1>17. CASE UNCHANGED Session!vars
    BY <1>17 DEF Session!vars
  <1> QED
    BY <1>1, <1>2, <1>3, <1>4, <1>5, <1>6, <1>7, <1>8, <1>9, <1>10, <1>11, <1>12, <1>13, <1>14,
       <1>15, <1>16, <1>17
    DEF Session!Next, Session!Renewed, Session!Redirected

\* The store follows local storage.
LEMMA SameUserNext ==
    ASSUME Session!TypeOK, SameUser, [Session!Next]_Session!vars
    PROVE  SameUser'
  <1> USE DEF Session!TypeOK, SameUser, Session!inFlight
  <1>1. ASSUME NEW h \in Handler, Session!Send(h) PROVE SameUser'
    BY <1>1 DEF Session!Send
  <1>2. ASSUME NEW h \in Handler, Session!Answered(h) PROVE SameUser'
    BY <1>2 DEF Session!Answered
  <1>3. ASSUME NEW h \in Handler, Session!Unauthorized(h) PROVE SameUser'
    BY <1>3 DEF Session!Unauthorized
  <1>4. ASSUME NEW h \in Handler, Session!RenewOK(h) PROVE SameUser'
    BY <1>4 DEF Session!RenewOK
  <1>5. ASSUME NEW h \in Handler, Session!RenewFails(h) PROVE SameUser'
    BY <1>5 DEF Session!RenewFails, Session!ForceReauth
  <1>6. CASE Session!RedirectFails
    BY <1>6 DEF Session!RedirectFails
  <1>7. CASE Session!Redirect
    BY <1>7 DEF Session!Redirect
  <1>8. CASE Session!Expire
    BY <1>8 DEF Session!Expire
  <1>9. CASE Session!Expired
    BY <1>9 DEF Session!Expired, Session!ForceReauth
  <1>10. CASE Session!Logout
    BY <1>10 DEF Session!Logout
  <1>11. CASE Session!LogoutRemoves
    BY <1>11 DEF Session!LogoutRemoves
  <1>12. CASE Session!LogoutFails
    BY <1>12 DEF Session!LogoutFails
  <1>13. CASE Session!SignIn
    BY <1>13 DEF Session!SignIn
  <1>14. CASE Session!SignInFails
    BY <1>14 DEF Session!SignInFails
  <1>15. CASE Session!ComeBack
    BY <1>15 DEF Session!ComeBack, Session!Load, Session!Shown
  <1>16. CASE Session!Navigate
    BY <1>16 DEF Session!Navigate, Session!Shown
  <1>17. CASE UNCHANGED Session!vars
    BY <1>17 DEF Session!vars
  <1> QED
    BY <1>1, <1>2, <1>3, <1>4, <1>5, <1>6, <1>7, <1>8, <1>9, <1>10, <1>11, <1>12, <1>13, <1>14,
       <1>15, <1>16, <1>17
    DEF Session!Next, Session!Renewed, Session!Redirected

\* forceReauth looks at its guard and sets it, and only a redirect or a failure undoes it.
LEMMA GuardedNext ==
    ASSUME Session!TypeOK, Guarded, [Session!Next]_Session!vars
    PROVE  Guarded'
  <1> USE DEF Session!TypeOK, Guarded, Session!inFlight
  <1>1. ASSUME NEW h \in Handler, Session!Send(h) PROVE Guarded'
    BY <1>1 DEF Session!Send
  <1>2. ASSUME NEW h \in Handler, Session!Answered(h) PROVE Guarded'
    BY <1>2 DEF Session!Answered
  <1>3. ASSUME NEW h \in Handler, Session!Unauthorized(h) PROVE Guarded'
    BY <1>3 DEF Session!Unauthorized
  <1>4. ASSUME NEW h \in Handler, Session!RenewOK(h) PROVE Guarded'
    BY <1>4 DEF Session!RenewOK
  <1>5. ASSUME NEW h \in Handler, Session!RenewFails(h) PROVE Guarded'
    BY <1>5 DEF Session!RenewFails, Session!ForceReauth
  <1>6. CASE Session!RedirectFails
    BY <1>6 DEF Session!RedirectFails
  <1>7. CASE Session!Redirect
    BY <1>7 DEF Session!Redirect
  <1>8. CASE Session!Expire
    BY <1>8 DEF Session!Expire
  <1>9. CASE Session!Expired
    BY <1>9 DEF Session!Expired, Session!ForceReauth
  <1>10. CASE Session!Logout
    BY <1>10 DEF Session!Logout
  <1>11. CASE Session!LogoutRemoves
    BY <1>11 DEF Session!LogoutRemoves
  <1>12. CASE Session!LogoutFails
    BY <1>12 DEF Session!LogoutFails
  <1>13. CASE Session!SignIn
    BY <1>13 DEF Session!SignIn
  <1>14. CASE Session!SignInFails
    BY <1>14 DEF Session!SignInFails
  <1>15. CASE Session!ComeBack
    BY <1>15 DEF Session!ComeBack, Session!Load, Session!Shown
  <1>16. CASE Session!Navigate
    BY <1>16 DEF Session!Navigate, Session!Shown
  <1>17. CASE UNCHANGED Session!vars
    BY <1>17 DEF Session!vars
  <1> QED
    BY <1>1, <1>2, <1>3, <1>4, <1>5, <1>6, <1>7, <1>8, <1>9, <1>10, <1>11, <1>12, <1>13, <1>14,
       <1>15, <1>16, <1>17
    DEF Session!Next, Session!Renewed, Session!Redirected

\* A forced redirect of a live session comes of a renewal that failed.
LEMMA GivesUpAfterRenewal ==
    ASSUME Session!TypeOK, SameUser, [Session!Next]_Session!vars
    PROVE  AfterRenewal
  <1> USE DEF AfterRenewal, Session!TypeOK, SameUser, Session!inFlight
  <1>1. ASSUME NEW h \in Handler, Session!Send(h) PROVE AfterRenewal
    BY <1>1 DEF Session!Send
  <1>2. ASSUME NEW h \in Handler, Session!Answered(h) PROVE AfterRenewal
    BY <1>2 DEF Session!Answered
  <1>3. ASSUME NEW h \in Handler, Session!Unauthorized(h) PROVE AfterRenewal
    BY <1>3 DEF Session!Unauthorized
  <1>4. ASSUME NEW h \in Handler, Session!RenewOK(h) PROVE AfterRenewal
    BY <1>4 DEF Session!RenewOK
  <1>5. ASSUME NEW h \in Handler, Session!RenewFails(h) PROVE AfterRenewal
    BY <1>5 DEF Session!RenewFails, Session!ForceReauth
  <1>6. CASE Session!RedirectFails
    BY <1>6 DEF Session!RedirectFails
  <1>7. CASE Session!Redirect
    BY <1>7 DEF Session!Redirect
  <1>8. CASE Session!Expire
    BY <1>8 DEF Session!Expire
  <1>9. CASE Session!Expired
    BY <1>9 DEF Session!Expired, Session!ForceReauth
  <1>10. CASE Session!Logout
    BY <1>10 DEF Session!Logout
  <1>11. CASE Session!LogoutRemoves
    BY <1>11 DEF Session!LogoutRemoves
  <1>12. CASE Session!LogoutFails
    BY <1>12 DEF Session!LogoutFails
  <1>13. CASE Session!SignIn
    BY <1>13 DEF Session!SignIn
  <1>14. CASE Session!SignInFails
    BY <1>14 DEF Session!SignInFails
  <1>15. CASE Session!ComeBack
    BY <1>15 DEF Session!ComeBack, Session!Load, Session!Shown
  <1>16. CASE Session!Navigate
    BY <1>16 DEF Session!Navigate, Session!Shown
  <1>17. CASE UNCHANGED Session!vars
    BY <1>17 DEF Session!vars
  <1> QED
    BY <1>1, <1>2, <1>3, <1>4, <1>5, <1>6, <1>7, <1>8, <1>9, <1>10, <1>11, <1>12, <1>13, <1>14,
       <1>15, <1>16, <1>17
    DEF Session!Next, Session!Renewed, Session!Redirected

\* A 401 starts a renewal, unless the guard is set.
LEMMA DropsNothing ==
    ASSUME Session!TypeOK, Guarded, [Session!Next]_Session!vars
    PROVE  NotDropped
  <1> USE DEF NotDropped, Session!TypeOK, Guarded, Session!inFlight
  <1>1. ASSUME NEW h \in Handler, Session!Send(h) PROVE NotDropped
    BY <1>1 DEF Session!Send
  <1>2. ASSUME NEW h \in Handler, Session!Answered(h) PROVE NotDropped
    BY <1>2 DEF Session!Answered
  <1>3. ASSUME NEW h \in Handler, Session!Unauthorized(h) PROVE NotDropped
    BY <1>3 DEF Session!Unauthorized
  <1>4. ASSUME NEW h \in Handler, Session!RenewOK(h) PROVE NotDropped
    BY <1>4 DEF Session!RenewOK
  <1>5. ASSUME NEW h \in Handler, Session!RenewFails(h) PROVE NotDropped
    BY <1>5 DEF Session!RenewFails, Session!ForceReauth
  <1>6. CASE Session!RedirectFails
    BY <1>6 DEF Session!RedirectFails
  <1>7. CASE Session!Redirect
    BY <1>7 DEF Session!Redirect
  <1>8. CASE Session!Expire
    BY <1>8 DEF Session!Expire
  <1>9. CASE Session!Expired
    BY <1>9 DEF Session!Expired, Session!ForceReauth
  <1>10. CASE Session!Logout
    BY <1>10 DEF Session!Logout
  <1>11. CASE Session!LogoutRemoves
    BY <1>11 DEF Session!LogoutRemoves
  <1>12. CASE Session!LogoutFails
    BY <1>12 DEF Session!LogoutFails
  <1>13. CASE Session!SignIn
    BY <1>13 DEF Session!SignIn
  <1>14. CASE Session!SignInFails
    BY <1>14 DEF Session!SignInFails
  <1>15. CASE Session!ComeBack
    BY <1>15 DEF Session!ComeBack, Session!Load, Session!Shown
  <1>16. CASE Session!Navigate
    BY <1>16 DEF Session!Navigate, Session!Shown
  <1>17. CASE UNCHANGED Session!vars
    BY <1>17 DEF Session!vars
  <1> QED
    BY <1>1, <1>2, <1>3, <1>4, <1>5, <1>6, <1>7, <1>8, <1>9, <1>10, <1>11, <1>12, <1>13, <1>14,
       <1>15, <1>16, <1>17
    DEF Session!Next, Session!Renewed, Session!Redirected
-----------------------------------------------------------------------------
(* The browser.                                                            *)

\* A loader waits for one pick at most.
OnePickEach ==
    \A j, k \in Picker :
        ~Browser!Free(j) /\ ~Browser!Free(k) /\ picks[j].by = picks[k].by /\ picks[j].by # None => j = k

BrowserInv == Browser!TypeOK /\ OnePickEach /\ Browser!SelectedIsListed

\* What is shown is about the part that moves: elsewhere the path changes under it.
BrowserShows == part = "browser" => Browser!ShowsTheSelection

\* Types are kept; a loader that has picked waits for its pick.
LEMMA BrowserTyped ==
    ASSUME Browser!TypeOK, OnePickEach, Browser!SelectedIsListed, [Browser!Next]_Browser!vars
    PROVE  Browser!TypeOK'
  <1> USE Apart, Places, Records DEF Browser!TypeOK, OnePickEach, Browser!SelectedIsListed,
          Browser!Lists, Browser!Empty, Browser!Pick, Browser!Free
  <1>1. ASSUME NEW l \in Loader, Browser!ChangePath(l) PROVE Browser!TypeOK'
    BY <1>1 DEF Browser!ChangePath, Browser!Begin
  <1>2. ASSUME NEW l \in Loader, Browser!Refresh(l) PROVE Browser!TypeOK'
    BY <1>2 DEF Browser!Refresh, Browser!Begin
  <1>3. ASSUME NEW l \in Loader, Browser!Discovered(l) PROVE Browser!TypeOK'
    <2>1. PICK found \in SUBSET Resource :
             /\ resources' = found
             /\ IF selected \in found
                THEN /\ \E k \in Picker : Browser!StartPick(k, selected, l)
                     /\ load' = [load EXCEPT ![l] = "picking"]
                     /\ UNCHANGED <<objects, loadingResources>>
                ELSE /\ selected' = None
                     /\ objects' = IF selected = None THEN objects ELSE Browser!Empty
                     /\ load' = [load EXCEPT ![l] = None] /\ loadingResources' = FALSE
                     /\ UNCHANGED <<picks, loadingObjects, error>>
      BY <1>3 DEF Browser!Discovered, Browser!Kept
    <2>2. load[l] \in Path /\ path' = path /\ stale' \in BOOLEAN /\ resources' \subseteq Resource
      BY <1>3, <2>1 DEF Browser!Discovered
    <2>3. CASE selected \in found
      <3>1. PICK k \in Picker : Browser!StartPick(k, selected, l)
        BY <2>1, <2>3
      <3> DEFINE p == [path |-> path, resource |-> selected, by |-> l]
      <3>2. p \in Browser!Pick /\ picks' = [picks EXCEPT ![k] = p] /\ picks[k] = None
        BY <2>1, <2>3, <3>1 DEF Browser!StartPick
      <3>3. load' = [load EXCEPT ![l] = "picking"] /\ picks' \in [Picker -> Browser!Pick \cup {None}]
        BY <2>1, <2>3, <3>2
      <3>4. p # None /\ p.by = l
        BY <3>2
      <3> HIDE DEF p
      <3>5. \A m \in Loader : load'[m] = "picking" <=> \E j \in Picker : picks'[j] # None /\ picks'[j].by = m
        BY <2>2, <3>2, <3>3, <3>4
      <3>6. /\ selected' = selected /\ objects' = objects /\ loadingResources' = loadingResources
            /\ loadingObjects' = TRUE /\ error' = FALSE
        BY <2>1, <2>3, <3>1 DEF Browser!StartPick
      <3>7. load' \in [Loader -> Path \cup {"picking", None}]
        BY <3>3
      <3> QED
        BY <2>2, <3>3, <3>5, <3>6, <3>7
    <2>4. CASE selected \notin found
      <3>1. /\ selected' = None /\ objects' \in {objects, Browser!Empty} /\ loadingResources' = FALSE
            /\ picks' = picks /\ loadingObjects' = loadingObjects /\ error' = error
        BY <2>1, <2>4
      <3>2. load' \in [Loader -> Path \cup {"picking", None}]
        BY <2>1, <2>4
      <3>3. \A m \in Loader : load'[m] = "picking" <=> load[m] = "picking"
        BY <2>1, <2>2, <2>4
      <3> QED
        BY <2>2, <3>1, <3>2, <3>3
    <2> QED
      BY <2>3, <2>4
  <1>4. ASSUME NEW l \in Loader, Browser!DiscoverFails(l) PROVE Browser!TypeOK'
    BY <1>4 DEF Browser!DiscoverFails
  <1>5. ASSUME NEW k \in Picker, Browser!Click(k) PROVE Browser!TypeOK'
    <2>1. PICK r \in resources : Browser!StartPick(k, r, None)
      BY <1>5 DEF Browser!Click
    <2> DEFINE p == [path |-> path, resource |-> r, by |-> None]
    <2>2. p \in Browser!Pick /\ picks' = [picks EXCEPT ![k] = p] /\ picks[k] = None
      BY <2>1 DEF Browser!StartPick
    <2>3. p # None /\ p.by = None
      BY <2>2
    <2> HIDE DEF p
    <2>4. \A m \in Loader : load'[m] = "picking" <=> \E j \in Picker : picks'[j] # None /\ picks'[j].by = m
      BY <1>5, <2>2, <2>3 DEF Browser!Click
    <2>5. picks' \in [Picker -> Browser!Pick \cup {None}]
      BY <2>2
    <2> QED
      BY <1>5, <2>1, <2>4, <2>5 DEF Browser!Click, Browser!StartPick
  <1>6. ASSUME NEW k \in Picker, Browser!Listed(k) PROVE Browser!TypeOK'
    BY <1>6 DEF Browser!Listed, Browser!EndPick
  <1>7. ASSUME NEW k \in Picker, Browser!ListFails(k) PROVE Browser!TypeOK'
    BY <1>7 DEF Browser!ListFails, Browser!EndPick
  <1>8. CASE UNCHANGED Browser!vars
    BY <1>8 DEF Browser!vars, Browser!refs
  <1> QED
    BY <1>1, <1>2, <1>3, <1>4, <1>5, <1>6, <1>7, <1>8
    DEF Browser!Next, Browser!LoadAnswered, Browser!PickAnswered

\* A loader picks once.
LEMMA OnePickEachNext ==
    ASSUME Browser!TypeOK, OnePickEach, [Browser!Next]_Browser!vars
    PROVE  OnePickEach'
  <1> USE Apart, Places, Records DEF Browser!TypeOK, OnePickEach, Browser!Pick, Browser!Free
  <1>1. ASSUME NEW l \in Loader, Browser!ChangePath(l) PROVE OnePickEach'
    BY <1>1 DEF Browser!ChangePath, Browser!Begin
  <1>2. ASSUME NEW l \in Loader, Browser!Refresh(l) PROVE OnePickEach'
    BY <1>2 DEF Browser!Refresh, Browser!Begin
  <1>3. ASSUME NEW l \in Loader, Browser!Discovered(l) PROVE OnePickEach'
    BY <1>3 DEF Browser!Discovered, Browser!StartPick, Browser!Kept
  <1>4. ASSUME NEW l \in Loader, Browser!DiscoverFails(l) PROVE OnePickEach'
    BY <1>4 DEF Browser!DiscoverFails
  <1>5. ASSUME NEW k \in Picker, Browser!Click(k) PROVE OnePickEach'
    BY <1>5 DEF Browser!Click, Browser!StartPick
  <1>6. ASSUME NEW k \in Picker, Browser!Listed(k) PROVE OnePickEach'
    BY <1>6 DEF Browser!Listed, Browser!EndPick
  <1>7. ASSUME NEW k \in Picker, Browser!ListFails(k) PROVE OnePickEach'
    BY <1>7 DEF Browser!ListFails, Browser!EndPick
  <1>8. CASE UNCHANGED Browser!vars
    BY <1>8 DEF Browser!vars, Browser!refs
  <1> QED
    BY <1>1, <1>2, <1>3, <1>4, <1>5, <1>6, <1>7, <1>8
    DEF Browser!Next, Browser!LoadAnswered, Browser!PickAnswered

\* A refresh keeps what it finds, and drops it otherwise.
LEMMA SelectedIsListedNext ==
    ASSUME Browser!TypeOK, Browser!SelectedIsListed, [Browser!Next]_Browser!vars
    PROVE  Browser!SelectedIsListed'
  <1> USE Apart, Places, Records DEF Browser!TypeOK, Browser!SelectedIsListed, Browser!Free
  <1>1. ASSUME NEW l \in Loader, Browser!ChangePath(l) PROVE Browser!SelectedIsListed'
    BY <1>1 DEF Browser!ChangePath, Browser!Begin
  <1>2. ASSUME NEW l \in Loader, Browser!Refresh(l) PROVE Browser!SelectedIsListed'
    BY <1>2 DEF Browser!Refresh, Browser!Begin
  <1>3. ASSUME NEW l \in Loader, Browser!Discovered(l) PROVE Browser!SelectedIsListed'
    BY <1>3 DEF Browser!Discovered, Browser!StartPick, Browser!Kept
  <1>4. ASSUME NEW l \in Loader, Browser!DiscoverFails(l) PROVE Browser!SelectedIsListed'
    BY <1>4 DEF Browser!DiscoverFails
  <1>5. ASSUME NEW k \in Picker, Browser!Click(k) PROVE Browser!SelectedIsListed'
    BY <1>5 DEF Browser!Click, Browser!StartPick
  <1>6. ASSUME NEW k \in Picker, Browser!Listed(k) PROVE Browser!SelectedIsListed'
    BY <1>6 DEF Browser!Listed, Browser!EndPick
  <1>7. ASSUME NEW k \in Picker, Browser!ListFails(k) PROVE Browser!SelectedIsListed'
    BY <1>7 DEF Browser!ListFails, Browser!EndPick
  <1>8. CASE UNCHANGED Browser!vars
    BY <1>8 DEF Browser!vars, Browser!refs
  <1> QED
    BY <1>1, <1>2, <1>3, <1>4, <1>5, <1>6, <1>7, <1>8
    DEF Browser!Next, Browser!LoadAnswered, Browser!PickAnswered

\* The answer that ends the last request is for the selection, or stale, or an error.
LEMMA ShowsNext ==
    ASSUME Browser!TypeOK, Browser!ShowsTheSelection, [Browser!Next]_Browser!vars
    PROVE  Browser!ShowsTheSelection'
  <1> USE Apart, Places, Records DEF Browser!TypeOK, Browser!ShowsTheSelection, Browser!Pick,
          Browser!Free
  <1>1. ASSUME NEW l \in Loader, Browser!ChangePath(l) PROVE Browser!ShowsTheSelection'
    BY <1>1 DEF Browser!ChangePath, Browser!Begin
  <1>2. ASSUME NEW l \in Loader, Browser!Refresh(l) PROVE Browser!ShowsTheSelection'
    BY <1>2 DEF Browser!Refresh, Browser!Begin
  <1>3. ASSUME NEW l \in Loader, Browser!Discovered(l) PROVE Browser!ShowsTheSelection'
    BY <1>3 DEF Browser!Discovered, Browser!StartPick, Browser!Kept
  <1>4. ASSUME NEW l \in Loader, Browser!DiscoverFails(l) PROVE Browser!ShowsTheSelection'
    BY <1>4 DEF Browser!DiscoverFails
  <1>5. ASSUME NEW k \in Picker, Browser!Click(k) PROVE Browser!ShowsTheSelection'
    BY <1>5 DEF Browser!Click, Browser!StartPick
  <1>6. ASSUME NEW k \in Picker, Browser!Listed(k) PROVE Browser!ShowsTheSelection'
    BY <1>6 DEF Browser!Listed, Browser!EndPick
  <1>7. ASSUME NEW k \in Picker, Browser!ListFails(k) PROVE Browser!ShowsTheSelection'
    BY <1>7 DEF Browser!ListFails, Browser!EndPick
  <1>8. CASE UNCHANGED Browser!vars
    BY <1>8 DEF Browser!vars, Browser!refs
  <1> QED
    BY <1>1, <1>2, <1>3, <1>4, <1>5, <1>6, <1>7, <1>8
    DEF Browser!Next, Browser!LoadAnswered, Browser!PickAnswered
-----------------------------------------------------------------------------
(* The bind panel.                                                         *)

CallRecord == [do : {"open", "bind", "unbind"}, exp : Export \cup {None}, path : Path, at : Panel!At]

CallsTyped ==
    /\ call \in [Call -> {None} \cup CallRecord]
    /\ binding \in Export \cup {None} /\ path \in Path
    /\ \A c \in Call : call[c] # None => (call[c].exp = None <=> call[c].do = "open")

\* "Binding..." stands only while a call polls, or next to an error.
SomebodyWaits == bindMsg = "waiting" => bindError \/ \E c \in Call : Panel!Waiting(c)

PanelInv == CallsTyped /\ Panel!BusyMeansInFlight /\ SomebodyWaits

\* A call that goes on is the call it was, elsewhere.
LEMMA GoOnKeeps ==
    ASSUME CallsTyped, NEW c \in Call, call[c] # None, NEW at \in Panel!At, Panel!GoOn(c, at)
    PROVE  /\ call' \in [Call -> {None} \cup CallRecord]
           /\ call'[c] # None /\ call'[c].do = call[c].do /\ call'[c].exp = call[c].exp /\ call'[c].at = at
           /\ \A d \in Call \ {c} : call'[d] = call[d]
  <1>1. call[c] \in CallRecord
    BY DEF CallsTyped
  <1>2. [call[c] EXCEPT !.at = at, !.path = path] \in CallRecord
    BY <1>1 DEF CallsTyped, CallRecord
  <1>3. call' = [call EXCEPT ![c] = [call[c] EXCEPT !.at = at, !.path = path]]
    BY DEF Panel!GoOn, CallsTyped
  <1>4. call'[c] = [call[c] EXCEPT !.at = at, !.path = path]
    BY <1>3 DEF CallsTyped
  <1> QED
    BY <1>1, <1>2, <1>3, <1>4, Records DEF CallsTyped, CallRecord, Panel!At, Exports!At

\* A call keeps its export.
LEMMA CallsTypedNext ==
    ASSUME CallsTyped, [Panel!Next]_Panel!vars
    PROVE  CallsTyped'
  <1> USE Apart, Records DEF CallsTyped, CallRecord, Panel!At, Exports!At, Panel!panel
  <1>1. ASSUME NEW c \in Call, Panel!OpenBind(c) PROVE CallsTyped'
    BY <1>1 DEF Panel!OpenBind, Panel!Start
  <1>2. ASSUME NEW c \in Call, NEW e \in Export, Panel!Click(c, e) PROVE CallsTyped'
    BY <1>2 DEF Panel!Click, Panel!Start
  <1>3. ASSUME NEW c \in Call, Panel!Reviewed(c) PROVE CallsTyped'
    BY <1>3 DEF Panel!Reviewed, Panel!Busy, Panel!GoOn
  <1>4. ASSUME NEW c \in Call, Panel!Refreshed(c) PROVE CallsTyped'
    BY <1>4 DEF Panel!Refreshed
  <1>5. ASSUME NEW c \in Call, Panel!Sent(c) PROVE CallsTyped'
    <2>1. call[c] # None /\ Panel!GoOn(c, "wait")
      BY <1>5 DEF Panel!Sent, Panel!Sending
    <2>2. /\ call' \in [Call -> {None} \cup CallRecord]
          /\ call'[c] # None /\ call'[c].do = call[c].do /\ call'[c].exp = call[c].exp
          /\ \A d \in Call \ {c} : call'[d] = call[d]
      BY <2>1, GoOnKeeps DEF Panel!At
    <2> QED
      BY <1>5, <2>1, <2>2 DEF Panel!Sent, Panel!Sending
  <1>6. ASSUME NEW c \in Call, Panel!SendFails(c) PROVE CallsTyped'
    <2>1. call[c] # None /\ Panel!GoOn(c, "refresh")
      BY <1>6 DEF Panel!SendFails, Panel!Sending, Panel!Finally
    <2>2. /\ call' \in [Call -> {None} \cup CallRecord]
          /\ call'[c] # None /\ call'[c].do = call[c].do /\ call'[c].exp = call[c].exp
          /\ \A d \in Call \ {c} : call'[d] = call[d]
      BY <2>1, GoOnKeeps DEF Panel!At
    <2> QED
      BY <1>6, <2>1, <2>2 DEF Panel!SendFails, Panel!Sending, Panel!Finally
  <1>7. ASSUME NEW c \in Call, Panel!Waited(c) PROVE CallsTyped'
    <2>1. call[c] # None /\ Panel!GoOn(c, "reload")
      BY <1>7 DEF Panel!Waited, Panel!Waiting
    <2>2. /\ call' \in [Call -> {None} \cup CallRecord]
          /\ call'[c] # None /\ call'[c].do = call[c].do /\ call'[c].exp = call[c].exp
          /\ \A d \in Call \ {c} : call'[d] = call[d]
      BY <2>1, GoOnKeeps DEF Panel!At
    <2> QED
      BY <1>7, <2>1, <2>2 DEF Panel!Waited, Panel!Waiting
  <1>8. ASSUME NEW c \in Call, Panel!GivesUp(c) PROVE CallsTyped'
    BY <1>8 DEF Panel!GivesUp, Panel!Busy, Panel!Finally, Panel!GoOn
  <1>9. ASSUME NEW c \in Call, Panel!WaitFails(c) PROVE CallsTyped'
    <2>1. call[c] # None /\ Panel!GoOn(c, "refresh")
      BY <1>9 DEF Panel!WaitFails, Panel!Waiting, Panel!Finally
    <2>2. /\ call' \in [Call -> {None} \cup CallRecord]
          /\ call'[c] # None /\ call'[c].do = call[c].do /\ call'[c].exp = call[c].exp
          /\ \A d \in Call \ {c} : call'[d] = call[d]
      BY <2>1, GoOnKeeps DEF Panel!At
    <2> QED
      BY <1>9, <2>1, <2>2 DEF Panel!WaitFails, Panel!Waiting, Panel!Finally
  <1>10. ASSUME NEW c \in Call, Panel!Reloaded(c) PROVE CallsTyped'
    <2>1. call[c] # None /\ Panel!GoOn(c, "refresh")
      BY <1>10 DEF Panel!Reloaded, Panel!Finally
    <2>2. /\ call' \in [Call -> {None} \cup CallRecord]
          /\ call'[c] # None /\ call'[c].do = call[c].do /\ call'[c].exp = call[c].exp
          /\ \A d \in Call \ {c} : call'[d] = call[d]
      BY <2>1, GoOnKeeps DEF Panel!At
    <2> QED
      BY <1>10, <2>1, <2>2 DEF Panel!Reloaded, Panel!Finally
  <1>11. CASE Panel!Close
    BY <1>11 DEF Panel!Close
  <1>12. CASE Panel!ChangePath
    BY <1>12 DEF Panel!ChangePath
  <1>13. ASSUME NEW p \in Path, NEW e \in Export, Panel!KcpStep(p, e) PROVE CallsTyped'
    BY <1>13 DEF Panel!KcpStep
  <1>14. CASE UNCHANGED Panel!vars
    BY <1>14 DEF Panel!vars
  <1> QED
    BY <1>1, <1>2, <1>3, <1>4, <1>5, <1>6, <1>7, <1>8, <1>9, <1>10, <1>11, <1>12, <1>13, <1>14
    DEF Panel!Next, Panel!Goes

\* Who gives up the slot has ended, and who goes on keeps its export.
LEMMA BusyNext ==
    ASSUME CallsTyped, Panel!BusyMeansInFlight, [Panel!Next]_Panel!vars
    PROVE  Panel!BusyMeansInFlight'
  <1> USE Apart, Records DEF CallsTyped, CallRecord, Panel!At, Exports!At, Panel!panel,
          Panel!BusyMeansInFlight
  <1>1. ASSUME NEW c \in Call, Panel!OpenBind(c) PROVE Panel!BusyMeansInFlight'
    BY <1>1 DEF Panel!OpenBind, Panel!Start
  <1>2. ASSUME NEW c \in Call, NEW e \in Export, Panel!Click(c, e) PROVE Panel!BusyMeansInFlight'
    <2>1. call'[c].exp = e /\ call'[c].at = "send" /\ call'[c] # None /\ binding' = e
      <3>1. \E do \in {"unbind", "bind"} : call'[c] = [do |-> do, exp |-> e, path |-> path, at |-> "send"]
        BY <1>2 DEF Panel!Click, Panel!Start
      <3>2. binding' = e
        BY <1>2 DEF Panel!Click
      <3> QED
        BY <3>1, <3>2
    <2> QED
      BY <2>1
  <1>3. ASSUME NEW c \in Call, Panel!Reviewed(c) PROVE Panel!BusyMeansInFlight'
    BY <1>3 DEF Panel!Reviewed, Panel!Busy, Panel!GoOn
  <1>4. ASSUME NEW c \in Call, Panel!Refreshed(c) PROVE Panel!BusyMeansInFlight'
    BY <1>4 DEF Panel!Refreshed
  <1>5. ASSUME NEW c \in Call, Panel!Sent(c) PROVE Panel!BusyMeansInFlight'
    BY <1>5 DEF Panel!Sent, Panel!Sending, Panel!GoOn
  <1>6. ASSUME NEW c \in Call, Panel!SendFails(c) PROVE Panel!BusyMeansInFlight'
    BY <1>6 DEF Panel!SendFails, Panel!Sending, Panel!Finally, Panel!GoOn
  <1>7. ASSUME NEW c \in Call, Panel!Waited(c) PROVE Panel!BusyMeansInFlight'
    BY <1>7 DEF Panel!Waited, Panel!Waiting, Panel!GoOn
  <1>8. ASSUME NEW c \in Call, Panel!GivesUp(c) PROVE Panel!BusyMeansInFlight'
    BY <1>8 DEF Panel!GivesUp, Panel!Busy, Panel!Finally, Panel!GoOn
  <1>9. ASSUME NEW c \in Call, Panel!WaitFails(c) PROVE Panel!BusyMeansInFlight'
    BY <1>9 DEF Panel!WaitFails, Panel!Waiting, Panel!Finally, Panel!GoOn
  <1>10. ASSUME NEW c \in Call, Panel!Reloaded(c) PROVE Panel!BusyMeansInFlight'
    BY <1>10 DEF Panel!Reloaded, Panel!Finally, Panel!GoOn
  <1>11. CASE Panel!Close
    BY <1>11 DEF Panel!Close
  <1>12. CASE Panel!ChangePath
    BY <1>12 DEF Panel!ChangePath
  <1>13. ASSUME NEW p \in Path, NEW e \in Export, Panel!KcpStep(p, e) PROVE Panel!BusyMeansInFlight'
    BY <1>13 DEF Panel!KcpStep
  <1>14. CASE UNCHANGED Panel!vars
    BY <1>14 DEF Panel!vars
  <1> QED
    BY <1>1, <1>2, <1>3, <1>4, <1>5, <1>6, <1>7, <1>8, <1>9, <1>10, <1>11, <1>12, <1>13, <1>14
    DEF Panel!Next, Panel!Goes

\* A poll that ends says how.
LEMMA SomebodyWaitsNext ==
    ASSUME CallsTyped, SomebodyWaits, [Panel!Next]_Panel!vars
    PROVE  SomebodyWaits'
  <1> USE Apart, Records DEF CallsTyped, CallRecord, Panel!At, Exports!At, Panel!Waiting,
          Panel!panel, SomebodyWaits
  <1>1. ASSUME NEW c \in Call, Panel!OpenBind(c) PROVE SomebodyWaits'
    BY <1>1 DEF Panel!OpenBind, Panel!Start
  <1>2. ASSUME NEW c \in Call, NEW e \in Export, Panel!Click(c, e) PROVE SomebodyWaits'
    BY <1>2 DEF Panel!Click, Panel!Start
  <1>3. ASSUME NEW c \in Call, Panel!Reviewed(c) PROVE SomebodyWaits'
    BY <1>3 DEF Panel!Reviewed, Panel!Busy, Panel!GoOn
  <1>4. ASSUME NEW c \in Call, Panel!Refreshed(c) PROVE SomebodyWaits'
    BY <1>4 DEF Panel!Refreshed
  <1>5. ASSUME NEW c \in Call, Panel!Sent(c) PROVE SomebodyWaits'
    BY <1>5 DEF Panel!Sent, Panel!Sending, Panel!GoOn
  <1>6. ASSUME NEW c \in Call, Panel!SendFails(c) PROVE SomebodyWaits'
    BY <1>6 DEF Panel!SendFails, Panel!Sending, Panel!Finally, Panel!GoOn
  <1>7. ASSUME NEW c \in Call, Panel!Waited(c) PROVE SomebodyWaits'
    BY <1>7 DEF Panel!Waited, Panel!Waiting, Panel!GoOn
  <1>8. ASSUME NEW c \in Call, Panel!GivesUp(c) PROVE SomebodyWaits'
    BY <1>8 DEF Panel!GivesUp, Panel!Busy, Panel!Finally, Panel!GoOn
  <1>9. ASSUME NEW c \in Call, Panel!WaitFails(c) PROVE SomebodyWaits'
    BY <1>9 DEF Panel!WaitFails, Panel!Waiting, Panel!Finally, Panel!GoOn
  <1>10. ASSUME NEW c \in Call, Panel!Reloaded(c) PROVE SomebodyWaits'
    BY <1>10 DEF Panel!Reloaded, Panel!Finally, Panel!GoOn
  <1>11. CASE Panel!Close
    BY <1>11 DEF Panel!Close
  <1>12. CASE Panel!ChangePath
    BY <1>12 DEF Panel!ChangePath
  <1>13. ASSUME NEW p \in Path, NEW e \in Export, Panel!KcpStep(p, e) PROVE SomebodyWaits'
    BY <1>13 DEF Panel!KcpStep
  <1>14. CASE UNCHANGED Panel!vars
    BY <1>14 DEF Panel!vars
  <1> QED
    BY <1>1, <1>2, <1>3, <1>4, <1>5, <1>6, <1>7, <1>8, <1>9, <1>10, <1>11, <1>12, <1>13, <1>14
    DEF Panel!Next, Panel!Goes
-----------------------------------------------------------------------------
(* All parts together.                                                     *)

IInv == SessionInv /\ BrowserInv /\ BrowserShows /\ PanelInv

\* With several exports, the panel takes its own steps.
LEMMA ExportsCall ==
    ASSUME NEW c \in Call, Exports!Goes(c)
    PROVE  Panel!Goes(c)
  <1> USE DEF Exports!panel, Panel!panel, Exports!Busy, Panel!Busy, Exports!GoOn, Panel!GoOn,
          Exports!Serves, Panel!Serves,
              Exports!Sending, Panel!Sending, Exports!Waiting, Panel!Waiting, Exports!Wanted, Panel!Wanted, Exports!Finally, Panel!Finally
  <1>1. CASE Exports!Reviewed(c)
    BY <1>1 DEF Exports!Reviewed, Panel!Reviewed, Panel!Goes
  <1>2. CASE Exports!Refreshed(c)
    BY <1>2 DEF Exports!Refreshed, Panel!Refreshed, Panel!Goes
  <1>3. CASE Exports!Sent(c)
    BY <1>3 DEF Exports!Sent, Panel!Sent, Panel!Goes
  <1>4. CASE Exports!SendFails(c)
    BY <1>4 DEF Exports!SendFails, Panel!SendFails, Panel!Goes
  <1>5. CASE Exports!Waited(c)
    BY <1>5 DEF Exports!Waited, Panel!Waited, Panel!Goes
  <1>6. CASE Exports!GivesUp(c)
    BY <1>6 DEF Exports!GivesUp, Panel!GivesUp, Panel!Goes
  <1>7. CASE Exports!WaitFails(c)
    BY <1>7 DEF Exports!WaitFails, Panel!WaitFails, Panel!Goes
  <1>8. CASE Exports!Reloaded(c)
    BY <1>8 DEF Exports!Reloaded, Panel!Reloaded, Panel!Goes
  <1> QED
    BY <1>1, <1>2, <1>3, <1>4, <1>5, <1>6, <1>7, <1>8 DEF Exports!Goes

\* So do the clicks, and what happens around the panel.
LEMMA ExportsStep ==
    ASSUME path \in Path, Exports!Next
    PROVE  Panel!Next
  <1>1. ASSUME NEW c \in Call, Exports!OpenBind(c) PROVE Panel!OpenBind(c)
    BY <1>1 DEF Exports!OpenBind, Panel!OpenBind, Exports!Start, Panel!Start
  <1>2. ASSUME NEW c \in Call, NEW e \in Export, Exports!Click(c, e) PROVE e \in Export /\ Panel!Click(c, e)
    BY <1>2, Rows DEF Exports!Click, Panel!Click, Exports!Start, Panel!Start, Exports!BoundName,
       Panel!BoundName
  <1>3. CASE Exports!Close
    BY <1>3 DEF Exports!Close, Panel!Close, Panel!Next
  <1>4. CASE Exports!ChangePath
    BY <1>4 DEF Exports!ChangePath, Panel!ChangePath, Exports!panel, Panel!panel, Home,
       Panel!Next
  <1>5. ASSUME NEW p \in {Home}, NEW e \in Export, Exports!KcpStep(p, e)
        PROVE  p \in Path /\ e \in Export /\ Panel!KcpStep(p, e)
    BY <1>5, Rows DEF Exports!KcpStep, Panel!KcpStep, Exports!panel, Panel!panel, Home
  <1> QED
    BY <1>1, <1>2, <1>3, <1>4, <1>5, ExportsCall DEF Exports!Next, Panel!Next

\* With a path that changes, the panel takes its own steps.
LEMMA PathsCall ==
    ASSUME NEW c \in Call, Paths!Goes(c)
    PROVE  Panel!Goes(c)
  <1> USE DEF Paths!panel, Panel!panel, Paths!Busy, Panel!Busy, Paths!GoOn, Panel!GoOn,
          Paths!Serves, Panel!Serves,
              Paths!Sending, Panel!Sending, Paths!Waiting, Panel!Waiting, Paths!Wanted, Panel!Wanted, Paths!Finally, Panel!Finally
  <1>1. CASE Paths!Reviewed(c)
    BY <1>1 DEF Paths!Reviewed, Panel!Reviewed, Panel!Goes
  <1>2. CASE Paths!Refreshed(c)
    BY <1>2, Rows DEF Paths!Refreshed, Panel!Refreshed, Panel!Goes
  <1>3. CASE Paths!Sent(c)
    BY <1>3 DEF Paths!Sent, Panel!Sent, Panel!Goes
  <1>4. CASE Paths!SendFails(c)
    BY <1>4 DEF Paths!SendFails, Panel!SendFails, Panel!Goes
  <1>5. CASE Paths!Waited(c)
    BY <1>5 DEF Paths!Waited, Panel!Waited, Panel!Goes
  <1>6. CASE Paths!GivesUp(c)
    BY <1>6 DEF Paths!GivesUp, Panel!GivesUp, Panel!Goes
  <1>7. CASE Paths!WaitFails(c)
    BY <1>7 DEF Paths!WaitFails, Panel!WaitFails, Panel!Goes
  <1>8. CASE Paths!Reloaded(c)
    BY <1>8 DEF Paths!Reloaded, Panel!Reloaded, Panel!Goes
  <1> QED
    BY <1>1, <1>2, <1>3, <1>4, <1>5, <1>6, <1>7, <1>8 DEF Paths!Goes

\* So do the clicks, and what happens around the panel.
LEMMA PathsStep ==
    ASSUME path \in Path, Paths!Next
    PROVE  Panel!Next
  <1>1. ASSUME NEW c \in Call, Paths!OpenBind(c) PROVE Panel!OpenBind(c)
    BY <1>1 DEF Paths!OpenBind, Panel!OpenBind, Paths!Start, Panel!Start
  <1>2. ASSUME NEW c \in Call, NEW e \in {CHOOSE e \in Export : TRUE}, Paths!Click(c, e) PROVE e \in Export /\ Panel!Click(c, e)
    BY <1>2, Rows DEF Paths!Click, Panel!Click, Paths!Start, Panel!Start, Paths!BoundName,
       Panel!BoundName
  <1>3. CASE Paths!Close
    BY <1>3 DEF Paths!Close, Panel!Close, Panel!Next
  <1>4. CASE Paths!ChangePath
    BY <1>4 DEF Paths!ChangePath, Panel!ChangePath, Paths!panel, Panel!panel, Home, Panel!Next
  <1>5. ASSUME NEW p \in Path, NEW e \in {CHOOSE e \in Export : TRUE}, Paths!KcpStep(p, e)
        PROVE  p \in Path /\ e \in Export /\ Panel!KcpStep(p, e)
    BY <1>5, Rows DEF Paths!KcpStep, Panel!KcpStep, Paths!panel, Panel!panel, Home
  <1> QED
    BY <1>1, <1>2, <1>3, <1>4, <1>5, PathsCall DEF Paths!Next, Panel!Next

-----------------------------------------------------------------------------
(* The steps of the whole, seen from each part.                            *)

\* The other parts do not see the session.
LEMMA SessionSteps == [Next]_vars => [Session!Next]_Session!vars
  BY DEF Next, vars, sessionVars, Session!vars, Session!inFlight

\* Nor the lists of the browser.
LEMMA BrowserSteps ==
    ASSUME [Next]_vars
    PROVE  IF part = "browser" THEN [Browser!Next]_Browser!vars ELSE UNCHANGED browserVars
  BY DEF Next, vars, browserVars, Browser!vars, Browser!refs, Part

\* A path that the browser changes is one that changes for the panel.
LEMMA PanelSteps ==
    ASSUME path \in Path, path' \in Path, [Next]_vars
    PROVE  [Panel!Next]_Panel!vars
  <1> USE DEF panelVars, Panel!vars, Panel!panel
  <1>1. CASE part = "session" /\ Session!Next /\ UNCHANGED <<path, browserVars, panelVars>>
    BY <1>1
  <1>2. CASE part = "browser" /\ Browser!Next /\ UNCHANGED <<sessionVars, panelVars>>
    BY <1>2 DEF Panel!Next, Panel!ChangePath
  <1>3. CASE Exports!Next
    BY <1>3, ExportsStep
  <1>4. CASE Paths!Next
    BY <1>4, PathsStep
  <1>5. CASE UNCHANGED vars
    BY <1>5 DEF vars
  <1> QED
    BY <1>1, <1>2, <1>3, <1>4, <1>5 DEF Next

\* The panel goes to paths only.
LEMMA PanelPath ==
    ASSUME path \in Path, Panel!Next
    PROVE  path' \in Path
  BY DEF Panel!Next, Panel!Goes, Panel!OpenBind, Panel!Click, Panel!Reviewed, Panel!Refreshed,
     Panel!Sent, Panel!SendFails,
     Panel!Waited, Panel!GivesUp, Panel!WaitFails, Panel!Reloaded, Panel!Close, Panel!ChangePath, Panel!KcpStep

\* No part moves to a path that is not one.
LEMMA PathStays ==
    ASSUME path \in Path, [Next]_vars
    PROVE  path' \in Path
  <1>1. CASE Browser!Next
    BY <1>1 DEF Browser!Next, Browser!LoadAnswered, Browser!PickAnswered, Browser!ChangePath,
       Browser!Refresh,
       Browser!Discovered, Browser!DiscoverFails, Browser!Click, Browser!Listed, Browser!ListFails
  <1>2. CASE Exports!Next
    <2>1. Panel!Next
      BY <1>2, ExportsStep
    <2> QED
      BY <2>1, PanelPath
  <1>3. CASE Paths!Next
    <2>1. Panel!Next
      BY <1>3, PathsStep
    <2> QED
      BY <2>1, PanelPath
  <1> QED
    BY <1>1, <1>2, <1>3 DEF Next, vars

\* The invariant holds of every part as it begins.
LEMMA InitIInv == Init => IInv
  <1> SUFFICES ASSUME Init PROVE IInv
    OBVIOUS
  <1>1. SessionInv
    <2> USE Bound DEF Init, Session!Init
    <2>1. SameUser /\ Guarded
      <3>1. user = stored /\ (due => stored = "expired")
        OBVIOUS
      <3> QED
        BY <3>1 DEF SameUser, Guarded
    <2>2. view \in {"login", "protected"} /\ forced \in 0 .. MaxRedirects /\ due \in BOOLEAN
      BY DEF Session!Shown
    <2>3. due => stored = "expired"
      BY DEF SameUser
    <2> QED
      BY <2>1, <2>2, <2>3 DEF SessionInv, Session!TypeOK
  <1>2. BrowserInv
    BY Apart, Places DEF Init, Browser!Init, BrowserInv, Browser!TypeOK, OnePickEach,
       Browser!SelectedIsListed,
       Browser!Free, Browser!Lists, Browser!Empty
  <1>3. Browser!ShowsTheSelection
    BY DEF Init, Browser!Init, Browser!ShowsTheSelection
  <1>4. PanelInv
    <2>1. call = [c \in Call |-> None] /\ binding = None /\ bindMsg = ""
      BY DEF Init, Paths!Init, Exports!Init
    <2> QED
      BY <2>1 DEF Init, Browser!Init, PanelInv, CallsTyped, Panel!BusyMeansInFlight,
         SomebodyWaits
  <1> QED
    BY <1>1, <1>2, <1>3, <1>4 DEF IInv, BrowserShows

\* Every step of a part keeps the invariant, of this part and of the others.
LEMMA NextIInv == IInv /\ [Next]_vars => IInv'
  <1> SUFFICES ASSUME IInv, [Next]_vars PROVE IInv'
    OBVIOUS
  <1>1. SessionInv'
    BY SessionSteps, SameUserNext, GuardedNext, SessionTyped DEF IInv, SessionInv
  <1>2. path \in Path /\ path' \in Path
    BY PathStays DEF IInv, BrowserInv, Browser!TypeOK
  <1>3. BrowserInv' /\ BrowserShows'
    <2>1. CASE part = "browser"
      <3>1. [Browser!Next]_Browser!vars
        BY <2>1, BrowserSteps
      <3> QED
        BY <3>1, <2>1, BrowserTyped, OnePickEachNext, SelectedIsListedNext, ShowsNext DEF IInv,
           BrowserInv, BrowserShows
    <2>2. CASE part # "browser"
      <3>1. UNCHANGED browserVars /\ part' = part
        BY <2>2, BrowserSteps DEF Next, vars
      <3> QED
        BY <1>2, <2>2, <3>1 DEF browserVars, IInv, BrowserInv, BrowserShows, Browser!TypeOK,
           OnePickEach,
           Browser!SelectedIsListed, Browser!Free
    <2> QED
      BY <2>1, <2>2
  <1>4. PanelInv'
    BY <1>2, PanelSteps, CallsTypedNext, BusyNext, SomebodyWaitsNext DEF IInv, PanelInv
  <1> QED
    BY <1>1, <1>3, <1>4 DEF IInv

\* IInv holds whichever part moves.
THEOREM Invariance == Spec => []IInv
  BY InitIInv, NextIInv, PTL DEF Spec

\* The session's and the browser's variables have their types.
THEOREM TypeCorrect == Spec => [](Session!TypeOK /\ Browser!TypeOK)
  <1>1. IInv => Session!TypeOK /\ Browser!TypeOK
    BY DEF IInv, SessionInv, BrowserInv
  <1> QED
    BY <1>1, Invariance, PTL

\* Whatever 401s, failing renewals and expiries come together, reauthenticating lets one
\* forced redirect through.
THEOREM OneRedirect == Spec => []OneForcedRedirect
  <1>1. IInv => OneForcedRedirect
    BY DEF IInv, SessionInv, Guarded, OneForcedRedirect, Session!OneForcedRedirect
  <1> QED
    BY <1>1, Invariance, PTL

\* The store gives up a live session only after a silent renewal has failed: an expiry is
\* never one of the user it has.
THEOREM RenewsFirst == Spec => SilentFirst
  <1>1. IInv /\ [Next]_vars => [AfterRenewal]_Session!vars
    BY SessionSteps, GivesUpAfterRenewal DEF IInv, SessionInv
  <1> QED
    BY <1>1, Invariance, PTL DEF Spec, SilentFirst, Session!SilentFirst, AfterRenewal

\* After a 401 a renewal or a redirect is on its way, or a redirect has failed: the guard
\* is set for no other reason.
THEOREM NoUnauthorizedDropped == Spec => UnauthorizedIsHandled
  <1>1. IInv /\ [Next]_vars => [NotDropped]_Session!vars
    BY SessionSteps, DropsNothing DEF IInv, SessionInv
  <1> QED
    BY <1>1, Invariance, PTL DEF Spec, UnauthorizedIsHandled, Session!UnauthorizedIsHandled,
       NotDropped

\* The selection is listed, and objects of something else are under it only if answers
\* have crossed, whatever loads, clicks and changes of the path overlap.
THEOREM SelectionIsShown == Spec => []ShowsTheSelection
  <1>1. IInv => ShowsTheSelection
    BY DEF IInv, BrowserInv, BrowserShows, ShowsTheSelection
  <1> QED
    BY <1>1, Invariance, PTL

\* A busy button has a call under way, and "Binding..." is not the last word, whichever
\* calls overlap in the slot they share.
THEOREM PanelSaysWhatHappens == Spec => []PanelIsHonest
  <1>1. Exports!BusyMeansInFlight <=> Panel!BusyMeansInFlight
    BY DEF Exports!BusyMeansInFlight, Panel!BusyMeansInFlight
  <1>2. SomebodyWaits => Exports!SaysHowItEnded
    BY DEF SomebodyWaits, Exports!SaysHowItEnded, Panel!Waiting
  <1>3. IInv => PanelIsHonest
    BY <1>1, <1>2 DEF IInv, PanelInv, PanelIsHonest
  <1> QED
    BY <1>3, Invariance, PTL
=============================================================================
