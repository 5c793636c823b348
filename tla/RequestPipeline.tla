--------------------------- MODULE RequestPipeline ---------------------------
(***************************************************************************)
(* pkg/apiserver: what becomes of a request on its way through the handler *)
(* chain that apiserver.go builds, to the storages of storage.go.  The     *)
(* front-proxy's path prefix is stripped, a union of authenticators finds  *)
(* out who asks, a union of authorizers decides, and the storage lists.    *)
(*                                                                         *)
(* External, as apiserver.go uses it: the generic API server, which puts   *)
(* the authenticator and the authorizer of its loopback client in front of *)
(* the configured ones, and routes what is allowed; its impersonation and  *)
(* its limits on requests in flight are left out.                          *)
(***************************************************************************)
EXTENDS Integers, Sequences

CONSTANTS
    User,        \* identities a front-proxy forwards: [name, groups]
    CommonName,  \* of client certificates
    Anonymous, Loopback, Authenticated, Unauthenticated, Masters, None

\* A path is the prefix, any number of times, and what is asked for after it.  An
\* escaped one has the prefix in its decoded form only.
Target == {"health", "list", "discovery", "root", "unknown"}
Path   == [mounts : 0 .. 2, escaped : BOOLEAN, target : Target \cup {"nothing"}]

\* X-Remote-* headers or none, a client certificate or none, a bearer token or none.
Request ==
    [path : {p \in Path : (p.escaped => p.mounts > 0) /\ (p.target = "nothing" => p.mounts > 0)},
     get : BOOLEAN,
     remote : User \cup {None},
     cert : [signed : BOOLEAN, name : CommonName] \cup {None},
     token : {"none", "loopback", "wrong"}]

VARIABLES
    prefix,   \* a --path-prefix is set; a trailing slash makes no difference
    allowed,  \* --requestheader-allowed-names
    req,      \* the last request
    answer    \* its status, and the user the storage listed for

vars == <<prefix, allowed, req, answer>>

Status(s) == [status |-> s, as |-> None]

-----------------------------------------------------------------------------
(* The prefix: the front-proxy's requests have it, probes do not.          *)

\* Fault: every request goes through http.StripPrefix.
StripEverything(p) ==
    IF ~prefix THEN p
    ELSE IF p.mounts = 0 \/ p.escaped THEN None
    ELSE [p EXCEPT !.mounts = @ - 1]

\* Fault: whatever number of prefixes is stripped.
StripAll(p) == IF prefix /\ p.escaped THEN None ELSE IF prefix THEN [p EXCEPT !.mounts = 0] ELSE p

\* http.StripPrefix refuses an escaped prefix, which it finds in Path, not in RawPath.
Strip(p) ==
    IF ~prefix \/ p.mounts = 0 THEN p
    ELSE IF p.escaped THEN None
    ELSE [p EXCEPT !.mounts = @ - 1]

-----------------------------------------------------------------------------
(* Authentication: None is "no opinion", or an error, after which the union *)
(* goes on with the next authenticator.                                    *)

\* The loopback client's.
ByToken(r) ==
    IF r.token = "loopback" THEN [name |-> Loopback, groups |-> {Authenticated, Masters}] ELSE None

\* Fault: the headers are believed without a certificate.
RemoteUnverified(r) == r.remote

\* headerrequest behind the verification of the certificate.
Remote(r) ==
    IF /\ r.cert # None
       /\ r.cert.signed /\ (allowed = {} \/ r.cert.name \in allowed)
    THEN r.remote ELSE None

\* group.NewAuthenticatedGroupAdder
AddAuthenticated(u) ==
    IF u.name = Anonymous \/ u.groups \cap {Authenticated, Unauthenticated} # {} THEN u
    ELSE [u EXCEPT !.groups = @ \cup {Authenticated}]

ByHeaders(r) == IF Remote(r) = None THEN None ELSE AddAuthenticated(Remote(r))

Nameless == [name |-> Anonymous, groups |-> {Unauthenticated}]

Authenticate(r) ==
    IF ByToken(r) # None THEN ByToken(r)
    ELSE IF ByHeaders(r) # None THEN ByHeaders(r)
    ELSE Nameless

-----------------------------------------------------------------------------
(* Authorization: the first authorizer with an opinion decides.            *)

\* path.NewAuthorizer, for requests of no resource.
HealthPath(p) == p.mounts = 0 /\ p.target = "health"

AuthenticatedOnly(u) == Authenticated \in u.groups

Authorize(u, p) == Masters \in u.groups \/ HealthPath(p) \/ AuthenticatedOnly(u)

-----------------------------------------------------------------------------
(* Routes and storage.                                                     *)

\* storage.List takes the user from the request's context.
List(u) == [status |-> "list", as |-> u]

\* The storages are Listers and nothing else.
Route(r, u, p) ==
    IF p.mounts > 0 \/ p.target \in {"unknown", "nothing"} THEN Status("not found")
    ELSE IF p.target = "list" THEN IF r.get THEN List(u) ELSE Status("not supported")
    ELSE Status(p.target)

\* The handler chain.
Serve(r) ==
    LET p == Strip(r.path)
        u == Authenticate(r)
    IN  IF p = None THEN Status("not found")
        ELSE IF ~Authorize(u, p) THEN Status("forbidden")
        ELSE Route(r, u, p)

Init ==
    /\ prefix \in BOOLEAN /\ allowed \in SUBSET CommonName
    /\ req = None /\ answer = None

\* Requests share nothing: one stands for any.
Handle(r) ==
    /\ req = None
    /\ req' = r
    /\ answer' = Serve(r)
    /\ UNCHANGED <<prefix, allowed>>

Next == \E r \in Request : Handle(r)

Spec == Init /\ [][Next]_vars

-----------------------------------------------------------------------------
(* Properties.                                                             *)

TypeOK ==
    /\ prefix \in BOOLEAN /\ allowed \subseteq CommonName
    /\ req \in Request \cup {None}
    /\ req # None =>
           /\ answer.status \in {"health", "list", "discovery", "root", "not found", "not supported", "forbidden"}
           /\ answer.as # None <=> answer.status = "list"

\* A front-proxy that the options trust has vouched for the request's headers.
Vouched(r) ==
    r.remote # None /\ r.cert # None /\ r.cert.signed /\ (allowed # {} => r.cert.name \in allowed)

\* "anonymous ... never reaches the API": a list is made for the loopback client, or for
\* the very user a trusted front-proxy vouches for, never for one without a name, nor
\* with a group nobody vouched for; and so do those reach all else but the health paths.
OnlyTheVouchedFor ==
    req # None /\ answer.status \in {"list", "discovery", "root", "not supported"} =>
        \/ req.token = "loopback" /\ (answer.as # None => answer.as.name = Loopback)
        \/ /\ Vouched(req) /\ req.remote.name # Anonymous
           /\ answer.as # None =>
                  /\ answer.as.name = req.remote.name
                  /\ answer.as.groups = req.remote.groups \cup {Authenticated}

\* "unauthenticated health probes reach the health paths", with the prefix or without,
\* whatever certificate, token or headers they carry.
ProbesAnswered ==
    req # None /\ req.path.target = "health" /\ ~req.path.escaped
               /\ (req.path.mounts = 0 \/ (prefix /\ req.path.mounts = 1)) =>
        answer.status = "health"

\* "Only strip for front-proxy-forwarded requests": a request that comes through the
\* front-proxy gets the answer it would get directly, and the prefix counts once.
PrefixUnseen ==
    req # None /\ prefix /\ ~req.path.escaped /\ req.path.target # "nothing" =>
        /\ req.path.mounts = 1 => answer = Serve([req EXCEPT !.path.mounts = 0])
        /\ req.path.mounts = 2 => answer.status \in {"not found", "forbidden"}
=============================================================================
