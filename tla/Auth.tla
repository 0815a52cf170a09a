-------------------------------- MODULE Auth --------------------------------
(***************************************************************************)
(* Accounts and sessions (the /auth routes, identify and finish of app.py, *)
(* auth.py, Users of store.py): signing in by link or through a provider,  *)
(* the cookie that carries a user and an epoch, its refresh, and signing   *)
(* out.  A callback is suspended while the provider is asked; a response   *)
(* reaches its browser some time after its request was identified.         *)
(*                                                                         *)
(* A user's row is never renamed, so an account is called by its address.  *)
(***************************************************************************)
EXTENDS MagicLinks

CONSTANTS
    Browsers,
    Providers,     \* the OAuth providers with credentials
    Subjects,      \* the accounts there are at each provider
    StateMaxAge,   \* how long an OAuth state is good
    RefreshAfter,  \* the age from which a session's cookie is renewed
    SessionMaxAge, \* the age from which it is no good
    None           \* no value

ASSUME AuthAssumption ==
    /\ {StateMaxAge, RefreshAfter, SessionMaxAge} \subseteq Nat
    /\ None \notin Emails \cup Nat /\ "email" \notin Providers

External   == Providers \X Subjects
Identities == External \cup ({"email"} \X Emails)

VARIABLES
    address,   \* the providers: the verified address of each account of theirs
    moves,     \* the providers: how often such an account changed its address
    flows,     \* the OAuth flows begun, and what the provider made of each
    state,     \* the browsers: the odg_oauth cookie, a flow or 0
    cookie,    \* the browsers: the odg_session cookie, or None
    epoch,     \* users.session_epoch, None for an address without an account
    disabled,  \* users.disabled
    identity,  \* identities: the account of each identity, or None
    exchanges, \* the callbacks suspended on a question to the provider
    refreshes, \* the requests whose response will bring a new cookie
    reached    \* history: the accounts each address has signed in to

accountVars == <<epoch, disabled, identity, reached>>
authVars == <<linkVars, address, moves, flows, state, cookie, accountVars, exchanges, refreshes>>

AuthInit ==
    /\ LinksInit
    /\ address \in [External -> Emails \cup {None}]
    /\ moves = 0
    /\ flows = <<>>
    /\ state = [b \in Browsers |-> 0]
    /\ cookie = [b \in Browsers |-> None]
    /\ epoch = [e \in Emails |-> None]
    /\ disabled = {}
    /\ identity = [i \in Identities |-> None]
    /\ exchanges = {}
    /\ refreshes = {}
    /\ reached = [e \in Emails |-> {}]

-----------------------------------------------------------------------------
\* The account of a subject, whichever provider says so.
AccountBySubject(i, e) ==
    LET known == {j \in Identities : j[2] = i[2] /\ identity[j] # None}
    IN  IF known = {} THEN e ELSE identity[CHOOSE j \in known : TRUE]

(* The account of an identity, else the one of the address, old or new. *)
Account(i, e) == IF identity[i] = None THEN e ELSE identity[i]

(* set_session, at a sign-in: root (its epoch) and via (what showed who it is: *)
(* <<"flow", f>> or <<"link", n>>) are history.                                *)
Session(u, ep, via) == [user |-> u, epoch |-> ep, at |-> now, root |-> ep, via |-> via]

(* signed_in_response: the browser has a new session. *)
SignedInResponse(b, u, ep, via) == cookie' = [cookie EXCEPT ![b] = Session(u, ep, via)]

\* The identity of a new account is written, its user is not.
SignInNoInsert(b, i, e, via) ==
    LET u == Account(i, e)
    IN  /\ identity' = [identity EXCEPT ![i] = u]
        /\ reached' = [reached EXCEPT ![e] = @ \cup {u}]
        /\ SignedInResponse(b, u, 0, via)
        /\ UNCHANGED <<epoch, disabled>>

\* The row is replaced, and its epoch starts again.
SignInReplace(b, i, e, via) ==
    LET u == Account(i, e)
    IN  /\ epoch' = [epoch EXCEPT ![u] = 0]
        /\ identity' = [identity EXCEPT ![i] = u]
        /\ reached' = [reached EXCEPT ![e] = @ \cup {u}]
        /\ SignedInResponse(b, u, 0, via)
        /\ UNCHANGED disabled

(* Users.sign_in, in one transaction; then the response. *)
SignIn(b, i, e, via) ==
    LET u  == Account(i, e)
        ep == IF epoch[u] = None THEN 0 ELSE epoch[u]
    IN  /\ epoch' = [epoch EXCEPT ![u] = ep]
        /\ identity' = [identity EXCEPT ![i] = u]
        /\ reached' = [reached EXCEPT ![e] = @ \cup {u}]
        /\ SignedInResponse(b, u, ep, via)
        /\ UNCHANGED disabled

(* magic_verify: the nonce is consumed, then the address signs in. *)
VerifyLink(b, n) ==
    /\ ReadMagic(n)
    /\ ConsumeMagic(n)
    /\ SignIn(b, <<"email", links[n].email>>, links[n].email, <<"link", n>>)
    /\ UNCHANGED <<now, starts, ipHits, emailHits, quota>>
    /\ UNCHANGED <<address, moves, flows, state, exchanges, refreshes>>

-----------------------------------------------------------------------------
(* oauth_start: a new state, which replaces the one the browser had. *)
OAuthStart(b, p) ==
    /\ Len(flows) < quota.flows
    /\ flows' = Append(flows, [provider |-> p, browser |-> b, at |-> now,
                               subject |-> None, spent |-> FALSE])
    /\ state' = [state EXCEPT ![b] = Len(flows) + 1]
    /\ UNCHANGED <<linkVars, accountVars, address, moves, cookie, exchanges, refreshes>>

(* The provider: its user approves, as one of its accounts. *)
Approve(f) ==
    /\ flows[f].subject = None
    /\ \E s \in Subjects : flows' = [flows EXCEPT ![f].subject = s]
    /\ UNCHANGED <<linkVars, accountVars, address, moves, state, cookie, exchanges, refreshes>>

\* Any good state will do, whichever browser it was made for.
CallbackAnywhere(b, f) ==
    /\ flows[f].subject # None
    /\ Good(flows[f].at, StateMaxAge)
    /\ exchanges' = exchanges \cup {[flow |-> f, browser |-> b]}
    /\ UNCHANGED <<linkVars, accountVars, address, moves, flows, state, cookie, refreshes>>

(***************************************************************************)
(* oauth_callback, up to the exchange: the approved flow's URL is opened in*)
(* a browser, whose state cookie must be that flow's, and young enough.    *)
(***************************************************************************)
OAuthCallback(b, f) ==
    /\ flows[f].subject # None
    /\ Good(flows[f].at, StateMaxAge)
    /\ state[b] = f
    /\ exchanges' = exchanges \cup {[flow |-> f, browser |-> b]}
    /\ UNCHANGED <<linkVars, accountVars, address, moves, flows, state, cookie, refreshes>>

Who(x) == <<flows[x.flow].provider, flows[x.flow].subject>>

(***************************************************************************)
(* exchange_code says who it is -- once per code, and only with a verified *)
(* address -- and the callback signs in.  Whatever state cookie the browser*)
(* has by then is deleted.                                                 *)
(***************************************************************************)
Exchanged(x) ==
    /\ ~ flows[x.flow].spent
    /\ address[Who(x)] # None
    /\ SignIn(x.browser, Who(x), address[Who(x)], <<"flow", x.flow>>)
    /\ flows' = [flows EXCEPT ![x.flow].spent = TRUE]
    /\ state' = [state EXCEPT ![x.browser] = 0]
    /\ exchanges' = exchanges \ {x}
    /\ UNCHANGED <<linkVars, address, moves, refreshes>>

(* AuthError: the provider refuses, is unreachable, or has no good address. *)
ExchangeFails(x) ==
    /\ exchanges' = exchanges \ {x}
    /\ UNCHANGED <<linkVars, accountVars, address, moves, flows, state, cookie, refreshes>>

(* The providers: an account there has another address, or none, from now on. *)
ChangeAddress(i) ==
    /\ moves < quota.moves
    /\ moves' = moves + 1
    /\ \E e \in (Emails \cup {None}) \ {address[i]} : address' = [address EXCEPT ![i] = e]
    /\ UNCHANGED <<linkVars, accountVars, flows, state, cookie, exchanges, refreshes>>

-----------------------------------------------------------------------------
(* read_session: there is a cookie, and it has not expired. *)
Read(c) == c # None /\ Good(c.at, SessionMaxAge)

(* claims.stale *)
Stale(c) == now - c.at > RefreshAfter

(* identify: the user a cookie stands for, or None. *)
Identify(c) ==
    IF /\ Read(c)
       /\ c.user \notin disabled
       /\ epoch[c.user] = c.epoch
    THEN c.user ELSE None

(* A request -- /api/me, /account, the proxy -- with a cookie due for renewal. *)
Request(b) ==
    /\ Cardinality(refreshes) < quota.requests
    /\ Identify(cookie[b]) # None
    /\ Stale(cookie[b])
    /\ refreshes' = refreshes \cup {[browser |-> b, caller |-> cookie[b]]}
    /\ UNCHANGED <<linkVars, accountVars, address, moves, flows, state, cookie, exchanges>>

\* The new cookie has the epoch the user has by now.
RespondCurrent(r) ==
    /\ cookie' = [cookie EXCEPT ![r.browser] =
                    [r.caller EXCEPT !.at = now, !.epoch = epoch[r.caller.user]]]
    /\ refreshes' = refreshes \ {r}
    /\ UNCHANGED <<linkVars, accountVars, address, moves, flows, state, exchanges>>

(* finish: the response sets a cookie of the user and the epoch read before. *)
Respond(r) ==
    /\ cookie' = [cookie EXCEPT ![r.browser] = [r.caller EXCEPT !.at = now]]
    /\ refreshes' = refreshes \ {r}
    /\ UNCHANGED <<linkVars, accountVars, address, moves, flows, state, exchanges>>

(* bump_epoch *)
BumpEpoch(u) == epoch[u] < quota.bumps /\ epoch' = [epoch EXCEPT ![u] = @ + 1]

(***************************************************************************)
(* signout: the cookie goes; "everywhere" bumps the epoch, if the request  *)
(* is identified and its CSRF token is the user's (the form's choice).     *)
(***************************************************************************)
SignOut(b) ==
    /\ cookie[b] # None
    /\ cookie' = [cookie EXCEPT ![b] = None]
    /\ \/ UNCHANGED epoch
       \/ Identify(cookie[b]) # None /\ BumpEpoch(Identify(cookie[b]))
    /\ UNCHANGED <<linkVars, address, moves, flows, state, disabled, identity, reached,
                   exchanges, refreshes>>

(* An operator disables an account in the database. *)
Disable(u) ==
    /\ Cardinality(disabled) < quota.disabled
    /\ epoch[u] # None
    /\ disabled' = disabled \cup {u}
    /\ UNCHANGED <<linkVars, address, moves, flows, state, cookie, epoch, identity, reached,
                   exchanges, refreshes>>

(* The process dies, perhaps between consume_magic and sign_in. *)
Restart ==
    /\ RestartLinks
    /\ \/ UNCHANGED <<links, magic>>
       \/ \E n \in DOMAIN links : ReadMagic(n) /\ ConsumeMagic(n)
    /\ exchanges' = {} /\ refreshes' = {}
    /\ UNCHANGED <<accountVars, address, moves, flows, state, cookie>>

LinksStep ==
    /\ \/ \E c \in Clients, e \in Emails : RequestLink(c, e)
       \/ \E n \in DOMAIN links : MailArrives(n)
       \/ Tick
    /\ UNCHANGED <<accountVars, address, moves, flows, state, cookie, exchanges, refreshes>>

OAuthStep ==
    \/ \E b \in Browsers, p \in Providers : OAuthStart(b, p)
    \/ \E f \in DOMAIN flows : Approve(f) \/ \E b \in Browsers : OAuthCallback(b, f)
    \/ \E x \in exchanges : Exchanged(x) \/ ExchangeFails(x)
    \/ \E i \in External : ChangeAddress(i)

AuthNext ==
    \/ LinksStep \/ OAuthStep \/ Restart
    \/ \E b \in Browsers, n \in DOMAIN links : VerifyLink(b, n)
    \/ \E b \in Browsers : Request(b) \/ SignOut(b)
    \/ \E r \in refreshes : Respond(r)
    \/ \E u \in Emails : Disable(u)

AuthSpec == AuthInit /\ [][AuthNext]_authVars

-----------------------------------------------------------------------------
Cookies == ({cookie[b] : b \in Browsers} \ {None}) \cup {r.caller : r \in refreshes}

(* Every variable has its type; accounts precede whatever refers to them. *)
AuthTypeOK ==
    /\ now \in Nat /\ starts \in Nat /\ moves \in Nat
    /\ Len(magic) = Len(links)
    /\ \A n \in DOMAIN links : magic[n] \in {"unused", "used", "purged"}
    /\ address \in [External -> Emails \cup {None}]
    /\ state \in [Browsers -> 0 .. Len(flows)]
    /\ epoch \in [Emails -> Nat \cup {None}]
    /\ \A i \in Identities : identity[i] # None => epoch[identity[i]] # None
    /\ \A u \in disabled : epoch[u] # None
    /\ \A c \in Cookies : epoch[c.user] \in Nat /\ c.at <= now /\ c.epoch <= epoch[c.user]

(***************************************************************************)
(* "Sign out everywhere" is final (README.md:68): a cookie that identifies *)
(* its user goes back to a sign-in after the last bump, through however    *)
(* many refreshes, those in flight during the bump included.               *)
(***************************************************************************)
BumpReachesAll ==
    \A c \in Cookies : Identify(c) # None => c.root = epoch[c.user]

(* The cookies of sessions opened through a provider, and their flows. *)
ByFlow(c) == c.via[1] = "flow"
FlowOf(c) == flows[c.via[2]]

(***************************************************************************)
(* A session that came through a provider is in the browser that began the *)
(* flow (app.py:383), and in the account of whoever approved it there.     *)
(***************************************************************************)
OwnFlow ==
    /\ \A b \in Browsers : cookie[b] # None /\ ByFlow(cookie[b]) =>
          FlowOf(cookie[b]).browser = b
    /\ \A c \in Cookies : ByFlow(c) =>
          identity[<<FlowOf(c).provider, FlowOf(c).subject>>] = c.user

SameAccount == \A e \in Emails : Cardinality(reached[e]) <= 1

(***************************************************************************)
(* "The same address through any method is one account" (README.md:66), as *)
(* long as no provider's account has changed its address.                  *)
(***************************************************************************)
OneAccountPerAddress == moves = 0 => SameAccount

(***************************************************************************)
(* "The same address through any method is one account" (README.md:66).    *)
(***************************************************************************)
SameAddressOneAccount == SameAccount
=============================================================================
