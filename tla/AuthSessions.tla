---------------------------- MODULE AuthSessions ----------------------------
(***************************************************************************)
(* The session of one signed-in user: rows on the backend (modules/auth),  *)
(* and the client that holds a pair of tokens for them, which is either    *)
(* the mobile app (NetworkAuthRepository) or a browser of the web admin    *)
(* behind the Next.js proxy (backend-admin-proxy, its auth routes).        *)
(*                                                                         *)
(* Token n is the pair issued n-th: an access token that expires, and a    *)
(* refresh token whose session row may be spent once.  A call of the       *)
(* client is a coroutine (or a proxied request) that suspends at every     *)
(* request it sends; several are in flight together.                       *)
(***************************************************************************)
EXTENDS Naturals, Sequences, FiniteSets

CONSTANTS
    Call,       \* calls the client may have in flight together
    Rival,      \* an activation of the same QR code on another device
    MaxTokens   \* bound: token pairs issued in a behaviour

ASSUME AuthConstants == MaxTokens \in Nat /\ Rival \notin Call

VARIABLES
    client,     \* "app" or "browser"
    store,      \* the pair the client holds (token store, cookies); 0: none
    session,    \* user_sessions: status, and the token it was issued for
    stale,      \* access tokens expire in the order of issue: up to this pair
    old,        \* and so do refresh tokens, long after
    account,    \* users.status is ACTIVE
    qr,         \* qr_login_tokens.status of the code
    call,       \* what each call is doing
    left,       \* history: pairs in cookies that another sign-in's pair overwrote
    lost,       \* history: an answer was lost, or the app died waiting for one
    overlapped  \* history: two calls were spending tokens at the same time

authVars == <<client, store, session, stale, old, account, qr, call, left, lost, overlapped>>

NoToken == 0
Token == 1..MaxTokens
Caller == Call \cup {Rival}
Idle == [op |-> "idle", at |-> "idle", token |-> NoToken, got |-> NoToken]

\* A "load" that goes on after its refresh is a "retry".
CallState ==
    [op : {"load", "retry", "restore", "login", "activate", "logout"},
     at : {"request", "unauthorized", "refresh", "rotate", "enter", "activate",
           "revoke", "answer"},
     token : Token \cup {NoToken}, got : Token \cup {NoToken}]

SessionRow ==
    [status : {"active", "revoked"}, by : {"login", "qr", "refresh"},
     from : Token \cup {NoToken}]

AuthTypeOK ==
    /\ client \in {"app", "browser"}
    /\ store \in 0..Len(session)
    /\ session \in Seq(SessionRow) /\ Len(session) <= MaxTokens
    /\ stale \in 0..Len(session) /\ old \in 0..stale
    /\ account \in BOOLEAN /\ lost \in BOOLEAN /\ overlapped \in BOOLEAN
    /\ left \subseteq Token
    /\ qr \in {"active", "used"}
    /\ call \in [Caller -> CallState \cup {Idle}]

AuthInit ==
    /\ client \in {"app", "browser"}
    /\ store = NoToken /\ session = <<>> /\ stale = 0 /\ old = 0
    /\ account = TRUE
    /\ qr = "active"
    /\ call = [c \in Caller |-> Idle]
    /\ left = {} /\ lost = FALSE /\ overlapped = FALSE

-----------------------------------------------------------------------------
(* The backend *)

Active(n) == n > old /\ session[n].status = "active"

\* _issue_session_tokens, answered to call c.
Issue(c, rows, by) ==
    /\ Len(session) < MaxTokens
    /\ session' = Append(rows, [status |-> "active", by |-> by, from |-> call[c].token])
    /\ call' = [call EXCEPT ![c].at = "answer", ![c].got = Len(session) + 1]

Revoked(n) == [session EXCEPT ![n].status = "revoked"]

\* refresh_session, after its checks: the row is not locked when it is read,
\* and UPDATE sets revoked_at whatever it has become.
Rotate(c) ==
    /\ call[c].at = "rotate"
    /\ Issue(c, Revoked(call[c].token), "refresh")
    /\ UNCHANGED <<client, store, stale, old, account, qr, left, lost, overlapped>>

\* refresh_session up to its checks.
FindSession(c) ==
    /\ call[c].at = "refresh"
    /\ call' = [call EXCEPT ![c].at =
                    IF Active(call[c].token) /\ account THEN "rotate" ELSE "answer"]
    /\ UNCHANGED <<client, store, session, stale, old, account, qr, left, lost, overlapped>>

\* login and register.
SignIn(c) ==
    /\ call[c].at = "enter" /\ call[c].op = "login"
    /\ account
    /\ Issue(c, session, "login")
    /\ UNCHANGED <<client, store, stale, old, account, qr, left, lost, overlapped>>

Refuse(c) ==
    /\ call[c].at = "enter" /\ call[c].op = "login"
    /\ ~account
    /\ call' = [call EXCEPT ![c].at = "answer"]
    /\ UNCHANGED <<client, store, session, stale, old, account, qr, left, lost, overlapped>>

\* Slip: the code is not marked.
ActivateUnmarked(c) ==
    /\ call[c].at = "activate"
    /\ Issue(c, session, "qr")
    /\ UNCHANGED <<client, store, stale, old, account, qr, left, lost, overlapped>>

\* activate_qr, first as far as the code is read, then to its commit.
FindCode(c) ==
    /\ call[c].at = "enter" /\ call[c].op = "activate"
    /\ call' = [call EXCEPT ![c].at =
                    IF qr = "active" /\ account THEN "activate" ELSE "answer"]
    /\ UNCHANGED <<client, store, session, stale, old, account, qr, left, lost, overlapped>>
Activate(c) ==
    /\ call[c].at = "activate"
    /\ Issue(c, session, "qr")
    /\ qr' = "used"
    /\ UNCHANGED <<client, store, stale, old, account, left, lost, overlapped>>

\* logout: a token that is not active any more is ignored.
Revoke(c) ==
    /\ call[c].at = "revoke"
    /\ session' = IF Active(call[c].token) THEN Revoked(call[c].token) ELSE session
    /\ call' = [call EXCEPT ![c].at = "answer"]
    /\ UNCHANGED <<client, store, stale, old, account, qr, left, lost, overlapped>>

\* An endpoint behind get_current_user: the access token is parsed, the session
\* row is not looked at.
Authorized(c) == call[c].token > stale /\ account

\* When the cookies come to hold pair p, the one they held is replaced, unless p
\* comes of another sign-in: nobody revoked it, and nobody holds it any more.
\* (The history is kept while nothing was lost and no two calls overlapped.)
LeftFor(p) ==
    IF /\ client = "browser" /\ ~lost /\ ~overlapped
       /\ p # NoToken /\ store \notin {NoToken, p} /\ session[p].from # store
    THEN left \cup {store} ELSE left

\* The answer of the endpoint; that of a browser's retry also sets the cookies.
Answer(c) ==
    /\ call[c].at = "request"
    /\ Authorized(c) \/ call[c].op = "retry"
    /\ store' = IF call[c].op = "retry" /\ client = "browser" THEN call[c].token ELSE store
    /\ left' = LeftFor(store')
    /\ call' = [call EXCEPT ![c] = Idle]
    /\ UNCHANGED <<client, session, stale, old, account, qr, lost, overlapped>>

Reject(c) ==
    /\ call[c].at = "request" /\ call[c].op = "load"
    /\ ~Authorized(c)
    /\ call' = [call EXCEPT ![c].at = "unauthorized"]
    /\ UNCHANGED <<client, store, session, stale, old, account, qr, left, lost, overlapped>>

\* Time passes, and an administrator blocks the user.
Expire ==
    /\ \/ stale < Len(session) /\ stale' = stale + 1 /\ UNCHANGED old
       \/ old < stale /\ old' = old + 1 /\ UNCHANGED stale
    /\ UNCHANGED <<client, store, session, account, qr, call, left, lost, overlapped>>
Block ==
    /\ account /\ account' = FALSE
    /\ UNCHANGED <<client, store, session, stale, old, qr, call, left, lost, overlapped>>

-----------------------------------------------------------------------------
(* The client *)

\* A call that may change which tokens are good, from its request to its end.
Spending(c) ==
    \/ call[c].at \in {"refresh", "rotate", "enter", "activate", "revoke", "answer"}
    \/ call[c].op = "retry" /\ client = "browser"

Busy == {c \in Caller : call[c] # Idle}
Room == Len(session) + Cardinality(Busy) < MaxTokens

Begin(c, op, at, token) ==
    /\ call' = [call EXCEPT ![c] =
                    [op |-> op, at |-> at, token |-> token, got |-> NoToken]]
    /\ overlapped' = (overlapped \/ (at # "request" /\ \E d \in Caller \ {c} : Spending(d)))
    /\ UNCHANGED <<client, store, session, stale, old, account, qr, left, lost>>

\* withFreshAccessToken, proxyBackendAdminRequest: a call with the pair at hand.
Load(c) ==
    /\ call[c] = Idle /\ store # NoToken /\ Room
    /\ Begin(c, "load", "request", store)

\* restoreSession when the app starts; the browser's refresh redirect.
Restore(c) ==
    /\ client = "browser"
    /\ call[c] = Idle /\ store # NoToken /\ Room
    /\ Begin(c, "restore", "refresh", store)

\* The app shows its sign-in when it holds no pair.  The page and the route of
\* the browser ask for nothing: a pair that is held is overwritten, not revoked.
Login(c) ==
    /\ call[c] = Idle /\ Room
    /\ \/ client = "browser"
       \/ store = NoToken /\ ~\E d \in Call : call[d].op \in {"login", "activate"}
    /\ \/ Begin(c, "login", "enter", NoToken)
       \/ client = "app" /\ Begin(c, "activate", "enter", NoToken)

RivalActivates ==
    /\ call[Rival] = Idle /\ qr = "active" /\ Room
    /\ Begin(Rival, "activate", "enter", NoToken)

\* Slip: the client only forgets its pair.
LogoutLocal(c) ==
    /\ call[c] = Idle /\ store # NoToken
    /\ Begin(c, "logout", "answer", store)

Logout(c) ==
    /\ call[c] = Idle /\ store # NoToken
    /\ Begin(c, "logout", "revoke", store)

\* Slip: the app refreshes with the pair the call started with.
RefreshSnapshot(c) ==
    /\ call[c].at = "unauthorized"
    /\ Begin(c, "load", "refresh", call[c].token)

\* On a 401 the app refreshes with the pair it holds by now, the browser's
\* request with the cookies it came with.  No pair, no refresh.
Refresh(c) ==
    /\ call[c].at = "unauthorized"
    /\ IF client = "app" /\ store = NoToken
       THEN /\ call' = [call EXCEPT ![c] = Idle]
            /\ UNCHANGED <<client, store, session, stale, old, account, qr, left, lost, overlapped>>
       ELSE Begin(c, "load", "refresh", IF client = "app" THEN store ELSE call[c].token)

\* Slip: the retried call may refresh again.
AfterForever(c) == [call[c] EXCEPT !.op = "load", !.at = "request", !.token = call[c].got]

After(c) ==
    IF call[c].op = "load" /\ call[c].got # NoToken
    THEN [op |-> "retry", at |-> "request", token |-> call[c].got, got |-> NoToken]
    ELSE Idle

\* Slip: the app forgets to drop a pair that was refused.
HeldKept(c, got) == IF got # NoToken /\ c # Rival THEN got ELSE store

\* What the client holds when call c has got its answer (NoToken: refused, or
\* no answer): the app drops its pair on any failure to refresh, the browser
\* keeps its cookies, and writes new ones only with the answer to a retry.
Held(c, got) ==
    IF c = Rival THEN store
    ELSE IF call[c].op = "logout" THEN NoToken
    ELSE IF call[c].op \in {"load", "restore"} /\ client = "app" THEN got
    ELSE IF call[c].op = "load" \/ got = NoToken THEN store
    ELSE got

Receive(c) ==
    /\ call[c].at = "answer"
    /\ store' = Held(c, call[c].got)
    /\ left' = LeftFor(store')
    /\ call' = [call EXCEPT ![c] = After(c)]
    /\ UNCHANGED <<client, session, stale, old, account, qr, lost, overlapped>>

\* A timeout or a broken connection, before or after the server has acted.  A
\* browser that is cut off from its proxy keeps the cookies it has.
Lose(c) ==
    /\ call[c].at \in {"request", "refresh", "enter", "revoke", "answer"}
    /\ \/ store' = IF call[c].at = "request" THEN store ELSE Held(c, NoToken)
       \/ client = "browser" /\ store' = store
    /\ call' = [call EXCEPT ![c] = Idle]
    /\ lost' = TRUE
    /\ UNCHANGED <<client, session, stale, old, account, qr, left, overlapped>>

\* The app is killed and started again: its calls are gone, the pair is read
\* from the encrypted preferences and refreshed (RootRoute).
Restart(c) ==
    /\ client = "app" /\ Busy # {} /\ Room
    /\ call' = [d \in Caller |->
                    IF d = Rival THEN call[d]
                    ELSE IF d = c /\ store # NoToken
                         THEN [op |-> "restore", at |-> "refresh", token |-> store,
                               got |-> NoToken]
                         ELSE Idle]
    /\ lost' = (lost \/ \E d \in Call : Spending(d))
    /\ UNCHANGED <<client, store, session, stale, old, account, qr, left, overlapped>>

\* The steps every call in flight takes sooner or later: HTTP requests end with
\* an answer, or with the timeout of HttpTimeout (Lose).
Progress(c) ==
    \/ FindSession(c) \/ Rotate(c) \/ SignIn(c) \/ Refuse(c) \/ FindCode(c)
    \/ Activate(c) \/ Revoke(c) \/ Answer(c) \/ Reject(c) \/ Refresh(c) \/ Receive(c)

AuthNext ==
    \/ \E c \in Caller : Progress(c) \/ Lose(c)
    \/ \E c \in Call : Load(c) \/ Restore(c) \/ Login(c) \/ Logout(c) \/ Restart(c)
    \/ RivalActivates
    \/ Expire \/ Block

AuthSpec == AuthInit /\ [][AuthNext]_authVars /\ \A c \in Caller : WF_authVars(Progress(c))

-----------------------------------------------------------------------------
(* Properties *)

Issued == 1..Len(session)

\* A session that was replaced by a rotation is never active again, whatever
\* overlaps (refresh_session revokes and issues in one transaction).
ReplacedIsRevoked ==
    \A n \in Issued : ~Active(session[n].from)

\* Without an overlap no refresh token and no QR code is spent twice: a chain of
\* rotations never forks.
SpentOnce ==
    ~overlapped =>
        \A m, n \in Issued :
            /\ session[m].by = session[n].by /\ session[m].by # "login"
            /\ session[m].from = session[n].from
            => m = n

\* The app never rests on a pair whose session was revoked: some call that will
\* replace or drop the pair is under way, even if answers are lost, calls
\* overlap, the user logs out meanwhile or the app is killed.
DeadPairIsHandled ==
    client = "app" /\ store # NoToken /\ session[store].status = "revoked"
        => \E c \in Call : Spending(c)

\* The sessions of this client on the server: without a lost answer, a block or
\* an overlap, every active one belongs to the pair held, to a pair on its way to
\* the client, or to one that a sign-in of the browser over it left behind; so
\* that logging out leaves no other alive.
NoOrphanSession ==
    ~lost /\ ~overlapped /\ account =>
        \A n \in Issued : Active(n) =>
            \/ n = store
            \/ \E c \in Call : call[c].got = n \/ (call[c].op = "retry" /\ call[c].token = n)
            \/ n \in left
            \/ session[n].by = "qr"

\* A call that overlaps no other and whose answers arrive never signs the user
\* out: that takes a logout, an expired session or a blocked account.
StaysSignedIn ==
    [][store # NoToken /\ store' = NoToken /\ ~lost' /\ ~overlapped'
        => \/ \E c \in Call : call[c].op = "logout" /\ call'[c] = Idle
           \/ store <= old
           \/ ~account]_authVars

\* Every call ends: it is refreshed once and retried once, however often the
\* access token expires meanwhile.  (The start of the app may be cut short by
\* killing it again, for ever.)
CallsEnd ==
    \A c \in Caller :
        call[c] # Idle ~> call[c] = Idle \/ (client = "app" /\ call[c].op = "restore")

\* A QR code signs in one device (violated by two activations at once).
QrActivatedOnce == Cardinality({n \in Issued : session[n].by = "qr"}) <= 1
=============================================================================
