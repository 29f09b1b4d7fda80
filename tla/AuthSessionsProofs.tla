------------------------- MODULE AuthSessionsProofs -------------------------
(***************************************************************************)
(* Safety of AuthSessions for any number of calls and of token pairs, and  *)
(* of AccessPolicies for any policies, roles and open tables (at the end). *)
(*                                                                         *)
(* The first argument has three layers.  Whatever happens, a pair in an    *)
(* answer is known to nobody else and its session is active (OwnAnswer), a *)
(* session that was replaced stays revoked (ReplacedStaysRevoked).  While  *)
(* no two calls spend tokens at once (Solo), what a call checked still     *)
(* holds when it acts (CheckedHolds).  If no answer is lost either, the    *)
(* call that is spending is the one that decides what becomes of the pair  *)
(* the client holds (Decides), which is what the last invariants need.     *)
(***************************************************************************)
EXTENDS AuthSessions, AccessPolicies, SequenceTheorems, TLAPS

USE DEF NoToken

\* The operations in their phases, with the tokens they hold.
Shape(c) ==
    LET k == call[c] IN
    /\ k.token <= Len(session) /\ k.got <= Len(session)
    /\ k.op = "load" => /\ k.at \in {"request", "unauthorized", "refresh", "rotate", "answer"}
                        /\ k.token # NoToken
    /\ k.op = "retry" => k.at = "request" /\ k.token # NoToken
    /\ k.op = "restore" => k.at \in {"refresh", "rotate", "answer"} /\ k.token # NoToken
    /\ k.op = "login" => k.at \in {"enter", "answer"} /\ k.token = NoToken
    /\ k.op = "activate" => k.at \in {"enter", "activate", "answer"} /\ k.token = NoToken
    /\ k.op = "logout" => k.at \in {"revoke", "answer"} /\ k.token # NoToken /\ k.got = NoToken
    /\ k.got # NoToken => k.at = "answer"
    /\ c = Rival => k.op \in {"activate", "idle"}

Shapes ==
    /\ \A c \in Caller : Shape(c)
    /\ \A n \in Issued : session[n].from < n

ReplacedStaysRevoked ==
    \A n \in Issued : session[n].from # NoToken => session[session[n].from].status = "revoked"

\* A pair on its way to the client is known to the call that waits for it, and
\* to nobody else.
OwnAnswer ==
    \A c \in Caller : call[c].got # NoToken =>
        /\ session[call[c].got].status = "active"
        /\ session[call[c].got].from = call[c].token
        /\ store # call[c].got
        /\ \A d \in Caller : /\ call[d].token # call[c].got
                             /\ d # c => call[d].got # call[c].got
        /\ c = Rival => session[call[c].got].by = "qr"

\* The client a browser, the code is that of another device.
BrowserHasNoCode ==
    client = "browser" =>
        /\ store # NoToken => session[store].by # "qr"
        /\ \A c \in Call : /\ call[c].op # "activate"
                           /\ call[c].token # NoToken => session[call[c].token].by # "qr"
                           /\ call[c].got # NoToken => session[call[c].got].by # "qr"

CodeIsMarked == \A n \in Issued : session[n].by = "qr" => qr = "used"

\* The start of the app may meet an activation elsewhere, and is not counted as
\* an overlap: the two have no token in common.
Solo ==
    ~overlapped => \A c, d \in Caller :
        c # d /\ Spending(c) /\ Spending(d) =>
            \/ c = Rival /\ call[d].op = "restore"
            \/ d = Rival /\ call[c].op = "restore"

CheckedHolds ==
    ~overlapped => \A c \in Caller :
        /\ call[c].at = "rotate" => session[call[c].token].status = "active"
        /\ call[c].at = "activate" => qr = "active"

\* A call that will replace or drop the pair of the app.
Handles(c) ==
    /\ call[c].op \in {"load", "restore", "logout"}
    /\ call[c].at \in {"refresh", "rotate", "revoke", "answer"}

DeadPairHasHandler ==
    client = "app" /\ store # NoToken /\ session[store].status = "revoked"
        => \E c \in Call : Handles(c)

\* Without overlaps and lost answers.
Quiet == ~lost /\ ~overlapped

Decides ==
    Quiet => \A c \in Call :
        /\ client = "app" /\ Handles(c) => call[c].token = store
        /\ call[c].op \in {"restore", "logout"} => call[c].token = store
        /\ client = "app" /\ call[c].op \in {"login", "activate"} => store = NoToken
        /\ call[c].op = "logout" /\ call[c].at = "answer" => ~Active(call[c].token)
        /\ account /\ call[c].op \in {"load", "restore"} /\ call[c].at = "answer"
               /\ call[c].got = NoToken /\ client = "app" => call[c].token <= old

\* Only a call that is about to tell the client has revoked the pair it holds.
RevokedByDecider ==
    Quiet /\ client = "app" /\ store # NoToken /\ session[store].status = "revoked"
        => \E c \in Call : /\ call[c].at = "answer" /\ call[c].token = store
                           /\ call[c].op = "logout" \/ call[c].got # NoToken

\* A pair that is held no more was revoked first, or another sign-in's took its place.
ActiveIsKnown ==
    Quiet /\ account => \A n \in Issued : Active(n) =>
        \/ n = store
        \/ \E c \in Call : \/ call[c].got = n
                           \/ client = "browser" /\ call[c].op = "retry" /\ call[c].token = n
        \/ n \in left
        \/ session[n].by = "qr"

AuthInv ==
    /\ AuthTypeOK
    /\ Shapes
    /\ ReplacedStaysRevoked
    /\ OwnAnswer
    /\ BrowserHasNoCode
    /\ CodeIsMarked
    /\ Solo
    /\ CheckedHolds
    /\ SpentOnce
    /\ DeadPairHasHandler
    /\ Decides
    /\ RevokedByDecider
    /\ ActiveIsKnown

-----------------------------------------------------------------------------
\* What the types of the state say of numbers.
LEMMA TypeFacts ==
    ASSUME AuthInv
    PROVE  /\ Len(session) \in Nat /\ store \in 0..Len(session) /\ old \in Nat
           /\ \A c \in Caller : /\ call[c] \in CallState \cup {Idle}
                                /\ call[c].token \in 0..Len(session)
                                /\ call[c].got \in 0..Len(session)
                                /\ Shape(c)
           /\ \A n \in 1..Len(session) : session[n] \in SessionRow /\ session[n].from \in 0..(n - 1)
           /\ store \in Issued \cup {0} /\ 0 \notin Issued
           /\ \A c \in Caller : /\ call[c].token \in Issued \cup {0}
                                /\ call[c].got \in Issued \cup {0}
           /\ \A n \in Issued : session[n].from \in Issued \cup {0}
<1>1. Len(session) \in Nat /\ store \in 0..Len(session) /\ old \in Nat
  BY DEF AuthInv, AuthTypeOK
<1>2. ASSUME NEW c \in Caller
      PROVE  /\ call[c] \in CallState \cup {Idle}
             /\ call[c].token \in 0..Len(session) /\ call[c].got \in 0..Len(session)
             /\ Shape(c)
  BY AuthConstants, <1>1 DEF AuthInv, AuthTypeOK, Shapes, Shape, CallState, Idle, Token
<1>3. ASSUME NEW n \in 1..Len(session)
      PROVE  session[n] \in SessionRow /\ session[n].from \in 0..(n - 1)
  <2>1. session[n] \in SessionRow
    BY DEF AuthInv, AuthTypeOK
  <2>2. session[n].from < n
    BY DEF AuthInv, Shapes, Issued
  <2> QED BY <2>1, <2>2, AuthConstants DEF SessionRow, Token
<1>4. \A n \in Nat : n <= Len(session) => n \in Issued \cup {0}
  BY <1>1 DEF Issued
<1>5. \A n \in Issued : session[n].from \in Issued \cup {0}
  <2> SUFFICES ASSUME NEW n \in Issued PROVE session[n].from \in Issued \cup {0}
    OBVIOUS
  <2> n \in 1..Len(session) /\ session[n].from \in 0..(n - 1)
    BY <1>3 DEF Issued
  <2> QED BY <1>1, <1>4
<1>6. store \in Issued \cup {0} /\ 0 \notin Issued
  BY <1>1, <1>4 DEF Issued
<1>7. \A c \in Caller : call[c].token \in Issued \cup {0} /\ call[c].got \in Issued \cup {0}
  BY <1>1, <1>2, <1>4
<1> QED BY <1>1, <1>2, <1>3, <1>5, <1>6, <1>7

\* The phase of a call tells what it holds.
LEMMA CallFacts ==
    ASSUME AuthInv, NEW c \in Caller, call[c] # Idle
    PROVE  /\ call[c] \in CallState
           /\ call[c].op \in {"load", "retry", "restore", "login", "activate", "logout"}
           /\ call[c].at # "answer" => call[c].got = NoToken
           /\ call[c].at \in {"refresh", "rotate"} => call[c].op \in {"load", "restore"}
           /\ call[c].at = "revoke" => call[c].op = "logout"
           /\ call[c].at = "enter" => call[c].op \in {"login", "activate"}
           /\ call[c].at = "activate" => call[c].op = "activate"
           /\ call[c].at = "request" => call[c].op \in {"load", "retry"}
           /\ call[c].at = "unauthorized" => call[c].op = "load"
           /\ call[c].op \in {"login", "activate"} => call[c].token = NoToken
           /\ call[c].op \notin {"login", "activate"} =>
                 call[c].token \in Issued
           /\ call[c].op # "activate" => c # Rival
<1>1. /\ call[c] \in CallState /\ Shape(c) /\ call[c].token \in 0..Len(session)
      /\ Len(session) \in Nat
  BY TypeFacts
<1>2. call[c].op \in {"load", "retry", "restore", "login", "activate", "logout"}
  BY <1>1 DEF CallState
<1> QED BY <1>1, <1>2 DEF Shape, Issued

\* One call changes.
LEMMA CallChanges ==
    ASSUME AuthInv, NEW c \in Caller, NEW k \in CallState \cup {Idle},
           call' = [call EXCEPT ![c] = k]
    PROVE  /\ call' \in [Caller -> CallState \cup {Idle}]
           /\ call'[c] = k
           /\ \A d \in Caller : d # c => call'[d] = call[d]
BY DEF AuthInv, AuthTypeOK

\* A row is revoked; the others stay, and so does all else of the row.
LEMMA RowRevoked ==
    ASSUME AuthInv, NEW t \in Issued
    PROVE  /\ Revoked(t) \in Seq(SessionRow) /\ Len(Revoked(t)) = Len(session)
           /\ \A n \in Issued :
                 /\ Revoked(t)[n].by = session[n].by /\ Revoked(t)[n].from = session[n].from
                 /\ n # t => Revoked(t)[n].status = session[n].status
           /\ Revoked(t)[t].status = "revoked"
<1>1. session \in Seq(SessionRow)
  BY DEF AuthInv, AuthTypeOK
<1>2. \A n \in 1..Len(session) : session[n] \in SessionRow
  BY <1>1
<1>3. [session[t] EXCEPT !.status = "revoked"] \in SessionRow
  BY <1>2 DEF SessionRow, Issued
<1>4. Revoked(t) \in Seq(SessionRow) /\ Len(Revoked(t)) = Len(session)
  BY <1>1, <1>3 DEF Revoked, Issued
<1>5. \A n \in 1..Len(session) :
         Revoked(t)[n] = IF n = t THEN [session[t] EXCEPT !.status = "revoked"] ELSE session[n]
  BY <1>1 DEF Revoked, Issued
<1> QED BY <1>2, <1>4, <1>5 DEF SessionRow, Issued

\* A pair is issued: a new row, and a call that takes it to the client.
LEMMA PairIssued ==
    ASSUME AuthInv, NEW c \in Caller, call[c] \in CallState,
           NEW table \in Seq(SessionRow), Len(table) = Len(session),
           NEW by \in {"login", "qr", "refresh"}, Issue(c, table, by)
    PROVE  LET new == Len(session) + 1 IN
           /\ session' \in Seq(SessionRow) /\ Len(session') = new /\ new <= MaxTokens
           /\ new \notin Issued /\ new # 0 /\ new > old /\ Issued' = Issued \cup {new}
           /\ \A n \in Issued : session'[n] = table[n]
           /\ session'[new].status = "active" /\ session'[new].by = by
           /\ session'[new].from = call[c].token
           /\ call' \in [Caller -> CallState \cup {Idle}]
           /\ call'[c].op = call[c].op /\ call'[c].at = "answer"
           /\ call'[c].token = call[c].token /\ call'[c].got = new
           /\ \A d \in Caller : d # c => call'[d] = call[d]
<1> DEFINE new == Len(session) + 1
           row == [status |-> "active", by |-> by, from |-> call[c].token]
           k == [call[c] EXCEPT !.at = "answer", !.got = new]
<1>1. row \in SessionRow
  BY DEF CallState, SessionRow
<1>2. new \in Token /\ new <= MaxTokens /\ Len(session) \in Nat
  BY AuthConstants DEF AuthInv, AuthTypeOK, Issue, Token
<1>3. /\ k \in CallState
      /\ k.op = call[c].op /\ k.at = "answer" /\ k.token = call[c].token /\ k.got = new
  <2> HIDE DEF new
  <2> QED BY <1>2 DEF CallState
<1>4. call' = [call EXCEPT ![c] = k]
  BY DEF Issue, AuthInv, AuthTypeOK
<1>5. session' = Append(table, row)
  BY DEF Issue
<1>6. /\ session' \in Seq(SessionRow) /\ Len(session') = new
      /\ \A n \in 1..Len(session) : session'[n] = table[n]
      /\ session'[new] = row
  BY <1>1, <1>5, AppendProperties
<1>7. /\ call' \in [Caller -> CallState \cup {Idle}] /\ call'[c] = k
      /\ \A d \in Caller : d # c => call'[d] = call[d]
  BY <1>3, <1>4, CallChanges
<1>8. new \notin Issued /\ new # 0 /\ new > old /\ Issued' = Issued \cup {new}
  BY <1>2, <1>6 DEF Issued, AuthInv, AuthTypeOK
<1>9. \A n \in Issued : session'[n] = table[n]
  BY <1>6 DEF Issued
<1> HIDE DEF new, k
<1> QED BY <1>2, <1>3, <1>6, <1>7, <1>8, <1>9 DEF new

LEMMA Initially == AuthInit => AuthInv
<1> SUFFICES ASSUME AuthInit PROVE AuthInv
  OBVIOUS
<1>0. session = <<>> /\ Len(session) = 0 /\ session \in Seq(SessionRow) /\ Issued = {}
  BY DEF AuthInit, Issued
<1>1. \A c \in Caller : call[c] = Idle
  BY DEF AuthInit
<1>2. AuthTypeOK
  <2>1. call \in [Caller -> CallState \cup {Idle}]
    BY DEF AuthInit
  <2>2. Len(session) <= MaxTokens /\ 0 \in 0..Len(session) /\ 0 \in 0..0
    BY <1>0, AuthConstants
  <2> QED BY <1>0, <2>1, <2>2 DEF AuthInit, AuthTypeOK
<1>3. Shapes /\ ReplacedStaysRevoked /\ CodeIsMarked /\ SpentOnce /\ ActiveIsKnown
  BY <1>0, <1>1 DEF Shapes, Shape, ReplacedStaysRevoked, CodeIsMarked, SpentOnce, ActiveIsKnown, Idle
<1>4. OwnAnswer /\ BrowserHasNoCode /\ Solo /\ CheckedHolds /\ DeadPairHasHandler
  BY <1>1 DEF AuthInit, OwnAnswer, BrowserHasNoCode, Solo, Spending, CheckedHolds,
              DeadPairHasHandler, Idle, Caller
<1>5. Decides /\ RevokedByDecider
  BY <1>1 DEF AuthInit, Decides, Handles, RevokedByDecider, Idle, Caller
<1> QED BY <1>2, <1>3, <1>4, <1>5 DEF AuthInv

LEMMA RotateStep ==
    ASSUME AuthInv, NEW c \in Caller, Rotate(c)
    PROVE  AuthInv'
<1> DEFINE t == call[c].token
           new == Len(session) + 1
<1>t. /\ store \in Issued \cup {0} /\ 0 \notin Issued
      /\ \A d \in Caller : call[d].token \in Issued \cup {0} /\ call[d].got \in Issued \cup {0}
      /\ \A n \in Issued : session[n].from \in Issued \cup {0}
  BY TypeFacts
<1>a. /\ call[c].at = "rotate" /\ call[c].op \in {"load", "restore"} /\ call[c].got = NoToken
      /\ t \in Issued /\ c # Rival /\ call[c] \in CallState
  BY CallFacts DEF Rotate, Idle
<1>u. UNCHANGED <<client, store, stale, old, account, qr, left, lost, overlapped>>
  BY DEF Rotate
<1>i. Issue(c, Revoked(t), "refresh") /\ Revoked(t) \in Seq(SessionRow) /\ Len(Revoked(t)) = Len(session)
  BY <1>a, RowRevoked DEF Rotate
<1>1. AuthTypeOK'
  <2> /\ session' \in Seq(SessionRow) /\ call' \in [Caller -> CallState \cup {Idle}]
      /\ Len(session') = new /\ new <= MaxTokens
    BY <1>a, <1>i, PairIssued
  <2> QED BY <1>u DEF AuthInv, AuthTypeOK
<1> HIDE DEF new
<1>n. new \notin Issued /\ new # 0 /\ new > old /\ Issued' = Issued \cup {new}
  BY <1>a, <1>i, PairIssued DEF new
<1>r. /\ session'[t].status = "revoked"
      /\ \A n \in Issued :
            /\ session'[n].by = session[n].by /\ session'[n].from = session[n].from
            /\ n # t => session'[n].status = session[n].status
      /\ session'[new].status = "active" /\ session'[new].by = "refresh" /\ session'[new].from = t
  BY <1>a, <1>i, RowRevoked, PairIssued DEF new
<1>c. /\ call'[c].op = call[c].op /\ call'[c].at = "answer" /\ call'[c].token = t /\ call'[c].got = new
      /\ \A d \in Caller : d # c => call'[d] = call[d]
  BY <1>a, <1>i, PairIssued DEF new
<1>v. \A n \in Issued \cup {0} : Active(n)' => n # t /\ Active(n)
  <2> /\ \A n \in Issued : Active(n)' => n # t /\ Active(n)
      /\ old \in Nat /\ ~Active(0)'
    BY <1>r, <1>u, TypeFacts DEF Active
  <2> QED BY <1>a
<1>2. Shapes'
  <2>1. ASSUME NEW d \in Caller PROVE Shape(d)'
    BY <1>a, <1>c, <1>i, TypeFacts, PairIssued DEF Shape, new
  <2>2. ASSUME NEW n \in Issued' PROVE session'[n].from < n
    <3>1. CASE n = new BY <3>1, <1>a, <1>r, TypeFacts DEF new, Issued
    <3>2. CASE n \in Issued BY <3>2, <1>r DEF AuthInv, Shapes
    <3> QED BY <3>1, <3>2, <1>n
  <2> QED BY <2>1, <2>2 DEF Shapes
<1> HIDE DEF t
<1>3. ReplacedStaysRevoked'
  BY <1>a, <1>n, <1>r, <1>t DEF AuthInv, ReplacedStaysRevoked
<1>4. OwnAnswer'
  BY <1>t, <1>a, <1>r, <1>c, <1>u, <1>n DEF AuthInv, OwnAnswer, t
<1>5. BrowserHasNoCode'
  BY <1>t, <1>a, <1>r, <1>c, <1>u, <1>n DEF AuthInv, BrowserHasNoCode, Caller, t
<1>6. CodeIsMarked'
  BY <1>t, <1>a, <1>r, <1>u, <1>n DEF AuthInv, CodeIsMarked
<1>7. Solo'
  BY <1>a, <1>c, <1>u DEF AuthInv, Solo, Spending
<1>8. CheckedHolds'
  <2> \A d \in Caller : call[d].at = "rotate" => d # Rival
    BY CallFacts DEF Idle
  <2> QED BY <1>t, <1>a, <1>c, <1>r, <1>u, <1>n DEF AuthInv, CheckedHolds, Solo, Spending, t
<1>9. SpentOnce'
  BY <1>t, <1>a, <1>r, <1>u, <1>n DEF AuthInv, SpentOnce, CheckedHolds, ReplacedStaysRevoked, t
<1>10. DeadPairHasHandler'
  BY <1>t, <1>a, <1>c, <1>r, <1>u, <1>n DEF AuthInv, DeadPairHasHandler, Handles, Caller
<1>11. Decides'
  BY <1>t, <1>a, <1>c, <1>r, <1>u, <1>n, <1>v DEF AuthInv, Decides, Handles, Quiet, Solo, Spending, Caller, t
<1>12. RevokedByDecider'
  BY <1>t, <1>a, <1>c, <1>r, <1>u, <1>n DEF AuthInv, RevokedByDecider, Quiet, Caller
<1>14. ActiveIsKnown'
  BY <1>t, <1>a, <1>c, <1>r, <1>u, <1>n, <1>v DEF AuthInv, ActiveIsKnown, Quiet, Caller
<1> QED BY <1>1, <1>2, <1>3, <1>4, <1>5, <1>6, <1>7, <1>8, <1>9, <1>10, <1>11, <1>12, <1>14 DEF AuthInv
\* The phase of a call changes, after a look at the rows.
LEMMA LookStep ==
    ASSUME AuthInv, NEW c \in Caller,
           FindSession(c) \/ Refuse(c) \/ FindCode(c) \/ Reject(c)
    PROVE  AuthInv'
<1>t. /\ store \in Issued \cup {0} /\ 0 \notin Issued
      /\ \A d \in Caller : call[d].token \in Issued \cup {0} /\ call[d].got \in Issued \cup {0}
      /\ Rival \notin Call /\ Caller = Call \cup {Rival}
  BY TypeFacts, AuthConstants DEF Caller
<1>u. UNCHANGED <<client, store, session, stale, old, account, qr, left, lost, overlapped>>
  BY DEF FindSession, Refuse, FindCode, Reject
<1>a. call[c] # Idle /\ call[c] \in CallState /\ call[c].got = NoToken
  BY CallFacts DEF FindSession, Refuse, FindCode, Reject, Idle
<1>p. PICK at \in {"rotate", "answer", "activate", "unauthorized"} :
         /\ call' = [call EXCEPT ![c].at = at]
         /\ \/ /\ call[c].op \in {"load", "restore"} /\ call[c].at = "refresh"
               /\ call[c].token # NoToken /\ c \in Call
               /\ \/ at = "rotate" /\ Active(call[c].token) /\ account
                  \/ at = "answer" /\ (account => ~Active(call[c].token))
            \/ call[c].op = "login" /\ call[c].at = "enter" /\ at = "answer"
            \/ call[c].op = "activate" /\ call[c].at = "enter" /\ at = "activate" /\ qr = "active"
            \/ call[c].op = "activate" /\ call[c].at = "enter" /\ at = "answer"
            \/ call[c].op = "load" /\ call[c].at = "request" /\ at = "unauthorized"
  <2>1. CASE FindSession(c)
    <3>1. /\ call[c].op \in {"load", "restore"} /\ call[c].at = "refresh"
          /\ call[c].token # NoToken /\ c \in Call
      BY <2>1, <1>a, <1>t, CallFacts DEF FindSession
    <3>2. CASE Active(call[c].token) /\ account
      BY <2>1, <3>1, <3>2 DEF FindSession
    <3>3. CASE ~(Active(call[c].token) /\ account)
      BY <2>1, <3>1, <3>3 DEF FindSession
    <3> QED BY <3>2, <3>3
  <2>2. CASE Refuse(c)
    BY <2>2 DEF Refuse
  <2>3. CASE FindCode(c)
    <3>1. CASE qr = "active" /\ account
      BY <2>3, <3>1 DEF FindCode
    <3>2. CASE ~(qr = "active" /\ account)
      BY <2>3, <3>2 DEF FindCode
    <3> QED BY <3>1, <3>2
  <2>4. CASE Reject(c)
    BY <2>4 DEF Reject
  <2> QED BY <2>1, <2>2, <2>3, <2>4
<1>c. /\ call' \in [Caller -> CallState \cup {Idle}]
      /\ call'[c].op = call[c].op /\ call'[c].at = at
      /\ call'[c].token = call[c].token /\ call'[c].got = call[c].got
      /\ \A d \in Caller : d # c => call'[d] = call[d]
  <2> DEFINE k == [call[c] EXCEPT !.at = at]
  <2>1. k \in CallState /\ k.op = call[c].op /\ k.at = at /\ k.token = call[c].token /\ k.got = call[c].got
    BY <1>a DEF CallState
  <2>2. call' = [call EXCEPT ![c] = k]
    BY <1>p
  <2> HIDE DEF k
  <2> QED BY <2>1, <2>2, CallChanges
<1>v. \A n : Active(n)' <=> Active(n)
  BY <1>u DEF Active
<1>w. Issued' = Issued
  BY <1>u DEF Issued
<1>1. AuthTypeOK'
  BY <1>c, <1>u DEF AuthInv, AuthTypeOK
<1>2. Shapes'
  BY <1>t, <1>a, <1>p, <1>c, <1>u, <1>v, <1>w DEF AuthInv, Shapes, Shape
<1>3. ReplacedStaysRevoked'
  BY <1>t, <1>a, <1>p, <1>c, <1>u, <1>v, <1>w DEF AuthInv, ReplacedStaysRevoked
<1>4. OwnAnswer'
  BY <1>t, <1>a, <1>p, <1>c, <1>u, <1>v, <1>w DEF AuthInv, OwnAnswer
<1>5. BrowserHasNoCode'
  BY <1>t, <1>a, <1>p, <1>c, <1>u, <1>v, <1>w DEF AuthInv, BrowserHasNoCode
<1>6. CodeIsMarked'
  BY <1>t, <1>a, <1>p, <1>c, <1>u, <1>v, <1>w DEF AuthInv, CodeIsMarked
<1>7. Solo'
  BY <1>t, <1>a, <1>p, <1>c, <1>u, <1>v, <1>w DEF AuthInv, Solo, Spending
<1>8. CheckedHolds'
  BY <1>t, <1>a, <1>p, <1>c, <1>u DEF AuthInv, CheckedHolds, Active
<1>9. SpentOnce'
  BY <1>t, <1>a, <1>p, <1>c, <1>u, <1>v, <1>w DEF AuthInv, SpentOnce
<1>10. DeadPairHasHandler'
  BY <1>t, <1>a, <1>p, <1>c, <1>u, <1>v, <1>w DEF AuthInv, DeadPairHasHandler, Handles
<1>11. Decides'
  <2> SUFFICES ASSUME Quiet', NEW d \in Call
               PROVE  /\ client = "app" /\ Handles(d)' => call'[d].token = store
                      /\ call'[d].op \in {"restore", "logout"} => call'[d].token = store
                      /\ client = "app" /\ call'[d].op \in {"login", "activate"} => store = NoToken
                      /\ call'[d].op = "logout" /\ call'[d].at = "answer" => ~Active(call'[d].token)
                      /\ account /\ call'[d].op \in {"load", "restore"} /\ call'[d].at = "answer"
                             /\ call'[d].got = NoToken /\ client = "app" => call'[d].token <= old
    BY <1>u, <1>v DEF Decides
  <2>0. Quiet
    BY <1>u DEF Quiet
  <2>1. CASE d # c
    BY <2>0, <2>1, <1>c, <1>t DEF AuthInv, Decides, Handles
  <2>2. CASE d = c /\ call[c].op \in {"login", "activate"}
    BY <2>0, <2>2, <1>a, <1>p, <1>c, <1>t DEF AuthInv, Decides, Handles
  <2>3. CASE d = c /\ call[c].op = "load" /\ call[c].at = "request"
    BY <2>3, <1>a, <1>p, <1>c, <1>t DEF Handles
  <2>4. CASE d = c /\ call[c].at = "refresh"
    <3>1. /\ call[c].op \in {"load", "restore"} /\ call[c].token \in Issued
          /\ client = "app" \/ call[c].op = "restore" => call[c].token = store
      BY <2>0, <2>4, <1>p, <1>t DEF AuthInv, Decides, Handles
    <3>2. \A e \in Call : e # c => ~Spending(e)
      BY <2>0, <2>4, <1>t DEF AuthInv, Solo, Spending, Quiet
    <3>4. account /\ at = "answer" /\ client = "app" => call[c].token <= old
      <4> SUFFICES ASSUME ~Active(store), client = "app", call[c].token = store,
                          ~(store <= old)
                   PROVE  FALSE
        BY <1>p, <3>1
      <4>1. session[store].status = "revoked"
        BY <3>1, TypeFacts DEF Active, SessionRow, Issued
      <4>2. PICK e \in Call : call[e].at = "answer"
        BY <2>0, <4>1, <3>1, <1>t DEF AuthInv, RevokedByDecider
      <4> QED BY <2>4, <3>2, <4>2 DEF Spending
    <3> QED BY <2>4, <3>1, <3>4, <1>a, <1>p, <1>c DEF Handles
  <2> QED BY <2>1, <2>2, <2>3, <2>4, <1>p
<1>12. RevokedByDecider'
  BY <1>t, <1>a, <1>p, <1>c, <1>u, <1>v, <1>w DEF AuthInv, RevokedByDecider, Quiet
<1>14. ActiveIsKnown'
  BY <1>t, <1>a, <1>p, <1>c, <1>u, <1>v, <1>w DEF AuthInv, ActiveIsKnown, Quiet
<1> QED BY <1>1, <1>2, <1>3, <1>4, <1>5, <1>6, <1>7, <1>8, <1>9, <1>10, <1>11, <1>12, <1>14 DEF AuthInv

\* A call starts, or refreshes after a 401.
LEMMA BeginStep ==
    ASSUME AuthInv, NEW c \in Caller, NEW op, NEW at, NEW token,
           Begin(c, op, at, token),
           \/ /\ c \in Call /\ call[c] = Idle /\ token = store /\ store # NoToken
              /\ <<op, at>> \in {<<"load", "request">>, <<"restore", "refresh">>, <<"logout", "revoke">>}
           \/ /\ c \in Call /\ call[c] = Idle /\ token = NoToken /\ at = "enter"
              /\ client = "browser" \/ store = NoToken
              /\ op = "login" \/ (op = "activate" /\ client = "app")
           \/ c = Rival /\ call[c] = Idle /\ token = NoToken /\ op = "activate" /\ at = "enter"
           \/ /\ call[c].at = "unauthorized" /\ op = "load" /\ at = "refresh"
              /\ token = IF client = "app" THEN store ELSE call[c].token
              /\ token # NoToken
    PROVE  AuthInv'
<1>t. /\ store \in Issued \cup {0} /\ 0 \notin Issued
      /\ \A d \in Caller : call[d].token \in Issued \cup {0} /\ call[d].got \in Issued \cup {0}
      /\ Rival \notin Call /\ Caller = Call \cup {Rival}
  BY TypeFacts, AuthConstants DEF Caller
<1>u. UNCHANGED <<client, store, session, stale, old, account, qr, left, lost>>
  BY DEF Begin
<1>k. \/ /\ c \in Call /\ call[c] = Idle /\ token = store /\ store # NoToken
         /\ \/ op = "load" /\ at = "request"
            \/ op = "restore" /\ at = "refresh"
            \/ op = "logout" /\ at = "revoke"
      \/ /\ c \in Call /\ call[c] = Idle /\ token = NoToken /\ at = "enter"
         /\ client = "browser" \/ store = NoToken
         /\ op = "login" \/ (op = "activate" /\ client = "app")
      \/ c = Rival /\ call[c] = Idle /\ token = NoToken /\ op = "activate" /\ at = "enter"
      \/ /\ call[c].at = "unauthorized" /\ op = "load" /\ at = "refresh" /\ token # NoToken
         /\ call[c].op = "load" /\ call[c].got = NoToken /\ c \in Call
         /\ client = "app" => token = store
         /\ client # "app" => token = call[c].token
  BY <1>t, CallFacts DEF Idle
<1>c. /\ call' \in [Caller -> CallState \cup {Idle}]
      /\ call'[c].op = op /\ call'[c].at = at /\ call'[c].token = token /\ call'[c].got = NoToken
      /\ \A d \in Caller : d # c => call'[d] = call[d]
  <2> DEFINE k == [op |-> op, at |-> at, token |-> token, got |-> NoToken]
  <2>1. token \in Issued \cup {0}
    BY <1>k, <1>t
  <2>2. token \in Token \cup {NoToken}
    <3> Issued \subseteq Token
      BY AuthConstants, TypeFacts DEF AuthInv, AuthTypeOK, Issued, Token
    <3> QED BY <2>1
  <2>3. k \in CallState
    BY <1>k, <2>2 DEF CallState
  <2>4. call' = [call EXCEPT ![c] = k]
    BY DEF Begin
  <2> HIDE DEF k
  <2>5. call' \in [Caller -> CallState \cup {Idle}] /\ call'[c] = k
        /\ \A d \in Caller : d # c => call'[d] = call[d]
    BY <2>3, <2>4, CallChanges
  <2> QED BY <2>5 DEF k
<1>s. ~overlapped' => ~overlapped /\ (at # "request" => \A d \in Caller : d # c => ~Spending(d))
  BY DEF Begin
<1>v. \A n : Active(n)' <=> Active(n)
  BY <1>u DEF Active
<1>w. Issued' = Issued
  BY <1>u DEF Issued
<1>i. call[c].got = NoToken /\ call[c].op # "retry" /\ call[c].at \in {"idle", "unauthorized"}
  BY <1>k DEF Idle
<1>1. AuthTypeOK'
  <2> overlapped' \in BOOLEAN
    BY DEF Begin, AuthInv, AuthTypeOK
  <2> QED BY <1>c, <1>u DEF AuthInv, AuthTypeOK
<1>2. Shapes'
  <2>1. ASSUME NEW d \in Caller PROVE Shape(d)'
    <3>1. CASE d = c
      <4> token <= Len(session) /\ 0 <= Len(session)
        BY <1>t, <1>k, TypeFacts DEF Issued
      <4> QED BY <3>1, <1>t, <1>k, <1>c, <1>u DEF Shape
    <3>2. CASE d # c
      BY <3>2, <1>c, <1>u DEF AuthInv, Shapes, Shape
    <3> QED BY <3>1, <3>2
  <2> QED BY <2>1, <1>u, <1>w DEF AuthInv, Shapes
<1>3. ReplacedStaysRevoked'
  BY <1>t, <1>k, <1>i, <1>c, <1>u, <1>s, <1>v, <1>w DEF AuthInv, ReplacedStaysRevoked
<1>4. OwnAnswer'
  BY <1>t, <1>k, <1>i, <1>c, <1>u, <1>s, <1>v, <1>w DEF AuthInv, OwnAnswer
<1>5. BrowserHasNoCode'
  BY <1>t, <1>k, <1>c, <1>u DEF AuthInv, AuthTypeOK, BrowserHasNoCode
<1>6. CodeIsMarked'
  BY <1>t, <1>k, <1>i, <1>c, <1>u, <1>s, <1>v, <1>w DEF AuthInv, CodeIsMarked
<1>7. Solo'
  BY <1>t, <1>k, <1>i, <1>c, <1>u, <1>s, <1>v, <1>w DEF AuthInv, Solo, Spending
<1>8. CheckedHolds'
  BY <1>t, <1>k, <1>i, <1>c, <1>u, <1>s, <1>v, <1>w DEF AuthInv, CheckedHolds
<1>9. SpentOnce'
  BY <1>t, <1>k, <1>i, <1>c, <1>u, <1>s, <1>v, <1>w DEF AuthInv, SpentOnce
<1>10. DeadPairHasHandler'
  BY <1>t, <1>k, <1>i, <1>c, <1>u, <1>s, <1>v, <1>w DEF AuthInv, DeadPairHasHandler, Handles
<1>11. Decides'
  <2> SUFFICES ASSUME Quiet', NEW d \in Call
               PROVE  /\ client = "app" /\ Handles(d)' => call'[d].token = store
                      /\ call'[d].op \in {"restore", "logout"} => call'[d].token = store
                      /\ client = "app" /\ call'[d].op \in {"login", "activate"} => store = NoToken
                      /\ call'[d].op = "logout" /\ call'[d].at = "answer" => ~Active(call'[d].token)
                      /\ account /\ call'[d].op \in {"load", "restore"} /\ call'[d].at = "answer"
                             /\ call'[d].got = NoToken /\ client = "app" => call'[d].token <= old
    BY <1>u, <1>v DEF Decides
  <2>1. Quiet
    BY <1>s, <1>u DEF Quiet
  <2>2. CASE d = c
    BY <2>2, <1>k, <1>c, <1>t DEF Handles
  <2>3. CASE d # c
    BY <2>1, <2>3, <1>c, <1>t DEF AuthInv, Decides, Handles
  <2> QED BY <2>2, <2>3
<1>12. RevokedByDecider'
  BY <1>t, <1>k, <1>i, <1>c, <1>u, <1>s, <1>v, <1>w DEF AuthInv, RevokedByDecider, Quiet
<1>14. ActiveIsKnown'
  BY <1>t, <1>k, <1>i, <1>c, <1>u, <1>s, <1>v, <1>w DEF AuthInv, ActiveIsKnown, Quiet
<1> QED BY <1>1, <1>2, <1>3, <1>4, <1>5, <1>6, <1>7, <1>8, <1>9, <1>10, <1>11, <1>12, <1>14 DEF AuthInv

\* A login or an activation issues a pair that replaces none.
LEMMA EnterStep ==
    ASSUME AuthInv, NEW c \in Caller, SignIn(c) \/ Activate(c)
    PROVE  AuthInv'
<1> DEFINE new == Len(session) + 1
<1>t. /\ store \in Issued \cup {0} /\ 0 \notin Issued
      /\ \A d \in Caller : call[d].token \in Issued \cup {0} /\ call[d].got \in Issued \cup {0}
      /\ Rival \notin Call /\ Caller = Call \cup {Rival}
      /\ \A n \in Issued : session[n].from \in Issued \cup {0}
  BY TypeFacts, AuthConstants DEF Caller
<1>u. UNCHANGED <<client, store, stale, old, account, left, lost, overlapped>>
  BY DEF SignIn, Activate
<1>a. /\ call[c] \in CallState /\ call[c].got = NoToken /\ call[c].token = NoToken
      /\ call[c].op \in {"login", "activate"} /\ call[c].at \in {"enter", "activate"}
      /\ call[c].op = "login" => c \in Call
  BY <1>t, CallFacts DEF SignIn, Activate, Idle
<1>p. PICK by \in {"login", "qr"} :
         /\ Issue(c, session, by)
         /\ \/ call[c].op = "login" /\ by = "login" /\ qr' = qr
            \/ call[c].op = "activate" /\ call[c].at = "activate" /\ by = "qr" /\ qr' = "used"
  BY <1>a, CallFacts DEF SignIn, Activate, Idle
<1>i. session \in Seq(SessionRow)
  BY DEF AuthInv, AuthTypeOK
<1>1. AuthTypeOK'
  <2> /\ session' \in Seq(SessionRow) /\ call' \in [Caller -> CallState \cup {Idle}]
      /\ Len(session') = new /\ new <= MaxTokens
    BY <1>a, <1>i, <1>p, PairIssued
  <2> QED BY <1>u, <1>p DEF AuthInv, AuthTypeOK
<1> HIDE DEF new
<1>n. new \notin Issued /\ new # 0 /\ new > old /\ Issued' = Issued \cup {new}
  BY <1>a, <1>i, <1>p, PairIssued DEF new
<1>r. /\ \A n \in Issued : session'[n] = session[n]
      /\ session'[new].status = "active" /\ session'[new].by = by /\ session'[new].from = 0
  BY <1>a, <1>i, <1>p, PairIssued DEF new
<1>c. /\ call'[c].op = call[c].op /\ call'[c].at = "answer" /\ call'[c].token = NoToken
      /\ call'[c].got = new
      /\ \A d \in Caller : d # c => call'[d] = call[d]
  BY <1>a, <1>i, <1>p, PairIssued DEF new
<1>v. /\ \A n \in Issued : Active(n)' => Active(n)
      /\ \A n : n = 0 => ~(Active(n)')
  BY <1>r, <1>u, TypeFacts DEF Active
<1>2. Shapes'
  <2>1. ASSUME NEW d \in Caller PROVE Shape(d)'
    BY <1>a, <1>c, <1>i, <1>p, TypeFacts, PairIssued DEF Shape, new
  <2>2. ASSUME NEW n \in Issued' PROVE session'[n].from < n
    <3>1. CASE n = new BY <3>1, <1>r, TypeFacts DEF new
    <3>2. CASE n \in Issued BY <3>2, <1>r DEF AuthInv, Shapes
    <3> QED BY <3>1, <3>2, <1>n
  <2> QED BY <2>1, <2>2 DEF Shapes
<1>3. ReplacedStaysRevoked'
  BY <1>t, <1>n, <1>r DEF AuthInv, ReplacedStaysRevoked
<1>4. OwnAnswer'
  BY <1>t, <1>a, <1>p, <1>n, <1>r, <1>c, <1>u, <1>v DEF AuthInv, OwnAnswer
<1>5. BrowserHasNoCode'
  BY <1>t, <1>a, <1>p, <1>n, <1>r, <1>c, <1>u, <1>v DEF AuthInv, BrowserHasNoCode
<1>6. CodeIsMarked'
  BY <1>t, <1>a, <1>p, <1>n, <1>r, <1>c, <1>u, <1>v DEF AuthInv, CodeIsMarked
<1>7. Solo'
  BY <1>t, <1>a, <1>p, <1>n, <1>r, <1>c, <1>u, <1>v DEF AuthInv, Solo, Spending
<1>8. CheckedHolds'
  <2>1. \A d \in Caller : call[d].at = "activate" => call[d].op = "activate"
    BY CallFacts DEF Idle
  <2>2. \A d \in Caller : call[d].at = "rotate" => call[d].token \in Issued
    BY CallFacts DEF Idle
  <2> QED BY <2>1, <2>2, <1>t, <1>a, <1>p, <1>n, <1>r, <1>c, <1>u DEF AuthInv, CheckedHolds, Solo, Spending
<1>9. SpentOnce'
  BY <1>t, <1>a, <1>p, <1>n, <1>r, <1>u DEF AuthInv, SpentOnce, CheckedHolds, CodeIsMarked
<1>10. DeadPairHasHandler'
  BY <1>t, <1>a, <1>p, <1>n, <1>r, <1>c, <1>u, <1>v DEF AuthInv, DeadPairHasHandler, Handles
<1>11. Decides'
  BY <1>t, <1>a, <1>p, <1>n, <1>r, <1>c, <1>u, <1>v DEF AuthInv, Decides, Handles, Quiet
<1>12. RevokedByDecider'
  BY <1>t, <1>a, <1>p, <1>n, <1>r, <1>c, <1>u, <1>v DEF AuthInv, RevokedByDecider, Quiet
<1>14. ActiveIsKnown'
  BY <1>t, <1>a, <1>p, <1>n, <1>r, <1>c, <1>u, <1>v DEF AuthInv, ActiveIsKnown, Quiet
<1> QED BY <1>1, <1>2, <1>3, <1>4, <1>5, <1>6, <1>7, <1>8, <1>9, <1>10, <1>11, <1>12, <1>14 DEF AuthInv

\* A logout revokes the session it is about, unless that is over already.
LEMMA RevokeStep ==
    ASSUME AuthInv, NEW c \in Caller, Revoke(c)
    PROVE  AuthInv'
<1> DEFINE t == call[c].token
<1>t. /\ store \in Issued \cup {0} /\ 0 \notin Issued
      /\ \A d \in Caller : call[d].token \in Issued \cup {0} /\ call[d].got \in Issued \cup {0}
      /\ Rival \notin Call /\ Caller = Call \cup {Rival}
      /\ \A n \in Issued : session[n].from \in Issued \cup {0}
  BY TypeFacts, AuthConstants DEF Caller
<1>u. UNCHANGED <<client, store, stale, old, account, qr, left, lost, overlapped>>
  BY DEF Revoke
<1>a. /\ call[c] \in CallState /\ call[c].got = NoToken /\ call[c].op = "logout"
      /\ call[c].at = "revoke" /\ t \in Issued /\ c \in Call
  BY <1>t, CallFacts DEF Revoke, Idle
<1>c. /\ call' \in [Caller -> CallState \cup {Idle}]
      /\ call'[c].op = "logout" /\ call'[c].at = "answer"
      /\ call'[c].token = t /\ call'[c].got = NoToken
      /\ \A d \in Caller : d # c => call'[d] = call[d]
  <2> DEFINE k == [call[c] EXCEPT !.at = "answer"]
  <2>1. k \in CallState /\ k.op = "logout" /\ k.at = "answer" /\ k.token = t /\ k.got = NoToken
    BY <1>a DEF CallState
  <2>2. call' = [call EXCEPT ![c] = k]
    BY DEF Revoke
  <2> HIDE DEF k
  <2> QED BY <2>1, <2>2, CallChanges
<1>i. session' = IF Active(t) THEN Revoked(t) ELSE session
  BY DEF Revoke
<1>r. /\ session' \in Seq(SessionRow) /\ Len(session') = Len(session)
      /\ \A n \in Issued :
            /\ session'[n].by = session[n].by /\ session'[n].from = session[n].from
            /\ n # t => session'[n].status = session[n].status
            /\ session[n].status = "revoked" => session'[n].status = "revoked"
      /\ Active(t) => session'[t].status = "revoked"
      /\ session'[t].status = session[t].status \/ session'[t].status = "revoked"
  <2>1. CASE Active(t)
    BY <2>1, <1>a, <1>i, RowRevoked
  <2>2. CASE ~Active(t)
    <3> session \in Seq(SessionRow) BY DEF AuthInv, AuthTypeOK
    <3> QED BY <2>2, <1>i
  <2> QED BY <2>1, <2>2
<1>w. Issued' = Issued
  BY <1>r DEF Issued
<1>v. \A n \in Issued \cup {0} : Active(n)' => Active(n) /\ n # t
  <2> /\ \A n \in Issued : n # t => (Active(n)' => Active(n))
      /\ \A n \in Issued : n = t => ~(Active(n)')
      /\ ~Active(0)'
    BY <1>r, <1>u, <1>a, TypeFacts DEF Active
  <2> QED BY <1>a
<1>1. AuthTypeOK'
  BY <1>c, <1>r, <1>u DEF AuthInv, AuthTypeOK
<1> HIDE DEF t
<1>2. Shapes'
  BY <1>a, <1>r, <1>c, <1>w, TypeFacts DEF AuthInv, Shapes, Shape, t
<1>3. ReplacedStaysRevoked'
  BY <1>t, <1>a, <1>r, <1>c, <1>u, <1>v, <1>w DEF AuthInv, ReplacedStaysRevoked
<1>4. OwnAnswer'
  BY <1>t, <1>a, <1>r, <1>c, <1>u DEF AuthInv, OwnAnswer, t
<1>5. BrowserHasNoCode'
  BY <1>t, <1>a, <1>r, <1>c, <1>u DEF AuthInv, BrowserHasNoCode, t
<1>6. CodeIsMarked'
  BY <1>t, <1>a, <1>r, <1>c, <1>u, <1>v, <1>w DEF AuthInv, CodeIsMarked
<1>7. Solo'
  BY <1>t, <1>a, <1>r, <1>c, <1>u, <1>v, <1>w DEF AuthInv, Solo, Spending
<1>8. CheckedHolds'
  <2> \A d \in Caller : call[d].at = "rotate" => d # Rival /\ call[d].token \in Issued
    BY CallFacts DEF Idle
  <2> QED BY <1>t, <1>a, <1>r, <1>c, <1>u DEF AuthInv, CheckedHolds, Solo, Spending, t
<1>9. SpentOnce'
  BY <1>t, <1>a, <1>r, <1>c, <1>u, <1>v, <1>w DEF AuthInv, SpentOnce
<1>10. DeadPairHasHandler'
  BY <1>t, <1>a, <1>r, <1>c, <1>u, <1>v, <1>w DEF AuthInv, DeadPairHasHandler, Handles
<1>11. Decides'
  BY <1>t, <1>a, <1>r, <1>c, <1>u, <1>v DEF AuthInv, Decides, Handles, Quiet, t
<1>12. RevokedByDecider'
  BY <1>t, <1>a, <1>r, <1>c, <1>u DEF AuthInv, RevokedByDecider, Decides, Quiet, t
<1>14. ActiveIsKnown'
  BY <1>t, <1>a, <1>r, <1>c, <1>u, <1>v, <1>w DEF AuthInv, ActiveIsKnown, Quiet
<1> QED BY <1>1, <1>2, <1>3, <1>4, <1>5, <1>6, <1>7, <1>8, <1>9, <1>10, <1>11, <1>12, <1>14 DEF AuthInv

\* Tokens expire, and the account is blocked.
LEMMA TimeStep ==
    ASSUME AuthInv, Expire \/ Block
    PROVE  AuthInv'
<1>t. /\ store \in Issued \cup {0} /\ 0 \notin Issued
      /\ \A d \in Caller : call[d].token \in Issued \cup {0} /\ call[d].got \in Issued \cup {0}
      /\ Rival \notin Call /\ Caller = Call \cup {Rival}
  BY TypeFacts, AuthConstants DEF Caller
<1>u. UNCHANGED <<client, store, session, qr, call, left, lost, overlapped>>
  BY DEF Expire, Block
<1>a. account' => account
  BY DEF Expire, Block
<1>o. old \in Nat /\ old' \in Nat /\ old' >= old
  BY DEF Expire, Block, AuthInv, AuthTypeOK
<1>w. Issued' = Issued
  BY <1>u DEF Issued
<1>v. \A n \in Issued \cup {0} : Active(n)' => Active(n)
  <2> \A n \in Nat : Active(n)' => Active(n)
    BY <1>o, <1>u DEF Active
  <2> QED BY TypeFacts DEF Issued
<1>1. AuthTypeOK'
  <2> stale' \in 0..Len(session) /\ old' \in 0..stale' /\ account' \in BOOLEAN
    <3>1. CASE Expire
      BY <3>1 DEF Expire, AuthInv, AuthTypeOK
    <3>2. CASE Block
      BY <3>2 DEF Block, AuthInv, AuthTypeOK
    <3> QED BY <3>1, <3>2
  <2> QED BY <1>u DEF AuthInv, AuthTypeOK
<1>2. Shapes'
  BY <1>t, <1>a, <1>u, <1>v, <1>w DEF AuthInv, Shapes, Shape
<1>3. ReplacedStaysRevoked'
  BY <1>t, <1>a, <1>u, <1>v, <1>w DEF AuthInv, ReplacedStaysRevoked
<1>4. OwnAnswer'
  BY <1>t, <1>a, <1>u, <1>v, <1>w DEF AuthInv, OwnAnswer
<1>5. BrowserHasNoCode'
  BY <1>t, <1>a, <1>u, <1>v, <1>w DEF AuthInv, BrowserHasNoCode
<1>6. CodeIsMarked'
  BY <1>t, <1>a, <1>u, <1>v, <1>w DEF AuthInv, CodeIsMarked
<1>7. Solo'
  BY <1>t, <1>a, <1>u, <1>v, <1>w DEF AuthInv, Solo, Spending
<1>8. CheckedHolds'
  BY <1>u DEF AuthInv, CheckedHolds
<1>9. SpentOnce'
  BY <1>t, <1>a, <1>u, <1>v, <1>w DEF AuthInv, SpentOnce
<1>10. DeadPairHasHandler'
  BY <1>t, <1>a, <1>u, <1>v, <1>w DEF AuthInv, DeadPairHasHandler, Handles
<1>11. Decides'
  <2> \A d \in Caller : call[d].token <= old => call[d].token <= old'
    BY <1>o, TypeFacts
  <2> QED BY <1>t, <1>a, <1>u, <1>v DEF AuthInv, Decides, Handles, Quiet
<1>12. RevokedByDecider'
  BY <1>t, <1>a, <1>u, <1>v, <1>w DEF AuthInv, RevokedByDecider, Quiet
<1>14. ActiveIsKnown'
  BY <1>t, <1>a, <1>u, <1>v, <1>w DEF AuthInv, ActiveIsKnown, Quiet
<1> QED BY <1>1, <1>2, <1>3, <1>4, <1>5, <1>6, <1>7, <1>8, <1>9, <1>10, <1>11, <1>12, <1>14 DEF AuthInv

\* A call gets its answer, and the client writes down what it holds.
LEMMA AnsweredStep ==
    ASSUME AuthInv, NEW c \in Caller,
           Answer(c) \/ Receive(c) \/ (Refresh(c) /\ client = "app" /\ store = NoToken)
    PROVE  AuthInv'
<1> DEFINE g == call[c].got
           retry == [op |-> "retry", at |-> "request", token |-> g, got |-> NoToken]
<1>t. /\ store \in Issued \cup {0} /\ 0 \notin Issued
      /\ \A d \in Caller : call[d].token \in Issued \cup {0} /\ call[d].got \in Issued \cup {0}
      /\ Rival \notin Call /\ Caller = Call \cup {Rival}
  BY TypeFacts, AuthConstants DEF Caller
<1>u. UNCHANGED <<client, session, stale, old, account, qr, lost, overlapped>>
  BY DEF Answer, Receive, Refresh
<1>b. client \in {"app", "browser"}
  BY DEF AuthInv, AuthTypeOK
<1>a. /\ call[c] # Idle /\ call[c] \in CallState
      /\ call[c].at # "answer" => g = NoToken
      /\ call[c].op \notin {"login", "activate"} => c \in Call /\ call[c].token \in Issued
      /\ c = Rival => call[c].op = "activate"
  BY <1>t, CallFacts DEF Answer, Receive, Refresh, Idle
<1>p. PICK k \in {Idle, retry} :
         /\ call' = [call EXCEPT ![c] = k]
         /\ k = retry => call[c].op = "load" /\ call[c].at = "answer" /\ g # NoToken
         /\ \/ /\ call[c].at \in {"request", "unauthorized"} /\ k = Idle /\ store' = store
               /\ ~(call[c].op = "retry" /\ client = "browser")
            \/ /\ call[c].at = "request" /\ call[c].op = "retry" /\ client = "browser"
               /\ k = Idle /\ store' = call[c].token
            \/ call[c].at = "answer" /\ c = Rival /\ k = Idle /\ store' = store
            \/ call[c].at = "answer" /\ call[c].op = "logout" /\ k = Idle /\ store' = NoToken
            \/ /\ call[c].at = "answer" /\ client = "app" /\ call[c].op \in {"load", "restore"}
               /\ store' = g
            \/ /\ call[c].at = "answer" /\ client = "browser" /\ call[c].op = "load"
               /\ store' = store /\ (g # NoToken => k = retry)
            \/ /\ call[c].at = "answer" /\ client = "browser" /\ call[c].op = "restore"
               /\ k = Idle /\ store' = IF g = NoToken THEN store ELSE g
            \/ /\ call[c].at = "answer" /\ call[c].op \in {"login", "activate"} /\ c \in Call
               /\ k = Idle /\ store' = IF g = NoToken THEN store ELSE g
  <2>1. CASE Answer(c)
    <3>1. call[c].at = "request" /\ call' = [call EXCEPT ![c] = Idle]
          /\ store' = IF call[c].op = "retry" /\ client = "browser" THEN call[c].token ELSE store
      BY <2>1 DEF Answer
    <3>2. Idle # retry
      BY DEF Idle
    <3> HIDE DEF g, retry
    <3> QED BY <2>1, <3>1, <3>2, <1>a DEF Answer
  <2>2. CASE Refresh(c) /\ client = "app" /\ store = NoToken
    <3>1. call[c].at = "unauthorized" /\ call' = [call EXCEPT ![c] = Idle] /\ store' = store
      BY <2>2 DEF Refresh
    <3>2. Idle # retry
      BY DEF Idle
    <3> HIDE DEF g, retry
    <3> QED BY <2>2, <3>1, <3>2
  <2>3. CASE Receive(c)
    <3>1. /\ call[c].at = "answer" /\ store' = Held(c, g)
          /\ call' = [call EXCEPT ![c] = After(c)]
      BY <2>3 DEF Receive
    <3>2. After(c) = IF call[c].op = "load" /\ g # NoToken THEN retry ELSE Idle
      BY DEF After
    <3>3. call[c].op \in {"load", "restore", "login", "activate", "logout"}
      BY <1>a, <3>1, CallFacts, TypeFacts DEF Shape
    <3>r. Idle # retry
      BY DEF Idle
    <3> HIDE DEF g, retry
    <3>4. CASE c = Rival
      BY <3>1, <3>2, <3>r, <3>4, <1>a DEF Held
    <3>5. CASE c # Rival
      <4> c \in Call
        BY <3>5, <1>t
      <4>1. CASE call[c].op = "load" /\ g # NoToken
        BY <3>1, <3>2, <3>5, <4>1, <1>b DEF Held
      <4>2. CASE ~(call[c].op = "load" /\ g # NoToken)
        BY <3>1, <3>2, <3>r, <3>3, <3>5, <4>2, <1>b DEF Held
      <4> QED BY <4>1, <4>2
    <3> QED BY <3>4, <3>5
  <2> QED BY <2>1, <2>2, <2>3
<1>c. /\ call' \in [Caller -> CallState \cup {Idle}]
      /\ call'[c].got = NoToken
      /\ \/ call'[c] = Idle /\ call'[c].op = "idle" /\ call'[c].at = "idle" /\ call'[c].token = NoToken
         \/ call'[c] = retry /\ call'[c].op = "retry" /\ call'[c].at = "request" /\ call'[c].token = g
            /\ call[c].op = "load" /\ call[c].at = "answer" /\ g # NoToken
      /\ \A d \in Caller : d # c => call'[d] = call[d]
  <2>1. retry \in CallState
    <3> g \in Token \cup {NoToken}
      BY <1>a DEF CallState
    <3> QED BY DEF CallState
  <2>2. k \in CallState \cup {Idle}
    BY <2>1, <1>p
  <2>3. call' \in [Caller -> CallState \cup {Idle}] /\ call'[c] = k
        /\ \A d \in Caller : d # c => call'[d] = call[d]
    BY <1>p, <2>2, CallChanges
  <2> QED BY <2>3, <1>p DEF Idle
<1>k. k = call'[c]
  BY <1>p, <1>a DEF AuthInv, AuthTypeOK
<1>s. store' \in {store, NoToken, call[c].token, g} /\ store' \in Issued \cup {0}
  BY <1>p, <1>t
<1>x. store' # store => /\ Spending(c) /\ c \in Call
                        /\ store' = NoToken \/ store' = g
                           \/ (client = "browser" /\ call[c].op = "retry" /\ store' = call[c].token)
  BY <1>p, <1>a, <1>t DEF Spending
<1>l. left' = LeftFor(store') \/ (left' = left /\ store' = store)
  BY DEF Answer, Receive, Refresh
<1>v. \A n : Active(n)' <=> Active(n)
  BY <1>u DEF Active
<1>w. Issued' = Issued
  BY <1>u DEF Issued
<1>1. AuthTypeOK'
  <2>1. store' \in 0..Len(session)
    BY <1>s, TypeFacts DEF Issued
  <2>2. left' \subseteq Token
    <3> store # NoToken => store \in Token
      BY AuthConstants DEF AuthInv, AuthTypeOK, Token
    <3> QED BY <1>l DEF AuthInv, AuthTypeOK, LeftFor
  <2> QED BY <2>1, <2>2, <1>c, <1>u DEF AuthInv, AuthTypeOK
<1> HIDE DEF retry
<1>2. Shapes'
  <2>1. ASSUME NEW d \in Caller PROVE Shape(d)'
    BY <1>a, <1>t, <1>c, <1>u, TypeFacts DEF Shape
  <2> QED BY <2>1, <1>u, <1>w DEF AuthInv, Shapes
<1> HIDE DEF g
<1>3. ReplacedStaysRevoked'
  BY <1>u, <1>w DEF AuthInv, ReplacedStaysRevoked
<1>4. OwnAnswer'
  BY <1>t, <1>c, <1>u, <1>s DEF AuthInv, OwnAnswer, g
<1>5. BrowserHasNoCode'
  BY <1>t, <1>a, <1>c, <1>u, <1>s, <1>x DEF AuthInv, BrowserHasNoCode, g
<1>6. CodeIsMarked'
  BY <1>u, <1>w DEF AuthInv, CodeIsMarked
<1>7. Solo'
  BY <1>t, <1>a, <1>c, <1>u DEF AuthInv, Solo, Spending
<1>8. CheckedHolds'
  BY <1>t, <1>a, <1>c, <1>u DEF AuthInv, CheckedHolds
<1>9. SpentOnce'
  BY <1>u, <1>w DEF AuthInv, SpentOnce
<1>10. DeadPairHasHandler'
  BY <1>t, <1>a, <1>p, <1>c, <1>u DEF AuthInv, DeadPairHasHandler, Handles, OwnAnswer, g
<1>11. Decides'
  <2>1. ASSUME Quiet, NEW d \in Call, d # c, store' # store PROVE ~Spending(d)
    BY <2>1, <1>t, <1>x DEF AuthInv, Solo, Quiet, Spending
  <2>2. \A d \in Call : /\ Handles(d) => Spending(d)
                        /\ call[d].op \in {"restore", "logout", "login", "activate"} => Spending(d)
                        /\ call[d].at \in {"rotate", "answer"} => Spending(d)
                        /\ call[d].got # NoToken => Spending(d)
    BY <1>t, TypeFacts DEF Handles, Spending, Shape
  <2>3. ASSUME NEW d \in Call, d # c PROVE call'[d] = call[d] /\ (Handles(d)' <=> Handles(d))
    BY <2>3, <1>c, <1>t DEF Handles
  <2>4. CASE store' = store
    BY <2>4, <1>t, <1>a, <1>c, <1>u, <1>v DEF AuthInv, Decides, Handles, Quiet
  <2>5. CASE store' # store
    BY <2>1, <2>2, <2>3, <2>5, <1>t, <1>c, <1>u, <1>v DEF AuthInv, Decides, Handles, Quiet
  <2> QED BY <2>4, <2>5
<1>12. RevokedByDecider'
  BY <1>t, <1>a, <1>p, <1>c, <1>u DEF AuthInv, RevokedByDecider, OwnAnswer, Quiet, g
<1>14. ActiveIsKnown'
  <2> SUFFICES ASSUME Quiet', account', NEW n \in Issued, Active(n)'
               PROVE  \/ n = store'
                      \/ \E d \in Call : \/ call'[d].got = n
                                         \/ client' = "browser" /\ call'[d].op = "retry" /\ call'[d].token = n
                      \/ n \in left'
                      \/ session'[n].by = "qr"
    BY <1>w DEF ActiveIsKnown
  <2>1. Quiet /\ account /\ n \in Issued /\ Active(n)
    BY <1>u, <1>v, <1>w DEF Quiet
  <2>2. \/ n = store
        \/ \E d \in Call : \/ call[d].got = n
                           \/ client = "browser" /\ call[d].op = "retry" /\ call[d].token = n
        \/ n \in left
        \/ session[n].by = "qr"
    BY <2>1 DEF AuthInv, ActiveIsKnown
  <2>3. CASE n = store
    <3>1. CASE store' = NoToken /\ store # NoToken
      <4>1. c \in Call /\ call[c].op = "logout" /\ call[c].at = "answer" => ~Active(store)
        BY <2>1 DEF AuthInv, Decides
      <4>2. ASSUME c \in Call, client = "app", call[c].op \in {"load", "restore"},
                   call[c].at = "answer", g = NoToken
            PROVE  ~Active(store)
        <5>1. call[c].token = store /\ call[c].token <= old
          BY <2>1, <4>2 DEF AuthInv, Decides, Handles, g
        <5> QED BY <5>1, TypeFacts DEF Active
      <4>3. call[c].op \notin {"login", "activate", "restore"} \/ client = "app"
            \/ store' = store \/ g # NoToken
        BY <1>p, <1>b
      <4> QED BY <2>1, <2>3, <3>1, <4>1, <4>2, <4>3, <1>p, <1>a, <1>b, <1>t
    <3>2. CASE store' # NoToken /\ store' # store
      <4>1. store' \in Issued /\ store \in Issued
        BY <2>1, <2>3, <3>2, <1>s, <1>t
      <4>2. session[store'].from # store
        BY <2>1, <2>3, <4>1, <1>t DEF AuthInv, ReplacedStaysRevoked, Active
      <4>3. client = "browser"
        <5>1. ASSUME client = "app" PROVE FALSE
          <6>1. store' = g /\ g # NoToken /\ c \in Call /\ call[c].at = "answer"
            BY <3>2, <5>1, <1>x, <1>a
          <6>2. call[c].op \in {"load", "restore"} /\ call[c].token = store
            BY <2>1, <2>3, <3>2, <4>1, <5>1, <6>1, <1>t, <1>p DEF AuthInv, Decides, Handles
          <6>3. session[g].from = call[c].token
            BY <6>1, <1>t DEF AuthInv, OwnAnswer, g
          <6> QED BY <4>2, <6>1, <6>2, <6>3
        <5> QED BY <5>1, <1>b
      <4>4. left' = left \cup {store}
        BY <2>1, <3>2, <4>1, <4>2, <4>3, <1>l, <1>t DEF LeftFor, Quiet
      <4> QED BY <2>3, <4>4
    <3> QED BY <2>3, <3>1, <3>2
  <2>4. ASSUME NEW d \in Call, d # c, call[d].got = n \/ (client = "browser" /\ call[d].op = "retry" /\ call[d].token = n)
        PROVE  call'[d].got = n \/ (client' = "browser" /\ call'[d].op = "retry" /\ call'[d].token = n)
    BY <2>4, <1>c, <1>t, <1>u
  <2>5. CASE c \in Call /\ g = n
    <3>1. g # NoToken /\ call[c].at = "answer" /\ call[c].op # "logout" /\ c # Rival
      BY <2>5, <2>1, <1>t, TypeFacts DEF Shape, g
    <3>2. store' = g \/ (client = "browser" /\ k = retry)
      BY <3>1, <1>p
    <3>3. k = retry => call'[c].op = "retry" /\ call'[c].token = g
      BY <1>k DEF retry
    <3> QED BY <2>5, <3>2, <3>3, <1>u
  <2>6. CASE c \in Call /\ client = "browser" /\ call[c].op = "retry" /\ call[c].token = n
    BY <2>6, <1>p, <1>a, TypeFacts DEF Shape
  <2>7. n \in left => n \in left'
    BY <1>l DEF LeftFor
  <2> QED BY <2>2, <2>3, <2>4, <2>5, <2>6, <2>7, <1>u DEF g
<1> QED BY <1>1, <1>2, <1>3, <1>4, <1>5, <1>6, <1>7, <1>8, <1>9, <1>10, <1>11, <1>12, <1>14 DEF AuthInv

\* An answer is lost.
LEMMA LoseStep ==
    ASSUME AuthInv, NEW c \in Caller, Lose(c)
    PROVE  AuthInv'
<1>t. /\ store \in Issued \cup {0} /\ 0 \notin Issued
      /\ \A d \in Caller : call[d].token \in Issued \cup {0} /\ call[d].got \in Issued \cup {0}
      /\ Rival \notin Call /\ Caller = Call \cup {Rival}
  BY TypeFacts, AuthConstants DEF Caller
<1>u. UNCHANGED <<client, session, stale, old, account, qr, left, overlapped>>
  BY DEF Lose
<1>a. /\ call[c].at \in {"request", "refresh", "enter", "revoke", "answer"}
      /\ c = Rival => call[c].op = "activate" /\ call[c].at # "request"
  BY CallFacts DEF Lose, Idle
<1>c. /\ call' \in [Caller -> CallState \cup {Idle}]
      /\ call'[c] = Idle
      /\ \A d \in Caller : d # c => call'[d] = call[d]
  BY CallChanges DEF Lose
<1>i. /\ call'[c].op = "idle" /\ call'[c].at = "idle" /\ call'[c].token = NoToken
      /\ call'[c].got = NoToken
  BY <1>c DEF Idle
<1>l. lost' = TRUE
  BY DEF Lose
<1>s. /\ store' \in {store, NoToken}
      /\ client = "app" /\ c \in Call /\ Handles(c) => store' = NoToken
  <2>1. Held(c, NoToken) \in {store, NoToken}
    BY DEF Held
  <2>2. client = "app" /\ c \in Call /\ Handles(c) => Held(c, NoToken) = NoToken
    BY <1>t DEF Held, Handles
  <2>3. Handles(c) => call[c].at # "request"
    BY DEF Handles
  <2> QED BY <2>1, <2>2, <2>3 DEF Lose
<1>w. Issued' = Issued
  BY <1>u DEF Issued
<1>1. AuthTypeOK'
  <2> store' \in 0..Len(session)
    BY <1>s, TypeFacts
  <2> QED BY <1>c, <1>l, <1>u DEF AuthInv, AuthTypeOK
<1>2. Shapes'
  <2>1. ASSUME NEW d \in Caller PROVE Shape(d)'
    BY <1>a, <1>t, <1>c, <1>i, <1>u, TypeFacts DEF Shape
  <2> QED BY <2>1, <1>u, <1>w DEF AuthInv, Shapes
<1>3. ReplacedStaysRevoked' /\ CodeIsMarked' /\ SpentOnce'
  BY <1>u, <1>w DEF AuthInv, ReplacedStaysRevoked, CodeIsMarked, SpentOnce
<1>4. OwnAnswer'
  BY <1>t, <1>c, <1>i, <1>u, <1>s DEF AuthInv, OwnAnswer
<1>5. BrowserHasNoCode'
  BY <1>t, <1>c, <1>i, <1>u, <1>s DEF AuthInv, BrowserHasNoCode
<1>6. Solo' /\ CheckedHolds'
  BY <1>t, <1>c, <1>i, <1>u DEF AuthInv, Solo, Spending, CheckedHolds
<1>7. DeadPairHasHandler'
  BY <1>t, <1>c, <1>u, <1>s DEF AuthInv, DeadPairHasHandler, Handles
<1>8. Decides' /\ RevokedByDecider' /\ ActiveIsKnown'
  BY <1>l DEF Decides, RevokedByDecider, ActiveIsKnown, Quiet
<1> QED BY <1>1, <1>2, <1>3, <1>4, <1>5, <1>6, <1>7, <1>8 DEF AuthInv

\* The app is killed and started again.
LEMMA RestartStep ==
    ASSUME AuthInv, NEW c \in Call, Restart(c)
    PROVE  AuthInv'
<1> DEFINE restore == [op |-> "restore", at |-> "refresh", token |-> store, got |-> NoToken]
<1>t. /\ store \in Issued \cup {0} /\ 0 \notin Issued
      /\ \A d \in Caller : call[d].token \in Issued \cup {0} /\ call[d].got \in Issued \cup {0}
      /\ Rival \notin Call /\ Caller = Call \cup {Rival}
  BY TypeFacts, AuthConstants DEF Caller
<1>u. UNCHANGED <<client, store, session, stale, old, account, qr, left, overlapped>> /\ client = "app"
  BY DEF Restart
<1>c. /\ call'[Rival] = call[Rival]
      /\ \A d \in Call : call'[d] = IF d = c /\ store # NoToken THEN restore ELSE Idle
  BY <1>t DEF Restart
<1>i. /\ \A d \in Call : call'[d].got = NoToken
      /\ \A d \in Call : d # c \/ store = NoToken =>
            call'[d].op = "idle" /\ call'[d].at = "idle" /\ call'[d].token = NoToken
      /\ store # NoToken =>
            call'[c].op = "restore" /\ call'[c].at = "refresh" /\ call'[c].token = store
  BY <1>c DEF Idle
<1>l. lost' \in BOOLEAN /\ (~lost' => ~lost /\ \A d \in Call : ~Spending(d))
  BY DEF Restart, AuthInv, AuthTypeOK
<1>v. \A n : Active(n)' <=> Active(n)
  BY <1>u DEF Active
<1>w. Issued' = Issued
  BY <1>u DEF Issued
<1>1. AuthTypeOK'
  <2>1. store # NoToken => restore \in CallState
    <3> SUFFICES ASSUME store # NoToken PROVE restore \in CallState
      OBVIOUS
    <3> store \in Token
      BY AuthConstants DEF AuthInv, AuthTypeOK, Token
    <3> QED BY DEF CallState
  <2>2. call' \in [Caller -> CallState \cup {Idle}]
    BY <2>1 DEF Restart, AuthInv, AuthTypeOK
  <2> QED BY <2>2, <1>u, <1>l DEF AuthInv, AuthTypeOK
<1>2. Shapes'
  <2>1. ASSUME NEW d \in Caller PROVE Shape(d)'
    <3>1. CASE d = Rival
      BY <3>1, <1>c, <1>u, <1>t DEF AuthInv, Shapes, Shape
    <3>2. CASE d \in Call
      BY <3>2, <1>i, <1>u, <1>t, TypeFacts DEF Shape
    <3> QED BY <3>1, <3>2, <1>t
  <2> QED BY <2>1, <1>u, <1>w DEF AuthInv, Shapes
<1>3. ReplacedStaysRevoked' /\ CodeIsMarked' /\ SpentOnce'
  BY <1>u, <1>w DEF AuthInv, ReplacedStaysRevoked, CodeIsMarked, SpentOnce
<1>4. OwnAnswer'
  BY <1>t, <1>c, <1>i, <1>u DEF AuthInv, OwnAnswer
<1>5. BrowserHasNoCode'
  BY <1>u DEF BrowserHasNoCode
<1>6. Solo'
  BY <1>t, <1>c, <1>i, <1>u DEF AuthInv, Solo, Spending
<1>7. CheckedHolds'
  BY <1>t, <1>c, <1>i, <1>u DEF AuthInv, CheckedHolds
<1>8. DeadPairHasHandler'
  BY <1>i, <1>u DEF DeadPairHasHandler, Handles
<1>9. Decides'
  BY <1>i, <1>u, <1>v DEF Decides, Handles
<1>10. RevokedByDecider'
  <2> \A d \in Call : call[d].at = "answer" => Spending(d)
    BY DEF Spending
  <2> QED BY <1>l, <1>u DEF AuthInv, RevokedByDecider, Quiet
<1>12. ActiveIsKnown'
  <2> \A d \in Call : call[d].got # NoToken => Spending(d)
    BY <1>t, TypeFacts DEF Shape, Spending
  <2> QED BY <1>l, <1>t, <1>u, <1>v, <1>w DEF AuthInv, ActiveIsKnown, Quiet
<1> QED BY <1>1, <1>2, <1>3, <1>4, <1>5, <1>6, <1>7, <1>8, <1>9, <1>10, <1>12 DEF AuthInv

-----------------------------------------------------------------------------
LEMMA ProgressStep ==
    ASSUME AuthInv, NEW c \in Caller, Progress(c)
    PROVE  AuthInv'
<1>1. CASE Refresh(c)
  <2>1. call[c].at = "unauthorized" /\ call[c].token # NoToken
    BY <1>1, CallFacts, TypeFacts DEF Refresh, Idle
  <2>2. CASE client = "app" /\ store = NoToken
    BY <1>1, <2>2, AnsweredStep
  <2>3. CASE ~(client = "app" /\ store = NoToken)
    <3> DEFINE held == IF client = "app" THEN store ELSE call[c].token
    <3>1. Begin(c, "load", "refresh", held)
      BY <1>1, <2>3 DEF Refresh
    <3>2. held # NoToken
      BY <2>1, <2>3
    <3> QED BY <2>1, <3>1, <3>2, BeginStep
  <2> QED BY <2>2, <2>3
<1> QED BY <1>1, LookStep, RotateStep, EnterStep, RevokeStep, AnsweredStep DEF Progress

LEMMA StartStep ==
    ASSUME AuthInv, NEW c \in Call, Load(c) \/ Restore(c) \/ Login(c) \/ Logout(c)
    PROVE  AuthInv'
<1> c \in Caller
  BY DEF Caller
<1>1. CASE Load(c)
  BY <1>1, BeginStep DEF Load
<1>2. CASE Restore(c)
  BY <1>2, BeginStep DEF Restore
<1>3. CASE Login(c)
  BY <1>3, BeginStep DEF Login
<1>4. CASE Logout(c)
  BY <1>4, BeginStep DEF Logout
<1> QED BY <1>1, <1>2, <1>3, <1>4

LEMMA Inductive == AuthInv /\ [AuthNext]_authVars => AuthInv'
<1> SUFFICES ASSUME AuthInv, [AuthNext]_authVars PROVE AuthInv'
  OBVIOUS
<1>1. CASE RivalActivates
  <2> Rival \in Caller
    BY DEF Caller
  <2> QED BY <1>1, BeginStep DEF RivalActivates
<1>2. CASE UNCHANGED authVars
  BY <1>2 DEF authVars, AuthInv, AuthTypeOK, Shapes, Shape, ReplacedStaysRevoked, OwnAnswer,
     BrowserHasNoCode, CodeIsMarked, Solo, Spending, CheckedHolds, SpentOnce, DeadPairHasHandler,
     Handles, Decides, RevokedByDecider, ActiveIsKnown, Issued, Active, Quiet
<1> QED BY <1>1, <1>2, ProgressStep, LoseStep, StartStep, RestartStep, TimeStep DEF AuthNext

LEMMA Invariance == AuthSpec => []AuthInv
BY Initially, Inductive, PTL DEF AuthSpec

\* The state of the clients and of the sessions keeps its types.
THEOREM SessionsTyped == AuthSpec => []AuthTypeOK
BY Invariance, PTL DEF AuthInv

\* However many calls and token pairs there are: unless two calls that spend
\* tokens overlap, a refresh token or a QR code is never spent twice.
THEOREM TokensSpentOnce == AuthSpec => []SpentOnce
BY Invariance, PTL DEF AuthInv

\* Whatever is lost, overlaps or is killed, the app is not left with a pair that
\* the server has revoked and no call to find out.
THEOREM DeadPairsHandled == AuthSpec => []DeadPairIsHandled
<1>1. AuthInv => DeadPairIsHandled
  BY DEF AuthInv, DeadPairHasHandler, DeadPairIsHandled, Handles, Spending
<1> QED BY <1>1, Invariance, PTL

\* For any number of calls and pairs: without loss, overlap or block, every
\* session active on the server belongs to a pair its client holds or is about to
\* hold, or to one that a browser's sign-in over it left behind (login/route.ts).
THEOREM NoSessionOrphaned == AuthSpec => []NoOrphanSession
<1>1. AuthInv => NoOrphanSession
  BY DEF AuthInv, ActiveIsKnown, NoOrphanSession, Quiet, Caller
<1> QED BY <1>1, Invariance, PTL

-----------------------------------------------------------------------------
\* What makes the client forget its pair.
LetGo ==
    store # NoToken /\ store' = NoToken /\ ~lost' /\ ~overlapped'
        => \/ \E c \in Call : call[c].op = "logout" /\ call'[c] = Idle
           \/ store <= old
           \/ ~account

LEMMA LetGoStep == AuthInv /\ AuthNext => LetGo
<1> SUFFICES ASSUME AuthInv, AuthNext, store # NoToken, store' = NoToken, ~lost', ~overlapped',
                    account
             PROVE  \/ \E c \in Call : call[c].op = "logout" /\ call'[c] = Idle
                    \/ store <= old
  BY DEF LetGo
<1>t. /\ store \in Issued \cup {0} /\ 0 \notin Issued
      /\ \A d \in Caller : call[d].token \in Issued \cup {0} /\ call[d].got \in Issued \cup {0}
      /\ Rival \notin Call /\ Caller = Call \cup {Rival}
  BY TypeFacts, AuthConstants DEF Caller
<1>1. PICK c \in Caller : Answer(c) \/ Receive(c)
  BY DEF AuthNext, Progress, Lose, FindSession, Rotate, Issue, SignIn, Refuse, FindCode, Activate, Revoke,
         Reject, Refresh, Begin, Load, Restore, Login, Logout, Restart, RivalActivates, Expire, Block,
         Caller
<1>2. ~Answer(c)
  <2> SUFFICES ASSUME Answer(c) PROVE FALSE
    OBVIOUS
  <2>1. call[c].token # NoToken /\ store' \in {store, call[c].token}
    BY <1>t, CallFacts DEF Answer, Idle
  <2> QED BY <2>1
<1>3. call[c].at = "answer" /\ Held(c, call[c].got) = NoToken /\ call' = [call EXCEPT ![c] = After(c)]
      /\ UNCHANGED <<lost, overlapped>>
  BY <1>1, <1>2 DEF Receive
<1>4. c \in Call /\ Quiet /\ call[c] # Idle
  BY <1>3, <1>t DEF Held, Quiet, Idle
<1>5. CASE call[c].op = "logout"
  BY <1>3, <1>4, <1>5, <1>t DEF After, AuthInv, AuthTypeOK
<1>6. CASE call[c].op # "logout"
  <2>1. /\ client = "app" /\ call[c].op \in {"load", "restore"} /\ call[c].got = NoToken
    BY <1>3, <1>4, <1>6, <1>t DEF Held
  <2> QED BY <2>1, <1>3, <1>4 DEF AuthInv, Decides, Handles
<1> QED BY <1>5, <1>6

\* For any number of calls and pairs: alone and answered, no call signs the
\* user out; it takes a logout, an expired session or a blocked account.
THEOREM StaysSignedInUnlessTold == AuthSpec => StaysSignedIn
<1>1. AuthInv /\ [AuthNext]_authVars => [LetGo]_authVars
  BY LetGoStep
<1>2. AuthSpec => [][LetGo]_authVars
  BY <1>1, Invariance, PTL DEF AuthSpec
<1> QED BY <1>2 DEF StaysSignedIn, LetGo

-----------------------------------------------------------------------------
(* The table of the policies *)

PolicyTyped ==
    /\ rules \in [Cell -> {"on", "off", "missing"}]
    /\ grid \in [Editor -> SUBSET Cell] /\ asked \in [Editor -> SUBSET Cell]
    /\ refusals \in [Editor -> BOOLEAN] /\ crossing \in [Editor -> BOOLEAN]
    /\ phase \in [Editor -> {"closed", "open", "saving", "reading", "saved"}]

\* A save ends when all its cells are answered, and is read back if none was refused.
AnsweredFirst ==
    \A e \in Editor :
        /\ asked[e] # {} => phase[e] = "saving"
        /\ phase[e] = "reading" => ~refusals[e]

\* Unless another editor crossed it, what a save has written stands.
WrittenStands ==
    \A e \in Editor :
        phase[e] \in {"saving", "reading"} /\ ~refusals[e] /\ ~crossing[e] =>
            \A c \in Cell \ asked[e] : rules[c] = IF c \in grid[e] THEN "on" ELSE "off"

PolicyInv == PolicyTyped /\ AnsweredFirst /\ WrittenStands

LEMMA PolicyInitially == PolicyInit => PolicyInv
  BY DEF PolicyInit, PolicyInv, PolicyTyped, AnsweredFirst, WrittenStands, Cell

LEMMA PolicyInductive == PolicyInv /\ [PolicyNext]_policyVars => PolicyInv'
  <1> SUFFICES ASSUME PolicyInv, [PolicyNext]_policyVars PROVE PolicyInv'
    OBVIOUS
  <1> USE DEF PolicyInv, AnsweredFirst, WrittenStands
  <1>1. ASSUME NEW e \in Editor, OpenTable(e) PROVE PolicyInv'
    BY <1>1 DEF OpenTable, PolicyTyped, BuildMatrix, OnIn
  <1>2. ASSUME NEW e \in Editor, HandleSave(e) PROVE PolicyInv'
    BY <1>2 DEF HandleSave, PolicyTyped
  <1>3. ASSUME NEW e \in Editor, Settle(e) PROVE PolicyInv'
    BY <1>3 DEF Settle, SomeRefused, PolicyTyped
  <1>4. ASSUME NEW e \in Editor, RulesRead(e) \/ RulesUnread(e) PROVE PolicyInv'
    BY <1>4 DEF RulesRead, RulesUnread, PolicyTyped, BuildMatrix, OnIn
  <1>5. ASSUME NEW e \in Editor, NEW c \in Cell, HandleToggle(e, c) PROVE PolicyInv'
    BY <1>5 DEF HandleToggle, PolicyTyped
  <1>6. ASSUME NEW e \in Editor, NEW c \in Cell, LoseCell(e, c) PROVE PolicyInv'
    BY <1>6 DEF LoseCell, PolicyTyped
  <1>7. ASSUME NEW e \in Editor, NEW c \in Cell, ServeCell(e, c) PROVE PolicyInv'
    <2>1. PolicyTyped'
      <3>1. Crossed(e) \in [Editor -> BOOLEAN]
        BY DEF Crossed, PolicyTyped
      <3>2. rules' \in [Cell -> {"on", "off", "missing"}] /\ asked' \in [Editor -> SUBSET Cell]
        BY <1>7 DEF ServeCell, PolicyTyped
      <3>3. refusals' \in [Editor -> BOOLEAN] /\ crossing' \in [Editor -> BOOLEAN]
        BY <1>7, <3>1 DEF ServeCell, PolicyTyped
      <3> QED
        BY <1>7, <3>2, <3>3 DEF ServeCell, PolicyTyped
    <2>2. AnsweredFirst'
      BY <1>7 DEF ServeCell, PolicyTyped
    <2>3. ASSUME NEW d \in Editor, phase'[d] \in {"saving", "reading"}, ~refusals'[d], ~crossing'[d],
                 NEW b \in Cell \ asked'[d]
          PROVE  rules'[b] = IF b \in grid'[d] THEN "on" ELSE "off"
      <3>1. CASE d = e
        BY <1>7, <2>3, <3>1 DEF ServeCell, PolicyTyped, Crossed
      <3>2. CASE d # e
        BY <1>7, <2>3, <3>2 DEF ServeCell, PolicyTyped, Crossed
      <3> QED
        BY <3>1, <3>2
    <2> QED
      BY <2>1, <2>2, <2>3
  <1>8. ASSUME NEW c \in Cell, DeletePolicyRule(c) PROVE PolicyInv'
    BY <1>8 DEF DeletePolicyRule, PolicyTyped
  <1>9. CASE UNCHANGED policyVars
    BY <1>9 DEF policyVars, PolicyTyped
  <1> QED
    BY <1>1, <1>2, <1>3, <1>4, <1>5, <1>6, <1>7, <1>8, <1>9 DEF PolicyNext

LEMMA PolicyInvariance == PolicySpec => []PolicyInv
  BY PolicyInitially, PolicyInductive, PTL DEF PolicySpec

\* A save that is reported and that no other editor crossed has stored the table
\* as it stood, and each policy that some role keeps is open to the roles shown,
\* whatever requests of other tables are refused or lost (handleSave,
\* toggle_policy_rule, require_policy).
THEOREM SavedTableIsStored == PolicySpec => SavedIsStored
  <1>1. ASSUME PolicyInv, [PolicyNext]_policyVars, NEW e \in Editor, SaveReported(e)
        PROVE  /\ grid'[e] = grid[e]
               /\ \A p \in Policy : LET shown == {r \in Role : <<p, r>> \in grid[e]}
                                    IN  shown # {} => AllowedRoles(p) = shown
    <2>1. \A c \in Cell : rules[c] = IF c \in grid[e] THEN "on" ELSE "off"
      BY <1>1 DEF SaveReported, PolicyInv, AnsweredFirst, WrittenStands, PolicyTyped
    <2>2. RulesRead(e)
      <3>1. phase[e] = "reading" /\ phase'[e] = "saved"
        BY <1>1 DEF SaveReported
      <3>2. ASSUME NEW d \in Editor, Settle(d) \/ RulesUnread(d) PROVE FALSE
        BY <3>1, <3>2, <1>1 DEF PolicyInv, PolicyTyped, Settle, RulesUnread
      <3>3. ASSUME NEW d \in Editor, OpenTable(d) \/ HandleSave(d) PROVE FALSE
        BY <3>1, <3>3, <1>1 DEF PolicyInv, PolicyTyped, OpenTable, HandleSave
      <3>4. ASSUME NEW d \in Editor, NEW c \in Cell, HandleToggle(d, c) \/ ServeCell(d, c) \/ LoseCell(d, c)
            PROVE  FALSE
        BY <3>1, <3>4, <1>1 DEF PolicyInv, PolicyTyped, HandleToggle, ServeCell, LoseCell
      <3>5. ASSUME NEW d \in Editor, RulesRead(d), d # e PROVE FALSE
        BY <3>1, <3>5, <1>1 DEF PolicyInv, PolicyTyped, RulesRead
      <3>6. ~ UNCHANGED policyVars /\ ~ \E c \in Cell : DeletePolicyRule(c)
        BY <3>1 DEF policyVars, DeletePolicyRule
      <3> QED
        BY <1>1, <3>2, <3>3, <3>4, <3>5, <3>6 DEF PolicyNext
    <2>3. grid'[e] = {c \in Cell : rules[c] = "on"}
      BY <1>1, <2>2 DEF RulesRead, BuildMatrix, OnIn, PolicyInv, PolicyTyped
    <2>4. grid[e] \subseteq Cell
      BY <1>1 DEF PolicyInv, PolicyTyped
    <2>5. grid'[e] = grid[e]
      BY <2>1, <2>3, <2>4
    <2>6. ASSUME NEW p \in Policy
          PROVE  {r \in Role : rules[<<p, r>>] = "on"} = {r \in Role : <<p, r>> \in grid[e]}
      BY <2>1 DEF Cell
    <2> QED
      BY <2>5, <2>6 DEF AllowedRoles
  <1>2. PolicyInv /\ [PolicyNext]_policyVars =>
          [\A e \in Editor : SaveReported(e) =>
              /\ grid'[e] = grid[e]
              /\ \A p \in Policy : LET shown == {r \in Role : <<p, r>> \in grid[e]}
                                   IN  shown # {} => AllowedRoles(p) = shown]_policyVars
    BY <1>1
  <1> QED
    BY <1>2, PolicyInvariance, PTL DEF PolicySpec, SavedIsStored
=============================================================================
