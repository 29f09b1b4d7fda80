---------------------------- MODULE StoreResolve ----------------------------
(***************************************************************************)
(* The route that finds the name and the package of an application behind  *)
(* a link to its store (app/api/admin/simulation/store/resolve).  It asks  *)
(* the interface of RuStore first, then reads the page of the store, for   *)
(* Google Play under up to three addresses.  Stores answer robots with     *)
(* pages that ask for a captcha, which must not become an application.     *)
(***************************************************************************)
EXTENDS Naturals, Sequences

VARIABLES
    link,       \* what is known of the link that was sent
    stage,      \* what the handler waits for
    tried,      \* addresses of the page asked so far
    seen,       \* what the addresses gave so far: none, error, response (out of order) or page
    resolved    \* the answer of the route, or NoAnswer

storeVars == <<link, stage, tried, seen, resolved>>

NoAnswer == [status |-> 0, name |-> "none", source |-> "none"]
\* What a candidate for the name is, once store names are cut from it: "mixed"
\* gives a name although the text also speaks of a challenge.
Caption == {"app", "mixed", "store", "challenge", "none"}
Page == [heading : Caption, meta : Caption, title : Caption, body : BOOLEAN, moved : BOOLEAN]
Link ==
    [form : {"no json", "empty", "not a url", "ftp", "url"},
     store : {"play_market", "rustore", "app_store", "other"},
     package : BOOLEAN, located : BOOLEAN, canonical : BOOLEAN, challenge : BOOLEAN]

Refusal(status) == [status |-> status, name |-> "none", source |-> "none"]

\* buildFetchCandidates: as sent, with language and country, and made of the package.
Addresses(l) ==
    LET asSent == <<"sent">>
        enriched == IF l.located THEN <<>> ELSE <<"enriched">>
        canonical == IF l.package /\ ~l.canonical THEN <<"canonical">> ELSE <<>>
    IN  IF l.store = "play_market" THEN asSent \o enriched \o canonical ELSE asSent

HasChallengeMarker(text) == text \in {"challenge", "mixed"}
Cleaned(text) == IF text = "mixed" THEN "app" ELSE text

\* pickBestAppName: the first name, else the first text that is not empty.
PickBestAppName(page) ==
    LET all == {page.heading, page.meta, page.title}
        FirstOf(S) == IF page.heading \in S THEN page.heading
                      ELSE IF page.meta \in S THEN page.meta ELSE page.title
    IN  IF all \cap {"app", "mixed"} # {} THEN Cleaned(FirstOf({"app", "mixed"}))
        ELSE FirstOf(Caption \ {"none"})

\* Slip: the name itself is not looked at.
ChallengedByTitle(page, name) ==
    page.moved \/ page.body \/ HasChallengeMarker(page.title) \/ HasChallengeMarker(page.meta)

IsStoreChallengeResponse(page, name) ==
    \/ page.moved \/ page.body
    \/ \E text \in {page.title, page.meta, name} : HasChallengeMarker(text)

\* What POST answers before it asks anyone, 0 when it goes on.
Checked(l) ==
    IF l.form = "no json" THEN 400
    ELSE IF l.form # "url" \/ l.store = "other" \/ l.challenge THEN 422 ELSE 0

-----------------------------------------------------------------------------
StoreInit ==
    /\ link \in Link
    /\ stage = "sent" /\ tried = 0 /\ seen = "none" /\ resolved = NoAnswer

Answer(r) == stage' = "done" /\ resolved' = r

\* POST up to the first call it makes.
Post ==
    /\ stage = "sent"
    /\ \/ /\ Checked(link) # 0
          /\ Answer(Refusal(Checked(link)))
       \/ /\ Checked(link) = 0
          /\ stage' = IF link.store = "rustore" /\ link.package THEN "overall info" ELSE "page"
          /\ UNCHANGED resolved
    /\ UNCHANGED <<link, tried, seen>>

\* fetchRustoreOverallInfo finds the application.
InfoFound ==
    /\ stage = "overall info"
    /\ Answer([status |-> 200, name |-> "app", source |-> "overall info"])
    /\ UNCHANGED <<link, tried, seen>>

\* A refusal, an answer without a name and the timeout all fall back to the page.
InfoMissing ==
    /\ stage = "overall info"
    /\ stage' = "page"
    /\ UNCHANGED <<link, tried, seen, resolved>>

\* fetchStorePage: the next address is asked; the first answer in order is read.
PageOpened ==
    /\ stage = "page" /\ tried < Len(Addresses(link))
    /\ tried' = tried + 1 /\ stage' = "body" /\ seen' = "page"
    /\ UNCHANGED <<link, resolved>>

\* An address that fails, or times out, is remembered; a response rather than an error.
PageFailed ==
    /\ stage = "page" /\ tried < Len(Addresses(link))
    /\ tried' = tried + 1
    /\ \/ seen' = "response"
       \/ seen' = IF seen = "response" THEN seen ELSE "error"
    /\ UNCHANGED <<link, stage, resolved>>

Exhausted == stage = "page" /\ tried = Len(Addresses(link))

GiveUp ==
    /\ Exhausted
    /\ Answer(Refusal(502))
    /\ UNCHANGED <<link, tried, seen>>

\* The page is read, named (buildResponse) and looked through for a challenge.
ReadPage ==
    /\ stage = "body"
    /\ \E page \in Page :
          LET name == PickBestAppName(page)
          IN  Answer(IF name = "none" \/ IsStoreChallengeResponse(page, name) THEN Refusal(502)
                     ELSE [status |-> 200, name |-> name, source |-> "page"])
    /\ UNCHANGED <<link, tried, seen>>

PageUnread ==
    /\ stage = "body"
    /\ Answer(Refusal(502))
    /\ UNCHANGED <<link, tried, seen>>

StoreNext ==
    Post \/ InfoFound \/ InfoMissing \/ PageOpened \/ PageFailed \/ GiveUp \/ ReadPage \/ PageUnread

StoreSpec == StoreInit /\ [][StoreNext]_storeVars

-----------------------------------------------------------------------------
(* Properties *)

\* An application is never named after a page that asks for a captcha, and never
\* without a name; the links that are refused name none.
NamedByTheStore == resolved.status = 200 <=> resolved.name \in {"app", "store"}

\* The store is given up only when every address of the page was asked, or one of
\* them answered in order.
GivesUpLast == resolved.status = 502 /\ seen # "page" => tried = Len(Addresses(link))
=============================================================================
