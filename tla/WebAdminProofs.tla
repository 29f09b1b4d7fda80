---------------------------- MODULE WebAdminProofs ----------------------------
(***************************************************************************)
(* Safety of screens of the web admin and of what they share with the      *)
(* service: the route behind a store link, the scenario library, the media *)
(* dialog, the history and the save of the simulation editor, the users    *)
(* table and the pages.  Each theorem is about the specification of one of *)
(* them, for any number of its items, versions, requests and edits.        *)
(***************************************************************************)
EXTENDS StoreResolve, LibraryPanel, SimulationMedia, SimulationCanvas, UsersAdmin, AdminPages,
        FiniteSetTheorems, SequenceTheorems, TLAPS

-----------------------------------------------------------------------------
(* The route behind a store link *)

Unanswered == stage # "done" => resolved = NoAnswer

StoreInv == Unanswered /\ NamedByTheStore

\* A page that passes gives the name of an application or of the store.
LEMMA NameOfPage ==
    ASSUME NEW p \in Page, NEW name, name = PickBestAppName(p),
           name # "none", ~IsStoreChallengeResponse(p, name)
    PROVE  name \in {"app", "store"}
  <1>1. p.heading \in Caption /\ p.meta \in Caption /\ p.title \in Caption
    BY DEF Page
  <1>2. name \in {"app", "store", "challenge", "none"}
    BY <1>1 DEF PickBestAppName, Caption, Cleaned
  <1>3. name # "challenge"
    BY DEF IsStoreChallengeResponse, HasChallengeMarker
  <1> QED
    BY <1>2, <1>3

LEMMA AnswerNames ==
    ASSUME NEW status, NEW name, NEW source, Answer([status |-> status, name |-> name, source |-> source]),
           status = 200 <=> name \in {"app", "store"}
    PROVE  StoreInv'
  BY DEF Answer, StoreInv, Unanswered, NamedByTheStore

LEMMA RefusalNamesNone ==
    ASSUME NEW status \in {400, 422, 502}, Answer(Refusal(status))
    PROVE  StoreInv'
  BY AnswerNames DEF Refusal

LEMMA StoreInductive == StoreInv /\ [StoreNext]_storeVars => StoreInv'
  <1> SUFFICES ASSUME StoreInv, [StoreNext]_storeVars PROVE StoreInv'
    OBVIOUS
  <1>1. CASE Post
    <2>1. Checked(link) \in {0, 400, 422}
      BY DEF Checked
    <2>2. CASE Checked(link) # 0
      <3> DEFINE status == Checked(link)
      <3>1. Answer(Refusal(status))
        BY <1>1, <2>2 DEF Post
      <3>2. status \in {400, 422, 502}
        BY <2>1, <2>2
      <3> HIDE DEF status
      <3> QED
        BY <3>1, <3>2, RefusalNamesNone
    <2>3. CASE Checked(link) = 0
      BY <1>1, <2>3 DEF Post, StoreInv, Unanswered, NamedByTheStore
    <2> QED
      BY <2>2, <2>3
  <1>2. CASE InfoFound
    BY <1>2, AnswerNames DEF InfoFound
  <1>3. CASE InfoMissing \/ PageOpened \/ PageFailed
    BY <1>3 DEF InfoMissing, PageOpened, PageFailed, StoreInv, Unanswered, NamedByTheStore
  <1>4. CASE GiveUp \/ PageUnread
    BY <1>4, RefusalNamesNone DEF GiveUp, PageUnread
  <1>5. CASE ReadPage
    <2>1. PICK p \in Page :
             LET name == PickBestAppName(p)
             IN  Answer(IF name = "none" \/ IsStoreChallengeResponse(p, name) THEN Refusal(502)
                        ELSE [status |-> 200, name |-> name, source |-> "page"])
      BY <1>5 DEF ReadPage
    <2> DEFINE name == PickBestAppName(p)
    <2>2. CASE name = "none" \/ IsStoreChallengeResponse(p, name)
      <3>1. Answer(Refusal(502))
        BY <2>1, <2>2
      <3> QED
        BY <3>1, RefusalNamesNone
    <2>3. CASE ~(name = "none" \/ IsStoreChallengeResponse(p, name))
      <3>1. Answer([status |-> 200, name |-> name, source |-> "page"])
        BY <2>1, <2>3
      <3>2. name \in {"app", "store"}
        BY <2>3, NameOfPage
      <3> HIDE DEF name
      <3> QED
        BY <3>1, <3>2, AnswerNames
    <2> QED
      BY <2>2, <2>3
  <1>6. CASE UNCHANGED storeVars
    BY <1>6 DEF storeVars, StoreInv, Unanswered, NamedByTheStore
  <1> QED
    BY <1>1, <1>2, <1>3, <1>4, <1>5, <1>6 DEF StoreNext

\* Whatever the stores answer, an application gets a name only from a page that
\* does not ask for a captcha (buildResponse, isStoreChallengeResponse).
THEOREM NamesAreTheStores == StoreSpec => []NamedByTheStore
  <1>1. StoreInit => StoreInv
    BY DEF StoreInit, StoreInv, Unanswered, NamedByTheStore, NoAnswer
  <1>2. StoreInv => NamedByTheStore
    BY DEF StoreInv
  <1> QED
    BY <1>1, <1>2, StoreInductive, PTL DEF StoreSpec

-----------------------------------------------------------------------------
(* The scenario library *)

QueryType ==
    [served : {FALSE}, waits : SUBSET {"quick", "all"}]
    \cup [served : {TRUE}, waits : SUBSET {"quick", "all"}, found : SUBSET Item]

PressedType ==
    [kind : {"save", "delete"}, item : Item, to : Query, stage : {"sent", "answered"},
     filter : Query, open : BOOLEAN]

PanelTyped ==
    /\ LibraryTypeOK
    /\ quick \in [items : SUBSET Item, loading : BOOLEAN, filter : Query]
    /\ all \in [items : SUBSET Item, open : BOOLEAN]
    /\ queries \in [Query -> QueryType \cup {NoQuery}]
    /\ change \in PressedType \cup {NoChange}

\* While nothing has crossed, the list waits for the scenarios of the
\* application on the canvas and for no other answer.
AwaitsItsFilter ==
    ~crossed /\ ~behind => \A q \in Query :
        queries[q] # NoQuery /\ "quick" \in queries[q].waits =>
            /\ q = quick.filter /\ quick.loading
            /\ queries[q].served => queries[q].found = Found(q)

LibraryInv == PanelTyped /\ AwaitsItsFilter /\ QuickListIsCurrent

LEMMA NoQueryIsNone == NoQuery \notin QueryType
  BY DEF NoQuery, QueryType

LEMMA AnyAppIsQuery == AnyApp \in Query
  BY DEF Query

\* What a load makes of the requests under way.
Loaded(qs, q, who, new) ==
    /\ new \in [Query -> QueryType \cup {NoQuery}] /\ new[q] \in QueryType
    /\ \A r \in Query \ {q} : new[r] = qs[r]
    /\ new[q].waits = (IF qs[q] = NoQuery THEN {} ELSE qs[q].waits) \cup {who}
    /\ new[q].served = (IF qs[q] = NoQuery THEN FALSE ELSE qs[q].served)
    /\ qs[q] # NoQuery /\ qs[q].served => new[q].found = qs[q].found

LEMMA LoadType ==
    ASSUME NEW qs \in [Query -> QueryType \cup {NoQuery}], NEW q \in Query, NEW who \in {"quick", "all"}
    PROVE  Loaded(qs, q, who, Load(qs, q, who))
  <1> DEFINE one == JoinedBy(qs[q], who)
  <1>1. Load(qs, q, who) = [qs EXCEPT ![q] = one]
    BY DEF Load
  <1>2. /\ one \in QueryType
        /\ one.waits = (IF qs[q] = NoQuery THEN {} ELSE qs[q].waits) \cup {who}
        /\ one.served = (IF qs[q] = NoQuery THEN FALSE ELSE qs[q].served)
        /\ qs[q] # NoQuery /\ qs[q].served => one.found = qs[q].found
    <2>1. CASE qs[q] = NoQuery
      BY <2>1 DEF QueryType, JoinedBy
    <2>2. CASE qs[q] # NoQuery /\ qs[q] \in [served : {FALSE}, waits : SUBSET {"quick", "all"}]
      BY <2>2 DEF QueryType, JoinedBy
    <2>3. CASE qs[q] # NoQuery /\ qs[q] \in [served : {TRUE}, waits : SUBSET {"quick", "all"}, found : SUBSET Item]
      BY <2>3 DEF QueryType, JoinedBy
    <2> QED
      BY <2>1, <2>2, <2>3 DEF QueryType
  <1> HIDE DEF one
  <1> QED
    BY <1>1, <1>2 DEF Loaded

LEMMA LibraryInitially == LibraryInit => LibraryInv
  BY AnyAppIsQuery
  DEF LibraryInit, LibraryInv, PanelTyped, LibraryTypeOK, AwaitsItsFilter, QuickListIsCurrent, QueryType,
      NoQuery, NoChange, Query

\* A list that is read while nothing else is awaited is read alone.
LEMMA RetargetStep ==
    ASSUME LibraryInv, NEW q \in Query, Retarget(q)
    PROVE  LibraryInv'
  <1> DEFINE qs == Load(queries, q, "quick")
  <1>1. /\ queries' = qs /\ quick' = [quick EXCEPT !.filter = q, !.loading = TRUE] /\ crossed' = ~Idle
        /\ UNCHANGED <<library, all, change>>
    BY DEF Retarget
  <1>2. Loaded(queries, q, "quick", qs)
    BY LoadType DEF LibraryInv, PanelTyped
  <1> HIDE DEF qs
  <1>3. PanelTyped'
    BY <1>1, <1>2 DEF LibraryInv, PanelTyped, LibraryTypeOK, Loaded
  <1>4. AwaitsItsFilter' /\ QuickListIsCurrent'
    BY <1>1, <1>2 DEF Loaded, LibraryInv, PanelTyped, AwaitsItsFilter, QuickListIsCurrent, Idle
  <1> QED
    BY <1>3, <1>4 DEF LibraryInv

LEMMA DialogOfAllStep ==
    ASSUME LibraryInv, OpenAll \/ CloseAll
    PROVE  LibraryInv'
  <1> DEFINE qs == Load(queries, AnyApp, "all")
  <1>1. Loaded(queries, AnyApp, "all", qs)
    BY LoadType, AnyAppIsQuery DEF LibraryInv, PanelTyped
  <1> HIDE DEF qs
  <1>2. queries' \in {qs, queries} /\ UNCHANGED <<library, quick, change, crossed, behind>>
    BY DEF OpenAll, CloseAll, qs
  <1>3. PanelTyped'
    BY <1>1, <1>2 DEF Loaded, LibraryInv, PanelTyped, LibraryTypeOK, OpenAll, CloseAll
  <1>4. AwaitsItsFilter'
    <2> SUFFICES ASSUME ~crossed, ~behind, NEW q \in Query,
                        queries'[q] # NoQuery, "quick" \in queries'[q].waits
                 PROVE  /\ q = quick.filter /\ quick.loading
                        /\ queries'[q].served => queries'[q].found = Found(q)
      BY <1>2 DEF AwaitsItsFilter, Found, Stored
    <2>1. CASE queries'[q] = queries[q]
      BY <2>1 DEF LibraryInv, AwaitsItsFilter
    <2>2. CASE queries'[q] # queries[q]
      <3>1. queries' = qs /\ q = AnyApp
        BY <1>1, <1>2, <2>2 DEF Loaded
      <3>2. queries[q] # NoQuery /\ "quick" \in queries[q].waits
        BY <1>1, <3>1 DEF Loaded
      <3>3. q = quick.filter /\ quick.loading /\ (queries[q].served => queries[q].found = Found(q))
        BY <3>2 DEF LibraryInv, AwaitsItsFilter
      <3> QED
        BY <1>1, <3>1, <3>2, <3>3 DEF Loaded
    <2> QED
      BY <2>1, <2>2
  <1>5. QuickListIsCurrent'
    BY <1>2 DEF LibraryInv, QuickListIsCurrent, Found, Stored
  <1> QED
    BY <1>3, <1>4, <1>5 DEF LibraryInv

LEMMA ChangeStep ==
    ASSUME LibraryInv,
           \/ \E i \in Item : HandleDeleteScenario(i) \/ \E b \in Target : HandleSave(i, b)
           \/ ServeChange \/ ChangeFails
    PROVE  LibraryInv'
  <1>1. Target \subseteq Query /\ AnyApp \in Query
    BY DEF Query
  <1>2. UNCHANGED <<quick, all, queries>>
    BY DEF HandleDeleteScenario, HandleSave, ServeChange, ChangeFails
  <1>3. PanelTyped'
    <2>1. library' \in [Item -> Query]
      BY <1>1 DEF HandleDeleteScenario, HandleSave, ServeChange, ChangeFails, LibraryInv, PanelTyped, LibraryTypeOK,
                  PressedType
    <2>2. change' \in PressedType \cup {NoChange}
      <3>1. \A kind \in {"save", "delete"}, i \in Item, b \in Query : Pressed(kind, i, b) \in PressedType
        BY DEF Pressed, PressedType, LibraryInv, PanelTyped
      <3> QED
        BY <1>1, <3>1
        DEF HandleDeleteScenario, HandleSave, ServeChange, ChangeFails, LibraryInv, PanelTyped, PressedType
    <2> QED
      BY <1>2, <2>1, <2>2 DEF LibraryInv, PanelTyped, LibraryTypeOK, NoChange, PressedType
  <1>4. crossed' \/ UNCHANGED <<library, crossed, behind>>
    BY DEF HandleDeleteScenario, HandleSave, ServeChange, ChangeFails
  <1>5. AwaitsItsFilter' /\ QuickListIsCurrent'
    BY <1>2, <1>4 DEF LibraryInv, AwaitsItsFilter, QuickListIsCurrent, Found, Stored
  <1> QED
    BY <1>3, <1>5 DEF LibraryInv

LEMMA ChangeAnsweredStep ==
    ASSUME LibraryInv, ChangeAnswered
    PROVE  LibraryInv'
  <1> DEFINE f == change.filter
  <1> DEFINE one == Load(queries, f, "quick")
  <1> DEFINE two == Load(one, AnyApp, "all")
  <1>1. f \in Query /\ AnyApp \in Query /\ queries \in [Query -> QueryType \cup {NoQuery}]
    BY AnyAppIsQuery DEF ChangeAnswered, LibraryInv, PanelTyped, PressedType
  <1>2. Loaded(queries, f, "quick", one)
    BY <1>1, LoadType
  <1> HIDE DEF one
  <1>3. Loaded(one, AnyApp, "all", two)
    <2>1. one \in [Query -> QueryType \cup {NoQuery}]
      BY <1>2 DEF Loaded
    <2> QED
      BY <1>1, <2>1, LoadType
  <1>4. /\ queries' \in {one, two} /\ crossed' = ~Idle /\ change' = NoChange
        /\ behind' = (f # quick.filter)
        /\ quick' = [quick EXCEPT !.loading = @ \/ Awaited(queries')]
        /\ UNCHANGED <<library, all>>
    BY DEF ChangeAnswered, Reloaded, one
  <1> HIDE DEF two, f
  <1>5. NoQuery \notin QueryType
    BY NoQueryIsNone
  <1>6. queries'[f] # NoQuery /\ "quick" \in queries'[f].waits
    BY <1>1, <1>2, <1>3, <1>4, <1>5 DEF Loaded
  <1>7. Awaited(queries')
    BY <1>1, <1>6 DEF Awaited
  <1>8. quick' = [quick EXCEPT !.loading = TRUE]
    BY <1>4, <1>7 DEF LibraryInv, PanelTyped
  <1>9. PanelTyped'
    BY <1>2, <1>3, <1>4, <1>8 DEF Loaded, LibraryInv, PanelTyped, LibraryTypeOK
  <1>10. ASSUME Idle, NEW q \in Query, queries'[q] # NoQuery, "quick" \in queries'[q].waits
         PROVE  q = f /\ ~queries'[q].served
    <2>1. queries[q] = NoQuery /\ queries[f] = NoQuery
      BY <1>1, <1>10 DEF Idle
    <2>2. \A r \in Query \ {f} : one[r] = NoQuery
      BY <1>2, <1>10 DEF Idle, Loaded
    <2>3. "quick" \notin {} \cup {"all"}
      OBVIOUS
    <2>4. q = f
      BY <1>1, <1>3, <1>4, <1>10, <2>2, <2>3 DEF Loaded
    <2> QED
      BY <1>1, <1>2, <1>3, <1>4, <2>1, <2>4 DEF Loaded
  <1>11. AwaitsItsFilter' /\ QuickListIsCurrent'
    BY <1>4, <1>8, <1>10 DEF LibraryInv, PanelTyped, AwaitsItsFilter, QuickListIsCurrent, f
  <1> QED
    BY <1>9, <1>11 DEF LibraryInv

LEMMA ServeQueryStep ==
    ASSUME LibraryInv, NEW q \in Query, ServeQuery(q)
    PROVE  LibraryInv'
  <1> DEFINE r == [served |-> TRUE, waits |-> queries[q].waits, found |-> Found(q)]
  <1>1. queries' = [queries EXCEPT ![q] = r] /\ UNCHANGED <<library, quick, all, change, crossed, behind>>
    BY DEF ServeQuery
  <1>2. queries \in [Query -> QueryType \cup {NoQuery}] /\ queries[q] \in QueryType
    BY DEF ServeQuery, LibraryInv, PanelTyped
  <1>3. r \in QueryType /\ r.waits = queries[q].waits /\ r.served /\ r.found = Found(q)
    BY <1>2 DEF QueryType, Found, Stored
  <1> HIDE DEF r
  <1>4. PanelTyped'
    BY <1>1, <1>2, <1>3 DEF LibraryInv, PanelTyped, LibraryTypeOK
  <1>5. AwaitsItsFilter'
    <2> SUFFICES ASSUME ~crossed, ~behind, NEW p \in Query,
                        queries'[p] # NoQuery, "quick" \in queries'[p].waits
                 PROVE  /\ p = quick.filter /\ quick.loading
                        /\ queries'[p].served => queries'[p].found = Found(p)
      BY <1>1 DEF AwaitsItsFilter, Found, Stored
    <2>1. queries[p] # NoQuery /\ "quick" \in queries[p].waits
      BY <1>1, <1>2, <1>3, NoQueryIsNone
    <2>2. p = quick.filter /\ quick.loading /\ (queries[p].served => queries[p].found = Found(p))
      BY <2>1 DEF LibraryInv, AwaitsItsFilter
    <2> QED
      BY <1>1, <1>2, <1>3, <2>2
  <1>6. QuickListIsCurrent'
    BY <1>1 DEF LibraryInv, QuickListIsCurrent, Found, Stored
  <1> QED
    BY <1>4, <1>5, <1>6 DEF LibraryInv

\* The answer that ends the wait of the list is the one it waited for.
LEMMA QueryEndsStep ==
    ASSUME LibraryInv, NEW q \in Query, QueryAnswered(q) \/ QueryFails(q)
    PROVE  LibraryInv'
  <1>1. queries[q] \in QueryType /\ queries \in [Query -> QueryType \cup {NoQuery}]
    BY DEF QueryAnswered, QueryFails, LibraryInv, PanelTyped
  <1>2. queries' = [queries EXCEPT ![q] = NoQuery] /\ UNCHANGED <<library, change, behind>>
    BY DEF QueryAnswered, QueryFails
  <1>3. CASE QueryFails(q)
    BY <1>1, <1>2, <1>3
    DEF QueryFails, LibraryInv, PanelTyped, LibraryTypeOK, AwaitsItsFilter, QuickListIsCurrent
  <1>4. CASE QueryAnswered(q)
    <2>1. queries[q].served /\ queries[q].found \subseteq Item
      BY <1>1, <1>4 DEF QueryAnswered, QueryType
    <2>2. PanelTyped'
      BY <1>1, <1>2, <1>4, <2>1 DEF QueryAnswered, LibraryInv, PanelTyped, LibraryTypeOK
    <2>3. CASE "quick" \in queries[q].waits
      <3>1. quick' = [quick EXCEPT !.items = queries[q].found, !.loading = FALSE] /\ crossed' = crossed
        BY <1>4, <2>3 DEF QueryAnswered
      <3>2. ~crossed /\ ~behind => q = quick.filter /\ queries[q].found = Found(q)
        BY <1>4, <2>1, <2>3 DEF QueryAnswered, LibraryInv, AwaitsItsFilter
      <3>3. ~crossed /\ ~behind => \A p \in Query : queries'[p] # NoQuery => "quick" \notin queries'[p].waits
        BY <1>1, <1>2, <3>2 DEF LibraryInv, AwaitsItsFilter
      <3> QED
        BY <1>2, <2>2, <3>1, <3>2, <3>3
        DEF LibraryInv, PanelTyped, AwaitsItsFilter, QuickListIsCurrent, Found, Stored
    <2>4. CASE "quick" \notin queries[q].waits
      <3>1. quick' = quick /\ crossed' = crossed
        BY <1>4, <2>4 DEF QueryAnswered
      <3> QED
        BY <1>1, <1>2, <2>2, <3>1
        DEF LibraryInv, PanelTyped, AwaitsItsFilter, QuickListIsCurrent, Found, Stored
    <2> QED
      BY <2>3, <2>4
  <1> QED
    BY <1>3, <1>4

LEMMA LibraryInductive == LibraryInv /\ [LibraryNext]_libraryVars => LibraryInv'
  <1> SUFFICES ASSUME LibraryInv, [LibraryNext]_libraryVars PROVE LibraryInv'
    OBVIOUS
  <1>1. CASE UNCHANGED libraryVars
    BY <1>1 DEF libraryVars, LibraryInv, PanelTyped, LibraryTypeOK, AwaitsItsFilter, QuickListIsCurrent,
                Found, Stored
  <1> QED
    BY <1>1, RetargetStep, DialogOfAllStep, ChangeStep, ChangeAnsweredStep, ServeQueryStep, QueryEndsStep
    DEF LibraryNext

\* A list that neither loads nor was crossed, nor read again for an application
\* of before, shows the scenarios of that on the canvas: getJson shares requests, and the loads of
\* LibraryTab take any answer that comes.
THEOREM QuickListStaysCurrent == LibrarySpec => []QuickListIsCurrent
  <1>1. LibraryInv => QuickListIsCurrent
    BY DEF LibraryInv
  <1> QED
    BY <1>1, LibraryInitially, LibraryInductive, PTL DEF LibrarySpec


-----------------------------------------------------------------------------
(* The pages *)

\* A section of the dashboard for which the role of an administrator suffices.
Offered ==
    wanted \in VisibleTiles /\ staffed /\ {"groups.view", "catalog.read"} \subseteq granted

\* The browser is at the section, or on its way to it, or at the sign-in.
PageInv ==
    /\ page \in DOMAIN Rendered \cup {"auth", "refresh"} /\ next \in DOMAIN Rendered
    /\ Offered => \/ page = wanted /\ outcome \in {"pending", "opened", "part"}
                  \/ page = wanted /\ outcome = "crashed" /\ wanted = "support"
                  \/ page = "refresh" /\ outcome = "pending" /\ next = wanted
                  \/ page = "auth" /\ outcome = "opened"

LEMMA RenderedPages ==
    DOMAIN Rendered = {"dashboard", "catalog", "simulation", "moderation", "review", "history", "approve",
                       "reject", "groups", "users", "progress", "support", "settings", "profile", "rbac"}
  BY DEF Rendered

LEMMA TilesOfDashboard ==
    VisibleTiles \subseteq {"catalog", "simulation", "moderation", "groups", "users", "progress", "support",
                            "settings", "rbac"}
  BY DEF VisibleTiles, Tiles

\* What a page asks for holds wherever its tile is shown.
LEMMA TileOpens ==
    ASSUME NEW s \in VisibleTiles, staffed, {"groups.view", "catalog.read"} \subseteq granted
    PROVE  Rendered[s] \in {"opened", "part"}
  <1>1. s \in DOMAIN Tiles /\ Tiles[s] \cap granted # {}
    BY DEF VisibleTiles
  <1>2. CASE s \in {"catalog", "simulation", "moderation"}
    BY <1>1, <1>2 DEF Tiles, Rendered, CatalogPage, SimulationV2Page, ModerationPage, Loads, Gated
  <1>3. CASE s = "groups"
    <2>1. Rendered[s] = GroupsPage
      BY <1>3 DEF Rendered
    <2> QED
      BY <2>1 DEF GroupsPage, Loads, Gated
  <1>4. CASE s = "progress"
    <2>1. Rendered[s] = ProgressPage /\ "progress.view" \in granted
      BY <1>1, <1>4 DEF Rendered, Tiles
    <2> QED
      BY <2>1 DEF ProgressPage, Loads, Gated
  <1>5. CASE s \in {"users", "support", "settings", "rbac"}
    BY <1>1, <1>5 DEF Tiles, Rendered, UsersPage, SupportPage, SettingsPage, RbacPage, Gated
  <1> QED
    BY <1>2, <1>3, <1>4, <1>5, TilesOfDashboard

LEMMA PageInductive == PageInv /\ [PageNext]_pageVars => PageInv'
  <1> SUFFICES ASSUME PageInv, [PageNext]_pageVars PROVE PageInv'
    OBVIOUS
  <1> USE RenderedPages, TilesOfDashboard
  <1>1. ASSUME UNCHANGED <<granted, staffed>>
        PROVE  /\ VisibleTiles' = VisibleTiles /\ Rendered' = Rendered
               /\ wanted' = wanted => Offered' = Offered
    BY <1>1
    DEF Offered, VisibleTiles, Rendered, HomePage, CatalogPage, SimulationV2Page, ModerationPage, ReviewPage,
        HistoryPage, ApprovePage, RejectPage, GroupsPage, UsersPage, ProgressPage, SupportPage, SettingsPage,
        ProfileSettingsPage, RbacPage, DashboardMetrics, Loads, Gated
  <1>2. ASSUME NEW p \in DOMAIN Rendered, Choose(p) PROVE PageInv'
    BY <1>1, <1>2 DEF Choose, Goto, PageInv
  <1>3. CASE Login
    BY <1>1, <1>3 DEF Login, Goto, PageInv, Offered
  <1>4. CASE ToRefresh \/ ProfileFails
    BY <1>1, <1>4 DEF ToRefresh, ProfileFails, Goto, PageInv
  <1>5. CASE Render
    <2>1. Offered => page = wanted /\ Rendered[page] \in {"opened", "part"}
      BY <1>5, TileOpens DEF Render, PageInv, Offered
    <2> QED
      BY <1>1, <1>5, <2>1 DEF Render, Goto, PageInv
  <1>6. CASE RefreshRoute
    <2>1. CASE renewable
      <3>1. page' = next /\ next' = next /\ wanted' = wanted /\ outcome' = "pending" /\ page = "refresh"
        BY <1>6, <2>1 DEF RefreshRoute, Goto
      <3>2. Rendered' = Rendered /\ Offered' = Offered
        BY <1>1, <1>6, <3>1 DEF RefreshRoute
      <3>3. Offered => next = wanted
        BY <3>1 DEF Offered, PageInv
      <3> QED
        BY <3>1, <3>2, <3>3 DEF PageInv
    <2>2. CASE ~renewable
      <3>1. page' = "auth" /\ next' = next /\ wanted' = wanted /\ outcome' = "opened"
        BY <1>6, <2>2 DEF RefreshRoute, Goto, AuthUrl
      <3> QED
        BY <1>1, <1>6, <3>1 DEF RefreshRoute, PageInv
    <2> QED
      BY <2>1, <2>2
  <1>7. CASE Lapse
    BY <1>1, <1>7 DEF Lapse, PageInv
  <1>8. CASE UpdateSupportRequest
    BY <1>1, <1>8 DEF UpdateSupportRequest, Goto, PageInv
  <1>9. CASE UNCHANGED pageVars
    BY <1>1, <1>9 DEF pageVars, PageInv
  <1> QED
    BY <1>2, <1>3, <1>4, <1>5, <1>6, <1>7, <1>8, <1>9 DEF PageNext

\* A section that the dashboard offers to an administrator opens, through every
\* expiry of the token and every redirect of the refresh route (the tiles of the
\* dashboard, the guards and loads of the pages).
THEOREM OfferedAlwaysOpen == PageSpec => []OfferedSectionsOpen
  <1>1. PageInit => PageInv
    BY RenderedPages, TilesOfDashboard DEF PageInit, PageInv, Offered
  <1>2. PageInv => OfferedSectionsOpen
    BY TilesOfDashboard DEF PageInv, Offered, OfferedSectionsOpen
  <1> QED
    BY <1>1, <1>2, PageInductive, PTL DEF PageSpec

-----------------------------------------------------------------------------
(* The users and their log *)

SentFields ==
    [name : FullName \cup {Nameless, "absent"}, role : UserRole \cup {"absent"},
     status : {"active", "blocked", "absent"}]

Patching ==
    [stage : {"sent"}, kind : {"patch"}, user : Account, form : BOOLEAN, sent : SentFields, row : {NoAccount}]
    \cup [stage : {"read"}, kind : {"patch"}, user : Account, form : BOOLEAN, sent : SentFields, row : UserRow]
    \cup [stage : {"answered"}, kind : {"patch"}, user : Account, form : BOOLEAN, sent : UserRow, row : UserRow]
Creating ==
    [stage : {"sent"}, kind : {"create"}, user : {"new"}, form : BOOLEAN, sent : UserRow, row : {NoAccount}]
    \cup [stage : {"answered"}, kind : {"create"}, user : Account, form : BOOLEAN, sent : UserRow, row : {NoAccount}]

LogEntry == [user : Account, told : SUBSET Field, from : UserRow \cup {NoAccount}, to : UserRow]
TableForm == [user : Account \cup {"new"}, row : UserRow]

UsersTyped ==
    /\ account \in [Account -> UserRow \cup {NoAccount}]
    /\ began \in [Account -> UserRow \cup {NoAccount}]
    /\ audit \in Seq(LogEntry)
    /\ table \in [rows : [Account -> UserRow \cup {NoAccount}], pending : Account \cup {NoAccount, "new"},
                  form : TableForm \cup {NoForm}, editing : BOOLEAN, creating : BOOLEAN]
    /\ requests \in [Request -> Patching \cup Creating \cup {NoRequest}]

\* The requests that name a user: a new one has none until it is created.
Named(q) == q # NoRequest /\ (q.kind = "patch" \/ q.stage = "answered")

\* What the screen asks for and shows is about users that exist.
AboutUsers ==
    /\ \A u \in Account : table.rows[u] # NoAccount => account[u] # NoAccount
    /\ table.form # NoForm /\ table.form.user # "new" => account[table.form.user] # NoAccount
    /\ \A r \in Request : Named(requests[r]) => account[requests[r].user] # NoAccount

\* The log is about users that exist.
LogOfUsers == \A k \in DOMAIN audit : account[audit[k].user] # NoAccount

UsersInv == UsersTyped /\ AboutUsers /\ LogOfUsers /\ LogExplains

LEMMA NoneOfUsers ==
    /\ NoAccount \notin UserRow /\ NoForm \notin TableForm
    /\ NoRequest \notin Patching /\ NoRequest \notin Creating /\ Patching \cap Creating = {}
  BY DEF NoAccount, UserRow, NoForm, TableForm, NoRequest, Patching, Creating

\* What a row says of a field.
LEMMA FieldsOfRow ==
    ASSUME NEW a \in UserRow, NEW b \in UserRow
    PROVE  /\ a["name"] = a.name /\ a["role"] = a.role /\ a["status"] = a.status
           /\ (\A f \in Field : a[f] = b[f]) => a = b
  BY DEF Field, UserRow

\* An entry whose fields are those of the row it leaves, and that tells every
\* field the row changes in, keeps the log true.
LEMMA LogGrows ==
    ASSUME UsersInv, NEW e \in LogEntry, audit' = Append(audit, e), NEW new \in UserRow,
           account' = [account EXCEPT ![e.user] = new], \A f \in e.told : new[f] = e.to[f],
           began' \in [Account -> UserRow \cup {NoAccount}],
           \A u \in Account \ {e.user} : began'[u] = began[u],
           \/ account[e.user] # NoAccount /\ began' = began /\ \A f \in Field \ e.told : new[f] = account[e.user][f]
           \/ account[e.user] = NoAccount /\ began'[e.user] = new
    PROVE  LogExplains' /\ LogOfUsers'
  <1> USE NoneOfUsers
  <1> DEFINE n == Len(audit)
  <1>1. /\ n \in Nat /\ DOMAIN audit = 1..n /\ DOMAIN audit' = 1..(n + 1)
        /\ \A i \in 1..n : audit'[i] = audit[i] /\ audit[i] \in LogEntry
        /\ audit'[n + 1] = e
    BY DEF UsersInv, UsersTyped
  <1>2. /\ e.user \in Account /\ e.told \subseteq Field /\ account'[e.user] = new /\ new # NoAccount
        /\ \A u \in Account \ {e.user} : account'[u] = account[u]
    BY DEF UsersInv, UsersTyped, LogEntry
  <1> HIDE DEF n
  <1>3. LogOfUsers'
    BY <1>1, <1>2 DEF UsersInv, LogOfUsers, LogEntry
  <1>4. ASSUME NEW u \in Account, account'[u] # NoAccount, NEW f \in Field
        PROVE  /\ ToldOf(u, f)' = {} => account'[u][f] = began'[u][f]
               /\ \A k \in ToldOf(u, f)' : (\A m \in ToldOf(u, f)' : m <= k) => account'[u][f] = audit'[k].to[f]
    <2>1. /\ ToldOf(u, f) \subseteq 1..n
          /\ \A k \in ToldOf(u, f) : audit'[k] = audit[k]
      BY <1>1 DEF ToldOf
    <2>2. ToldOf(u, f)' = ToldOf(u, f) \cup (IF e.user = u /\ f \in e.told THEN {n + 1} ELSE {})
      BY <1>1 DEF ToldOf
    <2>3. account[u] # NoAccount =>
            /\ ToldOf(u, f) = {} => account[u][f] = began[u][f]
            /\ \A k \in ToldOf(u, f) : (\A m \in ToldOf(u, f) : m <= k) => account[u][f] = audit[k].to[f]
      BY DEF UsersInv, LogExplains, Users
    <2>4. account[u] = NoAccount => ToldOf(u, f) = {}
      BY DEF UsersInv, LogOfUsers, ToldOf
    <2> DEFINE before == ToldOf(u, f)
               after == ToldOf(u, f)'
    <2> HIDE DEF before, after
    <2>5. CASE e.user = u /\ f \in e.told
      <3>1. ASSUME NEW k \in after, \A m \in after : m <= k PROVE k = n + 1
        BY <1>1, <2>1, <2>2, <2>5, <3>1 DEF before, after
      <3> QED
        BY <1>1, <1>2, <2>2, <2>5, <3>1 DEF before, after
    <2>6. CASE e.user = u /\ f \notin e.told
      <3>1. after = before
        BY <2>2, <2>6 DEF before, after
      <3>2. CASE account[u] # NoAccount
        <4>1. account'[u][f] = account[u][f] /\ began'[u] = began[u]
          BY <1>2, <2>6, <3>2
        <4> QED
          BY <2>1, <2>3, <3>1, <3>2, <4>1 DEF before, after
      <3>3. CASE account[u] = NoAccount
        <4>1. before = {} /\ account'[u] = began'[u]
          BY <1>2, <2>4, <2>6, <3>3 DEF before
        <4> QED
          BY <3>1, <4>1 DEF before, after
      <3> QED
        BY <3>2, <3>3
    <2>7. CASE e.user # u
      <3>1. after = before /\ account'[u] = account[u] /\ began'[u] = began[u]
        BY <1>2, <2>2, <2>7 DEF before, after
      <3>2. account[u] # NoAccount
        BY <1>4, <3>1
      <3>3. /\ before = {} => account[u][f] = began[u][f]
            /\ \A k \in before : (\A m \in before : m <= k) => account[u][f] = audit[k].to[f]
        BY <2>3, <3>2 DEF before
      <3>4. \A k \in before : audit'[k] = audit[k]
        BY <2>1 DEF before
      <3>5. /\ after = {} => account'[u][f] = began'[u][f]
            /\ \A k \in after : (\A m \in after : m <= k) => account'[u][f] = audit'[k].to[f]
        BY <3>1, <3>3, <3>4
      <3> QED
        BY <3>5 DEF after
    <2> QED
      BY <2>5, <2>6, <2>7
  <1>5. LogExplains'
    BY <1>4 DEF LogExplains, Users
  <1> QED
    BY <1>3, <1>5

LEMMA AskStep ==
    ASSUME UsersInv, NEW request \in Patching \cup Creating, Ask(request),
           Named(request) => account[request.user] # NoAccount,
           table'.rows = table.rows, table'.form = table.form,
           table' \in [rows : [Account -> UserRow \cup {NoAccount}], pending : Account \cup {NoAccount, "new"},
                       form : TableForm \cup {NoForm}, editing : BOOLEAN, creating : BOOLEAN]
    PROVE  UsersInv'
  <1>1. PICK r \in Request : requests' = [requests EXCEPT ![r] = request]
    BY DEF Ask
  <1>2. UNCHANGED <<account, audit, began>>
    BY DEF Ask
  <1>3. UsersTyped'
    BY <1>1, <1>2 DEF UsersInv, UsersTyped
  <1>4. AboutUsers'
    BY <1>1, <1>2 DEF UsersInv, UsersTyped, AboutUsers, Named
  <1> QED
    BY <1>2, <1>3, <1>4 DEF UsersInv, LogOfUsers, LogExplains, Users, ToldOf

LEMMA ButtonStep ==
    ASSUME UsersInv, HandleEditUser \/ HandleCreateUser \/ \E u \in Account : ToggleStatus(u)
    PROVE  UsersInv'
  <1> USE NoneOfUsers
  <1>1. ASSUME NEW u \in Account, ToggleStatus(u) PROVE UsersInv'
    <2> DEFINE sent == [name |-> "absent", role |-> "absent",
                        status |-> IF table.rows[u].status = "active" THEN "blocked" ELSE "active"]
    <2> DEFINE request == [stage |-> "sent", kind |-> "patch", user |-> u, form |-> FALSE, sent |-> sent,
                           row |-> NoAccount]
    <2>1. request \in Patching /\ request.user = u
      BY DEF Patching, SentFields
    <2>2. Ask(request) /\ table' = [table EXCEPT !.pending = u] /\ table.rows[u] # NoAccount
      BY <1>1 DEF ToggleStatus, Patch
    <2> HIDE DEF request
    <2> QED
      BY <2>1, <2>2, AskStep DEF UsersInv, UsersTyped, AboutUsers
  <1>2. CASE HandleEditUser
    <2> DEFINE request == [stage |-> "sent", kind |-> "patch", user |-> table.form.user, form |-> TRUE,
                           sent |-> table.form.row, row |-> NoAccount]
    <2>1. table.form \in TableForm /\ table.form.user # "new"
      BY <1>2 DEF HandleEditUser, UsersInv, UsersTyped
    <2>2. table.form.user \in Account /\ table.form.row \in SentFields
      BY <2>1 DEF TableForm, SentFields, UserRow
    <2>3. request \in Patching /\ request.user = table.form.user
      BY <2>2 DEF Patching
    <2>4. Ask(request) /\ table' = [table EXCEPT !.pending = table.form.user, !.editing = TRUE]
      BY <1>2 DEF HandleEditUser, Patch
    <2>5. account[table.form.user] # NoAccount
      BY <2>1 DEF UsersInv, AboutUsers
    <2> HIDE DEF request
    <2> QED
      BY <2>2, <2>3, <2>4, <2>5, AskStep DEF UsersInv, UsersTyped
  <1>3. CASE HandleCreateUser
    <2> DEFINE request == [stage |-> "sent", kind |-> "create", user |-> "new", form |-> TRUE,
                           sent |-> table.form.row, row |-> NoAccount]
    <2>1. table.form \in TableForm
      BY <1>3 DEF HandleCreateUser, UsersInv, UsersTyped
    <2>2. request \in Creating /\ ~Named(request)
      BY <2>1 DEF Creating, TableForm, Named
    <2>3. Ask(request) /\ table' = [table EXCEPT !.creating = TRUE]
      BY <1>3 DEF HandleCreateUser
    <2> HIDE DEF request
    <2> QED
      BY <2>2, <2>3, AskStep DEF UsersInv, UsersTyped
  <1> QED
    BY <1>1, <1>2, <1>3

\* Opening, filling in and closing a form.
LEMMA FormStep ==
    ASSUME UsersInv,
           \/ OpenCreateUser \/ CloseForm \/ \E row \in UserRow : Fill(row)
           \/ \E u \in Account : OpenEditUser(u)
    PROVE  UsersInv'
  <1>1. UNCHANGED <<account, audit, began, requests>>
    BY DEF OpenCreateUser, CloseForm, Fill, OpenEditUser
  <1>2. /\ table' = [table EXCEPT !.form = table'.form] /\ table'.form \in TableForm \cup {NoForm}
        /\ table'.form # NoForm /\ table'.form.user # "new" => account[table'.form.user] # NoAccount
    <2>1. CASE OpenCreateUser
      BY <2>1 DEF OpenCreateUser, UsersInv, UsersTyped, TableForm
    <2>2. CASE CloseForm
      BY <2>2 DEF CloseForm, UsersInv, UsersTyped
    <2>3. ASSUME NEW u \in Account, OpenEditUser(u) PROVE
          /\ table' = [table EXCEPT !.form = table'.form] /\ table'.form \in TableForm \cup {NoForm}
          /\ table'.form # NoForm /\ table'.form.user # "new" => account[table'.form.user] # NoAccount
      <3>1. PICK name \in FullName \cup {Nameless} :
              /\ table' = [table EXCEPT !.form = [user |-> u, row |-> [table.rows[u] EXCEPT !.name = name]]]
              /\ table.rows[u] # NoAccount
        BY <2>3 DEF OpenEditUser, UsersInv, UsersTyped, UserRow
      <3>2. table.rows[u] \in UserRow /\ account[u] # NoAccount
        BY <3>1 DEF UsersInv, UsersTyped, AboutUsers
      <3>3. [table.rows[u] EXCEPT !.name = name] \in UserRow
        BY <3>2 DEF UserRow
      <3> QED
        BY <3>1, <3>2, <3>3 DEF UsersInv, UsersTyped, TableForm
    <2>4. ASSUME NEW row \in UserRow, Fill(row) PROVE
          /\ table' = [table EXCEPT !.form = table'.form] /\ table'.form \in TableForm \cup {NoForm}
          /\ table'.form # NoForm /\ table'.form.user # "new" => account[table'.form.user] # NoAccount
      <3>1. table' = [table EXCEPT !.form.row = row] /\ table.form \in TableForm
        BY <2>4 DEF Fill, UsersInv, UsersTyped
      <3>2. table'.form = [table.form EXCEPT !.row = row] /\ table' = [table EXCEPT !.form = table'.form]
        BY <3>1 DEF UsersInv, UsersTyped
      <3>3. table'.form \in TableForm /\ table'.form.user = table.form.user
        BY <3>1, <3>2 DEF TableForm
      <3> QED
        BY <2>4, <3>2, <3>3 DEF Fill, UsersInv, AboutUsers
    <2> QED
      BY <2>1, <2>2, <2>3, <2>4
  <1>3. UsersTyped' /\ table'.rows = table.rows
    BY <1>1, <1>2 DEF UsersInv, UsersTyped
  <1>4. AboutUsers'
    BY <1>1, <1>2, <1>3 DEF UsersInv, AboutUsers
  <1> QED
    BY <1>1, <1>3, <1>4 DEF UsersInv, LogOfUsers, LogExplains, Users, ToldOf

\* A request that is committed: its entry, if any, tells what the row changes in.
LEMMA ServedStep ==
    ASSUME UsersInv, NEW r \in Request, NEW u \in Account, NEW new \in UserRow, NEW q,
           requests' = [requests EXCEPT ![r] = q], q \in Patching \cup Creating, q.user = u,
           account' = [account EXCEPT ![u] = new], began' \in [Account -> UserRow \cup {NoAccount}],
           audit' \in Seq(LogEntry), LogExplains', LogOfUsers', UNCHANGED table
    PROVE  UsersInv'
  <1> USE NoneOfUsers
  <1>3. UsersTyped'
    <2>2. account' \in [Account -> UserRow \cup {NoAccount}]
      BY DEF UsersInv, UsersTyped
    <2>3. requests' \in [Request -> Patching \cup Creating \cup {NoRequest}]
      BY DEF UsersInv, UsersTyped
    <2> QED
      BY <2>2, <2>3 DEF UsersInv, UsersTyped
  <1>4. \A v \in Account : account[v] # NoAccount => account'[v] # NoAccount
    BY DEF UsersInv, UsersTyped
  <1>5. AboutUsers'
    <2>1. /\ \A v \in Account : table.rows[v] # NoAccount => account'[v] # NoAccount
          /\ table.form # NoForm /\ table.form.user # "new" => account'[table.form.user] # NoAccount
      BY <1>4 DEF UsersInv, UsersTyped, AboutUsers, TableForm
    <2>2. ASSUME NEW s \in Request, Named(requests[s])' PROVE account'[requests'[s].user] # NoAccount
      <3>1. CASE s = r
        BY <3>1, <2>2 DEF Named, UsersInv, UsersTyped
      <3>2. CASE s # r
        <4>1. requests'[s] = requests[s] /\ Named(requests[s]) /\ requests[s].user \in Account
          BY <3>2, <2>2 DEF Named, UsersInv, UsersTyped, Patching, Creating
        <4> QED
          BY <1>4, <2>2, <4>1 DEF UsersInv, AboutUsers
      <3> QED
        BY <3>1, <3>2
    <2> QED
      BY <2>1, <2>2 DEF AboutUsers
  <1> QED
    BY <1>3, <1>5 DEF UsersInv

LEMMA AppliedType ==
    ASSUME NEW old \in UserRow, NEW sent \in SentFields
    PROVE  Applied(old, sent) \in UserRow
  BY DEF Applied, SentFields, UserRow

LEMMA FindUserStep ==
    ASSUME UsersInv, NEW r \in Request, ServeUser(r), FindUser(r)
    PROVE  UsersInv'
  <1> USE NoneOfUsers
  <1> DEFINE q == requests[r]
             old == account[q.user]
             found == [q EXCEPT !.stage = "read", !.row = old]
  <1>1. q \in Patching /\ q.stage = "sent" /\ q.user \in Account /\ Named(q)
    BY DEF ServeUser, FindUser, UsersInv, UsersTyped, Patching, Creating, Named
  <1>2. old \in UserRow
    BY <1>1 DEF UsersInv, UsersTyped, AboutUsers
  <1>3. found \in Patching /\ found.user = q.user
    BY <1>1, <1>2 DEF Patching
  <1>4. requests' = [requests EXCEPT ![r] = found] /\ UNCHANGED <<account, audit, began, table>>
    BY DEF ServeUser, FindUser
  <1> HIDE DEF found
  <1>5. UsersTyped'
    BY <1>3, <1>4 DEF UsersInv, UsersTyped
  <1>6. AboutUsers'
    <2>1. account[q.user] # NoAccount
      BY <1>1 DEF UsersInv, AboutUsers
    <2> HIDE DEF q
    <2> QED
      BY <1>3, <1>4, <2>1 DEF UsersInv, UsersTyped, AboutUsers, Named
  <1> QED
    BY <1>4, <1>5, <1>6 DEF UsersInv, LogOfUsers, LogExplains, Users, ToldOf

\* Whatever other requests wrote since this one read the row: the columns it
\* writes are the fields its entry tells.
LEMMA UpdateUserStep ==
    ASSUME UsersInv, NEW r \in Request, ServeUser(r), UpdateUser(r)
    PROVE  UsersInv'
  <1> USE NoneOfUsers
  <1> DEFINE q == requests[r]
             u == q.user
             row == account[u]
             old == q.row
             new == Applied(old, q.sent)
             kept == Written(row, old, new)
             told == {f \in Field : new[f] # old[f]}
             e == [user |-> u, told |-> told, from |-> old, to |-> new]
             served == [q EXCEPT !.stage = "answered", !.sent = new]
  <1>1. q \in Patching /\ u \in Account /\ q.sent \in SentFields /\ old \in UserRow /\ Named(q)
    BY DEF ServeUser, UpdateUser, UsersInv, UsersTyped, Patching, Creating, Named
  <1>2. row \in UserRow
    BY <1>1 DEF UsersInv, UsersTyped, AboutUsers
  <1>3. new \in UserRow
    BY <1>1, AppliedType
  <1>4. /\ account' = [account EXCEPT ![u] = kept]
        /\ audit' = audit \o Entry(u, old, new)
        /\ requests' = [requests EXCEPT ![r] = served]
        /\ UNCHANGED <<table, began>>
    BY DEF ServeUser, UpdateUser
  <1>5. served \in Patching /\ served.user = u
    BY <1>1, <1>3 DEF Patching
  <1> HIDE DEF new, served
  <1>6. kept \in UserRow
    BY <1>2, <1>3 DEF Written, UserRow
  <1>7. \A f \in Field : kept[f] = IF f \in told THEN new[f] ELSE row[f]
    BY <1>1, <1>2, <1>3 DEF Written, Field, UserRow
  <1>8. e \in LogEntry /\ e.user = u /\ e.told = told /\ e.to = new
    BY <1>1, <1>3 DEF LogEntry
  <1>9. audit \in Seq(LogEntry)
    BY DEF UsersInv, UsersTyped
  <1>10. \/ told = {} /\ audit' = audit
         \/ told # {} /\ audit' = Append(audit, e)
    <2>1. CASE told = {}
      BY <1>4, <1>9, <2>1 DEF Entry
    <2>2. CASE told # {}
      <3>1. audit' = audit \o <<e>>
        BY <1>4, <2>2 DEF Entry
      <3> HIDE DEF e
      <3> QED
        BY <1>8, <1>9, <2>2, <3>1
    <2> QED
      BY <2>1, <2>2
  <1> HIDE DEF kept, told, e
  <1>11. audit' \in Seq(LogEntry)
    BY <1>8, <1>9, <1>10
  <1>12. LogExplains' /\ LogOfUsers'
    <2>1. CASE told = {} /\ audit' = audit
      <3>1. kept = row
        BY <1>2, <1>6, <1>7, <2>1, FieldsOfRow
      <3>2. account' = account
        BY <1>1, <1>4, <3>1 DEF UsersInv, UsersTyped
      <3> QED
        BY <1>4, <2>1, <3>2 DEF UsersInv, LogOfUsers, LogExplains, Users, ToldOf
    <2>2. CASE audit' = Append(audit, e)
      <3>1. account[e.user] # NoAccount
        BY <1>2, <1>8
      <3>2. /\ \A f \in e.told : kept[f] = e.to[f]
            /\ \A f \in Field \ e.told : kept[f] = account[e.user][f]
            /\ account' = [account EXCEPT ![e.user] = kept]
        <4>1. e.told \subseteq Field
          BY <1>8 DEF LogEntry
        <4> QED
          BY <1>4, <1>7, <1>8, <4>1
      <3>3. began' = began /\ began' \in [Account -> UserRow \cup {NoAccount}]
        BY <1>4 DEF UsersInv, UsersTyped
      <3> HIDE DEF row, u
      <3> QED
        BY <1>6, <1>8, <2>2, <3>1, <3>2, <3>3, LogGrows
    <2> QED
      BY <1>10, <2>1, <2>2
  <1>13. began' \in [Account -> UserRow \cup {NoAccount}] /\ UNCHANGED table
    BY <1>4 DEF UsersInv, UsersTyped
  <1> HIDE DEF u, row, old, q
  <1> QED
    BY <1>1, <1>4, <1>5, <1>6, <1>11, <1>12, <1>13, ServedStep

LEMMA CreateUserStep ==
    ASSUME UsersInv, NEW r \in Request, ServeUser(r), CreateUser(r)
    PROVE  UsersInv'
  <1> USE NoneOfUsers
  <1> DEFINE q == requests[r]
  <1>1. PICK u \in Account :
          /\ account[u] = NoAccount
          /\ account' = [account EXCEPT ![u] = q.sent]
          /\ began' = [began EXCEPT ![u] = q.sent]
          /\ audit' = Append(audit, [user |-> u, told |-> {"role", "status"},
                                     from |-> NoAccount, to |-> q.sent])
          /\ requests' = [requests EXCEPT ![r] = [@ EXCEPT !.stage = "answered", !.user = u]]
    BY DEF CreateUser
  <1> DEFINE served == [q EXCEPT !.stage = "answered", !.user = u]
             e == [user |-> u, told |-> {"role", "status"}, from |-> NoAccount, to |-> q.sent]
  <1>2. q \in Creating /\ q.sent \in UserRow
    BY DEF ServeUser, CreateUser, UsersInv, UsersTyped, Creating, Patching
  <1>3. served \in Creating /\ served.user = u
    BY <1>2 DEF Creating
  <1>4. requests' = [requests EXCEPT ![r] = served] /\ UNCHANGED table
    BY <1>1 DEF ServeUser
  <1>5. e \in LogEntry /\ e.user = u /\ e.to = q.sent
    BY <1>2 DEF LogEntry, Field
  <1>6. audit' = Append(audit, e)
    BY <1>1
  <1> HIDE DEF served, e, q
  <1>7. audit' \in Seq(LogEntry)
    <2>1. audit \in Seq(LogEntry)
      BY DEF UsersInv, UsersTyped
    <2> QED
      BY <1>5, <1>6, <2>1
  <1>8. /\ began' \in [Account -> UserRow \cup {NoAccount}]
        /\ began'[u] = q.sent /\ \A v \in Account \ {u} : began'[v] = began[v]
    BY <1>1, <1>2 DEF UsersInv, UsersTyped
  <1>9. LogExplains' /\ LogOfUsers'
    BY <1>1, <1>2, <1>5, <1>6, <1>8, LogGrows
  <1> QED
    BY <1>1, <1>2, <1>3, <1>4, <1>7, <1>8, <1>9, ServedStep

LEMMA ServeStep ==
    ASSUME UsersInv, NEW r \in Request, ServeUser(r)
    PROVE  UsersInv'
  <1>1. FindUser(r) \/ UpdateUser(r) \/ CreateUser(r)
    BY DEF ServeUser
  <1> QED
    BY <1>1, FindUserStep, UpdateUserStep, CreateUserStep

\* The answer of a request, or its failure, reaches the table and its forms.
LEMMA TableStep ==
    ASSUME UsersInv, NEW r \in Request, UserAnswered(r) \/ UserFails(r)
    PROVE  UsersInv'
  <1> USE NoneOfUsers
  <1> DEFINE q == requests[r]
  <1>1. q \in Patching \cup Creating /\ requests \in [Request -> Patching \cup Creating \cup {NoRequest}]
    BY DEF UserAnswered, UserFails, UsersInv, UsersTyped
  <1>2. requests' = [requests EXCEPT ![r] = NoRequest] /\ UNCHANGED <<account, audit, began>>
    BY DEF UserAnswered, UserFails
  <1> DEFINE rows == IF UserAnswered(r) THEN [table.rows EXCEPT ![q.user] = q.sent] ELSE table.rows
  <1>3. rows \in [Account -> UserRow \cup {NoAccount}]
    BY <1>1 DEF UserAnswered, Patching, Creating, UsersInv, UsersTyped
  <1>4. \A u \in Account : rows[u] # NoAccount => account[u] # NoAccount
    <2>1. CASE UserAnswered(r)
      <3>1. q.user \in Account /\ account[q.user] # NoAccount
        BY <1>1, <2>1 DEF UserAnswered, Patching, Creating, Named, UsersInv, AboutUsers
      <3> QED
        BY <2>1, <3>1 DEF UsersInv, UsersTyped, AboutUsers
    <2>2. CASE ~UserAnswered(r)
      BY <2>2 DEF UsersInv, AboutUsers
    <2> QED
      BY <2>1, <2>2
  <1>5. /\ table'.rows = rows /\ table'.form \in {table.form, NoForm}
        /\ table' \in [rows : [Account -> UserRow \cup {NoAccount}], pending : Account \cup {NoAccount, "new"},
                       form : TableForm \cup {NoForm}, editing : BOOLEAN, creating : BOOLEAN]
    <2>1. q.form \in BOOLEAN /\ q.kind \in {"patch", "create"}
      BY <1>1 DEF Patching, Creating
    <2>2. table \in [rows : [Account -> UserRow \cup {NoAccount}], pending : Account \cup {NoAccount, "new"},
                     form : TableForm \cup {NoForm}, editing : BOOLEAN, creating : BOOLEAN]
      BY DEF UsersInv, UsersTyped
    <2>3. CASE q.kind = "patch"
      <3>1. table' = Patched(q, rows)
        BY <2>3 DEF UserAnswered, UserFails
      <3> HIDE DEF q, rows
      <3> QED
        BY <1>3, <2>1, <2>2, <3>1 DEF Patched
    <2>4. CASE q.kind = "create"
      <3>1. \/ table' = Listed(q, TRUE) /\ rows = [table.rows EXCEPT ![q.user] = q.sent]
            \/ table' = Listed(q, FALSE) /\ rows = table.rows
        <4>1. CASE UserAnswered(r)
          <5>1. table' = Listed(q, TRUE)
            BY <2>4, <4>1 DEF UserAnswered
          <5>2. rows = [table.rows EXCEPT ![q.user] = q.sent]
            BY <4>1
          <5> HIDE DEF q, rows
          <5> QED
            BY <5>1, <5>2
        <4>2. CASE ~UserAnswered(r)
          <5>1. table' = Listed(q, FALSE)
            BY <2>4, <4>2 DEF UserFails
          <5> QED
            BY <4>2, <5>1
        <4> QED
          BY <4>1, <4>2
      <3>2. CASE table' = Listed(q, TRUE) /\ rows = [table.rows EXCEPT ![q.user] = q.sent]
        <4> HIDE DEF q, rows
        <4> QED
          BY <1>3, <2>1, <2>2, <3>2 DEF Listed
      <3>3. CASE table' = Listed(q, FALSE) /\ rows = table.rows
        <4> HIDE DEF q, rows
        <4> QED
          BY <1>3, <2>1, <2>2, <3>3 DEF Listed
      <3> QED
        BY <3>1, <3>2, <3>3
    <2> QED
      BY <2>1, <2>3, <2>4
  <1> HIDE DEF q, rows
  <1>6. UsersTyped'
    BY <1>1, <1>2, <1>5 DEF UsersInv, UsersTyped
  <1>7. AboutUsers'
    BY <1>1, <1>2, <1>4, <1>5 DEF UsersInv, AboutUsers, Named
  <1> QED
    BY <1>2, <1>6, <1>7 DEF UsersInv, LogOfUsers, LogExplains, Users, ToldOf

LEMMA UsersInductive == UsersInv /\ [UsersNext]_usersVars => UsersInv'
  <1> SUFFICES ASSUME UsersInv, [UsersNext]_usersVars PROVE UsersInv'
    OBVIOUS
  <1>1. CASE UNCHANGED usersVars
    BY <1>1 DEF usersVars, UsersInv, UsersTyped, AboutUsers, LogOfUsers, LogExplains, Users, ToldOf
  <1> QED
    BY <1>1, ButtonStep, FormStep, ServeStep, TableStep DEF UsersNext

\* For every account and field the last entry of the audit log that tells the
\* field tells its value, and a field no entry tells never changed, whatever
\* requests read the same row and write one after the other, or fail
\* (update_user, which writes the columns it changed, create_user).
THEOREM LogAlwaysExplains == UsersSpec => []LogExplains
  <1>1. UsersInit => UsersInv
    BY DEF UsersInit, UsersInv, UsersTyped, AboutUsers, Named, LogOfUsers, LogExplains, Users, ToldOf
  <1>2. UsersInv => LogExplains
    BY DEF UsersInv
  <1> QED
    BY <1>1, <1>2, UsersInductive, PTL DEF UsersSpec

-----------------------------------------------------------------------------
(* The media of the simulation editor *)

\* The pictures that were uploaded once.
Captioned == {p \in Picture : caption[p] # "none"}

EntryType(S) == [open : BOOLEAN, busy : BOOLEAN, shown : SUBSET S, count : Nat]
PanelType(S) ==
    [list : [Binding -> EntryType(S) \cup {NoEntry}], loaded : SUBSET Binding, screens : SUBSET S,
     target : Binding \cup {Unset}]
DialogType(S) ==
    [open : BOOLEAN, mode : {"create", "edit"}, at : Binding \cup {Unset}, source : Binding \cup {Unset},
     shown : SUBSET S, busy : BOOLEAN, came : [Picture -> Binding \cup {Unset}], late : SUBSET S,
     failed : BOOLEAN]
ReadType(S) ==
    [served : {FALSE}, ears : SUBSET {"dialog", "version"}]
    \cup [served : {TRUE}, ears : SUBSET {"dialog", "version"}, found : SUBSET S]
ListingType == [served : {FALSE}] \cup [served : {TRUE}, found : [Binding -> Nat]] \cup {NoRead}
UploadType == [kind : {"upload"}, what : SUBSET Picture, to : Binding, done : BOOLEAN]
SubmitType(S) ==
    [kind : {"submit"}, what : SUBSET S, left : SUBSET S, to : Binding, heard : BOOLEAN, alone : BOOLEAN]
ChangeType == [kind : {"rename", "delete"}, what : SUBSET Picture, to : {Unset}, done : BOOLEAN]
DropType == [kind : {"drop"}, what : {{}}, to : Binding, done : BOOLEAN, clears : BOOLEAN]
WriteType(S) == UploadType \cup SubmitType(S) \cup ChangeType \cup DropType

TablesTyped ==
    /\ stored \in [Picture -> Binding \cup {Unset}] /\ caption \in [Picture -> {"none", "first", "second"}]
    /\ \A p \in Picture : stored[p] # Unset => caption[p] # "none"

EditorTyped ==
    /\ panel \in PanelType(Captioned) /\ dialog \in DialogType(Captioned)
    /\ reads \in [Binding -> ReadType(Captioned) \cup {NoRead}]
    /\ listing \in ListingType

\* The dialog listens to the read of its own version and to no other.
HeardAt(rs, b) == rs[b] # NoRead /\ "dialog" \in rs[b].ears
ListensToItsVersion ==
    \A b \in Binding : HeardAt(reads, b) => dialog.open /\ dialog.at # Unset /\ b = Effective(dialog)

\* What the theorem says of the dialog, and that an edit has a version to edit.
ShowsItsVersion(d) ==
    d.open /\ (d.mode = "edit" \/ ~(d.busy \/ d.failed)) =>
        \A p \in d.shown \ d.late : d.came[p] = Effective(d)
EditsOne(d) == d.open /\ d.mode = "edit" => d.source # Unset
DialogInv == ShowsItsVersion(dialog) /\ EditsOne(dialog)

\* One upload at a time, of a picture that nothing shows before.
UploadsAreNew ==
    /\ \A w \in Under("upload") : \A p \in writes[w].what : writes[w].done <=> p \in Captioned
    /\ \A v, w \in Under("upload") : v = w

\* What a submit without company was told of was moved, and is there or deleted.
AloneMoves ==
    /\ \A v, w \in Under("submit") : writes[w].alone => v = w
    /\ \A w \in Under("submit") : writes[w].alone /\ writes[w].heard =>
            \A p \in writes[w].what \ writes[w].left : stored[p] \in {writes[w].to, Unset}

WritesTyped == writes \in [Write -> WriteType(Captioned) \cup {NoWrite}]

MediaInv ==
    /\ TablesTyped /\ EditorTyped /\ WritesTyped
    /\ ListensToItsVersion /\ DialogInv /\ UploadsAreNew /\ AloneMoves

LEMMA NoneOfMedia == ASSUME NEW S PROVE
    /\ NoEntry \notin EntryType(S) /\ NoRead \notin ReadType(S) /\ NoWrite \notin WriteType(S)
    /\ Unset \notin Binding /\ Fresh \in EntryType(S)
  BY MediaAssumption
  DEF NoEntry, EntryType, NoRead, ReadType, NoWrite, WriteType, UploadType, SubmitType, ChangeType, DropType,
      Binding, Fresh

\* A caller joins a read; a clean-up leaves it.
LEMMA JoinedType ==
    ASSUME NEW S, NEW rs \in [Binding -> ReadType(S) \cup {NoRead}], NEW b \in Binding,
           NEW who \in {"dialog", "version"}
    PROVE  /\ Joined(rs, b, who) \in [Binding -> ReadType(S) \cup {NoRead}]
           /\ \A c \in Binding : HeardAt(Joined(rs, b, who), c) =>
                HeardAt(rs, c) \/ (who = "dialog" /\ c = b)
  <1> DEFINE one == WithEar(rs[b], who)
  <1>1. Joined(rs, b, who) = [rs EXCEPT ![b] = one]
    BY DEF Joined
  <1>2. one \in ReadType(S) /\ one.ears = (IF rs[b] = NoRead THEN {} ELSE rs[b].ears) \cup {who}
    BY DEF ReadType, WithEar
  <1> HIDE DEF one
  <1> QED
    BY <1>1, <1>2 DEF HeardAt

LEMMA UnheardType ==
    ASSUME NEW S, NEW rs \in [Binding -> ReadType(S) \cup {NoRead}]
    PROVE  /\ Unheard(rs) \in [Binding -> ReadType(S) \cup {NoRead}]
           /\ \A c \in Binding : ~HeardAt(Unheard(rs), c)
  <1>1. ASSUME NEW b \in Binding, rs[b] # NoRead
        PROVE  LET one == [rs[b] EXCEPT !.ears = rs[b].ears \ {"dialog"}]
               IN  one \in ReadType(S) /\ "dialog" \notin one.ears
    <2>1. rs[b] \in ReadType(S)
      BY <1>1
    <2> QED
      BY <2>1 DEF ReadType
  <1>2. \A b \in Binding : Unheard(rs)[b] = IF rs[b] = NoRead THEN NoRead
                                            ELSE [rs[b] EXCEPT !.ears = rs[b].ears \ {"dialog"}]
    BY DEF Unheard
  <1> QED
    BY <1>1, <1>2 DEF Unheard, HeardAt

\* The pictures of a read are those of its version.
LEMMA FilledDialog ==
    ASSUME NEW d \in DialogType(Captioned), NEW S \in SUBSET Captioned, NEW b \in Binding \cup {Unset}
    PROVE  /\ Filled(d, S, b) \in DialogType(Captioned)
           /\ Filled(d, S, b).open = d.open /\ Filled(d, S, b).mode = d.mode /\ Filled(d, S, b).at = d.at
           /\ Filled(d, S, b).source = d.source /\ Filled(d, S, b).shown = S
           /\ \A p \in S : Filled(d, S, b).came[p] = b
  <1> DEFINE came == [p \in Picture |-> IF p \in S THEN b ELSE Unset]
  <1>1. came \in [Picture -> Binding \cup {Unset}] /\ S \subseteq Picture /\ \A p \in S : came[p] = b
    BY DEF Captioned
  <1>2. Filled(d, S, b) = [d EXCEPT !.shown = S, !.came = came, !.late = {}, !.failed = FALSE]
    BY DEF Filled
  <1> HIDE DEF came
  <1> QED
    BY <1>1, <1>2 DEF DialogType

LEMMA ClearedDialog ==
    ASSUME NEW d \in DialogType(Captioned)
    PROVE  /\ Cleared(d) \in DialogType(Captioned)
           /\ Cleared(d).open = d.open /\ Cleared(d).mode = d.mode /\ Cleared(d).at = d.at
           /\ Cleared(d).source = d.source /\ Cleared(d).shown = {}
  <1> DEFINE came == [p \in Picture |-> Unset]
  <1>1. came \in [Picture -> Binding \cup {Unset}]
    OBVIOUS
  <1>2. Cleared(d) = [d EXCEPT !.shown = {}, !.came = came, !.late = {}, !.failed = FALSE]
    BY DEF Cleared, Filled
  <1> HIDE DEF came
  <1> QED
    BY <1>1, <1>2 DEF DialogType

\* The effect of the dialog leaves it listening to the version it shows.
LEMMA SettleStep ==
    ASSUME MediaInv, NEW d \in DialogType(Captioned),
           NEW rs \in [Binding -> ReadType(Captioned) \cup {NoRead}],
           \A b \in Binding : HeardAt(rs, b) => HeardAt(reads, b),
           \/ ~d.open
           \/ ~dialog.open /\ EditsOne(d) /\ (d.mode = "edit" => ShowsItsVersion(d))
           \/ \E b \in Binding \cup {Unset} : d = [dialog EXCEPT !.at = b],
           Settle(d, rs)
    PROVE  /\ dialog' \in DialogType(Captioned) /\ reads' \in [Binding -> ReadType(Captioned) \cup {NoRead}]
           /\ ListensToItsVersion' /\ DialogInv'
  <1> USE NoneOfMedia
  <1>1. dialog \in DialogType(Captioned)
    BY DEF MediaInv, EditorTyped
  <1>2. CASE d.open = dialog.open /\ Effective(d) = Effective(dialog) /\ (d.at = Unset) = (dialog.at = Unset)
    <2>1. dialog' = d /\ reads' = rs
      BY <1>2 DEF Settle
    <2>2. \A b \in Binding : HeardAt(rs, b) => d.open /\ d.at # Unset /\ b = Effective(d)
      BY <1>2 DEF MediaInv, ListensToItsVersion
    <2>3. ShowsItsVersion(d) /\ EditsOne(d)
      <3>1. CASE ~d.open
        BY <3>1 DEF ShowsItsVersion, EditsOne
      <3>2. ASSUME NEW b \in Binding \cup {Unset}, d = [dialog EXCEPT !.at = b]
            PROVE  ShowsItsVersion(d) /\ EditsOne(d)
        <4>1. /\ d.open = dialog.open /\ d.mode = dialog.mode /\ d.busy = dialog.busy /\ d.failed = dialog.failed
              /\ d.shown = dialog.shown /\ d.late = dialog.late /\ d.came = dialog.came /\ d.source = dialog.source
          BY <1>1, <3>2 DEF DialogType
        <4>2. ShowsItsVersion(dialog) /\ EditsOne(dialog)
          BY DEF MediaInv, DialogInv
        <4> QED
          BY <1>2, <4>1, <4>2 DEF ShowsItsVersion, EditsOne
      <3> QED
        BY <1>2, <3>1, <3>2
    <2> QED
      BY <2>1, <2>2, <2>3 DEF ListensToItsVersion, DialogInv, ShowsItsVersion, EditsOne, Effective, HeardAt
  <1> DEFINE same == d.open = dialog.open /\ Effective(d) = Effective(dialog) /\ (d.at = Unset) = (dialog.at = Unset)
  <1>3. CASE ~same /\ ~d.open
    <2>1. dialog' = d /\ reads' = Unheard(rs)
      BY <1>3 DEF Settle
    <2> QED
      BY <1>3, <2>1, UnheardType DEF ListensToItsVersion, DialogInv, ShowsItsVersion, EditsOne, HeardAt
  <1>4. CASE ~same /\ d.open /\ d.at = Unset
    <2>1. dialog' = Cleared(d) /\ reads' = Unheard(rs)
      BY <1>4 DEF Settle
    <2>2. /\ dialog' \in DialogType(Captioned) /\ dialog'.at = Unset /\ dialog'.shown = {}
          /\ dialog'.open = d.open /\ dialog'.mode = d.mode /\ dialog'.source = d.source
      BY <1>4, <2>1, ClearedDialog
    <2>3. EditsOne(d)
      BY <1>1, <1>4 DEF MediaInv, DialogInv, EditsOne, DialogType
    <2> QED
      BY <2>1, <2>2, <2>3, UnheardType DEF ListensToItsVersion, DialogInv, ShowsItsVersion, EditsOne, HeardAt
  <1>5. CASE ~same /\ d.open /\ d.at # Unset
    <2>1. /\ dialog' = [d EXCEPT !.busy = TRUE, !.failed = FALSE]
          /\ reads' = Joined(Unheard(rs), Effective(d), "dialog")
      BY <1>5 DEF Settle
    <2>2. /\ dialog' \in DialogType(Captioned) /\ dialog'.busy /\ dialog'.open /\ dialog'.at # Unset
          /\ dialog'.at = d.at /\ dialog'.source = d.source /\ dialog'.mode = d.mode
          /\ dialog'.shown = d.shown /\ dialog'.late = d.late /\ dialog'.came = d.came
      BY <1>5, <2>1 DEF DialogType
    <2>3. Effective(d) \in Binding /\ Effective(dialog') = Effective(d)
      BY <1>5, <2>2 DEF Effective, DialogType
    <2>4. Unheard(rs) \in [Binding -> ReadType(Captioned) \cup {NoRead}] /\ \A c \in Binding : ~HeardAt(Unheard(rs), c)
      BY UnheardType
    <2>5. reads' \in [Binding -> ReadType(Captioned) \cup {NoRead}]
          /\ \A c \in Binding : HeardAt(reads', c) => c = Effective(d)
      BY <2>1, <2>3, <2>4, JoinedType
    <2>6. EditsOne(d) /\ (d.mode = "edit" => \A p \in d.shown \ d.late : d.came[p] = Effective(d))
      <3>1. CASE ~dialog.open /\ EditsOne(d) /\ (d.mode = "edit" => ShowsItsVersion(d))
        BY <1>5, <3>1 DEF ShowsItsVersion
      <3>2. ASSUME NEW b \in Binding \cup {Unset}, d = [dialog EXCEPT !.at = b]
            PROVE  EditsOne(d) /\ (d.mode = "edit" => \A p \in d.shown \ d.late : d.came[p] = Effective(d))
        <4>1. /\ d.open = dialog.open /\ d.mode = dialog.mode /\ d.source = dialog.source
              /\ d.shown = dialog.shown /\ d.late = dialog.late /\ d.came = dialog.came
          BY <1>1, <3>2 DEF DialogType
        <4>2. ShowsItsVersion(dialog) /\ EditsOne(dialog)
          BY DEF MediaInv, DialogInv
        <4>3. d.mode = "edit" => Effective(d) = Effective(dialog)
          BY <1>5, <4>1, <4>2 DEF Effective, EditsOne
        <4> QED
          BY <1>5, <4>1, <4>2, <4>3 DEF ShowsItsVersion, EditsOne
      <3> QED
        BY <1>5, <3>1, <3>2
    <2> QED
      <3>1. DialogInv'
        <4>1. dialog'.open /\ dialog'.mode = "edit" => dialog'.source # Unset
          <5>1. EditsOne(d)
            BY <2>6
          <5> QED
            BY <1>5, <2>2, <5>1 DEF EditsOne
        <4>2. dialog'.mode = "edit" => \A p \in dialog'.shown \ dialog'.late : dialog'.came[p] = Effective(dialog')
          BY <2>2, <2>3, <2>6
        <4> QED
          BY <2>2, <4>1, <4>2 DEF DialogInv, ShowsItsVersion, EditsOne
      <3>2. ListensToItsVersion'
        BY <2>2, <2>3, <2>5 DEF ListensToItsVersion, HeardAt, Effective
      <3> QED
        BY <2>2, <2>5, <3>1, <3>2
  <1> QED
    BY <1>2, <1>3, <1>4, <1>5

\* A step that leaves the pictures and the requests that write alone.
LEMMA ScreenStep ==
    ASSUME MediaInv, UNCHANGED <<mediaTables, writes>>,
           panel' \in PanelType(Captioned), dialog' \in DialogType(Captioned),
           reads' \in [Binding -> ReadType(Captioned) \cup {NoRead}], listing' \in ListingType,
           ListensToItsVersion', DialogInv'
    PROVE  MediaInv'
  <1>1. Captioned' = Captioned /\ Under("upload")' = Under("upload") /\ Under("submit")' = Under("submit")
    BY DEF mediaTables, Captioned, Under
  <1>2. TablesTyped' /\ WritesTyped' /\ UploadsAreNew' /\ AloneMoves'
    BY <1>1 DEF mediaTables, MediaInv, TablesTyped, WritesTyped, UploadsAreNew, AloneMoves
  <1>3. EditorTyped'
    BY <1>1 DEF EditorTyped
  <1> QED
    BY <1>2, <1>3 DEF MediaInv

LEMMA ReadsStep ==
    ASSUME MediaInv, NEW b \in Binding, ServeRead(b) \/ ReadAnswered(b) \/ ReadFails(b)
    PROVE  MediaInv'
  <1> USE NoneOfMedia
  <1>1. /\ panel \in PanelType(Captioned) /\ dialog \in DialogType(Captioned) /\ listing \in ListingType
        /\ reads \in [Binding -> ReadType(Captioned) \cup {NoRead}] /\ reads[b] \in ReadType(Captioned)
    BY DEF MediaInv, EditorTyped, ServeRead, ReadAnswered, ReadFails
  <1>2. CASE ServeRead(b)
    <2> DEFINE one == [served |-> TRUE, ears |-> reads[b].ears, found |-> At(b)]
    <2>1. reads' = [reads EXCEPT ![b] = one] /\ UNCHANGED <<mediaTables, panel, dialog, listing, writes>>
      BY <1>2 DEF ServeRead
    <2>2. At(b) \subseteq Captioned
      BY DEF At, Captioned, MediaInv, TablesTyped
    <2>3. one \in ReadType(Captioned) /\ one.ears = reads[b].ears
      BY <1>1, <2>2 DEF ReadType
    <2> HIDE DEF one
    <2>4. reads' \in [Binding -> ReadType(Captioned) \cup {NoRead}]
      BY <1>1, <2>1, <2>3
    <2>5. \A c \in Binding : HeardAt(reads', c) => HeardAt(reads, c)
      BY <1>1, <2>1, <2>3 DEF HeardAt
    <2>6. ListensToItsVersion' /\ DialogInv'
      BY <2>1, <2>5 DEF MediaInv, ListensToItsVersion, DialogInv, ShowsItsVersion, EditsOne, HeardAt, Effective
    <2> QED
      BY <1>1, <2>1, <2>4, <2>6, ScreenStep
  <1>3. ASSUME NEW ok \in BOOLEAN, ok => reads[b].served, Shown(b, ok, reads[b].ears)
        PROVE  MediaInv'
    <2>1. ok => reads[b].found \subseteq Captioned
      BY <1>1, <1>3 DEF ReadType
    <2>2. panel' \in PanelType(Captioned)
      <3> DEFINE now == Refreshed(panel.list[b], b, ok)
      <3>1. now \in EntryType(Captioned) \cup {NoEntry}
        <4>1. panel.list[b] \in EntryType(Captioned) \cup {NoEntry}
          BY <1>1 DEF PanelType
        <4> QED
          BY <2>1, <4>1 DEF EntryType, Refreshed
      <3>2. CASE "version" \in reads[b].ears
        <4>1. panel' = [panel EXCEPT !.list = [panel.list EXCEPT ![b] = now],
                                     !.loaded = IF ok THEN panel.loaded \cup {b} ELSE panel.loaded,
                                     !.screens = IF ok THEN reads[b].found ELSE panel.screens]
          BY <1>1, <1>3, <3>2 DEF Shown, PanelType
        <4> HIDE DEF now
        <4> QED
          BY <1>1, <2>1, <3>1, <4>1 DEF PanelType
      <3>3. CASE "version" \notin reads[b].ears
        BY <1>1, <1>3, <3>3 DEF Shown
      <3> QED
        BY <3>2, <3>3
    <2>3. reads' = [reads EXCEPT ![b] = NoRead] /\ UNCHANGED <<mediaTables, listing, writes>>
      BY <1>3 DEF Shown
    <2>4. CASE "dialog" \in reads[b].ears
      <3>1. b = Effective(dialog)
        BY <1>1, <2>4 DEF MediaInv, ListensToItsVersion, HeardAt
      <3>2. /\ dialog' \in DialogType(Captioned) /\ dialog'.open = dialog.open /\ dialog'.at = dialog.at
            /\ dialog'.source = dialog.source /\ dialog'.mode = dialog.mode
            /\ DialogInv'
        <4>1. CASE ok
          <5> DEFINE d == [dialog EXCEPT !.busy = FALSE]
          <5>1. dialog' = Filled(d, reads[b].found, b)
            BY <1>3, <2>4, <4>1 DEF Shown
          <5>2. /\ d \in DialogType(Captioned) /\ d.open = dialog.open /\ d.at = dialog.at
                /\ d.source = dialog.source /\ d.mode = dialog.mode
            BY <1>1 DEF DialogType
          <5> HIDE DEF d
          <5>3. /\ dialog' \in DialogType(Captioned) /\ dialog'.open = dialog.open /\ dialog'.at = dialog.at
                /\ dialog'.source = dialog.source /\ dialog'.mode = dialog.mode
                /\ \A p \in dialog'.shown : dialog'.came[p] = b
            <6> DEFINE S == reads[b].found
                       f == Filled(d, S, b)
            <6>1. S \in SUBSET Captioned /\ b \in Binding \cup {Unset}
              BY <2>1, <4>1
            <6> HIDE DEF S
            <6>2. /\ f \in DialogType(Captioned) /\ f.open = d.open /\ f.mode = d.mode /\ f.at = d.at
                  /\ f.source = d.source /\ f.shown = S /\ \A p \in S : f.came[p] = b
              BY <5>2, <6>1, FilledDialog
            <6>3. dialog' = f
              BY <5>1 DEF S
            <6> HIDE DEF f
            <6> QED
              BY <5>2, <6>2, <6>3
          <5>4. Effective(dialog') = b /\ EditsOne(dialog)
            BY <3>1, <5>3 DEF Effective, MediaInv, DialogInv
          <5> QED
            BY <5>3, <5>4 DEF DialogInv, ShowsItsVersion, EditsOne
        <4>2. CASE ~ok
          <5>1. dialog' = [dialog EXCEPT !.busy = FALSE, !.failed = TRUE]
            BY <1>3, <2>4, <4>2 DEF Shown
          <5>2. /\ dialog' \in DialogType(Captioned) /\ dialog'.open = dialog.open /\ dialog'.at = dialog.at
                /\ dialog'.source = dialog.source /\ dialog'.mode = dialog.mode /\ dialog'.failed
                /\ dialog'.shown = dialog.shown /\ dialog'.late = dialog.late /\ dialog'.came = dialog.came
            BY <1>1, <5>1 DEF DialogType
          <5>3. Effective(dialog') = Effective(dialog) /\ ShowsItsVersion(dialog) /\ EditsOne(dialog)
            BY <5>2 DEF Effective, MediaInv, DialogInv
          <5> QED
            BY <5>2, <5>3 DEF DialogInv, ShowsItsVersion, EditsOne
        <4> QED
          BY <4>1, <4>2
      <3>3. ListensToItsVersion'
        BY <1>1, <2>3, <3>1, <3>2 DEF MediaInv, ListensToItsVersion, HeardAt, Effective
      <3> QED
        BY <1>1, <2>2, <2>3, <3>2, <3>3, ScreenStep
    <2>5. CASE "dialog" \notin reads[b].ears
      <3>1. dialog' = dialog
        BY <1>3, <2>5 DEF Shown
      <3>2. ListensToItsVersion' /\ DialogInv'
        BY <1>1, <2>3, <3>1 DEF MediaInv, ListensToItsVersion, DialogInv, ShowsItsVersion, EditsOne, HeardAt, Effective
      <3> QED
        BY <1>1, <2>2, <2>3, <3>1, <3>2, ScreenStep
    <2> QED
      BY <2>4, <2>5
  <1> QED
    BY <1>2, <1>3 DEF ReadAnswered, ReadFails

LEMMA ListingStep ==
    ASSUME MediaInv, ServeList \/ ListAnswered \/ ListFails
    PROVE  MediaInv'
  <1> USE NoneOfMedia
  <1>1. /\ panel \in PanelType(Captioned) /\ dialog \in DialogType(Captioned) /\ listing \in ListingType
        /\ reads \in [Binding -> ReadType(Captioned) \cup {NoRead}] /\ NoRead \in ListingType
    BY DEF MediaInv, EditorTyped, ListingType
  <1>2. UNCHANGED <<mediaTables, writes, dialog, reads>>
    BY DEF ServeList, ListAnswered, ListFails
  <1>3. ListensToItsVersion' /\ DialogInv'
    BY <1>2 DEF MediaInv, ListensToItsVersion, DialogInv, ShowsItsVersion, EditsOne, HeardAt, Effective
  <1>4. CASE ServeList
    <2>1. \A b \in Binding : Cardinality(At(b)) \in Nat
      <3> SUFFICES ASSUME NEW b \in Binding PROVE Cardinality(At(b)) \in Nat
        OBVIOUS
      <3>1. IsFiniteSet(At(b))
        BY MediaAssumption, FS_Subset DEF At
      <3> QED
        BY <3>1, FS_CardinalityType
    <2>2. listing' \in ListingType
      BY <1>4, <2>1 DEF ServeList, ListingType
    <2> QED
      BY <1>1, <1>2, <1>3, <1>4, <2>2, ScreenStep DEF ServeList
  <1>5. CASE ListAnswered
    <2>1. \A b \in Binding : listing.found[b] \in Nat
      BY <1>1, <1>5 DEF ListAnswered, ListingType
    <2>2. \A b \in Binding : Counted(panel.list[b], listing.found[b]) \in EntryType(Captioned) \cup {NoEntry}
      <3> SUFFICES ASSUME NEW b \in Binding
                   PROVE  Counted(panel.list[b], listing.found[b]) \in EntryType(Captioned) \cup {NoEntry}
        OBVIOUS
      <3>1. panel.list[b] \in EntryType(Captioned) \cup {NoEntry} /\ listing.found[b] \in Nat
        BY <1>1, <2>1 DEF PanelType
      <3> QED
        BY <3>1 DEF Counted, EntryType
    <2>3. panel' \in PanelType(Captioned)
      BY <1>1, <1>5, <2>2 DEF ListAnswered, PanelType
    <2> QED
      BY <1>1, <1>2, <1>3, <1>5, <2>3, ScreenStep DEF ListAnswered
  <1>6. CASE ListFails
    BY <1>1, <1>2, <1>3, <1>6, ScreenStep DEF ListFails
  <1> QED
    BY <1>4, <1>5, <1>6

\* A version of the list that is opened or closed.
LEMMA ToggleStep ==
    ASSUME MediaInv, NEW b \in Binding, ToggleVersion(b)
    PROVE  MediaInv'
  <1> USE NoneOfMedia
  <1>1. /\ panel \in PanelType(Captioned) /\ dialog \in DialogType(Captioned) /\ listing \in ListingType
        /\ reads \in [Binding -> ReadType(Captioned) \cup {NoRead}]
        /\ panel.list[b] \in EntryType(Captioned)
    BY DEF MediaInv, EditorTyped, ToggleVersion, PanelType
  <1> DEFINE opens == ~panel.list[b].open
             fetch == opens /\ b \notin panel.loaded
             entry == [panel.list[b] EXCEPT !.open = opens, !.busy = @ \/ fetch]
  <1>2. entry \in EntryType(Captioned) /\ panel.list[b].shown \subseteq Captioned
    BY <1>1 DEF EntryType
  <1>3. /\ panel' = [panel EXCEPT !.list[b] = entry, !.target = IF opens THEN b ELSE @,
                                  !.screens = IF opens /\ ~fetch THEN panel.list[b].shown ELSE @]
        /\ reads' = IF fetch THEN Joined(reads, b, "version") ELSE reads
        /\ UNCHANGED <<mediaTables, dialog, listing, writes>>
    BY DEF ToggleVersion
  <1> HIDE DEF entry, opens, fetch
  <1>4. panel' \in PanelType(Captioned)
    BY <1>1, <1>2, <1>3 DEF PanelType
  <1>5. /\ reads' \in [Binding -> ReadType(Captioned) \cup {NoRead}]
        /\ \A c \in Binding : HeardAt(reads', c) => HeardAt(reads, c)
    BY <1>1, <1>3, JoinedType
  <1>6. ListensToItsVersion' /\ DialogInv'
    BY <1>3, <1>5 DEF MediaInv, ListensToItsVersion, DialogInv, ShowsItsVersion, EditsOne, HeardAt, Effective
  <1> QED
    BY <1>1, <1>3, <1>4, <1>5, <1>6, ScreenStep

LEMMA DialogStep ==
    ASSUME MediaInv,
           \/ OpenCreate \/ CloseDialog \/ ChangeBinding(Unset)
           \/ \E b \in Binding : OpenEdit(b) \/ ChangeBinding(b)
    PROVE  MediaInv'
  <1> USE NoneOfMedia
  <1>1. /\ panel \in PanelType(Captioned) /\ dialog \in DialogType(Captioned) /\ listing \in ListingType
        /\ reads \in [Binding -> ReadType(Captioned) \cup {NoRead}]
    BY DEF MediaInv, EditorTyped
  <1>2. CASE OpenCreate
    <2> DEFINE old == Cleared(dialog)
               d == [old EXCEPT !.open = TRUE, !.mode = "create", !.at = Unset, !.source = Unset]
    <2>1. old \in DialogType(Captioned)
      BY <1>1, ClearedDialog
    <2> HIDE DEF old
    <2>3. d \in DialogType(Captioned) /\ ~dialog.open /\ d.mode = "create"
      BY <1>1, <1>2, <2>1 DEF DialogType, OpenCreate
    <2>4. EditsOne(d) /\ (d.mode = "edit" => ShowsItsVersion(d))
      BY <2>3 DEF EditsOne
    <2>2. Settle(d, reads) /\ UNCHANGED <<mediaTables, panel, listing, writes>>
      BY <1>2 DEF OpenCreate, old
    <2> HIDE DEF d
    <2> QED
      BY <1>1, <2>2, <2>3, <2>4, SettleStep, ScreenStep
  <1>3. CASE CloseDialog
    <2> DEFINE d == [dialog EXCEPT !.open = FALSE, !.source = Unset]
    <2>1. d \in DialogType(Captioned) /\ ~d.open
      BY <1>1 DEF DialogType
    <2>2. Settle(d, reads) /\ UNCHANGED <<mediaTables, panel, listing, writes>>
      BY <1>3 DEF CloseDialog
    <2> HIDE DEF d
    <2> QED
      BY <1>1, <2>1, <2>2, SettleStep, ScreenStep
  <1>4. ASSUME NEW b \in Binding \cup {Unset}, ChangeBinding(b) PROVE MediaInv'
    <2> DEFINE d == [dialog EXCEPT !.at = b]
    <2>1. d \in DialogType(Captioned) /\ \E x \in Binding \cup {Unset} : d = [dialog EXCEPT !.at = x]
      BY <1>1 DEF DialogType
    <2>2. Settle(d, reads) /\ UNCHANGED <<mediaTables, panel, listing, writes>>
      BY <1>4 DEF ChangeBinding
    <2> HIDE DEF d
    <2> QED
      BY <1>1, <2>1, <2>2, SettleStep, ScreenStep
  <1>5. ASSUME NEW b \in Binding, OpenEdit(b) PROVE MediaInv'
    <2> DEFINE fetch == b \notin panel.loaded
               old == Filled(dialog, panel.list[b].shown, b)
               d == [old EXCEPT !.open = TRUE, !.mode = "edit", !.at = b, !.source = b]
               rs == IF fetch THEN Joined(reads, b, "version") ELSE reads
    <2>1. panel.list[b] \in EntryType(Captioned) /\ panel.list[b].shown \subseteq Captioned /\ ~dialog.open
      BY <1>1, <1>5 DEF OpenEdit, PanelType, EntryType
    <2>2. d \in DialogType(Captioned) /\ EditsOne(d) /\ ShowsItsVersion(d)
      <3>1. old \in DialogType(Captioned) /\ \A p \in old.shown : old.came[p] = b
        BY <1>1, <2>1, FilledDialog
      <3> HIDE DEF old
      <3>2. /\ d \in DialogType(Captioned) /\ d.mode = "edit" /\ d.source = b
            /\ d.shown = old.shown /\ d.came = old.came
        BY <3>1 DEF DialogType
      <3>3. b # Unset
        OBVIOUS
      <3> HIDE DEF d
      <3> QED
        BY <3>1, <3>2, <3>3 DEF EditsOne, ShowsItsVersion, Effective
    <2>3. rs \in [Binding -> ReadType(Captioned) \cup {NoRead}] /\ \A c \in Binding : HeardAt(rs, c) => HeardAt(reads, c)
      BY <1>1, JoinedType
    <2>4. /\ panel' = IF fetch THEN [panel EXCEPT !.list[b].busy = TRUE]
                      ELSE [panel EXCEPT !.screens = panel.list[b].shown]
          /\ Settle(d, rs) /\ UNCHANGED <<mediaTables, listing, writes>>
      BY <1>5 DEF OpenEdit
    <2> HIDE DEF d, old, rs, fetch
    <2>5. panel' \in PanelType(Captioned)
      <3> DEFINE entry == [panel.list[b] EXCEPT !.busy = TRUE]
      <3>1. entry \in EntryType(Captioned)
        BY <2>1 DEF EntryType
      <3>2. fetch => panel' = [panel EXCEPT !.list = [panel.list EXCEPT ![b] = entry]]
        BY <1>1, <2>4 DEF PanelType
      <3> HIDE DEF entry
      <3> QED
        BY <1>1, <2>1, <2>4, <3>1, <3>2 DEF PanelType
    <2> QED
      BY <1>1, <2>1, <2>2, <2>3, <2>4, <2>5, SettleStep, ScreenStep
  <1> QED
    BY <1>2, <1>3, <1>4, <1>5

\* What a kind of request says of itself.
LEMMA KindsOfWrites ==
    ASSUME WritesTyped, NEW w \in Write, writes[w] # NoWrite
    PROVE  /\ writes[w].kind = "upload" => writes[w] \in UploadType
           /\ writes[w].kind = "submit" => writes[w] \in SubmitType(Captioned)
           /\ writes[w].kind \in {"rename", "delete"} => writes[w] \in ChangeType
           /\ writes[w].kind = "drop" => writes[w] \in DropType
           /\ writes[w].kind \in {"upload", "submit", "rename", "delete", "drop"}
  <1>1. writes[w] \in WriteType(Captioned)
    BY DEF WritesTyped
  <1> QED
    BY <1>1 DEF WriteType, UploadType, SubmitType, ChangeType, DropType

LEMMA StartStep ==
    ASSUME MediaInv, NEW write \in WriteType(Captioned), Start(write),
           write.kind = "upload" =>
                Under("upload") = {} /\ ~write.done /\ \A p \in write.what : p \notin Captioned,
           write.kind = "submit" => write.left = write.what /\ (write.alone => Under("submit") = {})
    PROVE  MediaInv'
  <1> USE NoneOfMedia
  <1>1. PICK free \in Write :
            /\ writes[free] = NoWrite
            /\ writes' = [w \in Write |-> IF w = free THEN write
                            ELSE IF write.kind = "submit" /\ w \in Under("submit")
                            THEN [writes[w] EXCEPT !.alone = FALSE] ELSE writes[w]]
    BY DEF Start
  <1>2. UNCHANGED <<mediaTables, panel, dialog, reads, listing>>
    BY DEF Start
  <1>3. WritesTyped
    BY DEF MediaInv
  <1>4. ASSUME NEW w \in Under("submit")
        PROVE  LET one == [writes[w] EXCEPT !.alone = FALSE]
               IN  /\ one \in SubmitType(Captioned) /\ ~one.alone /\ one.kind = "submit"
                   /\ one # NoWrite
    <2>1. writes[w] \in SubmitType(Captioned)
      BY <1>3, KindsOfWrites DEF Under
    <2>2. [writes[w] EXCEPT !.alone = FALSE] \in SubmitType(Captioned)
      BY <2>1 DEF SubmitType
    <2> QED
      BY <2>1, <2>2 DEF SubmitType, WriteType
  <1>5. Captioned' = Captioned /\ TablesTyped' /\ EditorTyped' /\ ListensToItsVersion' /\ DialogInv'
    BY <1>2 DEF mediaTables, MediaInv, Captioned, TablesTyped, EditorTyped, ListensToItsVersion, DialogInv, ShowsItsVersion, EditsOne,
                HeardAt, Effective
  <1>6. WritesTyped'
    BY <1>1, <1>3, <1>4, <1>5 DEF WritesTyped, WriteType
  <1>7. /\ Under("submit")' = Under("submit") \cup {w \in {free} : write.kind = "submit"}
        /\ Under("upload")' = Under("upload") \cup {w \in {free} : write.kind = "upload"}
        /\ free \notin Under("submit") /\ free \notin Under("upload")
    <2>1. \A w \in Write \ {free} :
            /\ w \in Under("submit") => writes'[w] # NoWrite /\ writes'[w].kind = "submit"
            /\ w \notin Under("submit") => writes'[w] = writes[w]
      <3> SUFFICES ASSUME NEW w \in Write \ {free}
                   PROVE  /\ w \in Under("submit") => writes'[w] # NoWrite /\ writes'[w].kind = "submit"
                          /\ w \notin Under("submit") => writes'[w] = writes[w]
        OBVIOUS
      <3>1. CASE write.kind = "submit" /\ w \in Under("submit")
        <4>1. writes'[w] = [writes[w] EXCEPT !.alone = FALSE]
          BY <1>1, <3>1
        <4> QED
          BY <1>4, <3>1, <4>1
      <3>2. CASE ~(write.kind = "submit" /\ w \in Under("submit"))
        <4>1. writes'[w] = writes[w]
          BY <1>1, <3>2
        <4> QED
          BY <4>1 DEF Under
      <3> QED
        BY <3>1, <3>2
    <2>2. writes'[free] = write /\ write # NoWrite
      BY <1>1, NoneOfMedia
    <2>3. \A w \in Under("submit") : w \notin Under("upload")
      BY DEF Under
    <2> QED
      BY <1>1, <2>1, <2>2, <2>3 DEF Under
  <1>8. \A w \in Under("upload") : writes'[w] = writes[w]
    BY <1>1, <1>7 DEF Under
  <1>9. UploadsAreNew'
    BY <1>1, <1>5, <1>7, <1>8 DEF MediaInv, UploadsAreNew
  <1>10. AloneMoves'
    <2>1. CASE write.kind = "submit"
      <3>1. \A w \in Under("submit") : ~writes'[w].alone
        BY <1>1, <1>4, <1>7, <2>1 DEF Under
      <3>2. writes'[free] = write /\ write.what \ write.left = {}
        BY <1>1, <2>1
      <3> QED
        BY <1>7, <2>1, <3>1, <3>2 DEF AloneMoves
    <2>2. CASE write.kind # "submit"
      <3>1. Under("submit")' = Under("submit") /\ \A w \in Under("submit") : writes'[w] = writes[w]
        BY <1>1, <1>7, <2>2 DEF Under
      <3> QED
        BY <1>2, <3>1 DEF mediaTables, MediaInv, AloneMoves
    <2> QED
      BY <2>1, <2>2
  <1> QED
    BY <1>5, <1>6, <1>9, <1>10 DEF MediaInv

LEMMA HandlerStep ==
    ASSUME MediaInv,
           \/ HandleSubmitAddMediaModal \/ HandleDeleteApplication
           \/ \E p \in Picture :
                HandleModalUploadMedia(p) \/ HandleModalScreenRename(p) \/ HandleModalScreenDelete(p)
    PROVE  MediaInv'
  <1> USE NoneOfMedia
  <1>1. dialog \in DialogType(Captioned) /\ panel \in PanelType(Captioned)
    BY DEF MediaInv, EditorTyped
  <1>2. ASSUME NEW p \in Picture, HandleModalUploadMedia(p) PROVE MediaInv'
    <2> DEFINE write == [kind |-> "upload", what |-> {p}, to |-> Effective(dialog), done |-> FALSE]
    <2>1. Effective(dialog) \in Binding
      BY <1>1, <1>2 DEF HandleModalUploadMedia, Effective, DialogType
    <2>2. write \in UploadType /\ write.what = {p} /\ write.kind = "upload" /\ ~write.done
      BY <2>1 DEF UploadType
    <2>3. Start(write) /\ Under("upload") = {} /\ p \notin Captioned
      BY <1>2 DEF HandleModalUploadMedia, Captioned
    <2> HIDE DEF write
    <2> QED
      BY <2>2, <2>3, StartStep DEF WriteType
  <1>3. CASE HandleSubmitAddMediaModal
    <2> DEFINE moved == IF dialog.mode = "edit" /\ dialog.source \notin {Unset, dialog.at} THEN dialog.shown ELSE {}
               write == [kind |-> "submit", what |-> moved, left |-> moved, to |-> dialog.at,
                         heard |-> TRUE, alone |-> Under("submit") = {}]
    <2>1. moved \subseteq Captioned /\ dialog.at \in Binding
      BY <1>1, <1>3 DEF HandleSubmitAddMediaModal, DialogType
    <2>2. Start(write)
      BY <1>3 DEF HandleSubmitAddMediaModal
    <2> HIDE DEF moved
    <2>3. /\ write \in SubmitType(Captioned) /\ write.kind = "submit" /\ write.left = write.what
          /\ write.alone => Under("submit") = {}
      BY <2>1 DEF SubmitType
    <2> HIDE DEF write
    <2> QED
      BY <2>2, <2>3, StartStep DEF WriteType
  <1>4. ASSUME NEW p \in Picture, HandleModalScreenRename(p) \/ HandleModalScreenDelete(p) PROVE MediaInv'
    <2>1. PICK kind \in {"rename", "delete"} : Start([kind |-> kind, what |-> {p}, to |-> Unset, done |-> FALSE])
      BY <1>4 DEF HandleModalScreenRename, HandleModalScreenDelete
    <2> DEFINE write == [kind |-> kind, what |-> {p}, to |-> Unset, done |-> FALSE]
    <2>2. write \in ChangeType /\ write.kind = kind /\ Start(write)
      BY <2>1 DEF ChangeType
    <2> HIDE DEF write
    <2> QED
      BY <2>2, StartStep DEF WriteType
  <1>5. CASE HandleDeleteApplication
    <2> DEFINE write == [kind |-> "drop", what |-> {}, to |-> dialog.at, done |-> FALSE,
                         clears |-> panel.target # Unset /\ panel.target[1] = dialog.at[1]]
    <2>1. dialog.at \in Binding
      BY <1>1, <1>5 DEF HandleDeleteApplication, DialogType
    <2>2. write \in DropType /\ write.kind = "drop"
      BY <2>1 DEF DropType
    <2>3. Start(write)
      BY <1>5 DEF HandleDeleteApplication
    <2> HIDE DEF write
    <2> QED
      BY <2>2, <2>3, StartStep DEF WriteType
  <1> QED
    BY <1>2, <1>3, <1>4, <1>5

LEMMA MoreCaptions ==
    ASSUME NEW S, NEW T, S \subseteq T
    PROVE  /\ PanelType(S) \subseteq PanelType(T) /\ DialogType(S) \subseteq DialogType(T)
           /\ [Binding -> ReadType(S) \cup {NoRead}] \subseteq [Binding -> ReadType(T) \cup {NoRead}]
           /\ WriteType(S) \subseteq WriteType(T)
  <1>1. EntryType(S) \subseteq EntryType(T) /\ ReadType(S) \subseteq ReadType(T) /\ SubmitType(S) \subseteq SubmitType(T)
    BY DEF EntryType, ReadType, SubmitType
  <1>2. DialogType(S) \subseteq DialogType(T)
    BY DEF DialogType
  <1>3. PanelType(S) \subseteq PanelType(T)
    <2>1. [Binding -> EntryType(S) \cup {NoEntry}] \subseteq [Binding -> EntryType(T) \cup {NoEntry}]
      BY <1>1
    <2>2. SUBSET S \subseteq SUBSET T
      OBVIOUS
    <2> QED
      BY <2>1, <2>2 DEF PanelType
  <1>4. [Binding -> ReadType(S) \cup {NoRead}] \subseteq [Binding -> ReadType(T) \cup {NoRead}]
    BY <1>1
  <1> QED
    BY <1>1, <1>2, <1>3, <1>4 DEF WriteType

\* A step that changes what is stored and written, and nothing that is shown.
LEMMA ServiceStep ==
    ASSUME MediaInv, UNCHANGED <<panel, dialog, reads, listing>>, Captioned \subseteq Captioned',
           TablesTyped', WritesTyped', UploadsAreNew', AloneMoves'
    PROVE  MediaInv'
  <1>1. EditorTyped'
    BY MoreCaptions DEF MediaInv, EditorTyped
  <1>2. ListensToItsVersion' /\ DialogInv'
    BY DEF MediaInv, ListensToItsVersion, DialogInv, ShowsItsVersion, EditsOne, HeardAt, Effective
  <1> QED
    BY <1>1, <1>2 DEF MediaInv

\* Pictures may be deleted and a request may end or be served, but no upload and no submit is.
LEMMA WritesKept ==
    ASSUME MediaInv, NEW w \in Write, NEW q \in ChangeType \cup DropType \cup {NoWrite},
           writes' = [writes EXCEPT ![w] = q], UNCHANGED caption,
           stored' \in [Picture -> Binding \cup {Unset}],
           \A p \in Picture : stored'[p] \in {stored[p], Unset}
    PROVE  TablesTyped' /\ WritesTyped' /\ UploadsAreNew' /\ AloneMoves' /\ Captioned' = Captioned
  <1>1. Captioned' = Captioned
    BY DEF Captioned
  <1>2. TablesTyped'
    BY DEF MediaInv, TablesTyped
  <1>3. WritesTyped'
    BY <1>1 DEF MediaInv, WritesTyped, WriteType
  <1>4. q = NoWrite \/ q.kind \notin {"upload", "submit"}
    BY DEF ChangeType, DropType
  <1>5. /\ Under("upload")' = Under("upload") \ {w} /\ Under("submit")' = Under("submit") \ {w}
        /\ \A v \in Write \ {w} : writes'[v] = writes[v]
    BY <1>4 DEF MediaInv, WritesTyped, Under
  <1>6. UploadsAreNew'
    BY <1>1, <1>5 DEF MediaInv, UploadsAreNew, Under
  <1>7. AloneMoves'
    <2>1. \A v, x \in Under("submit")' : writes'[x].alone => v = x
      BY <1>5 DEF MediaInv, AloneMoves, Under
    <2>2. ASSUME NEW v \in Under("submit")', writes'[v].alone, writes'[v].heard,
                 NEW p \in writes'[v].what \ writes'[v].left
          PROVE  stored'[p] \in {writes'[v].to, Unset}
      <3>1. v \in Under("submit") /\ writes'[v] = writes[v]
        BY <1>5, <2>2 DEF Under
      <3>2. p \in Picture
        BY <2>2, <3>1, KindsOfWrites DEF MediaInv, Under, SubmitType, Captioned
      <3>3. stored[p] \in {writes[v].to, Unset}
        BY <2>2, <3>1 DEF MediaInv, AloneMoves
      <3> QED
        BY <3>1, <3>2, <3>3
    <2> QED
      BY <2>1, <2>2 DEF AloneMoves
  <1> QED
    BY <1>1, <1>2, <1>3, <1>6, <1>7

\* A rebinding request that is answered, or one that fails.
LEMMA SubmitKept ==
    ASSUME MediaInv, NEW w \in Write, writes[w] # NoWrite, writes[w].kind = "submit",
           NEW gone \in SUBSET writes[w].left, NEW heard \in BOOLEAN,
           writes' = [writes EXCEPT ![w] = [writes[w] EXCEPT !.left = writes[w].left \ gone, !.heard = heard]],
           heard => writes[w].heard, UNCHANGED caption,
           heard => \A p \in gone : stored'[p] \in {writes[w].to, Unset},
           \A p \in gone : stored'[p] \in {stored[p], writes[w].to} /\ (stored[p] = Unset => stored'[p] = Unset),
           \A p \in Picture \ gone : stored'[p] = stored[p],
           stored' = [p \in Picture |-> stored'[p]]
    PROVE  TablesTyped' /\ WritesTyped' /\ UploadsAreNew' /\ AloneMoves' /\ Captioned' = Captioned
  <1>1. Captioned' = Captioned
    BY DEF Captioned
  <1>2. writes[w] \in SubmitType(Captioned)
    BY KindsOfWrites DEF MediaInv
  <1> DEFINE q == [writes[w] EXCEPT !.left = writes[w].left \ gone, !.heard = heard]
  <1>3. /\ q \in SubmitType(Captioned) /\ q.what = writes[w].what /\ q.left = writes[w].left \ gone
        /\ q.heard = heard /\ q.alone = writes[w].alone /\ q.to = writes[w].to /\ q.kind = "submit"
        /\ q.to \in Binding
    BY <1>2 DEF SubmitType
  <1>4. writes' = [writes EXCEPT ![w] = q] /\ q # NoWrite
    BY <1>3, NoneOfMedia DEF WriteType
  <1> HIDE DEF q
  <1>5. TablesTyped'
    <2>1. \A p \in Picture : stored'[p] \in Binding \cup {Unset} /\ (stored'[p] # Unset => stored[p] # Unset)
      BY <1>2, <1>3 DEF MediaInv, TablesTyped
    <2> QED
      BY <2>1 DEF MediaInv, TablesTyped
  <1>6. WritesTyped'
    BY <1>1, <1>3, <1>4 DEF MediaInv, WritesTyped, WriteType
  <1>7. /\ Under("upload")' = Under("upload") /\ Under("submit")' = Under("submit") /\ w \in Under("submit")
        /\ w \notin Under("upload") /\ \A v \in Write \ {w} : writes'[v] = writes[v]
        /\ writes'[w] = q
    BY <1>3, <1>4 DEF MediaInv, WritesTyped, Under
  <1>8. UploadsAreNew'
    BY <1>1, <1>7 DEF MediaInv, UploadsAreNew, Under
  <1>9. AloneMoves'
    <2>1. \A v, x \in Under("submit") : writes'[x].alone => v = x
      BY <1>3, <1>7 DEF MediaInv, AloneMoves, Under
    <2>2. ASSUME NEW v \in Under("submit"), writes'[v].alone, writes'[v].heard,
                 NEW p \in writes'[v].what \ writes'[v].left
          PROVE  stored'[p] \in {writes'[v].to, Unset}
      <3>1. v = w /\ writes'[v] = q
        BY <1>7, <2>1, <2>2
      <3>2. p \in writes[w].what /\ p \in Picture /\ heard /\ (p \notin writes[w].left \/ p \in gone)
        BY <1>2, <1>3, <2>2, <3>1 DEF SubmitType, Captioned
      <3>3. CASE p \in gone
        BY <1>3, <3>1, <3>2, <3>3
      <3>4. CASE p \notin gone
        <4>1. stored[p] \in {writes[w].to, Unset}
          BY <1>3, <1>7, <2>2, <3>1, <3>2, <3>4 DEF MediaInv, AloneMoves
        <4> QED
          BY <1>3, <3>1, <3>2, <3>4, <4>1
      <3> QED
        BY <3>3, <3>4
    <2> QED
      BY <1>7, <2>1, <2>2 DEF AloneMoves
  <1> QED
    BY <1>1, <1>5, <1>6, <1>8, <1>9

LEMMA ServeWriteStep ==
    ASSUME MediaInv, NEW w \in Write, ServeWrite(w)
    PROVE  MediaInv'
  <1> USE NoneOfMedia
  <1> DEFINE c == writes[w]
  <1>1. /\ c # NoWrite /\ c.kind # "submit" /\ ~c.done
        /\ UNCHANGED <<panel, dialog, reads, listing>>
    BY DEF ServeWrite
  <1>2. /\ c.kind = "upload" => c \in UploadType
        /\ c.kind \in {"rename", "delete"} => c \in ChangeType
        /\ c.kind = "drop" => c \in DropType
    BY <1>1, KindsOfWrites DEF MediaInv
  <1> DEFINE served == [c EXCEPT !.done = TRUE]
  <1>3. CASE c.kind = "upload"
    <2>1. /\ \A p \in c.what : stored[p] = Unset
          /\ stored' = [p \in Picture |-> IF p \in c.what THEN c.to ELSE stored[p]]
          /\ caption' = [p \in Picture |-> IF p \in c.what THEN "first" ELSE caption[p]]
          /\ writes' = [writes EXCEPT ![w] = served]
      BY <1>3 DEF ServeWrite
    <2>2. c.what \subseteq Picture /\ c.to \in Binding /\ c.kind = "upload"
      BY <1>2, <1>3 DEF UploadType
    <2>3. Captioned' = Captioned \cup c.what /\ c.what \cap Captioned = {}
      <3>1. \A p \in Picture : caption'[p] = IF p \in c.what THEN "first" ELSE caption[p]
        BY <2>1
      <3>2. Captioned' = Captioned \cup c.what
        BY <2>2, <3>1 DEF Captioned
      <3>3. c.what \cap Captioned = {}
        BY <1>1, <1>3 DEF MediaInv, UploadsAreNew, Under
      <3> QED
        BY <3>2, <3>3
    <2>4. served \in UploadType /\ served.done /\ served.what = c.what /\ served.kind = "upload" /\ served # NoWrite
      BY <1>2, <1>3 DEF UploadType, NoWrite
    <2> HIDE DEF served
    <2>5. TablesTyped'
      BY <2>1, <2>2 DEF MediaInv, TablesTyped
    <2>6. WritesTyped'
      <3>1. WriteType(Captioned) \subseteq WriteType(Captioned')
        BY <2>3, MoreCaptions
      <3> QED
        BY <2>1, <2>4, <3>1 DEF MediaInv, WritesTyped, WriteType
    <2>7. /\ Under("upload")' = Under("upload") /\ Under("submit")' = Under("submit") /\ w \in Under("upload")
          /\ w \notin Under("submit") /\ \A v \in Write \ {w} : writes'[v] = writes[v]
          /\ writes'[w] = served
      BY <1>1, <1>3, <2>1, <2>4 DEF MediaInv, WritesTyped, Under
    <2>8. UploadsAreNew'
      BY <2>3, <2>4, <2>7 DEF MediaInv, UploadsAreNew
    <2>9. AloneMoves'
      <3>1. ASSUME NEW v \in Under("submit"), NEW p \in writes[v].what PROVE stored'[p] = stored[p]
        <4>1. p \in Captioned
          BY <3>1, KindsOfWrites DEF MediaInv, Under, SubmitType
        <4> QED
          BY <2>1, <2>3, <4>1 DEF Captioned
      <3>2. \A v \in Under("submit") : writes'[v] = writes[v]
        BY <2>7 DEF Under
      <3> QED
        BY <2>7, <3>1, <3>2 DEF MediaInv, AloneMoves
    <2> QED
      BY <1>1, <2>3, <2>5, <2>6, <2>8, <2>9, ServiceStep
  <1>4. CASE c.kind = "rename"
    <2>1. writes' = [writes EXCEPT ![w] = NoWrite] /\ UNCHANGED <<stored, caption>>
      BY <1>4 DEF ServeWrite, Accepted
    <2> QED
      BY <1>1, <2>1, WritesKept, ServiceStep DEF MediaInv, TablesTyped
  <1>5. CASE c.kind = "delete"
    <2>1. /\ stored' = [p \in Picture |-> IF p \in c.what THEN Unset ELSE stored[p]]
          /\ writes' = [writes EXCEPT ![w] = served] /\ UNCHANGED caption
      BY <1>5 DEF ServeWrite
    <2>2. served \in ChangeType
      BY <1>2, <1>5 DEF ChangeType
    <2> HIDE DEF served
    <2> QED
      BY <1>1, <2>1, <2>2, WritesKept, ServiceStep DEF MediaInv, TablesTyped
  <1>6. CASE c.kind = "drop"
    <2>1. /\ stored' = [p \in Picture |-> IF stored[p] # Unset /\ stored[p][1] = c.to[1] THEN Unset ELSE stored[p]]
          /\ writes' = [writes EXCEPT ![w] = served] /\ UNCHANGED caption
      BY <1>6 DEF ServeWrite
    <2>2. served \in DropType
      BY <1>2, <1>6 DEF DropType
    <2> HIDE DEF served
    <2> QED
      BY <1>1, <2>1, <2>2, WritesKept, ServiceStep DEF MediaInv, TablesTyped
  <1> QED
    BY <1>1, <1>3, <1>4, <1>5, <1>6, KindsOfWrites DEF MediaInv

LEMMA RebindStep ==
    ASSUME MediaInv, NEW w \in Write, NEW p \in Picture, ServeRebind(w, p)
    PROVE  MediaInv'
  <1> USE NoneOfMedia
  <1> DEFINE c == writes[w]
             heard == c.heard /\ stored[p] # Unset
  <1>1. /\ c # NoWrite /\ c.kind = "submit" /\ p \in c.left
        /\ stored' = [stored EXCEPT ![p] = IF stored[p] = Unset THEN Unset ELSE c.to]
        /\ UNCHANGED <<caption, panel, dialog, reads, listing>>
    BY DEF ServeRebind
  <1>2. c \in SubmitType(Captioned) /\ heard \in BOOLEAN
    BY <1>1, KindsOfWrites DEF MediaInv, SubmitType
  <1>3. writes' = [writes EXCEPT ![w] = [c EXCEPT !.left = c.left \ {p}, !.heard = heard]]
    BY <1>1, <1>2 DEF ServeRebind, MediaInv, WritesTyped, SubmitType
  <1>4. stored' = [s \in Picture |-> stored'[s]] /\ stored'[p] = (IF stored[p] = Unset THEN Unset ELSE c.to)
        /\ \A s \in Picture \ {p} : stored'[s] = stored[s]
    BY <1>1 DEF MediaInv, TablesTyped
  <1> HIDE DEF heard
  <1>5. heard => c.heard /\ stored'[p] = c.to
    BY <1>4 DEF heard
  <1>6. TablesTyped' /\ WritesTyped' /\ UploadsAreNew' /\ AloneMoves' /\ Captioned' = Captioned
    <2> DEFINE gone == {p}
    <2>1. gone \in SUBSET c.left /\ \A s \in gone : s = p
      BY <1>1
    <2>2. \A s \in gone : stored'[s] \in {stored[s], c.to} /\ (stored[s] = Unset => stored'[s] = Unset)
      BY <1>4
    <2>3. heard => \A s \in gone : stored'[s] \in {c.to, Unset}
      BY <1>5
    <2>4. \A s \in Picture \ gone : stored'[s] = stored[s]
      BY <1>4
    <2>5. writes' = [writes EXCEPT ![w] = [c EXCEPT !.left = c.left \ gone, !.heard = heard]] /\ (heard => c.heard)
      BY <1>3, <1>5
    <2> HIDE DEF gone
    <2> QED
      BY <1>1, <1>2, <1>4, <2>1, <2>2, <2>3, <2>4, <2>5, SubmitKept
  <1> QED
    BY <1>1, <1>6, ServiceStep

LEMMA WriteFailsStep ==
    ASSUME MediaInv, NEW w \in Write, WriteFails(w)
    PROVE  MediaInv'
  <1> USE NoneOfMedia
  <1> DEFINE c == writes[w]
  <1>1. /\ c # NoWrite /\ UNCHANGED <<stored, caption, panel, dialog, reads, listing>>
        /\ stored = [s \in Picture |-> stored[s]] /\ \A s \in Picture : stored[s] \in Binding \cup {Unset}
    BY DEF WriteFails, mediaTables, MediaInv, TablesTyped
  <1>2. CASE c.kind = "submit" /\ c.left # {}
    <2>1. PICK p \in c.left : writes' = [writes EXCEPT ![w].left = @ \ {p}, ![w].heard = FALSE]
      BY <1>2 DEF WriteFails
    <2>2. c \in SubmitType(Captioned)
      BY <1>1, <1>2, KindsOfWrites DEF MediaInv
    <2>3. writes' = [writes EXCEPT ![w] = [c EXCEPT !.left = c.left \ {p}, !.heard = FALSE]]
      BY <2>1, <2>2 DEF MediaInv, WritesTyped, SubmitType
    <2> QED
      BY <1>1, <1>2, <2>3, SubmitKept, ServiceStep
  <1>3. CASE ~(c.kind = "submit" /\ c.left # {})
    <2>1. writes' = [writes EXCEPT ![w] = NoWrite]
      BY <1>3 DEF WriteFails
    <2> QED
      BY <1>1, <2>1, WritesKept, ServiceStep
  <1> QED
    BY <1>2, <1>3

\* What follows the answer, in the panel and the dialog, when the request is forgotten.
LEMMA AnswerStep ==
    ASSUME MediaInv, NEW w \in Write, writes' = [writes EXCEPT ![w] = NoWrite], UNCHANGED mediaTables, ListAgain,
           panel' \in PanelType(Captioned), dialog' \in DialogType(Captioned),
           reads' \in [Binding -> ReadType(Captioned) \cup {NoRead}],
           ListensToItsVersion', DialogInv'
    PROVE  MediaInv'
  <1>1. /\ UNCHANGED caption /\ stored' \in [Picture -> Binding \cup {Unset}]
        /\ \A p \in Picture : stored'[p] \in {stored[p], Unset}
    BY DEF mediaTables, MediaInv, TablesTyped
  <1>2. TablesTyped' /\ WritesTyped' /\ UploadsAreNew' /\ AloneMoves' /\ Captioned' = Captioned
    BY <1>1, WritesKept
  <1>3. listing' \in ListingType
    BY DEF ListAgain, ListingType, MediaInv, EditorTyped
  <1> QED
    BY <1>2, <1>3 DEF MediaInv, EditorTyped

\* The pictures of the dialog change, what it is about does not.
LEMMA SameVersion ==
    ASSUME MediaInv, UNCHANGED reads, dialog' \in DialogType(Captioned),
           dialog'.open = dialog.open, dialog'.at = dialog.at, dialog'.source = dialog.source,
           dialog'.mode = dialog.mode, dialog'.busy = dialog.busy, dialog'.failed = dialog.failed,
           \A p \in dialog'.shown \ dialog'.late :
              \/ p \in dialog.shown \ dialog.late /\ dialog'.came[p] = dialog.came[p]
              \/ dialog'.came[p] = Effective(dialog)
    PROVE  ListensToItsVersion' /\ DialogInv'
  <1>1. Effective(dialog') = Effective(dialog) /\ ShowsItsVersion(dialog) /\ EditsOne(dialog)
    BY DEF Effective, MediaInv, DialogInv
  <1>2. DialogInv'
    BY <1>1 DEF DialogInv, ShowsItsVersion, EditsOne
  <1>3. ListensToItsVersion'
    BY DEF MediaInv, ListensToItsVersion, HeardAt, Effective
  <1> QED
    BY <1>2, <1>3

LEMMA WriteAnsweredStep ==
    ASSUME MediaInv, NEW w \in Write, WriteAnswered(w)
    PROVE  MediaInv'
  <1> USE NoneOfMedia
  <1> DEFINE c == writes[w]
  <1>1. /\ panel \in PanelType(Captioned) /\ dialog \in DialogType(Captioned)
        /\ reads \in [Binding -> ReadType(Captioned) \cup {NoRead}]
    BY DEF MediaInv, EditorTyped
  <1>2. c # NoWrite /\ writes' = [writes EXCEPT ![w] = NoWrite] /\ UNCHANGED mediaTables
    BY DEF WriteAnswered
  <1>3. /\ c.kind = "upload" => c \in UploadType
        /\ c.kind = "submit" => c \in SubmitType(Captioned)
        /\ c.kind = "delete" => c \in ChangeType
        /\ c.kind = "drop" => c \in DropType
    BY <1>2, KindsOfWrites DEF MediaInv
  <1>4. ASSUME c.kind = "upload", c.done, NEW p \in c.what, Uploaded(w, p, c.to)
        PROVE  MediaInv'
    <2>1. c.to \in Binding /\ p \in Captioned
      BY <1>2, <1>3, <1>4 DEF UploadType, MediaInv, UploadsAreNew, Under
    <2> DEFINE b == c.to
               came == [dialog.came EXCEPT ![p] = b]
               late == IF b = Effective(dialog) THEN dialog.late ELSE dialog.late \cup {p}
               was == IF panel.list[b] = NoEntry THEN Fresh ELSE panel.list[b]
               entry == [was EXCEPT !.open = TRUE, !.shown = @ \cup {p}, !.count = @ + 1]
    <2>2. /\ panel' = [panel EXCEPT !.list[b] = entry, !.loaded = @ \cup {b}, !.screens = @ \cup {p}]
          /\ dialog' = [dialog EXCEPT !.shown = dialog.shown \cup {p}, !.came = came, !.late = late]
          /\ ListAgain /\ UNCHANGED reads
      BY <1>1, <1>4 DEF Uploaded, DialogType
    <2>3. was \in EntryType(Captioned)
      BY <1>1, <2>1 DEF PanelType
    <2> HIDE DEF was
    <2>4. entry \in EntryType(Captioned)
      <3> DEFINE shown == was.shown \cup {p}
                 count == was.count + 1
      <3>1. shown \subseteq Captioned /\ count \in Nat
        BY <2>1, <2>3 DEF EntryType
      <3>2. entry = [was EXCEPT !.open = TRUE, !.shown = shown, !.count = count]
        BY <2>3 DEF EntryType
      <3> HIDE DEF shown, count, entry
      <3> QED
        BY <2>3, <3>1, <3>2 DEF EntryType
    <2> HIDE DEF entry
    <2>5. panel' \in PanelType(Captioned)
      BY <1>1, <2>1, <2>2, <2>4 DEF PanelType
    <2>6. /\ dialog.came \in [Picture -> Binding \cup {Unset}] /\ dialog.shown \subseteq Captioned
          /\ dialog.late \subseteq Captioned /\ Captioned \subseteq Picture
      BY <1>1 DEF DialogType, Captioned
    <2>7. /\ came \in [Picture -> Binding \cup {Unset}] /\ late \subseteq Captioned
          /\ came[p] = b /\ \A x \in Picture \ {p} : came[x] = dialog.came[x]
          /\ dialog.late \subseteq late /\ (p \in late \/ b = Effective(dialog))
          /\ late \subseteq dialog.late \cup {p}
      BY <2>1, <2>6
    <2> HIDE DEF came, late
    <2>8. /\ dialog' \in DialogType(Captioned)
          /\ dialog'.open = dialog.open /\ dialog'.at = dialog.at /\ dialog'.source = dialog.source
          /\ dialog'.mode = dialog.mode /\ dialog'.busy = dialog.busy /\ dialog'.failed = dialog.failed
          /\ dialog'.shown = dialog.shown \cup {p} /\ dialog'.came = came /\ dialog'.late = late
      BY <1>1, <2>1, <2>2, <2>6, <2>7 DEF DialogType
    <2>9. \A x \in dialog'.shown \ dialog'.late :
              \/ x \in dialog.shown \ dialog.late /\ dialog'.came[x] = dialog.came[x]
              \/ dialog'.came[x] = Effective(dialog)
      BY <2>6, <2>7, <2>8
    <2>10. ListensToItsVersion' /\ DialogInv'
      BY <2>2, <2>8, <2>9, SameVersion
    <2> QED
      BY <1>1, <1>2, <2>2, <2>5, <2>8, <2>10, AnswerStep
  <1>5. ASSUME c.kind = "submit", Submitted(c.to)
        PROVE  MediaInv'
    <2> DEFINE d == [dialog EXCEPT !.open = FALSE, !.at = c.to, !.source = Unset]
    <2>1. c.to \in Binding
      BY <1>3, <1>5 DEF SubmitType
    <2>2. d \in DialogType(Captioned) /\ ~d.open
      BY <1>1, <2>1 DEF DialogType
    <2>3. panel' = [panel EXCEPT !.target = c.to] /\ Settle(d, reads) /\ ListAgain
      BY <1>5 DEF Submitted
    <2> HIDE DEF d
    <2>4. panel' \in PanelType(Captioned)
      BY <1>1, <2>1, <2>3 DEF PanelType
    <2> QED
      BY <1>1, <1>2, <2>2, <2>3, <2>4, SettleStep, AnswerStep
  <1>6. ASSUME NEW p \in c.what, Removed(p)
        PROVE  MediaInv'
    <2> DEFINE came == [dialog.came EXCEPT ![p] = Unset]
    <2>1. /\ panel' = [panel EXCEPT !.list = [b \in Binding |-> Without(panel.list[b], p)], !.screens = panel.screens \ {p}]
          /\ dialog' = [dialog EXCEPT !.shown = dialog.shown \ {p}, !.came = came, !.late = dialog.late \ {p}]
          /\ ListAgain /\ UNCHANGED reads
      BY <1>1, <1>6 DEF Removed, DialogType, PanelType
    <2>2. \A b \in Binding : Without(panel.list[b], p) \in EntryType(Captioned) \cup {NoEntry}
      <3> SUFFICES ASSUME NEW b \in Binding, panel.list[b] # NoEntry
                   PROVE  Without(panel.list[b], p) \in EntryType(Captioned) \cup {NoEntry}
        BY DEF Without
      <3> DEFINE e == panel.list[b]
                 count == IF p \in e.shown /\ e.count > 0 THEN e.count - 1 ELSE e.count
      <3>1. e \in EntryType(Captioned)
        BY <1>1 DEF PanelType
      <3>2. count \in Nat
        BY <3>1 DEF EntryType
      <3>3. Without(e, p) \in {NoEntry, [e EXCEPT !.shown = @ \ {p}, !.count = count]}
        BY DEF Without
      <3> HIDE DEF count
      <3>4. [e EXCEPT !.shown = @ \ {p}, !.count = count] \in EntryType(Captioned)
        BY <3>1, <3>2 DEF EntryType
      <3> QED
        BY <3>3, <3>4
    <2>3. panel' \in PanelType(Captioned)
      BY <1>1, <2>1, <2>2 DEF PanelType
    <2>4. /\ dialog.came \in [Picture -> Binding \cup {Unset}] /\ dialog.shown \subseteq Captioned
          /\ dialog.late \subseteq Captioned /\ Captioned \subseteq Picture
      BY <1>1 DEF DialogType, Captioned
    <2>5. came \in [Picture -> Binding \cup {Unset}] /\ \A x \in Picture \ {p} : came[x] = dialog.came[x]
      BY <2>4
    <2> HIDE DEF came
    <2>6. /\ dialog' \in DialogType(Captioned)
          /\ dialog'.open = dialog.open /\ dialog'.at = dialog.at /\ dialog'.source = dialog.source
          /\ dialog'.mode = dialog.mode /\ dialog'.busy = dialog.busy /\ dialog'.failed = dialog.failed
          /\ dialog'.shown = dialog.shown \ {p} /\ dialog'.came = came /\ dialog'.late = dialog.late \ {p}
      BY <1>1, <2>1, <2>4, <2>5 DEF DialogType
    <2>7. \A x \in dialog'.shown \ dialog'.late :
              \/ x \in dialog.shown \ dialog.late /\ dialog'.came[x] = dialog.came[x]
              \/ dialog'.came[x] = Effective(dialog)
      BY <2>4, <2>5, <2>6
    <2>8. ListensToItsVersion' /\ DialogInv'
      BY <2>1, <2>6, <2>7, SameVersion
    <2> QED
      BY <1>1, <1>2, <2>1, <2>3, <2>6, <2>8, AnswerStep
  <1>7. ASSUME Dropped(c.to, c.clears)
        PROVE  MediaInv'
    <2> DEFINE old == Cleared(dialog)
               d == [old EXCEPT !.at = IF @ # Unset /\ @[1] = c.to[1] THEN Unset ELSE @, !.open = FALSE]
    <2>1. d \in DialogType(Captioned) /\ ~d.open
      <3>1. old \in DialogType(Captioned)
        BY <1>1, ClearedDialog
      <3> HIDE DEF old
      <3> QED
        BY <3>1 DEF DialogType
    <2>2. /\ panel' = [panel EXCEPT !.list = [b \in Binding |-> IF b[1] = c.to[1] THEN NoEntry ELSE panel.list[b]],
                                    !.target = IF c.clears THEN Unset ELSE panel.target, !.screens = {}]
          /\ Settle(d, reads) /\ ListAgain
      BY <1>1, <1>7 DEF Dropped, PanelType
    <2> HIDE DEF d, old
    <2>3. panel' \in PanelType(Captioned)
      BY <1>1, <2>2 DEF PanelType
    <2> QED
      BY <1>1, <1>2, <2>1, <2>2, <2>3, SettleStep, AnswerStep
  <1> QED
    BY <1>4, <1>5, <1>6, <1>7 DEF WriteAnswered

LEMMA MediaInductive == MediaInv /\ [MediaNext]_mediaVars => MediaInv'
  <1> SUFFICES ASSUME MediaInv, [MediaNext]_mediaVars PROVE MediaInv'
    OBVIOUS
  <1>1. CASE UNCHANGED mediaVars
    <2>1. UNCHANGED <<stored, caption, panel, dialog, reads, listing, writes>>
      BY <1>1 DEF mediaVars, mediaTables
    <2>2. Captioned' = Captioned /\ Under("upload")' = Under("upload") /\ Under("submit")' = Under("submit")
      BY <2>1 DEF Captioned, Under
    <2> QED
      BY <2>1, <2>2
      DEF MediaInv, TablesTyped, EditorTyped, WritesTyped, ListensToItsVersion, DialogInv, ShowsItsVersion, EditsOne, UploadsAreNew,
          AloneMoves, HeardAt, Effective
  <1>2. ASSUME MediaNext
        PROVE  \/ \E b \in Binding : ServeRead(b) \/ ReadAnswered(b) \/ ReadFails(b)
               \/ \E b \in Binding : ToggleVersion(b)
               \/ ServeList \/ ListAnswered \/ ListFails
               \/ OpenCreate \/ CloseDialog \/ ChangeBinding(Unset)
               \/ \E b \in Binding : OpenEdit(b) \/ ChangeBinding(b)
               \/ HandleSubmitAddMediaModal \/ HandleDeleteApplication
               \/ \E p \in Picture :
                    HandleModalUploadMedia(p) \/ HandleModalScreenRename(p) \/ HandleModalScreenDelete(p)
               \/ \E w \in Write : \E p \in Picture : ServeRebind(w, p)
               \/ \E w \in Write : ServeWrite(w)
               \/ \E w \in Write : WriteAnswered(w)
               \/ \E w \in Write : WriteFails(w)
    BY <1>2 DEF MediaNext
  <1> QED
    BY <1>1, <1>2, ReadsStep, ToggleStep, ListingStep, DialogStep, HandlerStep, RebindStep, ServeWriteStep,
       WriteAnsweredStep, WriteFailsStep

LEMMA MediaInitially == MediaInit => MediaInv
  <1> SUFFICES ASSUME MediaInit PROVE MediaInv
    OBVIOUS
  <1> USE NoneOfMedia
  <1>1. TablesTyped
    BY DEF MediaInit, TablesTyped
  <1>2. Under("upload") = {} /\ Under("submit") = {} /\ WritesTyped
    BY DEF MediaInit, Under, WritesTyped
  <1>3. EditorTyped
    BY DEF MediaInit, EditorTyped, PanelType, DialogType, ListingType
  <1>4. ListensToItsVersion /\ DialogInv
    BY DEF MediaInit, ListensToItsVersion, HeardAt, DialogInv, ShowsItsVersion, EditsOne
  <1> QED
    BY <1>1, <1>2, <1>3, <1>4 DEF MediaInv, UploadsAreNew, AloneMoves

\* The pictures that an edit of an application will move are those of the version
\* that is edited, whatever reads are shared, late or failed, but for what an upload
\* begun for another version put there (loadModalMedia, the clean-up of its effect,
\* getJson, handleModalUploadMedia).
THEOREM DialogAlwaysShowsItsVersion == MediaSpec => []DialogShowsItsVersion
  <1>1. MediaInv => DialogShowsItsVersion
    BY DEF MediaInv, DialogInv, ShowsItsVersion, DialogShowsItsVersion
  <1> QED
    BY <1>1, MediaInitially, MediaInductive, PTL DEF MediaSpec

\* An edit that ends well has moved every picture that still exists, unless a second
\* submit overlapped: uploads, deletions and lost answers do not matter
\* (handleSubmitAddMediaModal awaits every rebinding).
THEOREM SubmitsMoveTogether == MediaSpec => SubmitMovesTogether
  <1> DEFINE Moved ==
        \A w \in Write :
            /\ writes[w] # NoWrite /\ writes[w].kind = "submit" /\ writes[w].alone
            /\ WriteAnswered(w)
            => \A p \in writes[w].what : stored[p] \in {writes[w].to, Unset}
  <1>1. MediaInv => Moved
    <2> SUFFICES ASSUME MediaInv, NEW w \in Write, writes[w] # NoWrite, writes[w].kind = "submit", writes[w].alone,
                        WriteAnswered(w), NEW p \in writes[w].what
                 PROVE  stored[p] \in {writes[w].to, Unset}
      OBVIOUS
    <2>1. writes[w].heard /\ writes[w].left = {} /\ w \in Under("submit")
      BY DEF WriteAnswered, AllMoved, Under
    <2> QED
      BY <2>1 DEF MediaInv, AloneMoves
  <1>2. MediaInv /\ [MediaNext]_mediaVars => [Moved]_mediaVars
    BY <1>1
  <1> QED
    BY <1>2, MediaInitially, MediaInductive, PTL DEF MediaSpec, SubmitMovesTogether, Moved

-----------------------------------------------------------------------------
(* Screens and what a filter keeps of them *)

IsSpots(spots, n) ==
    /\ IsFiniteSet(spots)
    /\ \A s \in spots : s = [id |-> s.id, to |-> s.to] /\ (s.to # None => s.to \in 1..(n - 1))
IsNode(m, n) ==
    /\ m = [id |-> m.id, at |-> m.at, seen |-> m.seen, styled |-> m.styled,
            start |-> m.start, end |-> m.end, spots |-> m.spots]
    /\ m.id \in 1..(n - 1) /\ IsSpots(m.spots, n)
IsNodes(nodes, n) == \E S : (\A m \in S : IsNode(m, n)) /\ nodes \in Seq(S)

\* The screens of a scenario, and those of one that was saved from this canvas.
IsScreens(screens) == \E S : (\A m \in S : IsFiniteSet(m.spots)) /\ screens \in Seq(S)
OwnScreen(m, n) ==
    /\ m = [id |-> m.id, styled |-> m.styled, end |-> m.end, spots |-> m.spots]
    /\ m.id \in 1..(n - 1) /\ IsSpots(m.spots, n)
OwnScreens(screens, n) == \E S : (\A m \in S : OwnScreen(m, n)) /\ screens \in Seq(S)

\* The members of a finite set of numbers are counted off in their order.
LEMMA CountedOff ==
    ASSUME NEW at \in SUBSET Nat, IsFiniteSet(at), NEW k \in 1..Cardinality(at)
    PROVE  \E i \in at : Cardinality({j \in at : j <= i}) = k
  <1> DEFINE N == Cardinality(at)
             upTo(i) == {j \in at : j <= i}
             f == [i \in at |-> Cardinality(upTo(i))]
  <1>1. N \in Nat
    BY FS_CardinalityType
  <1>2. ASSUME NEW i \in at PROVE IsFiniteSet(upTo(i)) /\ Cardinality(upTo(i)) \in 1..N
    <2>1. upTo(i) \in SUBSET at /\ upTo(i) # {}
      OBVIOUS
    <2> HIDE DEF upTo
    <2>2. IsFiniteSet(upTo(i)) /\ Cardinality(upTo(i)) <= N
      BY <2>1, FS_Subset
    <2>3. Cardinality(upTo(i)) \in Nat /\ Cardinality(upTo(i)) # 0
      BY <2>1, <2>2, FS_CardinalityType, FS_EmptySet
    <2> QED
      BY <1>1, <2>2, <2>3
  <1>3. ASSUME NEW i \in at, NEW j \in at, i < j PROVE Cardinality(upTo(i)) # Cardinality(upTo(j))
    <2>0. \A x \in at : x \in Int
      OBVIOUS
    <2>1. upTo(i) \in SUBSET upTo(j)
      <3> SUFFICES ASSUME NEW x \in at, x <= i PROVE x <= j
        OBVIOUS
      <3> QED
        BY <1>3, <2>0
    <2>2. j \in upTo(j) /\ j \notin upTo(i)
      BY <1>3, <2>0
    <2> HIDE DEF upTo
    <2> QED
      BY <1>2, <2>1, <2>2, FS_Subset
  <1> HIDE DEF upTo
  <1>4. f \in Injection(at, 1..N)
    <2>1. f \in [at -> 1..N]
      BY <1>2
    <2>2. ASSUME NEW i \in at, NEW j \in at, f[i] = f[j] PROVE i = j
      BY <1>3, <2>2
    <2> QED
      BY <2>1, <2>2 DEF Injection, IsInjective
  <1>5. IsFiniteSet(1..N) /\ Cardinality(1..N) = N
    BY <1>1, FS_Interval
  <1>6. f \in Surjection(at, 1..N)
    BY <1>4, <1>5, FS_Injection
  <1>7. PICK i \in at : f[i] = k
    BY <1>6 DEF Surjection
  <1> QED
    BY <1>7 DEF upTo

\* A filter returns screens that pass it.
LEMMA KeptScreens ==
    ASSUME NEW S, NEW screens \in Seq(S), NEW ids
    PROVE  Kept(screens, ids) \in Seq({m \in S : m.id \in ids})
  <1> DEFINE at == {i \in DOMAIN screens : screens[i].id \in ids}
             place(k) == CHOOSE i \in at : Cardinality({j \in at : j <= i}) = k
  <1>1. DOMAIN screens = 1..Len(screens) /\ Len(screens) \in Nat
    OBVIOUS
  <1>2. at \in SUBSET Nat /\ IsFiniteSet(at)
    <2>1. at \in SUBSET (1..Len(screens)) /\ at \in SUBSET Nat
      BY <1>1
    <2> HIDE DEF at
    <2>2. IsFiniteSet(1..Len(screens))
      BY <1>1, FS_Interval
    <2> QED
      BY <2>1, <2>2, FS_Subset
  <1>3. Cardinality(at) \in Nat
    BY <1>2, FS_CardinalityType
  <1>4. \A i \in at : screens[i] \in {m \in S : m.id \in ids}
    BY <1>1
  <1>5. Kept(screens, ids) = [k \in 1..Cardinality(at) |-> screens[place(k)]]
    BY DEF Kept
  <1> HIDE DEF at
  <1>6. \A k \in 1..Cardinality(at) : place(k) \in at
    BY <1>2, CountedOff
  <1> HIDE DEF place
  <1>7. Kept(screens, ids) \in [1..Cardinality(at) -> {m \in S : m.id \in ids}]
    BY <1>4, <1>5, <1>6
  <1> QED
    BY <1>3, <1>7

\* The hotspots of finitely many screens are finitely many.
LEMMA SpotsAreFinite ==
    ASSUME NEW k \in Nat, NEW nodes, DOMAIN nodes = 1..k, \A i \in 1..k : IsFiniteSet(nodes[i].spots)
    PROVE  IsFiniteSet(SpotsOf(nodes))
  <1> DEFINE these == {nodes[i].spots : i \in DOMAIN nodes}
             f == [i \in DOMAIN nodes |-> nodes[i].spots]
  <1>1. IsFiniteSet(DOMAIN nodes)
    BY FS_Interval
  <1>2. f \in Surjection(DOMAIN nodes, these) /\ \A T \in these : IsFiniteSet(T)
    BY DEF Surjection
  <1> HIDE DEF f
  <1>3. SpotsOf(nodes) = UNION these
    BY DEF SpotsOf
  <1> HIDE DEF these
  <1>4. IsFiniteSet(these)
    BY <1>1, <1>2, FS_Surjection
  <1> QED
    BY <1>2, <1>3, <1>4, FS_UNION

LEMMA NodesGrow ==
    ASSUME NEW n \in Nat, NEW k \in Nat, n <= k
    PROVE  /\ \A spots : IsSpots(spots, n) => IsSpots(spots, k)
           /\ \A m : IsNode(m, n) => IsNode(m, k)
           /\ \A nodes : IsNodes(nodes, n) => IsNodes(nodes, k)
           /\ \A screens : OwnScreens(screens, n) => OwnScreens(screens, k)
  <1>1. \A i : i \in 1..(n - 1) => i \in 1..(k - 1)
    OBVIOUS
  <1>2. \A spots : IsSpots(spots, n) => IsSpots(spots, k)
    BY <1>1 DEF IsSpots
  <1>3. \A m : IsNode(m, n) => IsNode(m, k)
    BY <1>1, <1>2 DEF IsNode
  <1>4. \A nodes : IsNodes(nodes, n) => IsNodes(nodes, k)
    BY <1>3 DEF IsNodes
  <1>5. \A screens : OwnScreens(screens, n) => OwnScreens(screens, k)
    <2> SUFFICES ASSUME NEW screens, OwnScreens(screens, n) PROVE OwnScreens(screens, k)
      OBVIOUS
    <2>1. PICK S : (\A m \in S : OwnScreen(m, n)) /\ screens \in Seq(S)
      BY DEF OwnScreens
    <2>2. \A m \in S : OwnScreen(m, k)
      BY <1>1, <1>2, <2>1 DEF OwnScreen
    <2> QED
      BY <2>1, <2>2 DEF OwnScreens
  <1> QED
    BY <1>2, <1>3, <1>4, <1>5

LEMMA NodesMade ==
    ASSUME NEW n, NEW nodes, NEW k \in Nat, nodes = [i \in 1..k |-> nodes[i]],
           \A i \in 1..k : IsNode(nodes[i], n)
    PROVE  IsNodes(nodes, n)
  <1> DEFINE S == {nodes[i] : i \in 1..k}
  <1>1. nodes \in [1..k -> S]
    <2>1. \A i \in 1..k : nodes[i] \in S
      OBVIOUS
    <2> HIDE DEF S
    <2> QED
      BY <2>1
  <1>2. \A m \in S : IsNode(m, n)
    OBVIOUS
  <1> HIDE DEF S
  <1>3. nodes \in Seq(S)
    BY <1>1
  <1> QED
    BY <1>2, <1>3 DEF IsNodes

LEMMA NodesHave ==
    ASSUME NEW n, NEW nodes, IsNodes(nodes, n)
    PROVE  /\ Len(nodes) \in Nat /\ DOMAIN nodes = 1..Len(nodes)
           /\ nodes = [i \in 1..Len(nodes) |-> nodes[i]]
           /\ \A i \in DOMAIN nodes : IsNode(nodes[i], n)
           /\ Ids(nodes) \subseteq 1..(n - 1)
  <1>1. PICK S : (\A m \in S : IsNode(m, n)) /\ nodes \in Seq(S)
    BY DEF IsNodes
  <1>2. Len(nodes) \in Nat /\ DOMAIN nodes = 1..Len(nodes) /\ nodes = [i \in 1..Len(nodes) |-> nodes[i]]
    BY <1>1
  <1>3. \A i \in DOMAIN nodes : IsNode(nodes[i], n)
    BY <1>1
  <1>4. Ids(nodes) \subseteq 1..(n - 1)
    BY <1>3 DEF Ids, IsNode
  <1> QED
    BY <1>2, <1>3, <1>4

LEMMA NodeChanged ==
    ASSUME NEW n, NEW m, IsNode(m, n), NEW v, NEW w
    PROVE  /\ IsNode([m EXCEPT !.at = v], n) /\ IsNode([m EXCEPT !.seen = v], n)
           /\ IsNode([m EXCEPT !.styled = v], n) /\ IsNode([m EXCEPT !.start = v, !.end = w], n)
           /\ IsSpots(v, n) => IsNode([m EXCEPT !.spots = v], n)
  <1>1. PICK id, at, drawn, styled, start, end, spots :
           m = [id |-> id, at |-> at, seen |-> drawn, styled |-> styled, start |-> start, end |-> end, spots |-> spots]
    BY DEF IsNode
  <1>2. id \in 1..(n - 1) /\ IsSpots(spots, n)
    BY <1>1 DEF IsNode
  <1>3. IsNode([m EXCEPT !.at = v], n)
    BY <1>1, <1>2 DEF IsNode
  <1>4. IsNode([m EXCEPT !.seen = v], n)
    BY <1>1, <1>2 DEF IsNode
  <1>5. IsNode([m EXCEPT !.styled = v], n)
    BY <1>1, <1>2 DEF IsNode
  <1>6. IsNode([m EXCEPT !.start = v, !.end = w], n)
    <2> DEFINE q == [m EXCEPT !.start = v]
    <2>1. q = [id |-> id, at |-> at, seen |-> drawn, styled |-> styled, start |-> v, end |-> end, spots |-> spots]
      BY <1>1
    <2>2. [m EXCEPT !.start = v, !.end = w] = [q EXCEPT !.end = w]
      OBVIOUS
    <2> HIDE DEF q
    <2>3. [q EXCEPT !.end = w]
            = [id |-> id, at |-> at, seen |-> drawn, styled |-> styled, start |-> v, end |-> w, spots |-> spots]
      BY <2>1
    <2>4. [m EXCEPT !.start = v, !.end = w]
            = [id |-> id, at |-> at, seen |-> drawn, styled |-> styled, start |-> v, end |-> w, spots |-> spots]
      BY <2>2, <2>3
    <2> QED
      BY <1>2, <2>4 DEF IsNode
  <1>7. IsSpots(v, n) => IsNode([m EXCEPT !.spots = v], n)
    BY <1>1, <1>2 DEF IsNode
  <1> QED
    BY <1>3, <1>4, <1>5, <1>6, <1>7

LEMMA FlagsKeep ==
    ASSUME NEW n, NEW nodes, IsNodes(nodes, n)
    PROVE  IsNodes(WithFlags(nodes), n)
  <1> DEFINE f == WithFlags(nodes)
  <1>1. f = [i \in 1..Len(nodes) |-> f[i]]
    BY NodesHave DEF WithFlags
  <1>2. ASSUME NEW i \in 1..Len(nodes) PROVE IsNode(f[i], n)
    <2> DEFINE first == \A j \in DOMAIN nodes \ {i} : Before(nodes, i, j)
               last == Len(nodes) > 1 /\ \A j \in DOMAIN nodes \ {i} : Before(nodes, j, i)
    <2>1. f[i] = [nodes[i] EXCEPT !.start = first, !.end = last]
      BY NodesHave DEF WithFlags
    <2>2. IsNode(nodes[i], n)
      BY NodesHave
    <2> HIDE DEF f, first, last
    <2>3. IsNode([nodes[i] EXCEPT !.start = first, !.end = last], n)
      BY <2>2, NodeChanged
    <2> QED
      BY <2>1, <2>3
  <1> HIDE DEF f
  <1> QED
    BY <1>1, <1>2, NodesHave, NodesMade DEF f

-----------------------------------------------------------------------------
(* The history of the canvas *)

IsCanvas(c, n) == c = [nodes |-> c.nodes, edges |-> c.edges] /\ IsNodes(c.nodes, n)

IsHistory(h, n) ==
    /\ h = [past |-> h.past, future |-> h.future, last |-> h.last, applying |-> h.applying]
    /\ h.applying \in BOOLEAN
    /\ \E S : (\A c \in S : IsCanvas(c, n)) /\ h.past \in Seq(S) /\ h.future \in Seq(S)
    /\ h.last # Nothing => IsCanvas(h.last, n)
    /\ h.last = Nothing => h.past = <<>> /\ h.future = <<>>

HistoryInv ==
    /\ due \in BOOLEAN /\ loading \in BOOLEAN /\ nextId \in Nat \ {0}
    /\ IsCanvas(canvas, nextId) /\ IsHistory(history, nextId) /\ ~history.applying
    /\ loading => history = NoHistory
    /\ ~due /\ ~loading => history.last = canvas

LEMMA CanvasIsSomething == ASSUME NEW c, NEW n, IsCanvas(c, n) PROVE c # Nothing
  <1>1. DOMAIN [nodes |-> c.nodes, edges |-> c.edges] = {"nodes", "edges"} /\ DOMAIN Nothing = {"none"}
    BY DEF Nothing
  <1> QED
    BY <1>1 DEF IsCanvas

LEMMA NodesOfCanvas ==
    ASSUME NEW c, NEW k, IsCanvas(c, k), NEW n, NEW nodes, IsNodes(nodes, n)
    PROVE  IsCanvas([c EXCEPT !.nodes = nodes], n)
  <1>1. [c EXCEPT !.nodes = nodes] = [nodes |-> nodes, edges |-> c.edges]
    BY DEF IsCanvas
  <1> QED
    BY <1>1 DEF IsCanvas

\* What was on the canvas stays what it was when there are more ids.
LEMMA HistoryGrows ==
    ASSUME NEW n \in Nat, NEW k \in Nat, n <= k
    PROVE  /\ \A c : IsCanvas(c, n) => IsCanvas(c, k)
           /\ \A h : IsHistory(h, n) => IsHistory(h, k)
  <1>1. \A c : IsCanvas(c, n) => IsCanvas(c, k)
    BY NodesGrow DEF IsCanvas
  <1>2. ASSUME NEW h, IsHistory(h, n) PROVE IsHistory(h, k)
    <2>1. PICK S : (\A c \in S : IsCanvas(c, n)) /\ h.past \in Seq(S) /\ h.future \in Seq(S)
      BY <1>2 DEF IsHistory
    <2>2. \A c \in S : IsCanvas(c, k)
      BY <1>1, <2>1
    <2> QED
      BY <1>1, <1>2, <2>1, <2>2 DEF IsHistory
  <1> QED
    BY <1>1, <1>2

LEMMA RecordedHistory ==
    ASSUME NEW n, NEW h, IsHistory(h, n), NEW c, IsCanvas(c, n)
    PROVE  /\ IsHistory(Recorded(h, c), n) /\ Recorded(h, c).last = c
           /\ h.last # Nothing \/ ~h.applying => ~Recorded(h, c).applying
  <1> DEFINE r == Recorded(h, c)
  <1>0. c # Nothing
    BY CanvasIsSomething
  <1>1. PICK S : (\A x \in S : IsCanvas(x, n)) /\ h.past \in Seq(S) /\ h.future \in Seq(S)
    BY DEF IsHistory
  <1>2. CASE h.last = Nothing
    <2>1. r = [past |-> <<>>, future |-> <<>>, last |-> c, applying |-> h.applying]
      BY <1>2 DEF Recorded, IsHistory
    <2>2. <<>> \in Seq(S)
      OBVIOUS
    <2> HIDE DEF r
    <2>3. IsHistory(r, n)
      BY <1>0, <1>1, <2>1, <2>2 DEF IsHistory
    <2> QED
      BY <1>2, <2>1, <2>3 DEF r
  <1>3. CASE h.last # Nothing /\ h.applying
    <2>1. r = [past |-> h.past, future |-> h.future, last |-> c, applying |-> FALSE]
      BY <1>3 DEF Recorded, IsHistory
    <2> HIDE DEF r
    <2>2. IsHistory(r, n)
      BY <1>0, <1>1, <2>1 DEF IsHistory
    <2> QED
      BY <2>1, <2>2 DEF r
  <1>4. CASE h.last # Nothing /\ ~h.applying /\ h.last = c
    BY <1>4 DEF Recorded
  <1>5. CASE h.last # Nothing /\ ~h.applying /\ h.last # c
    <2> DEFINE T == S \cup {h.last}
               long == Append(h.past, h.last)
               past == IF Len(long) > MaxPast THEN Tail(long) ELSE long
    <2>1. r = [past |-> past, future |-> <<>>, last |-> c, applying |-> FALSE]
      BY <1>5 DEF Recorded
    <2>2. \A x \in T : IsCanvas(x, n)
      BY <1>1, <1>5 DEF IsHistory
    <2>3. h.past \in Seq(T) /\ h.last \in T
      BY <1>1
    <2> HIDE DEF T
    <2>4. long \in Seq(T) /\ long # <<>>
      BY <2>3
    <2> HIDE DEF long
    <2>5. past \in Seq(T) /\ <<>> \in Seq(T)
      BY <2>4
    <2> HIDE DEF past, r
    <2>6. IsHistory(r, n)
      BY <1>0, <2>1, <2>2, <2>5 DEF IsHistory
    <2> QED
      BY <2>1, <2>6 DEF r
  <1>6. h.applying \in BOOLEAN
    BY DEF IsHistory
  <1> QED
    BY <1>2, <1>3, <1>4, <1>5, <1>6

LEMMA FlushedHistory ==
    ASSUME HistoryInv
    PROVE  IsHistory(Flushed(history), nextId) /\ ~Flushed(history).applying
  BY RecordedHistory DEF HistoryInv, Flushed

LEMMA NowStep ==
    ASSUME HistoryInv, nextId' \in Nat, nextId <= nextId',
           NEW c, IsCanvas(c, nextId'), ChangeNow(c), UNCHANGED loading
    PROVE  HistoryInv'
  <1>1. canvas' = c /\ due' = FALSE /\ history' = IF loading THEN history ELSE Recorded(Flushed(history), c)
    BY DEF ChangeNow
  <1>2. /\ IsHistory(Flushed(history), nextId') /\ ~Flushed(history).applying
        /\ IsHistory(history, nextId') /\ nextId' \in Nat \ {0}
    BY HistoryGrows, FlushedHistory DEF HistoryInv
  <1>3. CASE loading
    BY <1>1, <1>2, <1>3 DEF HistoryInv
  <1>4. CASE ~loading
    <2> DEFINE flushed == Flushed(history)
    <2>1. history' = Recorded(flushed, c) /\ IsHistory(flushed, nextId') /\ ~flushed.applying
      BY <1>1, <1>2, <1>4
    <2> HIDE DEF flushed
    <2>2. IsHistory(history', nextId') /\ history'.last = c /\ ~history'.applying
      BY <2>1, RecordedHistory
    <2> QED
      BY <1>1, <1>2, <1>4, <2>2 DEF HistoryInv
  <1> QED
    BY <1>3, <1>4

LEMMA LaterStep ==
    ASSUME HistoryInv, nextId' \in Nat, nextId <= nextId',
           NEW c, IsCanvas(c, nextId'), ChangeLater(c), UNCHANGED loading
    PROVE  HistoryInv'
  <1>1. canvas' = c /\ due' = TRUE /\ history' = Flushed(history)
    BY DEF ChangeLater
  <1>2. loading => Flushed(history) = history
    BY DEF Flushed
  <1>3. IsHistory(Flushed(history), nextId') /\ nextId' \in Nat \ {0}
    BY HistoryGrows, FlushedHistory DEF HistoryInv
  <1> QED
    BY <1>1, <1>2, <1>3, FlushedHistory DEF HistoryInv

LEMMA AddsStep ==
    ASSUME HistoryInv, AddScreen \/ \E at : AddAppScreen(at)
    PROVE  HistoryInv'
  <1>1. PICK at : ChangeNow([canvas EXCEPT !.nodes = WithFlags(Append(canvas.nodes, Screen(nextId, at)))])
    BY DEF AddScreen, AddAppScreen
  <1>a. nextId \in Nat \ {0}
    BY DEF HistoryInv
  <1>b. UNCHANGED loading /\ nextId' = nextId + 1
    BY DEF AddScreen, AddAppScreen, Others
  <1>2. UNCHANGED loading /\ nextId' = nextId + 1 /\ nextId \in Nat \ {0} /\ nextId' \in Nat /\ nextId <= nextId'
    BY <1>a, <1>b
  <1>3. IsNode(Screen(nextId, at), nextId')
    BY <1>2, FS_EmptySet DEF Screen, IsNode, IsSpots
  <1>4. IsNodes(canvas.nodes, nextId')
    BY <1>2, NodesGrow DEF HistoryInv, IsCanvas
  <1>5. IsNodes(Append(canvas.nodes, Screen(nextId, at)), nextId')
    <2>1. PICK S : (\A m \in S : IsNode(m, nextId')) /\ canvas.nodes \in Seq(S)
      BY <1>4 DEF IsNodes
    <2> DEFINE T == S \cup {Screen(nextId, at)}
    <2>2. \A m \in T : IsNode(m, nextId')
      BY <1>3, <2>1
    <2>3. Append(canvas.nodes, Screen(nextId, at)) \in Seq(T)
      BY <2>1
    <2> HIDE DEF T
    <2> QED
      BY <2>2, <2>3 DEF IsNodes
  <1>6. IsCanvas([canvas EXCEPT !.nodes = WithFlags(Append(canvas.nodes, Screen(nextId, at)))], nextId')
    BY <1>5, FlagsKeep, NodesOfCanvas DEF HistoryInv
  <1> QED
    BY <1>1, <1>2, <1>6, NowStep

LEMMA ScreenDeleted ==
    ASSUME HistoryInv, NEW id, DeleteScreen(id)
    PROVE  HistoryInv'
  <1> DEFINE left == Kept(canvas.nodes, Ids(canvas.nodes) \ {id})
  <1>1. PICK edges : ChangeNow([nodes |-> left, edges |-> edges])
    BY DEF DeleteScreen
  <1>2. UNCHANGED <<loading, nextId>> /\ nextId \in Nat
    BY DEF DeleteScreen, Others, HistoryInv
  <1>3. PICK S : (\A m \in S : IsNode(m, nextId)) /\ canvas.nodes \in Seq(S)
    BY DEF HistoryInv, IsCanvas, IsNodes
  <1>4. left \in Seq({m \in S : m.id \in Ids(canvas.nodes) \ {id}})
    BY <1>3, KeptScreens
  <1> HIDE DEF left
  <1>5. IsNodes(left, nextId')
    BY <1>2, <1>3, <1>4 DEF IsNodes
  <1>6. IsCanvas([nodes |-> left, edges |-> edges], nextId')
    BY <1>5 DEF IsCanvas
  <1> QED
    BY <1>1, <1>2, <1>6, NowStep

\* A change to each node for itself.
LEMMA EachChanged ==
    ASSUME HistoryInv, NEW nodes, nodes = [i \in DOMAIN canvas.nodes |-> nodes[i]],
           nextId' \in Nat, nextId <= nextId',
           \A i \in DOMAIN canvas.nodes : IsNode(nodes[i], nextId')
    PROVE  IsNodes(nodes, nextId') /\ IsCanvas([canvas EXCEPT !.nodes = nodes], nextId')
  <1>1. IsNodes(canvas.nodes, nextId)
    BY DEF HistoryInv, IsCanvas
  <1>2. IsNodes(nodes, nextId')
    BY <1>1, NodesHave, NodesMade
  <1> QED
    BY <1>2, NodesOfCanvas DEF HistoryInv

LEMMA CanvasNodes ==
    ASSUME HistoryInv
    PROVE  /\ \A i \in DOMAIN canvas.nodes : IsNode(canvas.nodes[i], nextId)
           /\ Ids(canvas.nodes) \subseteq 1..(nextId - 1)
  BY NodesHave DEF HistoryInv, IsCanvas

LEMMA SpotDrawn ==
    ASSUME HistoryInv, NEW id, DrawHotspot(id)
    PROVE  HistoryInv'
  <1> DEFINE spot == [id |-> nextId, to |-> None]
             Draw(m) == IF m.id = id THEN [m EXCEPT !.spots = @ \cup {spot}] ELSE m
             nodes == [i \in DOMAIN canvas.nodes |-> Draw(canvas.nodes[i])]
  <1>1. ChangeNow([canvas EXCEPT !.nodes = nodes])
    BY DEF DrawHotspot, EachNode
  <1>2. UNCHANGED loading /\ nextId' = nextId + 1 /\ nextId \in Nat /\ nextId' \in Nat /\ nextId <= nextId'
    BY DEF DrawHotspot, Others, HistoryInv
  <1>3. ASSUME NEW i \in DOMAIN canvas.nodes PROVE IsNode(Draw(canvas.nodes[i]), nextId')
    <2> DEFINE m == canvas.nodes[i]
    <2>1. IsNode(m, nextId')
      BY <1>2, CanvasNodes, NodesGrow
    <2> HIDE DEF m
    <2>2. IsSpots(m.spots \cup {spot}, nextId')
      <3>1. IsFiniteSet(m.spots \cup {spot})
        BY <2>1, FS_AddElement DEF IsNode, IsSpots
      <3>2. spot = [id |-> spot.id, to |-> spot.to] /\ spot.to = None
        OBVIOUS
      <3> HIDE DEF spot
      <3> QED
        BY <2>1, <3>1, <3>2 DEF IsNode, IsSpots
    <2>3. IsNode([m EXCEPT !.spots = m.spots \cup {spot}], nextId')
      BY <2>1, <2>2, NodeChanged
    <2> QED
      BY <2>1, <2>3 DEF m
  <1>4. nodes = [i \in DOMAIN canvas.nodes |-> nodes[i]]
    OBVIOUS
  <1>5. \A i \in DOMAIN canvas.nodes : IsNode(nodes[i], nextId')
    BY <1>3
  <1> HIDE DEF nodes
  <1>6. IsCanvas([canvas EXCEPT !.nodes = nodes], nextId')
    BY <1>2, <1>4, <1>5, EachChanged
  <1> QED
    BY <1>1, <1>2, <1>6, NowStep

LEMMA SpotErased ==
    ASSUME HistoryInv, NEW id, NEW spot, DeleteHotspotOf(id, spot)
    PROVE  HistoryInv'
  <1> DEFINE Erase(m) == IF m.id = id THEN [m EXCEPT !.spots = {s \in @ : s.id # spot}] ELSE m
             nodes == [i \in DOMAIN canvas.nodes |-> Erase(canvas.nodes[i])]
  <1>1. ChangeNow([canvas EXCEPT !.nodes = nodes])
    BY DEF DeleteHotspotOf, EachNode
  <1>2. UNCHANGED loading /\ nextId' = nextId /\ nextId \in Nat
    BY DEF DeleteHotspotOf, Others, HistoryInv
  <1>3. ASSUME NEW i \in DOMAIN canvas.nodes PROVE IsNode(Erase(canvas.nodes[i]), nextId')
    <2> DEFINE m == canvas.nodes[i]
               left == {s \in m.spots : s.id # spot}
    <2>1. IsNode(m, nextId')
      BY <1>2, CanvasNodes
    <2> HIDE DEF m
    <2>2. left \in SUBSET m.spots
      OBVIOUS
    <2> HIDE DEF left
    <2>3. IsSpots(left, nextId')
      BY <2>1, <2>2, FS_Subset DEF IsNode, IsSpots
    <2>4. IsNode([m EXCEPT !.spots = left], nextId')
      BY <2>1, <2>3, NodeChanged
    <2> QED
      BY <2>1, <2>4 DEF m, left
  <1>4. nodes = [i \in DOMAIN canvas.nodes |-> nodes[i]]
    OBVIOUS
  <1>5. \A i \in DOMAIN canvas.nodes : IsNode(nodes[i], nextId')
    BY <1>3
  <1> HIDE DEF nodes
  <1> QED
    BY <1>1, <1>2, <1>4, <1>5, EachChanged, NowStep

\* A link to a screen that is or was on the canvas, or to none.
LEMMA NodesRelinked ==
    ASSUME HistoryInv, NEW id, NEW spot, NEW to, to # None => to \in 1..(nextId - 1)
    PROVE  IsNodes(Relinked(canvas.nodes, id, spot, to), nextId)
  <1> DEFINE Aimed(s) == IF s.id = spot THEN [s EXCEPT !.to = to] ELSE s
             Aim(m) == IF m.id # id THEN m ELSE [m EXCEPT !.spots = {Aimed(s) : s \in @}]
             nodes == [i \in DOMAIN canvas.nodes |-> Aim(canvas.nodes[i])]
  <1>1. Relinked(canvas.nodes, id, spot, to) = nodes
    BY DEF Relinked, EachNode
  <1>2. ASSUME NEW i \in DOMAIN canvas.nodes PROVE IsNode(Aim(canvas.nodes[i]), nextId)
    <2> DEFINE m == canvas.nodes[i]
               aimed == {Aimed(s) : s \in m.spots}
    <2>1. IsNode(m, nextId)
      BY CanvasNodes
    <2> HIDE DEF m
    <2>2. IsFiniteSet(aimed)
      <3> DEFINE f == [s \in m.spots |-> Aimed(s)]
      <3>1. f \in Surjection(m.spots, aimed)
        BY DEF Surjection
      <3> HIDE DEF f, aimed
      <3> QED
        BY <2>1, <3>1, FS_Surjection DEF IsNode, IsSpots
    <2>3. ASSUME NEW s \in m.spots
          PROVE  /\ Aimed(s) = [id |-> Aimed(s).id, to |-> Aimed(s).to]
                 /\ Aimed(s).to # None => Aimed(s).to \in 1..(nextId - 1)
      <3>1. s = [id |-> s.id, to |-> s.to] /\ (s.to # None => s.to \in 1..(nextId - 1))
        BY <2>1 DEF IsNode, IsSpots
      <3>2. PICK a, b : s = [id |-> a, to |-> b]
        BY <3>1
      <3>3. [s EXCEPT !.to = to] = [id |-> a, to |-> to]
        BY <3>2
      <3> QED
        BY <3>1, <3>3
    <2>4. IsSpots(aimed, nextId)
      BY <2>2, <2>3 DEF IsSpots
    <2> HIDE DEF aimed
    <2>5. IsNode([m EXCEPT !.spots = aimed], nextId)
      BY <2>1, <2>4, NodeChanged
    <2> QED
      BY <2>1, <2>5 DEF m, aimed
  <1>3. nodes = [i \in DOMAIN canvas.nodes |-> nodes[i]] /\ \A i \in DOMAIN canvas.nodes : IsNode(nodes[i], nextId)
    BY <1>2
  <1> HIDE DEF nodes
  <1>4. IsNodes(canvas.nodes, nextId)
    BY DEF HistoryInv, IsCanvas
  <1>5. IsNodes(nodes, nextId)
    BY <1>3, <1>4, NodesHave, NodesMade
  <1> QED
    BY <1>1, <1>5

LEMMA TargetPicked ==
    ASSUME HistoryInv, NEW to, PickTarget(to)
    PROVE  HistoryInv'
  <1> DEFINE nodes == Relinked(canvas.nodes, picked.node, picked.spot, to)
  <1>1. ChangeNow([canvas EXCEPT !.nodes = nodes]) /\ (to # None => to \in Ids(canvas.nodes))
    BY DEF PickTarget
  <1>2. UNCHANGED loading /\ nextId' = nextId /\ nextId \in Nat
    BY DEF PickTarget, Others, HistoryInv
  <1>3. IsNodes(nodes, nextId')
    BY <1>1, <1>2, CanvasNodes, NodesRelinked
  <1> HIDE DEF nodes
  <1>4. IsCanvas([canvas EXCEPT !.nodes = nodes], nextId')
    BY <1>3, NodesOfCanvas DEF HistoryInv
  <1> QED
    BY <1>1, <1>2, <1>4, NowStep

LEMMA NodeStyled ==
    ASSUME HistoryInv, NEW id, Style(id)
    PROVE  HistoryInv'
  <1> DEFINE Edited(m) == IF m.id = id THEN [m EXCEPT !.styled = TRUE] ELSE m
             nodes == [i \in DOMAIN canvas.nodes |-> Edited(canvas.nodes[i])]
  <1>1. ChangeNow([canvas EXCEPT !.nodes = nodes])
    BY DEF Style, EachNode
  <1>2. UNCHANGED loading /\ nextId' = nextId /\ nextId \in Nat
    BY DEF Style, Others, HistoryInv
  <1>3. nodes = [i \in DOMAIN canvas.nodes |-> nodes[i]] /\ \A i \in DOMAIN canvas.nodes : IsNode(nodes[i], nextId')
    BY <1>2, CanvasNodes, NodeChanged
  <1> HIDE DEF nodes
  <1> QED
    BY <1>1, <1>2, <1>3, EachChanged, NowStep

LEMMA NodeMeasured ==
    ASSUME HistoryInv, NEW id, Measure(id)
    PROVE  HistoryInv'
  <1> DEFINE See(m) == IF m.id = id THEN [m EXCEPT !.seen = TRUE] ELSE m
             nodes == [i \in DOMAIN canvas.nodes |-> See(canvas.nodes[i])]
  <1>1. ChangeLater([canvas EXCEPT !.nodes = nodes])
    BY DEF Measure, EachNode
  <1>2. UNCHANGED loading /\ nextId' = nextId /\ nextId \in Nat
    BY DEF Measure, Others, HistoryInv
  <1>3. nodes = [i \in DOMAIN canvas.nodes |-> nodes[i]] /\ \A i \in DOMAIN canvas.nodes : IsNode(nodes[i], nextId')
    BY <1>2, CanvasNodes, NodeChanged
  <1> HIDE DEF nodes
  <1> QED
    BY <1>1, <1>2, <1>3, EachChanged, LaterStep

LEMMA NodeMoved ==
    ASSUME HistoryInv, NEW id, NEW at, NEW dragging, MoveNode(id, at, dragging)
    PROVE  HistoryInv'
  <1> DEFINE Move(m) == IF m.id = id THEN [m EXCEPT !.at = at] ELSE m
             moved == [i \in DOMAIN canvas.nodes |-> Move(canvas.nodes[i])]
             nodes == IF dragging THEN moved ELSE WithFlags(moved)
  <1>1. ChangeLater([canvas EXCEPT !.nodes = nodes])
    BY DEF MoveNode, EachNode
  <1>2. UNCHANGED loading /\ nextId' = nextId /\ nextId \in Nat
    BY DEF MoveNode, Others, HistoryInv
  <1>3. moved = [i \in DOMAIN canvas.nodes |-> moved[i]] /\ \A i \in DOMAIN canvas.nodes : IsNode(moved[i], nextId')
    BY <1>2, CanvasNodes, NodeChanged
  <1> HIDE DEF moved
  <1>4. IsNodes(moved, nextId')
    <2>1. nextId' \in Nat /\ nextId <= nextId'
      BY <1>2
    <2> QED
      BY <1>3, <2>1, EachChanged
  <1>5. IsNodes(nodes, nextId')
    BY <1>4, FlagsKeep
  <1> HIDE DEF nodes
  <1>6. IsCanvas([canvas EXCEPT !.nodes = nodes], nextId')
    BY <1>5, NodesOfCanvas DEF HistoryInv
  <1> QED
    BY <1>1, <1>2, <1>6, LaterStep

LEMMA CanvasKept ==
    ASSUME HistoryInv, UNCHANGED <<canvas, history, due, loading, nextId>>
    PROVE  HistoryInv'
  BY DEF HistoryInv

LEMMA LinkStep ==
    ASSUME HistoryInv, \/ \E to : LinkEnd(to)
                       \/ LinkCancel
                       \/ \E id, spot : LinkStart(id, spot)
    PROVE  HistoryInv'
  <1>1. UNCHANGED <<loading, nextId>> /\ nextId \in Nat
    BY DEF LinkEnd, LinkCancel, LinkStart, LinkRest, HistoryInv
  <1>2. \/ UNCHANGED <<canvas, history, due>>
        \/ \E to \in DropTargets : \E from, spot : ChangeNow(Linked(from, spot, to))
    BY DEF LinkEnd, LinkCancel, LinkStart
  <1>3. CASE UNCHANGED <<canvas, history, due>>
    BY <1>1, <1>3, CanvasKept
  <1>4. ASSUME NEW to \in DropTargets, NEW from, NEW spot, ChangeNow(Linked(from, spot, to))
        PROVE  HistoryInv'
    <2>1. to # None => to \in 1..(nextId - 1)
      BY CanvasNodes DEF DropTargets
    <2>2. IsNodes(Relinked(canvas.nodes, from, spot, to), nextId')
      BY <1>1, <2>1, NodesRelinked
    <2>3. PICK edges : Linked(from, spot, to) = [nodes |-> Relinked(canvas.nodes, from, spot, to), edges |-> edges]
      BY DEF Linked
    <2>4. IsCanvas(Linked(from, spot, to), nextId')
      BY <2>2, <2>3 DEF IsCanvas
    <2> QED
      BY <1>1, <1>4, <2>4, NowStep
  <1> QED
    BY <1>2, <1>3, <1>4

LEMMA SeqOfFinite ==
    ASSUME NEW S, IsFiniteSet(S)
    PROVE  Len(SetToSeq(S)) \in Nat
  <1>1. Cardinality(S) \in Nat /\ ExistsBijection(1..Cardinality(S), S)
    BY FS_CardinalityType
  <1>2. \E f \in [1..Cardinality(S) -> S] : IsInjective(f)
    BY <1>1 DEF ExistsBijection, Bijection, Injection, IsInjective
  <1>3. SetToSeq(S) \in [1..Cardinality(S) -> S]
    BY <1>2 DEF SetToSeq
  <1>4. SetToSeq(S) \in Seq(S)
    BY <1>1, <1>3
  <1> QED
    BY <1>4

\* A screen of the scenario gets an id of the new ones, and so does its target, or none.
LEMMA LinksRetargeted ==
    ASSUME NEW nodes, NEW k \in Nat, DOMAIN nodes = 1..k, nextId \in Nat, NEW to
    PROVE  /\ RetargetLink(nodes, to) # None => RetargetLink(nodes, to) \in nextId..(nextId + k - 1)
           /\ to \in Ids(nodes) => RetargetLink(nodes, to) \in nextId..(nextId + k - 1)
  <1>1. CASE to \in Ids(nodes)
    <2>1. Placed(nodes, to) \in 1..k
      BY <1>1 DEF Placed, Ids
    <2> QED
      BY <1>1, <2>1 DEF RetargetLink
  <1>2. CASE to \notin Ids(nodes)
    BY <1>2 DEF RetargetLink
  <1> QED
    BY <1>1, <1>2

LEMMA InsertStep ==
    ASSUME HistoryInv, inserting # Nothing => IsScreens(inserting.screens), NEW anchor, Insert(anchor)
    PROVE  HistoryInv' /\ nextId <= nextId'
  <1> DEFINE got == ToCanvas(inserting)
        n == Len(got.nodes)
        spots == SetToSeq(SpotsOf(got.nodes))
        FreshSpot(id) == nextId + n - 1 + CHOOSE k \in DOMAIN spots : spots[k].id = id
        taken == {c.at : c \in Range(canvas.nodes)}
        Shifted(down) == {<<anchor[1] + c.at[1], anchor[2] + c.at[2] + down>> : c \in Range(got.nodes)}
        down == CHOOSE k \in 0..(MaxScreens + 2) :
                    /\ Shifted(k) \cap taken = {}
                    /\ \A l \in 0..(k - 1) : Shifted(l) \cap taken # {}
        Renewed(m) == [m EXCEPT
            !.id = RetargetLink(got.nodes, @),
            !.at = <<anchor[1] + @[1], anchor[2] + @[2] + down>>,
            !.spots = {[id |-> FreshSpot(s.id), to |-> RetargetLink(got.nodes, s.to)] : s \in @}]
        new == [i \in DOMAIN got.nodes |-> Renewed(got.nodes[i])]
  <1>1. /\ inserting # Nothing
        /\ ChangeLater([nodes |-> WithFlags(canvas.nodes \o new), edges |-> canvas.edges \cup EdgesOf(new)])
        /\ nextId' = nextId + n + Len(spots)
        /\ UNCHANGED loading
    BY DEF Insert, EachNode
  <1>2. PICK S : (\A m \in S : IsFiniteSet(m.spots)) /\ inserting.screens \in Seq(S)
    BY <1>1 DEF IsScreens
  <1> DEFINE k == Len(inserting.screens)
             screens == inserting.screens
  <1>3. /\ k \in Nat /\ DOMAIN screens = 1..k
        /\ \A i \in 1..k : IsFiniteSet(screens[i].spots)
    BY <1>2
  <1>4. got.nodes = [i \in 1..k |->
            [id |-> screens[i].id, at |-> GridCell(i - 1), seen |-> FALSE, styled |-> screens[i].styled,
             start |-> screens[i].id = inserting.start, end |-> screens[i].end, spots |-> screens[i].spots]]
    BY <1>3 DEF ToCanvas
  <1> DEFINE nodes == got.nodes
  <1>5. DOMAIN nodes = 1..k /\ n = k
    <2>1. DOMAIN nodes = 1..k
      BY <1>4
    <2>2. nodes \in Seq({nodes[i] : i \in 1..k})
      <3> HIDE DEF nodes
      <3>1. nodes = [i \in 1..k |-> nodes[i]]
        BY <1>4 DEF nodes
      <3>2. nodes \in [1..k -> {nodes[i] : i \in 1..k}]
        BY <3>1
      <3> QED
        BY <1>3, <3>2
    <2> QED
      BY <1>3, <2>1, <2>2
  <1>6. Len(spots) \in Nat
    <2>1. \A i \in DOMAIN nodes : IsFiniteSet(nodes[i].spots)
      BY <1>3, <1>4, <1>5
    <2>2. IsFiniteSet(SpotsOf(nodes))
      BY <1>3, <1>5, <2>1, SpotsAreFinite
    <2> QED
      BY <2>2, SeqOfFinite
  <1>7. nextId \in Nat \ {0} /\ nextId' \in Nat /\ nextId <= nextId' /\ nextId + k <= nextId'
    <2>1. nextId' = nextId + n + Len(spots)
      BY <1>1
    <2>2. nextId \in Nat \ {0}
      BY DEF HistoryInv
    <2> DEFINE more == Len(spots)
    <2>3. nextId' = nextId + n + more /\ more \in Nat /\ n = k /\ k \in Nat
      BY <1>3, <1>5, <1>6, <2>1
    <2> HIDE DEF more, n, k
    <2> QED
      BY <2>2, <2>3
  <1>8. ASSUME NEW i \in 1..k PROVE IsNode(Renewed(nodes[i]), nextId')
    <2> DEFINE m == nodes[i]
               fresh == {[id |-> FreshSpot(s.id), to |-> RetargetLink(nodes, s.to)] : s \in m.spots}
               place == <<anchor[1] + m.at[1], anchor[2] + m.at[2] + down>>
    <2>0. m = [id |-> screens[i].id, at |-> GridCell(i - 1), seen |-> FALSE, styled |-> screens[i].styled,
               start |-> screens[i].id = inserting.start, end |-> screens[i].end, spots |-> screens[i].spots]
      BY <1>4
    <2>a. m.id \in Ids(nodes)
      <3>1. i \in DOMAIN nodes
        BY <1>5
      <3> HIDE DEF nodes
      <3> QED
        BY <3>1 DEF Ids
    <2>b. IsFiniteSet(screens[i].spots)
      BY <1>3
    <2> HIDE DEF m
    <2>1. /\ m.id \in Ids(nodes) /\ IsFiniteSet(m.spots)
          /\ m = [id |-> m.id, at |-> m.at, seen |-> m.seen, styled |-> m.styled, start |-> m.start,
                  end |-> m.end, spots |-> m.spots]
      BY <2>0, <2>a, <2>b
    <2> USE DEF m
    <2>2. Renewed(m) = [m EXCEPT !.id = RetargetLink(nodes, m.id), !.at = place, !.spots = fresh]
      BY <2>1
    <2>3. IsSpots(fresh, nextId')
      <3>1. IsFiniteSet(fresh)
        <4> DEFINE f == [s \in m.spots |-> [id |-> FreshSpot(s.id), to |-> RetargetLink(nodes, s.to)]]
        <4>1. f \in Surjection(m.spots, fresh)
          BY DEF Surjection
        <4> HIDE DEF f, fresh, m
        <4> QED
          BY <2>1, <4>1, FS_Surjection
      <3>2. ASSUME NEW s \in m.spots
            PROVE  RetargetLink(nodes, s.to) # None => RetargetLink(nodes, s.to) \in 1..(nextId' - 1)
        <4> HIDE DEF nodes, k
        <4> QED
          BY <1>3, <1>5, <1>7, LinksRetargeted
      <3> HIDE DEF FreshSpot, nodes
      <3> QED
        BY <3>1, <3>2 DEF IsSpots
    <2>4. RetargetLink(nodes, m.id) \in 1..(nextId' - 1)
      <3> HIDE DEF nodes, k, m
      <3> QED
        BY <1>3, <1>5, <1>7, <2>1, LinksRetargeted
    <2> HIDE DEF m, fresh, place, Renewed
    <2>5. ASSUME NEW id PROVE
          [m EXCEPT !.id = id, !.at = place, !.spots = fresh]
             = [id |-> id, at |-> place, seen |-> m.seen, styled |-> m.styled, start |-> m.start,
                end |-> m.end, spots |-> fresh]
      <3>1. PICK a, b, c, d, e, f, g : m = [id |-> a, at |-> b, seen |-> c, styled |-> d, start |-> e, end |-> f, spots |-> g]
        BY <2>1
      <3> DEFINE q == [m EXCEPT !.id = id]
                 r == [q EXCEPT !.at = place]
      <3>2. q = [id |-> id, at |-> b, seen |-> c, styled |-> d, start |-> e, end |-> f, spots |-> g]
        BY <3>1
      <3>3. r = [q EXCEPT !.at = place]
        OBVIOUS
      <3>4. [m EXCEPT !.id = id, !.at = place, !.spots = fresh] = [r EXCEPT !.spots = fresh]
        OBVIOUS
      <3> HIDE DEF q, r
      <3>5. r = [id |-> id, at |-> place, seen |-> c, styled |-> d, start |-> e, end |-> f, spots |-> g]
        BY <3>2, <3>3
      <3>6. [r EXCEPT !.spots = fresh]
              = [id |-> id, at |-> place, seen |-> c, styled |-> d, start |-> e, end |-> f, spots |-> fresh]
        BY <3>5
      <3> QED
        BY <3>1, <3>4, <3>6
    <2>6. Renewed(m) = [id |-> RetargetLink(nodes, m.id), at |-> place, seen |-> m.seen, styled |-> m.styled,
                        start |-> m.start, end |-> m.end, spots |-> fresh]
      BY <2>2, <2>5
    <2>7. IsNode(Renewed(m), nextId')
      BY <2>3, <2>4, <2>6 DEF IsNode
    <2> QED
      BY <2>7 DEF m
  <1> HIDE DEF Renewed
  <1>9. IsNodes(new, nextId')
    <2>1. new = [i \in 1..k |-> new[i]] /\ \A i \in 1..k : IsNode(new[i], nextId')
      BY <1>5, <1>8
    <2> HIDE DEF new, k
    <2> QED
      BY <1>3, <2>1, NodesMade
  <1> HIDE DEF new, spots, n
  <1>10. IsNodes(canvas.nodes \o new, nextId')
    <2>1. IsNodes(canvas.nodes, nextId')
      BY <1>7, NodesGrow DEF HistoryInv, IsCanvas
    <2>2. PICK A : (\A m \in A : IsNode(m, nextId')) /\ canvas.nodes \in Seq(A)
      BY <2>1 DEF IsNodes
    <2>3. PICK B : (\A m \in B : IsNode(m, nextId')) /\ new \in Seq(B)
      BY <1>9 DEF IsNodes
    <2>4. canvas.nodes \o new \in Seq(A \cup B)
      <3>1. canvas.nodes \in Seq(A \cup B) /\ new \in Seq(A \cup B)
        BY <2>2, <2>3
      <3> QED
        BY <3>1, ConcatProperties
    <2>5. \A m \in A \cup B : IsNode(m, nextId')
      BY <2>2, <2>3
    <2> QED
      BY <2>4, <2>5 DEF IsNodes
  <1> DEFINE these == WithFlags(canvas.nodes \o new)
             edges == canvas.edges \cup EdgesOf(new)
  <1>11. IsNodes(these, nextId')
    BY <1>10, FlagsKeep
  <1>12. ChangeLater([nodes |-> these, edges |-> edges]) /\ UNCHANGED loading
    BY <1>1
  <1> HIDE DEF these, edges
  <1>13. IsCanvas([nodes |-> these, edges |-> edges], nextId')
    BY <1>11 DEF IsCanvas
  <1> QED
    BY <1>7, <1>12, <1>13, LaterStep

\* What is taken off one side of the history is a canvas, and the other side gets the one shown.
LEMMA PoppedHistory ==
    ASSUME NEW S, NEW s \in Seq(S), s # <<>>
    PROVE  Front(s) \in Seq(S) /\ Last(s) \in S
  <1>1. Len(s) \in Nat \ {0} /\ Last(s) = s[Len(s)] /\ Front(s) = SubSeq(s, 1, Len(s) - 1)
    BY DEF Last, Front
  <1>2. Last(s) \in S
    BY <1>1
  <1>3. SubSeq(s, 1, Len(s) - 1) \in Seq(S)
    BY <1>1, SubSeqProperties
  <1> QED
    BY <1>1, <1>2, <1>3

LEMMA ApplyStep ==
    ASSUME HistoryInv, NEW h, IsHistory(h, nextId), h.last # Nothing, ~loading,
           NEW c, IsCanvas(c, nextId), Apply(h, c)
    PROVE  HistoryInv'
  <1> DEFINE flagged == [h EXCEPT !.applying = TRUE]
  <1>1. /\ canvas' = c /\ history' = Recorded(Flushed(flagged), c) /\ due' = FALSE /\ loading' = loading
        /\ nextId' = nextId
    BY DEF Apply
  <1>2. flagged = [past |-> h.past, future |-> h.future, last |-> h.last, applying |-> TRUE]
    <2>1. flagged = [h EXCEPT !.applying = TRUE]
      OBVIOUS
    <2> HIDE DEF flagged
    <2>2. PICK a, b, c0, d : h = [past |-> a, future |-> b, last |-> c0, applying |-> d]
      BY DEF IsHistory
    <2> QED
      BY <2>1, <2>2
  <1> HIDE DEF flagged
  <1>3. IsHistory(flagged, nextId) /\ flagged.last # Nothing
    BY <1>2 DEF IsHistory
  <1>4. IsHistory(Flushed(flagged), nextId) /\ Flushed(flagged).last # Nothing
    BY <1>3, RecordedHistory, CanvasIsSomething DEF HistoryInv, Flushed
  <1>5. IsHistory(history', nextId) /\ history'.last = c /\ ~history'.applying
    BY <1>1, <1>4, RecordedHistory
  <1> QED
    BY <1>1, <1>5 DEF HistoryInv

LEMMA UndoRedoStep ==
    ASSUME HistoryInv, Undo \/ Redo
    PROVE  HistoryInv'
  <1>1. PICK S : (\A c \in S : IsCanvas(c, nextId)) /\ history.past \in Seq(S) /\ history.future \in Seq(S)
    BY DEF HistoryInv, IsHistory
  <1> DEFINE T == S \cup {canvas}
  <1>2. /\ \A c \in T : IsCanvas(c, nextId)
        /\ history.past \in Seq(T) /\ history.future \in Seq(T) /\ canvas \in T
    BY <1>1 DEF HistoryInv
  <1> HIDE DEF T
  <1>3. history.past # <<>> \/ history.future # <<>>
    BY DEF Undo, Redo
  <1>4. history.last # Nothing /\ ~loading /\ IsCanvas(history.last, nextId)
    BY <1>3 DEF HistoryInv, IsHistory, NoHistory
  <1>5. history = [past |-> history.past, future |-> history.future, last |-> history.last, applying |-> FALSE]
    BY DEF HistoryInv, IsHistory
  <1>6. CASE Undo
    <2> DEFINE past == Front(history.past)
               future == Append(history.future, canvas)
               h == [history EXCEPT !.past = past, !.future = future]
    <2>1. history.past # <<>> /\ Apply(h, Last(history.past))
      BY <1>6 DEF Undo
    <2>2. past \in Seq(T) /\ future \in Seq(T) /\ IsCanvas(Last(history.past), nextId)
      BY <1>2, <2>1, PoppedHistory
    <2> HIDE DEF past, future
    <2>3. h = [past |-> past, future |-> future, last |-> history.last, applying |-> FALSE]
      <3>1. h = [history EXCEPT !.past = past, !.future = future]
        OBVIOUS
      <3> HIDE DEF h
      <3>2. PICK a, b, c : history = [past |-> a, future |-> b, last |-> c, applying |-> FALSE]
        BY <1>5
      <3> QED
        BY <3>1, <3>2
    <2> HIDE DEF h
    <2>4. IsHistory(h, nextId) /\ h.last # Nothing
      BY <1>2, <1>4, <2>2, <2>3 DEF IsHistory
    <2> QED
      BY <1>4, <2>1, <2>2, <2>4, ApplyStep
  <1>7. CASE Redo
    <2> DEFINE future == Front(history.future)
               past == Append(history.past, canvas)
               h == [history EXCEPT !.future = future, !.past = past]
    <2>1. history.future # <<>> /\ Apply(h, Last(history.future))
      BY <1>7 DEF Redo
    <2>2. past \in Seq(T) /\ future \in Seq(T) /\ IsCanvas(Last(history.future), nextId)
      BY <1>2, <2>1, PoppedHistory
    <2> HIDE DEF past, future
    <2>3. h = [past |-> past, future |-> future, last |-> history.last, applying |-> FALSE]
      <3>1. h = [history EXCEPT !.future = future, !.past = past]
        OBVIOUS
      <3> HIDE DEF h
      <3>2. PICK a, b, c : history = [past |-> a, future |-> b, last |-> c, applying |-> FALSE]
        BY <1>5
      <3> QED
        BY <3>1, <3>2
    <2> HIDE DEF h
    <2>4. IsHistory(h, nextId) /\ h.last # Nothing
      BY <1>2, <1>4, <2>2, <2>3 DEF IsHistory
    <2> QED
      BY <1>4, <2>1, <2>2, <2>4, ApplyStep
  <1> QED
    BY <1>6, <1>7

LEMMA EmptyHistory ==
    ASSUME NEW n
    PROVE  IsHistory(NoHistory, n) /\ ~NoHistory.applying /\ IsCanvas(NoCanvas, n)
  <1>1. <<>> \in Seq({})
    OBVIOUS
  <1>2. /\ NoHistory.past = <<>> /\ NoHistory.future = <<>> /\ NoHistory.last = Nothing
        /\ NoHistory.applying = FALSE
    BY DEF NoHistory
  <1>3. NoHistory = [past |-> NoHistory.past, future |-> NoHistory.future, last |-> NoHistory.last,
                     applying |-> NoHistory.applying]
    BY DEF NoHistory
  <1>4. \E S : (\A c \in S : IsCanvas(c, n)) /\ NoHistory.past \in Seq(S) /\ NoHistory.future \in Seq(S)
    <2> WITNESS {}
    <2> QED
      BY <1>1, <1>2
  <1>5. IsNodes(<<>>, n)
    BY <1>1 DEF IsNodes
  <1>6. IsCanvas(NoCanvas, n)
    BY <1>5 DEF NoCanvas, IsCanvas
  <1> QED
    BY <1>2, <1>3, <1>4, <1>6 DEF IsHistory

\* A draft that was saved from this canvas is a canvas.
LEMMA DraftShown ==
    ASSUME NEW n, NEW d, OwnScreens(d.screens, n)
    PROVE  IsCanvas(ToCanvas(d), n)
  <1>1. PICK S : (\A m \in S : OwnScreen(m, n)) /\ d.screens \in Seq(S)
    BY DEF OwnScreens
  <1> DEFINE k == Len(d.screens)
             nodes == [i \in DOMAIN d.screens |->
                         [id |-> d.screens[i].id, at |-> GridCell(i - 1), seen |-> FALSE,
                          styled |-> d.screens[i].styled, start |-> d.screens[i].id = d.start,
                          end |-> d.screens[i].end, spots |-> d.screens[i].spots]]
  <1>2. k \in Nat /\ DOMAIN d.screens = 1..k /\ \A i \in 1..k : d.screens[i] \in S
    BY <1>1
  <1>3. \A i \in 1..k : IsNode(nodes[i], n)
    BY <1>1, <1>2 DEF IsNode, OwnScreen
  <1>4. nodes = [i \in 1..k |-> nodes[i]]
    BY <1>2
  <1>5. ToCanvas(d) = [nodes |-> nodes, edges |-> EdgesOf(nodes)]
    BY DEF ToCanvas
  <1> HIDE DEF nodes, k
  <1>6. IsNodes(nodes, n)
    BY <1>2, <1>3, <1>4, NodesMade
  <1> QED
    BY <1>5, <1>6 DEF IsCanvas

\* The draft is loaded, or not, and the page may be left and opened again.
LEMMA LoadStep ==
    ASSUME HistoryInv, draft # Nothing => OwnScreens(draft.screens, nextId),
           LoadDraft \/ LoadFails \/ Reopen \/ HistoryEffect
    PROVE  HistoryInv'
  <1>1. CASE LoadDraft \/ LoadFails
    <2>1. loading' = FALSE /\ due' = TRUE /\ history' = history /\ nextId' = nextId
      BY <1>1 DEF LoadDraft, LoadFails
    <2>2. canvas' = canvas \/ (draft # Nothing /\ canvas' = ToCanvas(draft))
      BY <1>1 DEF LoadDraft, LoadFails
    <2>3. draft # Nothing => IsCanvas(ToCanvas(draft), nextId)
      BY DraftShown
    <2> QED
      BY <2>1, <2>2, <2>3 DEF HistoryInv
  <1>2. CASE Reopen
    <2>1. loading' = TRUE /\ due' = FALSE /\ history' = NoHistory /\ canvas' = NoCanvas /\ nextId' = nextId
      BY <1>2 DEF Reopen
    <2> QED
      BY <2>1, EmptyHistory DEF HistoryInv
  <1>3. CASE HistoryEffect
    <2>1. /\ due /\ ~loading /\ history' = Recorded(history, canvas) /\ due' = FALSE
          /\ canvas' = canvas /\ loading' = loading /\ nextId' = nextId
      BY <1>3 DEF HistoryEffect, Flushed
    <2>2. IsHistory(history, nextId) /\ IsCanvas(canvas, nextId) /\ ~history.applying
      BY DEF HistoryInv
    <2>3. IsHistory(history', nextId) /\ history'.last = canvas /\ ~history'.applying
      BY <2>1, <2>2, RecordedHistory
    <2> QED
      BY <2>1, <2>2, <2>3 DEF HistoryInv
  <1> QED
    BY <1>1, <1>2, <1>3

\* The steps that leave the canvas, its history and the load alone.
LEMMA ElsewhereStep ==
    ASSUME HistoryInv,
           \/ \E k \in DOMAIN items : RequestItem(k)
           \/ InsertFails
           \/ \E chosen : SaveScenario(chosen)
           \/ SaveStart \/ PutDraft \/ UpdateItem \/ CreateItem \/ PutDraftAgain \/ RequestFails
           \/ SelectSomething
           \/ \E a \in Apps : BindApp(a)
    PROVE  HistoryInv'
  <1>1. UNCHANGED <<canvas, history, due, loading, nextId>>
    BY DEF RequestItem, InsertFails, SaveScenario, SaveStart, PutDraft, UpdateItem, CreateItem, PutDraftAgain,
           RequestFails, SelectSomething, Select, BindApp, SaveRest, editorVars
  <1> QED
    BY <1>1, CanvasKept

LEMMA EditStep ==
    ASSUME HistoryInv, EditCanvas
    PROVE  HistoryInv'
  <1>1. \/ AddScreen \/ \E at : AddAppScreen(at)
        \/ \E id : DeleteScreen(id)
        \/ \E id : DrawHotspot(id) \/ Style(id) \/ \E spot : DeleteHotspotOf(id, spot)
        \/ \E to : PickTarget(to)
        \/ \E id : Measure(id) \/ \E at, dragging : MoveNode(id, at, dragging)
        \/ SelectSomething \/ \E a \in Apps : BindApp(a)
        \/ \E to : LinkEnd(to)
        \/ LinkCancel
        \/ \E id, spot : LinkStart(id, spot)
    BY DEF EditCanvas, HandleCanvasDrop, DeleteKey
  <1> QED
    BY <1>1, AddsStep, ScreenDeleted, SpotDrawn, SpotErased, TargetPicked, NodeStyled, NodeMeasured, NodeMoved,
       LinkStep, ElsewhereStep

-----------------------------------------------------------------------------
(* The scenarios that the page reads back *)

IsItem(t) == t = [by |-> t.by, draft |-> t.draft]
IsDraft(d) == d = [screens |-> d.screens, start |-> d.start, app |-> d.app, lib |-> d.lib]
Phases == {"draft", "update", "create", "redraft"}
IsScenario(t) == IsItem(t) /\ IsScreens(t.draft.screens)

\* A draft was saved from this canvas; an item of the library may come from another.
ScenariosInv ==
    /\ \E T : (\A t \in T : IsScenario(t)) /\ items \in Seq(T)
    /\ inserting # Nothing => IsScreens(inserting.screens)
    /\ draft # Nothing => OwnScreens(draft.screens, nextId)
    /\ save # Nothing =>
        /\ save = [at |-> save.at, body |-> save.body] /\ save.at \in Phases /\ IsDraft(save.body)
        /\ OwnScreens(save.body.screens, nextId)

LEMMA DraftIsSomething == ASSUME NEW d, IsDraft(d) PROVE d # Nothing
  <1>1. /\ DOMAIN [screens |-> d.screens, start |-> d.start, app |-> d.app, lib |-> d.lib]
             = {"screens", "start", "app", "lib"}
        /\ DOMAIN Nothing = {"none"}
    BY DEF Nothing
  <1> QED
    BY <1>1 DEF IsDraft

LEMMA SaveIsSomething == ASSUME NEW at, NEW body PROVE [at |-> at, body |-> body] # Nothing
  <1>1. DOMAIN [at |-> at, body |-> body] = {"at", "body"} /\ DOMAIN Nothing = {"none"}
    BY DEF Nothing
  <1> QED
    BY <1>1

\* What a save carries when it was given the id of an item.
LEMMA DraftNamed ==
    ASSUME NEW d, IsDraft(d), NEW lib
    PROVE  /\ [d EXCEPT !.lib = lib] = [screens |-> d.screens, start |-> d.start, app |-> d.app, lib |-> lib]
           /\ IsDraft([d EXCEPT !.lib = lib])
           /\ [d EXCEPT !.lib = lib].screens = d.screens /\ [d EXCEPT !.lib = lib].lib = lib
  <1>1. PICK a, b, c, e : d = [screens |-> a, start |-> b, app |-> c, lib |-> e]
    BY DEF IsDraft
  <1>2. [d EXCEPT !.lib = lib] = [screens |-> a, start |-> b, app |-> c, lib |-> lib]
    BY <1>1
  <1>3. a = d.screens /\ b = d.start /\ c = d.app
    BY <1>1
  <1> QED
    BY <1>2, <1>3 DEF IsDraft

LEMMA SaveNamed ==
    ASSUME NEW s, s = [at |-> s.at, body |-> s.body], IsDraft(s.body), NEW at, NEW lib
    PROVE  [s EXCEPT !.at = at, !.body.lib = lib] = [at |-> at, body |-> [s.body EXCEPT !.lib = lib]]
  <1> DEFINE body == [s.body EXCEPT !.lib = lib]
             r == [s EXCEPT !.at = at]
  <1>1. PICK a, b : s = [at |-> a, body |-> b]
    OBVIOUS
  <1>2. r = [at |-> at, body |-> s.body]
    BY <1>1
  <1>3. [s EXCEPT !.at = at, !.body.lib = lib] = [r EXCEPT !.body = body]
    BY <1>2
  <1> HIDE DEF body, r
  <1>4. [r EXCEPT !.body = body] = [at |-> at, body |-> body]
    BY <1>2
  <1> QED
    BY <1>3, <1>4 DEF body

LEMMA SaveMoved ==
    ASSUME NEW s, s = [at |-> s.at, body |-> s.body], NEW at
    PROVE  [s EXCEPT !.at = at] = [at |-> at, body |-> s.body]
  <1>1. PICK a, b : s = [at |-> a, body |-> b]
    OBVIOUS
  <1> QED
    BY <1>1

\* An item is added to the library, or one of it is rewritten.
LEMMA ScenarioAdded ==
    ASSUME NEW T, \A t \in T : IsScenario(t), NEW these \in Seq(T), NEW by, NEW d, IsScreens(d.screens)
    PROVE  \E S : (\A t \in S : IsScenario(t)) /\ Append(these, [by |-> by, draft |-> d]) \in Seq(S)
  <1> DEFINE t == [by |-> by, draft |-> d]
             S == T \cup {t}
  <1>1. IsScenario(t)
    BY DEF IsScenario, IsItem
  <1> HIDE DEF t
  <1>2. \A u \in S : IsScenario(u)
    BY <1>1
  <1>3. Append(these, t) \in Seq(S)
    OBVIOUS
  <1> HIDE DEF S
  <1> QED
    BY <1>2, <1>3 DEF t

LEMMA ScenarioRewritten ==
    ASSUME NEW T, \A t \in T : IsScenario(t), NEW these \in Seq(T), NEW k, NEW d, IsScreens(d.screens)
    PROVE  \E S : (\A t \in S : IsScenario(t)) /\ [these EXCEPT ![k].draft = d] \in Seq(S)
  <1>1. CASE k \notin DOMAIN these
    <2>1. [these EXCEPT ![k].draft = d] = these
      BY <1>1
    <2> QED
      BY <2>1
  <1>2. CASE k \in DOMAIN these
    <2> DEFINE t == [these[k] EXCEPT !.draft = d]
               S == T \cup {t}
    <2>1. PICK a, b : these[k] = [by |-> a, draft |-> b]
      BY <1>2 DEF IsScenario, IsItem
    <2>2. t = [by |-> a, draft |-> d]
      BY <2>1
    <2>3. [these EXCEPT ![k].draft = d] = [these EXCEPT ![k] = t]
      OBVIOUS
    <2> HIDE DEF t
    <2>4. IsScenario(t)
      BY <2>2 DEF IsScenario, IsItem
    <2>5. \A u \in S : IsScenario(u)
      BY <2>4
    <2>6. [these EXCEPT ![k] = t] \in Seq(S)
      BY <1>2
    <2> HIDE DEF S
    <2> QED
      BY <2>3, <2>5, <2>6
  <1> QED
    BY <1>1, <1>2

LEMMA OwnAreScreens ==
    ASSUME NEW screens, NEW n, OwnScreens(screens, n)
    PROVE  IsScreens(screens)
  BY DEF OwnScreens, OwnScreen, IsScreens, IsSpots

LEMMA CanvasSaved ==
    ASSUME HistoryInv
    PROVE  /\ ToDraft(canvas.nodes) = [screens |-> EachNode(canvas.nodes, ToScreen), start |-> StartOf(canvas.nodes),
                                       app |-> app, lib |-> None]
           /\ OwnScreens(ToDraft(canvas.nodes).screens, nextId)
  <1> DEFINE screens == [i \in DOMAIN canvas.nodes |-> ToScreen(canvas.nodes[i])]
             S == {m \in Range(screens) : OwnScreen(m, nextId)}
  <1>1. PICK A : (\A m \in A : IsNode(m, nextId)) /\ canvas.nodes \in Seq(A)
    BY DEF HistoryInv, IsCanvas, IsNodes
  <1>2. \A i \in DOMAIN canvas.nodes : screens[i] \in S
    BY <1>1 DEF ToScreen, IsNode, OwnScreen, Range
  <1>3. ToDraft(canvas.nodes) = [screens |-> screens, start |-> StartOf(canvas.nodes), app |-> app, lib |-> None]
    BY DEF ToDraft, EachNode
  <1>4. DOMAIN canvas.nodes = 1..Len(canvas.nodes) /\ Len(canvas.nodes) \in Nat
    BY <1>1
  <1>5. screens = [i \in 1..Len(canvas.nodes) |-> screens[i]]
    BY <1>4
  <1> HIDE DEF screens
  <1>6. \A m \in S : OwnScreen(m, nextId)
    OBVIOUS
  <1> HIDE DEF S
  <1>7. screens \in Seq(S)
    <2>1. screens \in [1..Len(canvas.nodes) -> S]
      BY <1>2, <1>4, <1>5
    <2> QED
      BY <1>4, <2>1
  <1> QED
    BY <1>3, <1>6, <1>7 DEF OwnScreens, screens, EachNode

LEMMA SelectionSaved ==
    ASSUME HistoryInv, NEW chosen
    PROVE  IsScreens(Selection(ToDraft(canvas.nodes), chosen).screens)
  <1> DEFINE d == ToDraft(canvas.nodes)
             kept == Kept(d.screens, chosen)
             Cut(s) == [s EXCEPT !.spots = {IF t.to \in chosen THEN t ELSE [t EXCEPT !.to = None] : t \in @}]
             cuts == [i \in DOMAIN kept |-> Cut(kept[i])]
             C == {m \in Range(cuts) : IsFiniteSet(m.spots)}
  <1>1. PICK S : (\A m \in S : OwnScreen(m, nextId)) /\ d.screens \in Seq(S)
    BY CanvasSaved DEF OwnScreens
  <1>2. d = [screens |-> d.screens, start |-> d.start, app |-> d.app, lib |-> d.lib]
    BY CanvasSaved
  <1>3. Selection(d, chosen).screens = cuts
    <2> DEFINE start == IF d.start \in chosen THEN d.start ELSE Head(kept).id
    <2>1. Selection(d, chosen) = [d EXCEPT !.screens = cuts, !.start = start]
      BY DEF Selection
    <2> HIDE DEF cuts, start, d
    <2>2. PICK a, b, c, e : d = [screens |-> a, start |-> b, app |-> c, lib |-> e]
      BY <1>2
    <2> QED
      BY <2>1, <2>2
  <1> HIDE DEF d
  <1>4. kept \in Seq({m \in S : m.id \in chosen})
    BY <1>1, KeptScreens
  <1> HIDE DEF kept
  <1>5. \A i \in DOMAIN kept : OwnScreen(kept[i], nextId)
    BY <1>1, <1>4
  <1>6. ASSUME NEW i \in DOMAIN kept PROVE IsFiniteSet(Cut(kept[i]).spots)
    <2> DEFINE m == kept[i]
               Aimed(t) == IF t.to \in chosen THEN t ELSE [t EXCEPT !.to = None]
               aimed == {Aimed(t) : t \in m.spots}
               f == [t \in m.spots |-> Aimed(t)]
    <2>1. IsFiniteSet(m.spots) /\ m = [id |-> m.id, styled |-> m.styled, end |-> m.end, spots |-> m.spots]
      BY <1>5 DEF OwnScreen, IsSpots
    <2>2. f \in Surjection(m.spots, aimed)
      BY DEF Surjection
    <2>3. Cut(m) = [m EXCEPT !.spots = aimed]
      OBVIOUS
    <2> HIDE DEF m, f, aimed, Cut
    <2>4. IsFiniteSet(aimed)
      BY <2>1, <2>2, FS_Surjection
    <2>5. PICK a, b, c, e : m = [id |-> a, styled |-> b, end |-> c, spots |-> e]
      BY <2>1
    <2>6. Cut(m).spots = aimed
      BY <2>3, <2>5
    <2> QED
      BY <2>4, <2>6 DEF m
  <1> HIDE DEF Cut
  <1>7. \A i \in DOMAIN kept : cuts[i] \in C
    BY <1>6 DEF Range
  <1>8. DOMAIN kept = 1..Len(kept) /\ Len(kept) \in Nat
    BY <1>4
  <1>9. cuts = [i \in 1..Len(kept) |-> cuts[i]] /\ DOMAIN cuts = 1..Len(kept)
    BY <1>8
  <1>10. \A m \in C : IsFiniteSet(m.spots)
    OBVIOUS
  <1> HIDE DEF cuts, C
  <1>11. cuts \in Seq(C)
    <2>1. cuts \in [1..Len(kept) -> C]
      BY <1>7, <1>8, <1>9
    <2> QED
      BY <1>8, <2>1
  <1> QED
    BY <1>3, <1>10, <1>11 DEF IsScreens, d

\* The steps that leave the library, the draft and the save alone.
LEMMA ScenariosKept ==
    ASSUME ScenariosInv, nextId \in Nat, nextId' \in Nat, nextId <= nextId',
           UNCHANGED <<items, draft, save>>, inserting' = inserting \/ inserting' = Nothing
    PROVE  ScenariosInv'
  <1>1. \A screens : OwnScreens(screens, nextId) => OwnScreens(screens, nextId')
    BY NodesGrow
  <1> QED
    BY <1>1 DEF ScenariosInv

LEMMA ScenarioRequested ==
    ASSUME ScenariosInv, NEW k \in DOMAIN items, RequestItem(k)
    PROVE  ScenariosInv'
  <1>1. UNCHANGED <<items, draft, save, nextId>> /\ inserting' = items[k].draft
    BY DEF RequestItem
  <1>2. IsScreens(items[k].draft.screens)
    BY DEF ScenariosInv, IsScenario
  <1> QED
    BY <1>1, <1>2 DEF ScenariosInv

LEMMA SelectionAdded ==
    ASSUME ScenariosInv, HistoryInv, NEW chosen, SaveScenario(chosen)
    PROVE  ScenariosInv'
  <1>1. UNCHANGED <<inserting, draft, save, nextId>>
    BY DEF SaveScenario, editorVars
  <1> DEFINE by == "panel"
             d == Selection(ToDraft(canvas.nodes), chosen)
  <1>2. items' = Append(items, [by |-> by, draft |-> d])
    BY DEF SaveScenario
  <1>3. IsScreens(d.screens)
    BY SelectionSaved
  <1> HIDE DEF by, d
  <1>4. \E S : (\A t \in S : IsScenario(t)) /\ items' \in Seq(S)
    BY <1>2, <1>3, ScenarioAdded DEF ScenariosInv
  <1> QED
    BY <1>1, <1>4 DEF ScenariosInv

LEMMA SaveStarted ==
    ASSUME ScenariosInv, HistoryInv, SaveStart
    PROVE  ScenariosInv'
  <1> DEFINE d == ToDraft(canvas.nodes)
             body == [d EXCEPT !.lib = libraryItemId]
             at == "draft"
  <1>1. UNCHANGED <<items, inserting, draft, nextId>> /\ save' = [at |-> at, body |-> body]
    BY DEF SaveStart
  <1>2. IsDraft(d) /\ OwnScreens(d.screens, nextId) /\ at \in Phases
    BY CanvasSaved DEF IsDraft, Phases
  <1> HIDE DEF d, at
  <1>3. IsDraft(body) /\ body.screens = d.screens
    BY <1>2, DraftNamed
  <1> HIDE DEF body
  <1>4. save'.body = body /\ save'.at = at /\ save' = [at |-> save'.at, body |-> save'.body]
    BY <1>1
  <1> QED
    BY <1>1, <1>2, <1>3, <1>4 DEF ScenariosInv

\* What is saved is a scenario, in the library as well.
LEMMA BodyOfSave ==
    ASSUME ScenariosInv, save # Nothing
    PROVE  /\ save = [at |-> save.at, body |-> save.body] /\ save.at \in Phases /\ IsDraft(save.body)
           /\ OwnScreens(save.body.screens, nextId) /\ IsScreens(save.body.screens)
  BY OwnAreScreens DEF ScenariosInv

LEMMA BodyStored ==
    ASSUME ScenariosInv, save # Nothing
    PROVE  /\ \A by : \E S : (\A t \in S : IsScenario(t)) /\ Append(items, [by |-> by, draft |-> save.body]) \in Seq(S)
           /\ \A k : \E S : (\A t \in S : IsScenario(t)) /\ [items EXCEPT ![k].draft = save.body] \in Seq(S)
  <1>1. PICK T : (\A t \in T : IsScenario(t)) /\ items \in Seq(T)
    BY DEF ScenariosInv
  <1>2. IsScreens(save.body.screens)
    BY BodyOfSave
  <1> QED
    BY <1>1, <1>2, ScenarioAdded, ScenarioRewritten

\* A request of the save that is answered, fails or is left behind.
LEMMA RequestOfSave ==
    ASSUME ScenariosInv, save # Nothing, UNCHANGED nextId, inserting' = inserting \/ inserting' = Nothing,
           UNCHANGED draft \/ draft' = save.body,
           \/ UNCHANGED items
           \/ \E by : items' = Append(items, [by |-> by, draft |-> save.body])
           \/ \E k : items' = [items EXCEPT ![k].draft = save.body],
           \/ save' = Nothing
           \/ \E at \in Phases : save' = [at |-> at, body |-> save.body]
           \/ \E at \in Phases : \E lib : save' = [at |-> at, body |-> [save.body EXCEPT !.lib = lib]]
    PROVE  ScenariosInv'
  <1>1. IsDraft(save.body) /\ OwnScreens(save.body.screens, nextId)
    BY BodyOfSave
  <1>2. \E S : (\A t \in S : IsScenario(t)) /\ items' \in Seq(S)
    <2>1. CASE UNCHANGED items
      BY <2>1 DEF ScenariosInv
    <2>2. ASSUME NEW by, items' = Append(items, [by |-> by, draft |-> save.body])
          PROVE  \E S : (\A t \in S : IsScenario(t)) /\ items' \in Seq(S)
      BY <2>2, BodyStored
    <2>3. ASSUME NEW k, items' = [items EXCEPT ![k].draft = save.body]
          PROVE  \E S : (\A t \in S : IsScenario(t)) /\ items' \in Seq(S)
      BY <2>3, BodyStored
    <2> QED
      BY <2>1, <2>2, <2>3
  <1>3. draft' # Nothing => OwnScreens(draft'.screens, nextId')
    BY <1>1 DEF ScenariosInv
  <1>4. inserting' # Nothing => IsScreens(inserting'.screens)
    BY DEF ScenariosInv
  <1>5. save' = Nothing \/ /\ save' = [at |-> save'.at, body |-> save'.body]
                           /\ save'.at \in Phases /\ IsDraft(save'.body)
                           /\ OwnScreens(save'.body.screens, nextId')
    <2>1. ASSUME NEW at \in Phases, save' = [at |-> at, body |-> save.body]
          PROVE  /\ save' = [at |-> save'.at, body |-> save'.body]
                 /\ save'.at \in Phases /\ IsDraft(save'.body)
                 /\ OwnScreens(save'.body.screens, nextId')
      BY <1>1, <2>1
    <2>2. ASSUME NEW at \in Phases, NEW lib, save' = [at |-> at, body |-> [save.body EXCEPT !.lib = lib]]
          PROVE  /\ save' = [at |-> save'.at, body |-> save'.body]
                 /\ save'.at \in Phases /\ IsDraft(save'.body)
                 /\ OwnScreens(save'.body.screens, nextId')
      <3> DEFINE body == [save.body EXCEPT !.lib = lib]
      <3>1. IsDraft(body) /\ body.screens = save.body.screens
        BY <1>1, DraftNamed
      <3> HIDE DEF body
      <3>2. save' = [at |-> at, body |-> body]
        BY <2>2 DEF body
      <3> QED
        BY <1>1, <3>1, <3>2
    <2> QED
      BY <2>1, <2>2
  <1> QED
    BY <1>2, <1>3, <1>4, <1>5 DEF ScenariosInv

LEMMA RequestCarried ==
    ASSUME CarriedOut, save.at \in Phases
    PROVE  /\ UNCHANGED draft \/ draft' = save.body
           /\ \/ UNCHANGED items
              \/ \E by : items' = Append(items, [by |-> by, draft |-> save.body])
              \/ \E k : items' = [items EXCEPT ![k].draft = save.body]
  BY DEF CarriedOut, Phases

LEMMA RequestStep ==
    ASSUME ScenariosInv, PutDraft \/ UpdateItem \/ CreateItem \/ PutDraftAgain \/ RequestFails
    PROVE  ScenariosInv'
  <1>1. save # Nothing /\ UNCHANGED <<nextId, inserting>>
    BY DEF PutDraft, UpdateItem, CreateItem, PutDraftAgain, RequestFails, SaveRest
  <1>2. save = [at |-> save.at, body |-> save.body] /\ save.at \in Phases /\ IsDraft(save.body)
    BY <1>1, BodyOfSave
  <1>3. CASE PutDraft
    <2> DEFINE at == IF save.body.lib # None THEN "update" ELSE "create"
    <2>1. draft' = save.body /\ UNCHANGED items /\ save' = [save EXCEPT !.at = at] /\ at \in Phases
      BY <1>3 DEF PutDraft, Phases
    <2> HIDE DEF at
    <2>2. save' = [at |-> at, body |-> save.body]
      BY <1>2, <2>1, SaveMoved
    <2> QED
      BY <1>1, <2>1, <2>2, RequestOfSave
  <1>4. CASE UpdateItem
    <2>1. UNCHANGED draft /\ items' = [items EXCEPT ![save.body.lib].draft = save.body] /\ save' = Nothing
      BY <1>4 DEF UpdateItem, Ended
    <2> QED
      BY <1>1, <2>1, RequestOfSave
  <1>5. CASE CreateItem
    <2> DEFINE by == "save"
               at == "redraft"
               lib == Len(items) + 1
    <2>1. /\ UNCHANGED draft /\ items' = Append(items, [by |-> by, draft |-> save.body])
          /\ save' = [save EXCEPT !.at = at, !.body.lib = lib] /\ at \in Phases
      BY <1>5 DEF CreateItem, Phases
    <2> HIDE DEF by, at, lib
    <2>2. save' = [at |-> at, body |-> [save.body EXCEPT !.lib = lib]]
      BY <1>2, <2>1, SaveNamed
    <2> QED
      BY <1>1, <2>1, <2>2, RequestOfSave
  <1>6. CASE PutDraftAgain
    <2>1. draft' = save.body /\ UNCHANGED items /\ save' = Nothing
      BY <1>6 DEF PutDraftAgain, Ended
    <2> QED
      BY <1>1, <2>1, RequestOfSave
  <1>7. CASE RequestFails
    <2>1. UNCHANGED <<draft, items>> \/ CarriedOut
      BY <1>7 DEF RequestFails
    <2>2. save' = Nothing \/ \E at \in Phases : save' = [at |-> at, body |-> save.body]
      <3> DEFINE create == "create"
      <3>1. create \in Phases /\ (save' = Nothing \/ save' = [save EXCEPT !.at = create])
        BY <1>7 DEF RequestFails, Ended, Phases
      <3> HIDE DEF create
      <3> QED
        BY <1>2, <3>1, SaveMoved
    <2>3. /\ UNCHANGED draft \/ draft' = save.body
          /\ \/ UNCHANGED items
             \/ \E by : items' = Append(items, [by |-> by, draft |-> save.body])
             \/ \E k : items' = [items EXCEPT ![k].draft = save.body]
      BY <1>2, <2>1, RequestCarried
    <2> QED
      BY <1>1, <2>2, <2>3, RequestOfSave
  <1> QED
    BY <1>3, <1>4, <1>5, <1>6, <1>7

LEMMA PageReopened ==
    ASSUME ScenariosInv, Reopen
    PROVE  ScenariosInv'
  <1>1. UNCHANGED nextId /\ save' = Nothing /\ inserting' = Nothing
    BY DEF Reopen
  <1>2. CASE save = Nothing
    <2>1. UNCHANGED <<draft, items>>
      BY <1>2 DEF Reopen
    <2> QED
      BY <1>1, <2>1 DEF ScenariosInv
  <1>3. CASE save # Nothing
    <2>1. UNCHANGED <<draft, items>> \/ CarriedOut
      BY <1>3 DEF Reopen
    <2>2. /\ UNCHANGED draft \/ draft' = save.body
          /\ \/ UNCHANGED items
             \/ \E by : items' = Append(items, [by |-> by, draft |-> save.body])
             \/ \E k : items' = [items EXCEPT ![k].draft = save.body]
      BY <1>3, <2>1, BodyOfSave, RequestCarried
    <2> QED
      BY <1>1, <1>3, <2>2, RequestOfSave
  <1> QED
    BY <1>2, <1>3

-----------------------------------------------------------------------------
(* The canvas with the scenarios *)

CanvasInv == HistoryInv /\ ScenariosInv

LEMMA CanvasInitially == CanvasInit => CanvasInv
  <1> SUFFICES ASSUME CanvasInit PROVE CanvasInv
    OBVIOUS
  <1>1. HistoryInv
    <2>1. canvas = NoCanvas /\ history = NoHistory /\ due = FALSE /\ loading = TRUE /\ nextId = 1
      BY DEF CanvasInit
    <2>2. IsCanvas(canvas, nextId) /\ IsHistory(history, nextId) /\ ~history.applying
      BY <2>1, EmptyHistory
    <2>3. nextId \in Nat \ {0}
      BY <2>1
    <2>4. due \in BOOLEAN /\ loading \in BOOLEAN /\ ~(~due /\ ~loading)
      BY <2>1
    <2> QED
      BY <2>1, <2>2, <2>3, <2>4 DEF HistoryInv
  <1>2. items = Given /\ inserting = Nothing /\ draft = Nothing /\ save = Nothing
    BY DEF CanvasInit
  <1> DEFINE T == Range(Given)
  <1>3. Given \in Seq(T)
    BY CanvasAssumption
  <1>4. ASSUME NEW t \in T PROVE IsScenario(t)
    <2> DEFINE S == Range(t.draft.screens)
    <2>1. /\ t = [by |-> "panel", draft |-> t.draft] /\ t.draft.screens \in Seq(S)
          /\ \A m \in S : IsFiniteSet(m.spots)
      BY CanvasAssumption
    <2>2. IsItem(t)
      BY <2>1 DEF IsItem
    <2> HIDE DEF S, T
    <2>3. IsScreens(t.draft.screens)
      BY <2>1 DEF IsScreens
    <2> QED
      BY <2>2, <2>3 DEF IsScenario
  <1> HIDE DEF T
  <1>5. ScenariosInv
    BY <1>2, <1>3, <1>4 DEF ScenariosInv
  <1> QED
    BY <1>1, <1>5 DEF CanvasInv

LEMMA CanvasInductive == CanvasInv /\ [CanvasNext]_canvasVars => CanvasInv'
  <1> SUFFICES ASSUME CanvasInv, [CanvasNext]_canvasVars PROVE CanvasInv'
    OBVIOUS
  <1>0. HistoryInv /\ ScenariosInv /\ nextId \in Nat
    BY DEF CanvasInv, HistoryInv
  <1>a. ASSUME HistoryInv', UNCHANGED <<items, draft, save>>, inserting' = inserting \/ inserting' = Nothing,
               nextId <= nextId'
        PROVE  CanvasInv'
    BY <1>0, <1>a, ScenariosKept DEF CanvasInv, HistoryInv
  <1>1. CASE UNCHANGED canvasVars
    BY <1>0, <1>1, <1>a, CanvasKept DEF canvasVars
  <1>2. CASE EditCanvas
    <2>1. UNCHANGED <<items, draft, save, inserting>> /\ (nextId' = nextId \/ nextId' = nextId + 1)
      BY <1>2
      DEF EditCanvas, HandleCanvasDrop, DeleteKey, AddScreen, AddAppScreen, DeleteScreen, Measure, DrawHotspot, Style,
          MoveNode, PickTarget, DeleteHotspotOf, SelectSomething, Select, LinkStart, LinkEnd, LinkCancel, BindApp,
          Others, LinkRest
    <2> QED
      BY <1>0, <1>2, <1>a, <2>1, EditStep
  <1>3. CASE Undo \/ Redo \/ HistoryEffect \/ LoadDraft \/ LoadFails \/ InsertFails
    <2>1. UNCHANGED <<items, draft, save, nextId>> /\ (inserting' = inserting \/ inserting' = Nothing)
      BY <1>3 DEF Undo, Redo, Apply, HistoryEffect, LoadDraft, LoadFails, InsertFails
    <2>2. HistoryInv'
      BY <1>0, <1>3, UndoRedoStep, LoadStep, ElsewhereStep DEF ScenariosInv
    <2> QED
      BY <1>0, <1>a, <2>1, <2>2
  <1>4. ASSUME NEW at, Insert(at) PROVE CanvasInv'
    <2>1. UNCHANGED <<items, draft, save>> /\ inserting' = Nothing
      BY <1>4 DEF Insert
    <2>2. HistoryInv' /\ nextId <= nextId'
      BY <1>0, <1>4, InsertStep DEF ScenariosInv
    <2> QED
      BY <1>a, <2>1, <2>2
  <1>5. CASE \/ \E k \in DOMAIN items : RequestItem(k)
             \/ \E chosen : SaveScenario(chosen)
             \/ SaveStart \/ PutDraft \/ UpdateItem \/ CreateItem \/ PutDraftAgain \/ RequestFails
    <2>1. HistoryInv'
      BY <1>0, <1>5, ElsewhereStep
    <2>2. ScenariosInv'
      BY <1>0, <1>5, ScenarioRequested, SelectionAdded, SaveStarted, RequestStep
    <2> QED
      BY <2>1, <2>2 DEF CanvasInv
  <1>6. CASE Reopen
    <2>1. HistoryInv'
      BY <1>0, <1>6, LoadStep DEF ScenariosInv
    <2> QED
      BY <1>0, <1>6, <2>1, PageReopened DEF CanvasInv
  <1> QED
    BY <1>1, <1>2, <1>3, <1>4, <1>5, <1>6 DEF CanvasNext

\* Whatever edits, measurements, answers, undo and redo overlap, the history knows the
\* canvas once its effect has run (the history effect of SimulationEditor.tsx,
\* applyHistorySnapshot, handleUndo, handleRedo).
THEOREM HistoryAlwaysFollows == CanvasSpec => []HistoryFollows
  <1>1. CanvasInv => HistoryFollows
    BY DEF CanvasInv, HistoryInv, HistoryFollows
  <1> QED
    BY <1>1, CanvasInitially, CanvasInductive, PTL DEF CanvasSpec

\* A hotspot of the canvas leads to a screen that this canvas has or had, also after
\* scenarios of the library were inserted, a draft was loaded and steps were undone
\* (insertScenarioDraft, updateHotspotTargetLink, handleUpdateHotspot).
THEOREM LinksAlwaysInside == CanvasSpec => []LinksStayInside
  <1>1. CanvasInv => LinksStayInside
    <2> SUFFICES ASSUME HistoryInv, NEW i \in DOMAIN canvas.nodes, NEW s \in canvas.nodes[i].spots, s.to # None
                 PROVE  s.to \in 1..(nextId - 1)
      BY DEF CanvasInv, LinksStayInside, SpotsOf
    <2> QED
      BY CanvasNodes DEF IsNode, IsSpots
  <1> QED
    BY <1>1, CanvasInitially, CanvasInductive, PTL DEF CanvasSpec

-----------------------------------------------------------------------------
(* The save: the draft of the scope and its item of the library *)

SavedItems == {k \in DOMAIN items : items[k].by = "save"}

\* The draft names the one item that saves have made, which holds its screens.
KeptTogether ==
    \/ draft = Nothing /\ SavedItems = {}
    \/ /\ draft # Nothing /\ draft.lib \in DOMAIN items /\ SavedItems = {draft.lib}
       /\ items[draft.lib].draft.screens = draft.screens

DraftLib == IF draft = Nothing THEN None ELSE draft.lib

NotSaving ==
    save = Nothing /\ KeptTogether /\ libraryItemId = IF loading THEN None ELSE DraftLib
PuttingDraft ==
    /\ save.at = "draft" /\ KeptTogether /\ ~loading
    /\ libraryItemId = DraftLib /\ save.body.lib = libraryItemId
Updating ==
    /\ save.at = "update" /\ draft = save.body /\ ~loading
    /\ draft.lib \in DOMAIN items /\ SavedItems = {draft.lib} /\ libraryItemId = draft.lib
CreatingItem ==
    /\ save.at = "create" /\ draft = save.body /\ ~loading
    /\ draft.lib = None /\ SavedItems = {} /\ libraryItemId = None
PuttingAgain ==
    /\ save.at = "redraft" /\ ~loading
    /\ save.body.lib \in DOMAIN items /\ SavedItems = {save.body.lib} /\ libraryItemId = save.body.lib
    /\ items[save.body.lib].draft.screens = save.body.screens

\* Nothing is said of a history with a failure.
SaveInv ==
    ~faults =>
        /\ \E T : (\A t \in T : IsItem(t)) /\ items \in Seq(T)
        /\ \/ NotSaving
           \/ /\ save # Nothing /\ save = [at |-> save.at, body |-> save.body] /\ IsDraft(save.body)
              /\ PuttingDraft \/ Updating \/ CreatingItem \/ PuttingAgain

\* Something is added to the library, or an item of it is rewritten.
LEMMA ItemAdded ==
    ASSUME NEW T, \A t \in T : IsItem(t), items \in Seq(T), NEW by, NEW body,
           items' = Append(items, [by |-> by, draft |-> body])
    PROVE  /\ \E S : (\A t \in S : IsItem(t)) /\ items' \in Seq(S)
           /\ Len(items) \in Nat /\ DOMAIN items = 1..Len(items) /\ DOMAIN items' = 1..(Len(items) + 1)
           /\ \A k \in DOMAIN items : items'[k] = items[k]
           /\ items'[Len(items) + 1].by = by /\ items'[Len(items) + 1].draft = body
           /\ SavedItems' = SavedItems \cup {k \in {Len(items) + 1} : by = "save"}
  <1> DEFINE t == [by |-> by, draft |-> body]
             S == T \cup {t}
  <1>1. t.by = by /\ t.draft = body /\ IsItem(t)
    BY DEF IsItem
  <1> HIDE DEF t
  <1>2. (\A u \in S : IsItem(u)) /\ items \in Seq(S) /\ t \in S
    BY <1>1
  <1> HIDE DEF S
  <1>3. items' = Append(items, t) /\ items' \in Seq(S)
    BY <1>2 DEF t
  <1>4. /\ Len(items) \in Nat /\ DOMAIN items = 1..Len(items) /\ DOMAIN items' = 1..(Len(items) + 1)
        /\ \A k \in DOMAIN items : items'[k] = items[k]
        /\ items'[Len(items) + 1] = t
    BY <1>2, <1>3
  <1>5. SavedItems' = SavedItems \cup {k \in {Len(items) + 1} : by = "save"}
    BY <1>1, <1>4 DEF SavedItems
  <1> QED
    BY <1>1, <1>2, <1>3, <1>4, <1>5

LEMMA ItemRewritten ==
    ASSUME NEW T, \A t \in T : IsItem(t), items \in Seq(T), NEW k \in DOMAIN items, NEW body,
           items' = [items EXCEPT ![k].draft = body]
    PROVE  /\ \E S : (\A t \in S : IsItem(t)) /\ items' \in Seq(S)
           /\ DOMAIN items' = DOMAIN items /\ SavedItems' = SavedItems /\ items'[k].draft = body
  <1> DEFINE t == [items[k] EXCEPT !.draft = body]
             S == T \cup {t}
  <1>1. items[k] \in T
    OBVIOUS
  <1>2. t = [by |-> items[k].by, draft |-> body]
    <2>1. PICK a, b : items[k] = [by |-> a, draft |-> b]
      BY <1>1 DEF IsItem
    <2>2. t = [items[k] EXCEPT !.draft = body]
      OBVIOUS
    <2> HIDE DEF t
    <2> QED
      BY <2>1, <2>2
  <1>3. items' = [items EXCEPT ![k] = t]
    OBVIOUS
  <1> HIDE DEF t
  <1>4. IsItem(t) /\ t.by = items[k].by /\ t.draft = body
    BY <1>2 DEF IsItem
  <1>5. (\A u \in S : IsItem(u)) /\ items \in Seq(S) /\ t \in S
    BY <1>4
  <1> HIDE DEF S
  <1>6. items' \in Seq(S) /\ DOMAIN items' = DOMAIN items /\ items'[k] = t
        /\ \A i \in DOMAIN items : i # k => items'[i] = items[i]
    BY <1>3, <1>5
  <1>7. SavedItems' = SavedItems
    BY <1>4, <1>6 DEF SavedItems
  <1> QED
    BY <1>4, <1>5, <1>6, <1>7

LEMMA SaveKept ==
    ASSUME SaveInv, UNCHANGED <<items, draft, save, libraryItemId, loading, faults>>
    PROVE  SaveInv'
  BY DEF SaveInv, NotSaving, PuttingDraft, Updating, CreatingItem, PuttingAgain, KeptTogether, DraftLib, SavedItems,
         IsItem, IsDraft

LEMMA ScenarioSaved ==
    ASSUME SaveInv, NEW chosen, SaveScenario(chosen)
    PROVE  SaveInv'
  <1> SUFFICES ASSUME ~faults' PROVE SaveInv'
    BY DEF SaveInv
  <1>1. PICK body : items' = Append(items, [by |-> "panel", draft |-> body])
    BY DEF SaveScenario
  <1>2. UNCHANGED <<draft, save, libraryItemId, loading, faults>>
    BY DEF SaveScenario, editorVars
  <1>3. PICK T : (\A t \in T : IsItem(t)) /\ items \in Seq(T)
    BY <1>2 DEF SaveInv
  <1>4. /\ \E S : (\A t \in S : IsItem(t)) /\ items' \in Seq(S)
        /\ DOMAIN items \subseteq DOMAIN items' /\ SavedItems' = SavedItems
        /\ \A k \in DOMAIN items : items'[k] = items[k]
    <2> DEFINE by == "panel"
    <2>1. items' = Append(items, [by |-> by, draft |-> body]) /\ by # "save"
      BY <1>1
    <2> HIDE DEF by
    <2> QED
      BY <1>3, <2>1, ItemAdded
  <1>5. /\ KeptTogether => KeptTogether'
        /\ DraftLib' = DraftLib
    BY <1>2, <1>4 DEF KeptTogether, DraftLib
  <1>6. /\ NotSaving => NotSaving'
        /\ PuttingDraft => PuttingDraft'
        /\ Updating => Updating'
        /\ CreatingItem => CreatingItem'
        /\ PuttingAgain => PuttingAgain'
    BY <1>2, <1>4, <1>5 DEF NotSaving, PuttingDraft, Updating, CreatingItem, PuttingAgain
  <1> QED
    BY <1>2, <1>4, <1>6 DEF SaveInv, IsDraft

LEMMA DraftLoaded ==
    ASSUME SaveInv, LoadDraft
    PROVE  SaveInv'
  <1> SUFFICES ASSUME ~faults' PROVE SaveInv'
    BY DEF SaveInv
  <1>1. /\ loading /\ loading' = FALSE /\ UNCHANGED <<items, draft, save, faults>>
        /\ IF draft = Nothing THEN libraryItemId' = libraryItemId ELSE libraryItemId' = draft.lib
    BY DEF LoadDraft
  <1>2. NotSaving /\ libraryItemId = None
    BY <1>1 DEF SaveInv, NotSaving, PuttingDraft, Updating, CreatingItem, PuttingAgain
  <1>3. NotSaving'
    BY <1>1, <1>2 DEF NotSaving, KeptTogether, DraftLib, SavedItems
  <1> QED
    BY <1>1, <1>3 DEF SaveInv

\* A failure that ends the claim, or the page that is opened anew.
LEMMA FailureStep ==
    ASSUME SaveInv, LoadFails \/ RequestFails \/ Reopen
    PROVE  SaveInv'
  <1>1. CASE LoadFails \/ RequestFails
    BY <1>1 DEF LoadFails, RequestFails, Fault, SaveInv
  <1>2. CASE Reopen /\ save # Nothing
    BY <1>2 DEF Reopen, Fault, SaveInv
  <1>3. CASE Reopen /\ save = Nothing
    <2> SUFFICES ASSUME ~faults' PROVE SaveInv'
      BY DEF SaveInv
    <2>1. /\ UNCHANGED <<items, draft, faults>> /\ save' = Nothing /\ libraryItemId' = None /\ loading' = TRUE
      BY <1>3 DEF Reopen
    <2>2. KeptTogether
      BY <1>3, <2>1 DEF SaveInv, NotSaving
    <2>3. NotSaving'
      BY <2>1, <2>2 DEF NotSaving, KeptTogether, SavedItems
    <2> QED
      BY <2>1, <2>3 DEF SaveInv
  <1> QED
    BY <1>1, <1>2, <1>3

LEMMA SaveStartStep ==
    ASSUME SaveInv, SaveStart
    PROVE  SaveInv'
  <1> SUFFICES ASSUME ~faults' PROVE SaveInv'
    BY DEF SaveInv
  <1> DEFINE body == [ToDraft(canvas.nodes) EXCEPT !.lib = libraryItemId]
  <1>1. /\ save = Nothing /\ ~loading /\ save' = [at |-> "draft", body |-> body]
        /\ UNCHANGED <<items, draft, libraryItemId, loading, faults>>
    BY DEF SaveStart
  <1>2. NotSaving
    BY <1>1 DEF SaveInv
  <1>3. IsDraft(ToDraft(canvas.nodes))
    BY DEF ToDraft, IsDraft
  <1>6. IsDraft(body) /\ body.lib = libraryItemId
    BY <1>3, DraftNamed
  <1> HIDE DEF body
  <1>7. save'.at = "draft" /\ save'.body = body /\ save' # Nothing
    BY <1>1, SaveIsSomething
  <1>8. PuttingDraft'
    BY <1>1, <1>2, <1>6, <1>7 DEF NotSaving, PuttingDraft, KeptTogether, DraftLib, SavedItems
  <1> QED
    BY <1>1, <1>6, <1>7, <1>8 DEF SaveInv

\* The phase of a save that is under way follows from what it is at.
LEMMA PhaseOfSave ==
    ASSUME SaveInv, ~faults, save # Nothing
    PROVE  /\ save = [at |-> save.at, body |-> save.body] /\ IsDraft(save.body)
           /\ save.at = "draft" => PuttingDraft
           /\ save.at = "update" => Updating
           /\ save.at = "create" => CreatingItem
           /\ save.at = "redraft" => PuttingAgain
  BY DEF SaveInv, NotSaving, PuttingDraft, Updating, CreatingItem, PuttingAgain

LEMMA PutDraftStep ==
    ASSUME SaveInv, PutDraft
    PROVE  SaveInv'
  <1> SUFFICES ASSUME ~faults' PROVE SaveInv'
    BY DEF SaveInv
  <1> DEFINE at == IF save.body.lib # None THEN "update" ELSE "create"
  <1>1. /\ save # Nothing /\ save.at = "draft" /\ draft' = save.body /\ libraryItemId' = save.body.lib
        /\ save' = [save EXCEPT !.at = at] /\ UNCHANGED <<items, loading, faults>>
    BY DEF PutDraft, SaveRest
  <1>2. PuttingDraft /\ save = [at |-> save.at, body |-> save.body] /\ IsDraft(save.body)
    BY <1>1, PhaseOfSave
  <1> HIDE DEF at
  <1>3. save' = [at |-> at, body |-> save.body]
    <2>1. PICK a, b : save = [at |-> a, body |-> b]
      BY <1>2
    <2> QED
      BY <1>1, <2>1
  <1>4. save'.at = at /\ save'.body = save.body /\ save' # Nothing
    BY <1>3, SaveIsSomething
  <1>5. SavedItems' = SavedItems
    BY <1>1 DEF SavedItems
  <1>6. CASE save.body.lib = None
    <2>1. SavedItems = {}
      <3>1. PICK T : items \in Seq(T)
        BY <1>1 DEF SaveInv
      <3>2. None \notin DOMAIN items
        BY <3>1, CanvasAssumption
      <3> QED
        BY <1>2, <1>6, <3>2 DEF PuttingDraft, KeptTogether, DraftLib
    <2>2. CreatingItem'
      BY <1>1, <1>2, <1>4, <1>5, <1>6, <2>1 DEF CreatingItem, PuttingDraft, at
    <2> QED
      BY <1>1, <1>2, <1>3, <1>4, <2>2 DEF SaveInv
  <1>7. CASE save.body.lib # None
    <2>1. draft # Nothing /\ save.body.lib = draft.lib /\ draft.lib \in DOMAIN items /\ SavedItems = {draft.lib}
      BY <1>2, <1>7 DEF PuttingDraft, KeptTogether, DraftLib
    <2>2. Updating'
      BY <1>1, <1>2, <1>4, <1>5, <1>7, <2>1 DEF Updating, PuttingDraft, at
    <2> QED
      BY <1>1, <1>2, <1>3, <1>4, <2>2 DEF SaveInv
  <1> QED
    BY <1>6, <1>7

LEMMA UpdateItemStep ==
    ASSUME SaveInv, UpdateItem
    PROVE  SaveInv'
  <1> SUFFICES ASSUME ~faults' PROVE SaveInv'
    BY DEF SaveInv
  <1>1. /\ save # Nothing /\ save.at = "update" /\ items' = [items EXCEPT ![save.body.lib].draft = save.body]
        /\ save' = Nothing /\ UNCHANGED <<draft, libraryItemId, loading, faults>>
    BY DEF UpdateItem, Ended, SaveRest
  <1>2. Updating /\ IsDraft(save.body)
    BY <1>1, PhaseOfSave
  <1>3. PICK T : (\A t \in T : IsItem(t)) /\ items \in Seq(T)
    BY <1>1 DEF SaveInv
  <1>4. /\ \E S : (\A t \in S : IsItem(t)) /\ items' \in Seq(S)
        /\ DOMAIN items' = DOMAIN items /\ SavedItems' = SavedItems /\ items'[save.body.lib].draft = save.body
    BY <1>1, <1>2, <1>3, ItemRewritten DEF Updating
  <1>5. draft # Nothing
    BY <1>2, DraftIsSomething DEF Updating
  <1>6. NotSaving'
    BY <1>1, <1>2, <1>4, <1>5 DEF Updating, NotSaving, KeptTogether, DraftLib
  <1> QED
    BY <1>1, <1>4, <1>6 DEF SaveInv

LEMMA CreateItemStep ==
    ASSUME SaveInv, CreateItem
    PROVE  SaveInv'
  <1> SUFFICES ASSUME ~faults' PROVE SaveInv'
    BY DEF SaveInv
  <1> DEFINE n == Len(items) + 1
             body == [save.body EXCEPT !.lib = n]
  <1>1. /\ save # Nothing /\ save.at = "create" /\ items' = Append(items, [by |-> "save", draft |-> save.body])
        /\ libraryItemId' = n /\ save' = [save EXCEPT !.at = "redraft", !.body.lib = n]
        /\ UNCHANGED <<draft, loading, faults>>
    BY DEF CreateItem, SaveRest
  <1>2. CreatingItem /\ save = [at |-> save.at, body |-> save.body] /\ IsDraft(save.body)
    BY <1>1, PhaseOfSave
  <1>3. PICK T : (\A t \in T : IsItem(t)) /\ items \in Seq(T)
    BY <1>1 DEF SaveInv
  <1>4. /\ \E S : (\A t \in S : IsItem(t)) /\ items' \in Seq(S)
        /\ n \in DOMAIN items' /\ SavedItems' = SavedItems \cup {n}
        /\ items'[n].draft = save.body
    <2> DEFINE by == "save"
    <2>1. items' = Append(items, [by |-> by, draft |-> save.body])
      BY <1>1
    <2>2. by = "save"
      OBVIOUS
    <2> HIDE DEF by
    <2>3. SavedItems' = SavedItems \cup {k \in {n} : by = "save"}
      BY <1>3, <2>1, ItemAdded
    <2> QED
      BY <1>3, <2>1, <2>2, <2>3, ItemAdded
  <1>5. save' = [at |-> "redraft", body |-> body]
    <2> DEFINE at == "redraft"
    <2>1. save' = [save EXCEPT !.at = at, !.body.lib = n]
      BY <1>1
    <2> HIDE DEF at, n
    <2>2. save' = [at |-> at, body |-> body]
      BY <1>2, <2>1, SaveNamed
    <2> QED
      BY <2>2 DEF at
  <1> HIDE DEF n
  <1>7. IsDraft(body) /\ body.lib = n /\ body.screens = save.body.screens
    BY <1>2, DraftNamed
  <1> HIDE DEF body
  <1>8. save'.at = "redraft" /\ save'.body = body /\ save' # Nothing
    BY <1>5, SaveIsSomething
  <1>9. PuttingAgain'
    BY <1>1, <1>2, <1>4, <1>7, <1>8 DEF CreatingItem, PuttingAgain
  <1> QED
    BY <1>4, <1>5, <1>7, <1>8, <1>9 DEF SaveInv

LEMMA PutDraftAgainStep ==
    ASSUME SaveInv, PutDraftAgain
    PROVE  SaveInv'
  <1> SUFFICES ASSUME ~faults' PROVE SaveInv'
    BY DEF SaveInv
  <1>1. /\ save # Nothing /\ save.at = "redraft" /\ draft' = save.body /\ save' = Nothing
        /\ UNCHANGED <<items, libraryItemId, loading, faults>>
    BY DEF PutDraftAgain, Ended, SaveRest
  <1>2. PuttingAgain /\ IsDraft(save.body)
    BY <1>1, PhaseOfSave
  <1>3. draft' # Nothing
    BY <1>1, <1>2, DraftIsSomething
  <1>4. NotSaving'
    BY <1>1, <1>2, <1>3 DEF PuttingAgain, NotSaving, KeptTogether, DraftLib, SavedItems
  <1> QED
    BY <1>1, <1>4 DEF SaveInv

LEMMA SaveInductive == SaveInv /\ [CanvasNext]_canvasVars => SaveInv'
  <1> SUFFICES ASSUME SaveInv, [CanvasNext]_canvasVars PROVE SaveInv'
    OBVIOUS
  <1>1. CASE UNCHANGED canvasVars
    BY <1>1, SaveKept DEF canvasVars
  <1>2. CASE EditCanvas
    <2>1. UNCHANGED <<items, draft, save, libraryItemId, loading, faults>>
      BY <1>2
      DEF EditCanvas, HandleCanvasDrop, DeleteKey, AddScreen, AddAppScreen, DeleteScreen, Measure, DrawHotspot, Style,
          MoveNode, PickTarget, DeleteHotspotOf, SelectSomething, Select, LinkStart, LinkEnd, LinkCancel, BindApp,
          Others, LinkRest
    <2> QED
      BY <2>1, SaveKept
  <1>3. CASE Undo \/ Redo \/ HistoryEffect \/ InsertFails
             \/ (\E k \in DOMAIN items : RequestItem(k)) \/ (\E at \in Anchors : Insert(at))
    <2>1. UNCHANGED <<items, draft, save, libraryItemId, loading, faults>>
      BY <1>3 DEF Undo, Redo, Apply, HistoryEffect, InsertFails, RequestItem, Insert
    <2> QED
      BY <2>1, SaveKept
  <1> QED
    BY <1>1, <1>2, <1>3, ScenarioSaved, DraftLoaded, FailureStep, SaveStartStep, PutDraftStep, UpdateItemStep,
       CreateItemStep, PutDraftAgainStep
    DEF CanvasNext

LEMMA SaveInitially == CanvasInit => SaveInv
  <1> SUFFICES ASSUME CanvasInit PROVE SaveInv
    OBVIOUS
  <1>1. items = Given /\ draft = Nothing /\ save = Nothing /\ libraryItemId = None /\ loading = TRUE
    BY DEF CanvasInit
  <1> DEFINE T == Range(Given)
  <1>2. Given \in Seq(T) /\ \A t \in T : t = [by |-> "panel", draft |-> t.draft]
    BY CanvasAssumption
  <1> HIDE DEF T
  <1>3. \A t \in T : IsItem(t) /\ t.by # "save"
    BY <1>2 DEF IsItem
  <1>4. SavedItems = {}
    BY <1>1, <1>2, <1>3 DEF SavedItems
  <1>5. NotSaving
    BY <1>1, <1>4 DEF NotSaving, KeptTogether
  <1> QED
    BY <1>1, <1>2, <1>3, <1>5 DEF SaveInv

\* When nothing has failed and no save is under way, the draft and the library item it
\* names hold the same screens, whatever was edited during the saves (handleSave).
THEOREM SavedStaysTogether == CanvasSpec => []SavedTogether
  <1>1. SaveInv => SavedTogether
    BY DEF SaveInv, NotSaving, KeptTogether, SavedTogether
  <1> QED
    BY <1>1, SaveInitially, SaveInductive, PTL DEF CanvasSpec

\* When nothing has failed a scenario has at most one item of the library, across saves,
\* reloads and scenarios of the panel (handleSave, loadDraft).
THEOREM OneItemAlways == CanvasSpec => []OneLibraryItem
  <1>1. SaveInv => OneLibraryItem
    <2> SUFFICES ASSUME SaveInv, ~faults PROVE Cardinality(SavedItems) <= 1
      BY DEF OneLibraryItem, SavedItems
    <2>1. SavedItems = {} \/ \E k : SavedItems = {k}
      BY DEF SaveInv, NotSaving, KeptTogether, PuttingDraft, Updating, CreatingItem, PuttingAgain
    <2>2. CASE SavedItems = {}
      <3>1. Cardinality(SavedItems) = 0
        BY <2>2, FS_EmptySet
      <3> QED
        BY <3>1
    <2>3. ASSUME NEW k, SavedItems = {k} PROVE Cardinality(SavedItems) <= 1
      <3>1. Cardinality({k}) = 1
        BY FS_Singleton
      <3>2. Cardinality(SavedItems) = 1
        BY <2>3, <3>1
      <3> QED
        BY <3>2
    <2> QED
      BY <2>1, <2>2, <2>3
  <1> QED
    BY <1>1, SaveInitially, SaveInductive, PTL DEF CanvasSpec

=============================================================================
