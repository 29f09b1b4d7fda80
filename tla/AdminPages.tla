----------------------------- MODULE AdminPages -----------------------------
(***************************************************************************)
(* The pages of the web admin as the server renders them: without a cookie *)
(* or a profile the browser is sent to the refresh route and back, without *)
(* the right permission to the dashboard, and what a page loads decides    *)
(* whether it opens, opens in part, or crashes.  The dashboard offers the  *)
(* sections by a table of its own, and the service checks each load by     *)
(* policies of its own (require_policy).                                   *)
(***************************************************************************)
EXTENDS Naturals

CONSTANTS
    MaxTrouble      \* bound: expiries, failures and sessions that are lost

VARIABLES
    granted,        \* permissions of the profile, which are its policies
    staffed,        \* whether the role is the administrator's (users endpoints)
    token,          \* the access cookie: none, stale or fresh
    renewable,      \* whether the refresh cookie is good
    page,           \* where the browser is
    next,           \* where the refresh route is to return to
    wanted,         \* the section that was chosen
    outcome,        \* pending until the page is rendered
    trouble         \* troubles so far

pageVars == <<granted, staffed, token, renewable, page, next, wanted, outcome, trouble>>

Right ==
    {"dashboard.view", "catalog.view", "catalog.course.create", "catalog.read",
     "catalog.releases.read", "simulation.builder", "moderation.review",
     "catalog.release.approve", "groups.view", "groups.manage", "users.manage",
     "rbac.manage", "progress.view", "support.request.view", "support.request.manage"}

-----------------------------------------------------------------------------
(* What becomes of a page once the profile is there: "sent_back" leads to  *)
(* the dashboard, "part" is a page with a notice or with nothing in a list *)

Loads(essential, others) ==
    IF ~(essential \subseteq granted) THEN "crashed"
    ELSE IF others \subseteq granted THEN "opened" ELSE "part"

Gated(any, rendered) == IF any \cap granted = {} THEN "sent_back" ELSE rendered

CatalogPage == Loads({}, {"catalog.read", "catalog.releases.read"})
SimulationV2Page == Gated({"simulation.builder"}, "opened")
ModerationPage == Loads({}, {"moderation.review", "catalog.read"})
HistoryPage == Loads({}, {"moderation.review"})
ReviewPage == Loads({}, {"moderation.review", "catalog.read", "catalog.releases.read"})
ApprovePage == "opened"
RejectPage == "opened"
UsersPage ==
    Gated({"users.manage", "rbac.manage"}, IF staffed THEN "opened" ELSE "crashed")
ProgressPage ==
    Gated({"progress.view"}, Loads({"groups.view", "catalog.read", "progress.view"}, {}))
SupportPage == Gated({"support.request.view"}, "opened")
SettingsPage == Gated({"dashboard.view"}, "opened")
ProfileSettingsPage == Gated({"dashboard.view"}, "opened")
RbacPage == IF "rbac.manage" \in granted THEN "opened" ELSE "denied"

\* Slip: the page asks for the permission of the catalog.
GroupsOfCatalog ==
    Gated({"catalog.view"}, Loads({"groups.view", "catalog.read"}, {}))

GroupsPage ==
    Gated({"groups.view"}, Loads({"groups.view", "catalog.read"}, {}))

\* The dashboard counts only what the profile may see; a count that fails is a dash.
DashboardMetrics ==
    {r \in {"catalog.read"} : "catalog.view" \in granted}
    \cup {r \in {"moderation.review"} : "catalog.release.approve" \in granted}
HomePage == Loads({}, DashboardMetrics)

Rendered ==
    [dashboard |-> HomePage, catalog |-> CatalogPage, simulation |-> SimulationV2Page,
     moderation |-> ModerationPage, review |-> ReviewPage, history |-> HistoryPage,
     approve |-> ApprovePage, reject |-> RejectPage, groups |-> GroupsPage,
     users |-> UsersPage, progress |-> ProgressPage, support |-> SupportPage,
     settings |-> SettingsPage, profile |-> ProfileSettingsPage, rbac |-> RbacPage]

\* The tiles of the dashboard: any of the permissions shows one.
Tiles ==
    [catalog |-> {"catalog.view", "catalog.course.create"},
     simulation |-> {"simulation.builder"},
     moderation |-> {"moderation.review", "catalog.release.approve"},
     groups |-> {"groups.manage"},
     users |-> {"users.manage", "rbac.manage"},
     progress |-> {"progress.view"},
     support |-> {"support.request.view"},
     settings |-> {"dashboard.view"},
     rbac |-> {"rbac.manage"}]

VisibleTiles == {s \in DOMAIN Tiles : Tiles[s] \cap granted # {}}

-----------------------------------------------------------------------------
\* A role is missing one permission at most, or has those of a learner.
PageInit ==
    /\ granted \in {Right \ {lost} : lost \in Right} \cup {Right, {"dashboard.view"}}
    /\ staffed \in BOOLEAN
    /\ token \in {"none", "stale", "fresh"} /\ renewable \in BOOLEAN
    /\ page = "auth" /\ next = "dashboard" /\ wanted = "dashboard"
    /\ outcome = "opened" /\ trouble = 0

Goto(p, o) == page' = p /\ outcome' = o

\* A tile of the dashboard, or a link of the page that is open.
Choose(p) ==
    /\ outcome # "pending"
    /\ \/ page = "dashboard" /\ p \in VisibleTiles
       \/ page = "moderation" /\ p \in {"review", "history", "approve", "reject"}
       \/ page = "settings" /\ p = "profile"
       \/ p = "dashboard"
    /\ wanted' = p /\ Goto(p, "pending")
    /\ UNCHANGED <<granted, staffed, token, renewable, next, trouble>>

Login ==
    /\ page = "auth" /\ outcome = "opened"
    /\ token' = "fresh" /\ renewable' = TRUE
    /\ wanted' = "dashboard" /\ Goto("dashboard", "pending")
    /\ UNCHANGED <<granted, staffed, next, trouble>>

\* The page is asked for and cannot load the profile.
ToRefresh ==
    /\ outcome = "pending" /\ page \notin {"refresh", "auth"}
    /\ token # "fresh"
    /\ next' = page /\ Goto("refresh", "pending")
    /\ UNCHANGED <<granted, staffed, token, renewable, wanted, trouble>>

\* The service does not answer, which a page takes for a token that has expired.
ProfileFails ==
    /\ outcome = "pending" /\ page \notin {"refresh", "auth"}
    /\ token = "fresh" /\ trouble < MaxTrouble
    /\ trouble' = trouble + 1
    /\ next' = page /\ Goto("refresh", "pending")
    /\ UNCHANGED <<granted, staffed, token, renewable, wanted>>

Render ==
    /\ outcome = "pending" /\ page \notin {"refresh", "auth"}
    /\ token = "fresh"
    /\ IF Rendered[page] = "sent_back" THEN Goto("dashboard", "pending")
                                       ELSE Goto(page, Rendered[page])
    /\ UNCHANGED <<granted, staffed, token, renewable, next, wanted, trouble>>

\* Slip: a refresh that is refused returns to the page as well.
BackToPage == next

AuthUrl == "auth"

\* GET of the refresh route.
RefreshRoute ==
    /\ outcome = "pending" /\ page = "refresh"
    /\ \/ /\ renewable
          /\ token' = "fresh" /\ Goto(next, "pending")
          /\ UNCHANGED trouble
       \/ /\ ~renewable
          /\ Goto(AuthUrl, IF AuthUrl = "auth" THEN "opened" ELSE "pending")
          /\ UNCHANGED <<token, trouble>>
    /\ UNCHANGED <<granted, staffed, renewable, next, wanted>>

\* Time passes, or another tab signs out.
Lapse ==
    /\ trouble < MaxTrouble /\ trouble' = trouble + 1
    /\ \/ token' \in {"none", "stale"} /\ UNCHANGED renewable
       \/ token' \in {"none", "stale"} /\ renewable' = FALSE
    /\ UNCHANGED <<granted, staffed, page, next, wanted, outcome>>

\* updateSupportRequestAction: without a cookie nothing is sent and nothing is said.
UpdateSupportRequest ==
    /\ page = "support" /\ outcome = "opened"
    /\ token # "none"
    /\ IF token = "fresh" /\ "support.request.manage" \in granted
       THEN Goto("support", "pending") ELSE Goto("support", "crashed")
    /\ UNCHANGED <<granted, staffed, token, renewable, next, wanted, trouble>>

PageNext ==
    \/ \E p \in DOMAIN Rendered : Choose(p)
    \/ Login \/ ToRefresh \/ ProfileFails \/ Render \/ RefreshRoute \/ Lapse
    \/ UpdateSupportRequest

PageSpec == PageInit /\ [][PageNext]_pageVars

\* A browser follows its redirects and a server renders what it is asked for.
PageFair == WF_pageVars(ToRefresh \/ Render) /\ WF_pageVars(RefreshRoute)

-----------------------------------------------------------------------------
(* Properties *)

\* The table of the dashboard and the pages agree: a section that is offered opens,
\* for an administrator whose role may read groups and courses.  (Offered by
\* groups.manage alone, the page of the groups sends back; a role other than the
\* administrator's that may manage access makes the page of the users crash.)
OfferedSectionsOpen ==
    /\ outcome # "pending" /\ page # "auth" /\ wanted \in VisibleTiles
    /\ staffed /\ {"groups.view", "catalog.read"} \subseteq granted
    => \/ page = wanted /\ outcome \in {"opened", "part"}
       \/ outcome = "crashed" /\ wanted = "support"

\* A visit ends on a page or at the sign-in: pages and the refresh route do not send
\* the browser to and fro, as long as the service answers in the end.
VisitsEnd == (outcome = "pending") ~> (outcome # "pending")
=============================================================================
