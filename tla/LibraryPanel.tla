---------------------------- MODULE LibraryPanel ----------------------------
(***************************************************************************)
(* The scenario library of the simulation editor (LibraryTab.tsx): a list  *)
(* of the scenarios for the application on the canvas, and a dialog with   *)
(* all of them, both read again after a save and after a deletion, with    *)
(* the filter there was when the button was pressed.  The loads have no    *)
(* guard against late answers; a load joins the request that is under way  *)
(* for the same query (api/client.ts).  A filter, the application with the *)
(* word in the search, is one value, and a scenario passes one at most.    *)
(***************************************************************************)
EXTENDS Naturals, FiniteSets

CONSTANTS
    Item,       \* identifiers of library items, created or not
    Target,     \* what the list is filtered by: an application, a word in the search
    AnyApp,     \* nothing to filter by: no application on the canvas, no word
    MaxTurns    \* bound: what the administrator does

VARIABLES
    library,    \* library items: the filter each passes, or AnyApp before the save
    quick,      \* quickItems, quickLoading and the filter of the list
    all,        \* allItems, and whether the dialog is open
    queries,    \* the GET of each query under way, with who waits for it
    change,     \* the save or deletion under way, or NoChange
    crossed,    \* history: what the list shows may be older than the last change
    behind,     \* history: the list was last read with the filter of an old press
    turns       \* clicks so far

libraryVars == <<library, quick, all, queries, change, crossed, behind, turns>>

Query == Target \cup {AnyApp}
NoQuery == [none |-> TRUE]
NoChange == [none |-> TRUE]
Stored == {i \in Item : library[i] # AnyApp}

\* list_library_items of a query; only the list of one application is filtered.
Found(q) == {i \in Stored : q = AnyApp \/ library[i] = q}

Idle == \A q \in Query : queries[q] = NoQuery

\* getJson: the callers that ask for the same path share one request.
JoinedBy(r, who) ==
    IF r = NoQuery THEN [served |-> FALSE, waits |-> {who}]
    ELSE [r EXCEPT !.waits = @ \cup {who}]
Load(qs, q, who) == [qs EXCEPT ![q] = JoinedBy(@, who)]

Awaited(qs) == \E q \in Query : qs[q] # NoQuery /\ "quick" \in qs[q].waits

-----------------------------------------------------------------------------
Turn == turns < MaxTurns /\ turns' = turns + 1

\* The canvas has another application, or the search another word: loadQuickItems
\* runs again.
Retarget(q) ==
    /\ q # quick.filter
    /\ quick' = [quick EXCEPT !.filter = q, !.loading = TRUE]
    /\ queries' = Load(queries, q, "quick")
    /\ crossed' = ~Idle /\ behind' = FALSE
    /\ Turn /\ UNCHANGED <<library, all, change>>

OpenAll ==
    /\ ~all.open
    /\ all' = [all EXCEPT !.open = TRUE]
    /\ queries' = Load(queries, AnyApp, "all")
    /\ Turn /\ UNCHANGED <<library, quick, change, crossed, behind>>
CloseAll ==
    /\ all.open
    /\ all' = [all EXCEPT !.open = FALSE]
    /\ Turn /\ UNCHANGED <<library, quick, queries, change, crossed, behind>>

\* What the closure of a handler holds of the press: the filter of the list, and
\* whether the dialog was open.  One change at a time is followed.
Pressed(kind, i, b) ==
    [kind |-> kind, item |-> i, to |-> b, stage |-> "sent",
     filter |-> quick.filter, open |-> all.open]

HandleSave(i, b) ==
    /\ change = NoChange /\ i \notin Stored
    /\ change' = Pressed("save", i, b)
    /\ Turn /\ UNCHANGED <<library, quick, all, queries, crossed, behind>>

HandleDeleteScenario(i) ==
    /\ change = NoChange /\ all.open /\ i \in all.items
    /\ change' = Pressed("delete", i, AnyApp)
    /\ Turn /\ UNCHANGED <<library, quick, all, queries, crossed, behind>>

\* A deleted item is not found; a read served before may be answered later.
ServeChange ==
    /\ change # NoChange /\ change.stage = "sent"
    /\ change.kind = "delete" => change.item \in Stored
    /\ library' = [library EXCEPT ![change.item] = change.to]
    /\ change' = [change EXCEPT !.stage = "answered"]
    /\ crossed' = TRUE
    /\ UNCHANGED <<quick, all, queries, behind, turns>>

\* Slip: the list in the dialog alone is read again.
ReloadedAll(c) == IF c.open THEN Load(queries, AnyApp, "all") ELSE queries

\* loadQuickItems, and loadAllItems if the dialog was open: those of the closure.
Reloaded(c) ==
    LET qs == Load(queries, c.filter, "quick")
    IN  IF c.open THEN Load(qs, AnyApp, "all") ELSE qs

ChangeAnswered ==
    /\ change # NoChange /\ change.stage = "answered"
    /\ queries' = Reloaded(change)
    /\ quick' = [quick EXCEPT !.loading = @ \/ Awaited(queries')]
    /\ crossed' = ~Idle /\ behind' = (change.filter # quick.filter)
    /\ change' = NoChange
    /\ UNCHANGED <<library, all, turns>>

\* Refused, or lost on either way: an error is shown, and nothing is read.
ChangeFails ==
    /\ change # NoChange
    /\ change' = NoChange
    /\ UNCHANGED <<library, quick, all, queries, crossed, behind, turns>>

ServeQuery(q) ==
    /\ queries[q] # NoQuery /\ ~queries[q].served
    /\ queries' = [queries EXCEPT ![q] = [served |-> TRUE, waits |-> @.waits, found |-> Found(q)]]
    /\ UNCHANGED <<library, quick, all, change, crossed, behind, turns>>

\* The answer is shown whatever the filter is by now.
QueryAnswered(q) ==
    /\ queries[q] # NoQuery /\ queries[q].served
    /\ quick' = IF "quick" \in queries[q].waits
                THEN [quick EXCEPT !.items = queries[q].found, !.loading = FALSE] ELSE quick
    /\ all' = IF "all" \in queries[q].waits
              THEN [all EXCEPT !.items = queries[q].found] ELSE all
    /\ queries' = [queries EXCEPT ![q] = NoQuery]
    /\ UNCHANGED <<library, change, crossed, behind, turns>>

QueryFails(q) ==
    /\ queries[q] # NoQuery
    /\ quick' = IF "quick" \in queries[q].waits THEN [quick EXCEPT !.loading = FALSE] ELSE quick
    /\ queries' = [queries EXCEPT ![q] = NoQuery]
    /\ crossed' = TRUE
    /\ UNCHANGED <<library, all, change, behind, turns>>

LibraryInit ==
    /\ library \in [Item -> Query]
    /\ quick = [items |-> {}, loading |-> TRUE, filter |-> AnyApp]
    /\ all = [items |-> {}, open |-> FALSE]
    /\ queries = [q \in Query |-> IF q = AnyApp THEN [served |-> FALSE, waits |-> {"quick"}]
                                  ELSE NoQuery]
    /\ change = NoChange /\ crossed = FALSE /\ behind = FALSE /\ turns = 0

LibraryNext ==
    \/ \E q \in Query : Retarget(q) \/ ServeQuery(q) \/ QueryAnswered(q) \/ QueryFails(q)
    \/ OpenAll \/ CloseAll \/ ServeChange \/ ChangeAnswered \/ ChangeFails
    \/ \E i \in Item : HandleDeleteScenario(i) \/ \E b \in Target : HandleSave(i, b)

LibrarySpec == LibraryInit /\ [][LibraryNext]_libraryVars

-----------------------------------------------------------------------------
(* Properties *)

LibraryTypeOK ==
    /\ library \in [Item -> Query]
    /\ quick.items \subseteq Item /\ quick.filter \in Query
    /\ all.items \subseteq Item /\ all.open \in BOOLEAN
    /\ change # NoChange => change.item \in Item

\* The list has the scenarios that pass the filter, unless a read failed or
\* overlapped a change or another read, or a change that was begun under another
\* filter has read the list of that one again.
QuickListIsCurrent ==
    ~quick.loading /\ ~crossed /\ ~behind => quick.items = Found(quick.filter)

\* "No scenarios for current app and version." (quickEmpty) is shown for an empty
\* list that does not load, and then nothing passes the filter.  (Violated when
\* the word in the search changes during a save: the list of the old one is read
\* last.)
EmptyMeansNone ==
    ~quick.loading /\ ~crossed /\ quick.items = {} => Found(quick.filter) = {}
=============================================================================
