-------------------------- MODULE SimulationCanvas --------------------------
(***************************************************************************)
(* The canvas of the simulation editor (SimulationEditor.tsx): screens on  *)
(* a plane and hotspots that link them, the history behind undo and redo,  *)
(* scenarios inserted from the library, and the save, which writes the     *)
(* draft of the scope and its library item by a chain of requests.         *)
(*                                                                         *)
(* The history is recorded by an effect that runs after a render: at once  *)
(* when a key or a button caused it, later when an answer, a measurement   *)
(* or a moving pointer did (React, external).  Until then `due` holds.     *)
(***************************************************************************)
EXTENDS Integers, FiniteSets, Sequences, SequencesExt

CONSTANTS
    Cells,          \* positions a screen may be dragged or dropped to, <<x, y>>
    Given,          \* scenarios that the library holds already
    Apps, Unbound,  \* app versions a scenario may be bound to, and defaultTargetApp
    MaxScreens,     \* bound: screens on the canvas
    MaxWork,        \* bound: edits (undo and redo aside), saves and failures together
    MaxPast,        \* steps that undo remembers (100 in the code)
    None            \* no screen, hotspot or library item

ASSUME CanvasAssumption ==
    /\ None \notin Nat /\ MaxPast \in Nat \ {0}
    /\ Given \in Seq(Range(Given))
    /\ \A g \in Range(Given) :
        /\ g = [by |-> "panel", draft |-> g.draft]
        /\ g.draft.screens \in Seq(Range(g.draft.screens))
        /\ \A s \in Range(g.draft.screens) : IsFiniteSet(s.spots)

VARIABLES
    canvas,         \* nodes and edges
    picked,         \* selectedNodeId and selectedHotspotId
    linking,        \* draggingHotspot: a link being drawn from a hotspot, or Nothing
    history,        \* historyPastRef ... isApplyingHistoryRef
    due,            \* the history effect of the last render has not run
    loading,        \* isLoading
    app,            \* targetApp
    libraryItemId,
    save,           \* the running handleSave, or Nothing
    inserting,      \* the scenario that handleInsertLibraryItem waits for, or Nothing
    draft,          \* the server's draft of the scope, or Nothing
    items,          \* the server's library items
    nextId, work, faults

editorVars == <<canvas, picked, linking, history, due, loading, app,
              libraryItemId, save, inserting>>
canvasVars == <<canvas, picked, linking, history, due, loading, app,
                libraryItemId, save, inserting, draft, items, nextId, work, faults>>

Ids(nodes) == {nodes[i].id : i \in DOMAIN nodes}
SpotsOf(nodes) == UNION {nodes[i].spots : i \in DOMAIN nodes}
EachNode(nodes, Op(_)) == [i \in DOMAIN nodes |-> Op(nodes[i])]
Worked == work < MaxWork /\ work' = work + 1
Fault == Worked /\ faults' = TRUE
Nothing == [none |-> TRUE]
NoCanvas == [nodes |-> <<>>, edges |-> {}]
NoHistory == [past |-> <<>>, future |-> <<>>, last |-> Nothing, applying |-> FALSE]
NothingPicked == [node |-> None, spot |-> None]

-----------------------------------------------------------------------------
(* Drafts *)

\* withStartAndCompletionFlags: by x, then y, then order on the canvas.
Before(nodes, i, j) ==
    LET a == nodes[i].at
        b == nodes[j].at
    IN  \/ a[1] < b[1]
        \/ a[1] = b[1] /\ a[2] < b[2]
        \/ a = b /\ i < j
WithFlags(nodes) ==
    [i \in DOMAIN nodes |->
        [nodes[i] EXCEPT
            !.start = \A j \in DOMAIN nodes \ {i} : Before(nodes, i, j),
            !.end = Len(nodes) > 1 /\ \A j \in DOMAIN nodes \ {i} : Before(nodes, j, i)]]

GridCell(n) == <<n % 4, n \div 4>>
Screen(id, at) == [id |-> id, at |-> at, seen |-> FALSE, styled |-> FALSE, start |-> FALSE, end |-> FALSE, spots |-> {}]

\* draftToNodesEdges: positions are not saved, screens come back on a grid.
EdgesOf(nodes) ==
    UNION {{[from |-> nodes[i].id, to |-> s.to, spot |-> s.id] :
                s \in {t \in nodes[i].spots : t.to # None}} : i \in DOMAIN nodes}
ToCanvas(d) ==
    LET nodes == [i \in DOMAIN d.screens |->
                    [id |-> d.screens[i].id, at |-> GridCell(i - 1), seen |-> FALSE,
                     styled |-> d.screens[i].styled,
                     start |-> d.screens[i].id = d.start, end |-> d.screens[i].end,
                     spots |-> d.screens[i].spots]]
    IN  [nodes |-> nodes, edges |-> EdgesOf(nodes)]

\* nodesEdgesToDraft: the first screen flagged as start, or else the first.
StartOf(nodes) ==
    LET flagged == SelectSeq(nodes, LAMBDA n : n.start)
    IN  IF flagged # <<>> THEN Head(flagged).id
        ELSE IF nodes # <<>> THEN Head(nodes).id ELSE None
ToScreen(n) == [id |-> n.id, styled |-> n.styled, end |-> n.end, spots |-> n.spots]
ToDraft(nodes) ==
    [screens |-> EachNode(nodes, ToScreen), start |-> StartOf(nodes),
     app |-> app, lib |-> None]

\* The screens with these ids, in their order (filter).
Kept(screens, ids) ==
    LET at == {i \in DOMAIN screens : screens[i].id \in ids}
    IN  [k \in 1..Cardinality(at) |->
            screens[CHOOSE i \in at : Cardinality({j \in at : j <= i}) = k]]

\* buildSelectedScreensDraft: links out of the selection are cut.
Selection(d, chosen) ==
    LET kept == Kept(d.screens, chosen)
        Cut(s) == [s EXCEPT !.spots = {IF t.to \in chosen THEN t ELSE [t EXCEPT !.to = None] : t \in @}]
    IN  [d EXCEPT !.screens = [i \in DOMAIN kept |-> Cut(kept[i])],
                  !.start = IF @ \in chosen THEN @ ELSE Head(kept).id]

-----------------------------------------------------------------------------
(* History *)

\* Slip: the effect of an undo forgets that the snapshot is the latest one.
RecordedLate(h, c) ==
    IF h.last = Nothing THEN [h EXCEPT !.last = c, !.past = <<>>, !.future = <<>>]
    ELSE IF h.applying THEN [h EXCEPT !.applying = FALSE]
    ELSE IF h.last = c THEN h
    ELSE [past |-> Append(h.past, h.last), future |-> <<>>, last |-> c, applying |-> FALSE]

\* The effect on [edges, isLoading, nodes].
Recorded(h, c) ==
    IF h.last = Nothing THEN [h EXCEPT !.last = c, !.past = <<>>, !.future = <<>>]
    ELSE IF h.applying THEN [h EXCEPT !.last = c, !.applying = FALSE]
    ELSE IF h.last = c THEN h
    ELSE LET past == Append(h.past, h.last)
         IN  [past |-> IF Len(past) > MaxPast THEN Tail(past) ELSE past,
              future |-> <<>>, last |-> c, applying |-> FALSE]

Flushed(h) == IF due /\ ~loading THEN Recorded(h, canvas) ELSE h

\* A change by a key or a button, whose effect runs with it.
ChangeNow(c) ==
    /\ Worked
    /\ canvas' = c
    /\ history' = IF loading THEN history ELSE Recorded(Flushed(history), c)
    /\ due' = FALSE
\* Any other change.
ChangeLater(c) ==
    /\ Worked
    /\ canvas' = c
    /\ history' = Flushed(history)
    /\ due' = TRUE

HistoryEffect ==
    /\ due /\ ~loading
    /\ history' = Flushed(history)
    /\ due' = FALSE
    /\ UNCHANGED <<canvas, picked, linking, loading, app, libraryItemId, save,
                   inserting, draft, items, nextId, work, faults>>

\* applyHistorySnapshot after a pop: a due effect takes the flag for its own.
Apply(h, c) ==
    /\ canvas' = c
    /\ history' = Recorded(Flushed([h EXCEPT !.applying = TRUE]), c)
    /\ due' = FALSE
    /\ picked' = NothingPicked
    /\ UNCHANGED <<linking, loading, app, libraryItemId, save, inserting,
                   draft, items, nextId, work, faults>>

Undo ==
    /\ history.past # <<>>
    /\ Apply([history EXCEPT !.past = Front(@), !.future = Append(@, canvas)], Last(history.past))
Redo ==
    /\ history.future # <<>>
    /\ Apply([history EXCEPT !.future = Front(@), !.past = Append(@, canvas)], Last(history.future))

-----------------------------------------------------------------------------
(* Editing *)

Others == <<linking, loading, app, libraryItemId, save, inserting,
            draft, items, faults>>

\* handleAddScreen; the button is disabled while the draft is loading.
AddScreen ==
    LET n == Len(canvas.nodes)
    IN  /\ ~loading /\ n < MaxScreens
        /\ ChangeNow([canvas EXCEPT !.nodes = WithFlags(Append(@, Screen(nextId, GridCell(n))))])
        /\ picked' = [node |-> nextId, spot |-> None]
        /\ nextId' = nextId + 1
        /\ UNCHANGED Others

\* handleAddAppScreen: an asset clicked, or dropped on the canvas, loaded or not.
AddAppScreen(at) ==
    /\ Len(canvas.nodes) < MaxScreens
    /\ ChangeNow([canvas EXCEPT !.nodes = WithFlags(Append(@, Screen(nextId, at)))])
    /\ picked' = [node |-> nextId, spot |-> None]
    /\ nextId' = nextId + 1
    /\ UNCHANGED Others

\* handleCanvasDrop, of an asset.
HandleCanvasDrop == \E at \in Cells : AddAppScreen(at)

\* handleDeleteScreen: hotspots elsewhere keep their target, the start is not
\* chosen anew.
DeleteScreen(id) ==
    /\ id \in Ids(canvas.nodes)
    /\ ChangeNow([nodes |-> Kept(canvas.nodes, Ids(canvas.nodes) \ {id}),
                  edges |-> {e \in canvas.edges : id \notin {e.from, e.to}}])
    /\ picked' = IF picked.node = id THEN [picked EXCEPT !.node = None] ELSE picked
    /\ UNCHANGED <<nextId, Others>>

\* onNodesChange: a screen is dragged; the flags follow when it is dropped.
MoveNode(id, at, dragging) ==
    LET Move(n) == IF n.id = id THEN [n EXCEPT !.at = at] ELSE n
        moved == EachNode(canvas.nodes, Move)
        next == IF dragging THEN moved ELSE WithFlags(moved)
    IN  /\ next # canvas.nodes
        /\ ChangeLater([canvas EXCEPT !.nodes = next])
        /\ UNCHANGED <<picked, nextId, Others>>

\* The canvas library measures a screen that has no dimensions yet (external).
Measure(id) ==
    LET See(n) == IF n.id = id THEN [n EXCEPT !.seen = TRUE] ELSE n
    IN  /\ \E n \in Range(canvas.nodes) : n.id = id /\ ~n.seen
        /\ ChangeLater([canvas EXCEPT !.nodes = EachNode(@, See)])
        /\ UNCHANGED <<picked, nextId, Others>>

\* The properties panel of the selected screen: its title, its image picked or
\* removed.  (`styled` stands for the texts and the image.)
Style(id) ==
    LET Edited(n) == IF n.id = id THEN [n EXCEPT !.styled = TRUE] ELSE n
    IN  /\ \E n \in Range(canvas.nodes) : n.id = id /\ ~n.styled
        /\ picked.node = id /\ \A n \in Range(canvas.nodes) : \A s \in n.spots : n.id = id => s.id # picked.spot
        /\ ChangeNow([canvas EXCEPT !.nodes = EachNode(@, Edited)])
        /\ UNCHANGED <<picked, nextId, Others>>

\* handleDrawHotspot.
DrawHotspot(id) ==
    LET Draw(n) == IF n.id = id THEN [n EXCEPT !.spots = @ \cup {[id |-> nextId, to |-> None]}] ELSE n
    IN  /\ id \in Ids(canvas.nodes)
        /\ ChangeNow([canvas EXCEPT !.nodes = EachNode(@, Draw)])
        /\ picked' = [node |-> id, spot |-> nextId]
        /\ nextId' = nextId + 1
        /\ UNCHANGED Others

Relinked(nodes, id, spot, to) ==
    LET Aim(n) == IF n.id # id THEN n
                  ELSE [n EXCEPT !.spots = {IF s.id = spot THEN [s EXCEPT !.to = to] ELSE s : s \in @}]
    IN  EachNode(nodes, Aim)

\* The target list of the properties panel (handleUpdateHotspot): edges stay.
PickTarget(to) ==
    /\ picked.node \in Ids(canvas.nodes)
    /\ \E n \in Range(canvas.nodes) : n.id = picked.node /\ \E s \in n.spots : s.id = picked.spot
    /\ to \in (Ids(canvas.nodes) \cup {None}) \ {picked.node}
    /\ ChangeNow([canvas EXCEPT !.nodes = Relinked(@, picked.node, picked.spot, to)])
    /\ UNCHANGED <<picked, nextId, Others>>

\* handleDeleteHotspot of the selected hotspot, on the selected screen.
DeleteHotspotOf(id, spot) ==
    LET Erase(n) == IF n.id = id THEN [n EXCEPT !.spots = {s \in @ : s.id # spot}] ELSE n
    IN  /\ ChangeNow([canvas EXCEPT !.nodes = EachNode(@, Erase)])
        /\ picked' = [picked EXCEPT !.spot = None]
        /\ UNCHANGED <<nextId, Others>>

\* The Delete key: the selected hotspot first, else the selected screen.
DeleteKey ==
    /\ picked.node # None
    /\ IF picked.spot # None THEN DeleteHotspotOf(picked.node, picked.spot)
       ELSE DeleteScreen(picked.node)

\* handleSelectNode of the screen list keeps the hotspot of another screen
\* selected; the canvas (handleScreenSelect, handleHotspotSelect) does not.
Select(node, spot) ==
    /\ picked' = [node |-> node, spot |-> spot]
    /\ picked' # picked
    /\ UNCHANGED <<canvas, linking, history, due, loading, app, libraryItemId, save,
                   inserting, draft, items, nextId, work, faults>>
SelectSomething ==
    \/ \E n \in Range(canvas.nodes) :
        \/ \E spot \in {None, picked.spot} : Select(n.id, spot)
        \/ \E s \in n.spots : Select(n.id, s.id)
    \/ Select(None, None)

-----------------------------------------------------------------------------
(* Linking by drag *)

LinkRest == <<loading, app, libraryItemId, save, inserting, draft, items, nextId, faults>>

\* handleHotspotDragStart.
LinkStart(id, spot) ==
    /\ linking = Nothing
    /\ linking' = [node |-> id, spot |-> spot]
    /\ picked' = [node |-> id, spot |-> spot]
    /\ UNCHANGED <<canvas, history, due, work, LinkRest>>

\* updateHotspotTargetLink, for the screen under the pointer, or for none.
\* Undo or Delete may have taken the hotspot away meanwhile.
Linked(from, spot, to) ==
    [nodes |-> Relinked(canvas.nodes, from, spot, to),
     edges |-> {e \in canvas.edges : e.spot # spot}
               \cup IF to = None THEN {} ELSE {[from |-> from, to |-> to, spot |-> spot]}]

\* findClosestTargetNodeId, findNodeIdAtFlowPoint, findNodeIdAtPoint: some
\* screen near the pointer, never the one the link comes from, or none.
DropTargets == (Ids(canvas.nodes) \cup {None}) \ {linking.node}

\* handlePointerUp; a click, a drop that changes nothing, and a drop next to
\* the screens of a hotspot without link only select.
LinkEnd(to) ==
    LET was == UNION {{s.to : s \in {t \in n.spots : t.id = linking.spot}} :
                        n \in {m \in Range(canvas.nodes) : m.id = linking.node}}
    IN  /\ linking # Nothing
        /\ to \in DropTargets
        /\ picked' = [node |-> linking.node, spot |-> linking.spot]
        /\ linking' = Nothing
        /\ IF (to # None /\ to \in was) \/ (to = None /\ was \subseteq {None})
           THEN UNCHANGED <<canvas, history, due, work>>
           ELSE ChangeNow(Linked(linking.node, linking.spot, to))
        /\ UNCHANGED <<LinkRest>>

\* handlePointerCancel, handleWindowBlur, handleVisibilityChange; an image preview
\* or the media modal that opens.
LinkCancel ==
    /\ linking # Nothing
    /\ linking' = Nothing
    /\ UNCHANGED <<canvas, picked, history, due, work, LinkRest>>

-----------------------------------------------------------------------------
(* Scenarios from the library *)

\* handleInsertLibraryItem asks for the item.
RequestItem(k) ==
    /\ inserting = Nothing /\ k \in DOMAIN items
    /\ inserting' = items[k].draft
    /\ UNCHANGED <<canvas, picked, linking, history, due, loading, app, libraryItemId,
                   save, draft, items, nextId, work, faults>>

Placed(nodes, id) == CHOOSE i \in DOMAIN nodes : nodes[i].id = id
\* Slip: a link out of the scenario is kept.
RetargetKept(nodes, to) ==
    IF to \in Ids(nodes) THEN nextId + Placed(nodes, to) - 1 ELSE to

\* screenIdMap, for the target of a hotspot.
RetargetLink(nodes, to) ==
    IF to \in Ids(nodes) THEN nextId + Placed(nodes, to) - 1 ELSE None

\* insertScenarioDraft, into the canvas of the moment the answer arrives:
\* fresh ids, links among the inserted screens only, below the other screens
\* or where it was dropped, moved down until it covers none.
Insert(anchor) ==
    LET got == ToCanvas(inserting)
        n == Len(got.nodes)
        spots == SetToSeq(SpotsOf(got.nodes))
        FreshSpot(id) == nextId + n - 1 + CHOOSE k \in DOMAIN spots : spots[k].id = id
        taken == {c.at : c \in Range(canvas.nodes)}
        Shifted(down) == {<<anchor[1] + c.at[1], anchor[2] + c.at[2] + down>> : c \in Range(got.nodes)}
        down == CHOOSE k \in 0..(MaxScreens + 2) :
                    /\ Shifted(k) \cap taken = {}
                    /\ \A l \in 0..(k - 1) : Shifted(l) \cap taken # {}
        Renewed(m) == [m EXCEPT
            !.id = RetargetLink(got.nodes, @),
            !.at = <<anchor[1] + @[1], anchor[2] + @[2] + down>>,
            !.spots = {[id |-> FreshSpot(s.id), to |-> RetargetLink(got.nodes, s.to)] : s \in @}]
        new == EachNode(got.nodes, Renewed)
    IN  /\ inserting # Nothing /\ n > 0 /\ Len(canvas.nodes) + n <= MaxScreens
        /\ ChangeLater([nodes |-> WithFlags(canvas.nodes \o new),
                        edges |-> canvas.edges \cup EdgesOf(new)])
        /\ picked' = [node |-> nextId, spot |-> None]
        /\ nextId' = nextId + n + Len(spots)
        /\ inserting' = Nothing
        /\ UNCHANGED <<linking, loading, app, libraryItemId, save, draft, items, faults>>
Anchors ==
    Cells \cup
    IF canvas.nodes = <<>> THEN {<<0, 0>>}
    ELSE LET ats == {n.at : n \in Range(canvas.nodes)}
         IN  {<<Min({a[1] : a \in ats}), Max({a[2] : a \in ats}) + 1>>}

\* The item is empty or could not be loaded, or the canvas has reached its bound.
InsertFails ==
    /\ inserting # Nothing
    /\ inserting' = Nothing
    /\ UNCHANGED <<canvas, picked, linking, history, due, loading, app, libraryItemId,
                   save, draft, items, nextId, work, faults>>

\* handleSaveLibraryScenario: the canvas, or the selected screens, as a new item.
SaveScenario(chosen) ==
    /\ Worked
    /\ chosen \subseteq Ids(canvas.nodes) /\ chosen # {}
    /\ items' = Append(items, [by |-> "panel", draft |-> Selection(ToDraft(canvas.nodes), chosen)])
    /\ UNCHANGED <<editorVars, draft, nextId, faults>>

-----------------------------------------------------------------------------
(* Loading and saving *)

CanvasInit ==
    /\ canvas = NoCanvas /\ picked = NothingPicked /\ linking = Nothing
    /\ history = NoHistory /\ due = FALSE /\ loading = TRUE
    /\ app = Unbound /\ libraryItemId = None /\ save = Nothing /\ inserting = Nothing
    /\ draft = Nothing /\ items = Given
    /\ nextId = 1 /\ work = 0 /\ faults = FALSE

\* loadDraft: the draft replaces whatever is on the canvas by then.
LoadDraft ==
    /\ loading /\ loading' = FALSE /\ due' = TRUE
    /\ IF draft = Nothing THEN UNCHANGED <<canvas, app, libraryItemId>>
       ELSE canvas' = ToCanvas(draft) /\ app' = draft.app /\ libraryItemId' = draft.lib
    /\ UNCHANGED <<picked, linking, history, save, inserting, draft, items,
                   nextId, work, faults>>
LoadFails ==
    /\ loading /\ loading' = FALSE /\ due' = TRUE
    /\ Fault
    /\ UNCHANGED <<canvas, picked, linking, history, app, libraryItemId, save,
                   inserting, draft, items, nextId>>

\* handleSave, with a title: the canvas of this moment is what is saved.
SaveStart ==
    /\ save = Nothing /\ ~loading /\ Worked
    /\ save' = [at |-> "draft", body |-> [ToDraft(canvas.nodes) EXCEPT !.lib = libraryItemId]]
    /\ UNCHANGED <<canvas, picked, linking, history, due, loading, app, libraryItemId,
                   inserting, draft, items, nextId, faults>>

Ended == save' = Nothing
SaveRest == <<canvas, picked, linking, history, due, loading, inserting, nextId>>

\* The first request: the server's answer is put back into the page.
PutDraft ==
    /\ save # Nothing /\ save.at = "draft"
    /\ draft' = save.body
    /\ app' = save.body.app /\ libraryItemId' = save.body.lib
    /\ save' = [save EXCEPT !.at = IF save.body.lib # None THEN "update" ELSE "create"]
    /\ UNCHANGED <<items, work, faults, SaveRest>>

\* The second: the library item is replaced, or created.
UpdateItem ==
    /\ save # Nothing /\ save.at = "update"
    /\ items' = [items EXCEPT ![save.body.lib].draft = save.body]
    /\ Ended
    /\ UNCHANGED <<draft, app, libraryItemId, work, faults, SaveRest>>

\* Slip: the draft is not told the item it now has.
CreateOnly ==
    /\ save # Nothing /\ save.at = "create"
    /\ items' = Append(items, [by |-> "save", draft |-> save.body])
    /\ libraryItemId' = Len(items) + 1
    /\ Ended
    /\ UNCHANGED <<draft, app, work, faults, SaveRest>>

CreateItem ==
    /\ save # Nothing /\ save.at = "create"
    /\ items' = Append(items, [by |-> "save", draft |-> save.body])
    /\ libraryItemId' = Len(items) + 1
    /\ save' = [save EXCEPT !.at = "redraft", !.body.lib = Len(items) + 1]
    /\ UNCHANGED <<draft, app, work, faults, SaveRest>>

\* Slip: the canvas of now goes with the new id.
PutCanvas ==
    /\ save # Nothing /\ save.at = "redraft"
    /\ draft' = [ToDraft(canvas.nodes) EXCEPT !.lib = save.body.lib]
    /\ Ended
    /\ UNCHANGED <<items, app, libraryItemId, work, faults, SaveRest>>

\* The third: the same draft, with the id of its new library item.
PutDraftAgain ==
    /\ save # Nothing /\ save.at = "redraft"
    /\ draft' = save.body
    /\ Ended
    /\ UNCHANGED <<items, app, libraryItemId, work, faults, SaveRest>>

CarriedOut ==
    CASE save.at \in {"draft", "redraft"} -> draft' = save.body /\ UNCHANGED items
      [] save.at = "update" ->
            items' = [items EXCEPT ![save.body.lib].draft = save.body] /\ UNCHANGED draft
      [] save.at = "create" ->
            items' = Append(items, [by |-> "save", draft |-> save.body]) /\ UNCHANGED draft
\* A request fails, having been carried out or not.  An update that fails is
\* followed by a creation, any other failure ends the save.
RequestFails ==
    /\ save # Nothing /\ Fault
    /\ CarriedOut \/ UNCHANGED <<draft, items>>
    /\ IF save.at = "update" THEN save' = [save EXCEPT !.at = "create"] ELSE Ended
    /\ UNCHANGED <<app, libraryItemId, SaveRest>>

\* The page is left and opened again; its request may or may not arrive.
Reopen ==
    /\ IF save = Nothing THEN UNCHANGED <<draft, items, work, faults>>
       ELSE Fault /\ (CarriedOut \/ UNCHANGED <<draft, items>>)
    /\ ~loading
    /\ canvas' = NoCanvas /\ picked' = NothingPicked /\ linking' = Nothing
    /\ history' = NoHistory /\ due' = FALSE /\ loading' = TRUE
    /\ app' = Unbound /\ libraryItemId' = None /\ save' = Nothing /\ inserting' = Nothing
    /\ UNCHANGED nextId

\* handleToggleVersion binds the scenario to another app version.
BindApp(a) ==
    /\ a # app /\ app' = a /\ Worked
    /\ UNCHANGED <<canvas, picked, linking, history, due, loading, libraryItemId, save,
                   inserting, draft, items, nextId, faults>>

EditCanvas ==
    \/ AddScreen
    \/ AddAppScreen(GridCell(Len(canvas.nodes)))
    \/ HandleCanvasDrop
    \/ \E id \in Ids(canvas.nodes) :
        \/ DeleteScreen(id) \/ Measure(id) \/ DrawHotspot(id) \/ Style(id)
        \/ \E at \in Cells, dragging \in BOOLEAN : MoveNode(id, at, dragging)
    \/ \E to \in Ids(canvas.nodes) \cup {None} : PickTarget(to)
    \/ DeleteKey \/ SelectSomething
    \/ \E n \in Range(canvas.nodes) : \E s \in n.spots : LinkStart(n.id, s.id)
    \/ \E to \in Ids(canvas.nodes) \cup {None} : LinkEnd(to)
    \/ LinkCancel
    \/ \E a \in Apps : BindApp(a)

CanvasNext ==
    \/ EditCanvas \/ Undo \/ Redo \/ HistoryEffect
    \/ \E k \in DOMAIN items : RequestItem(k)
    \/ \E at \in Anchors : Insert(at)
    \/ InsertFails
    \/ \E chosen \in SUBSET Ids(canvas.nodes) : SaveScenario(chosen)
    \/ LoadDraft \/ LoadFails \/ SaveStart
    \/ PutDraft \/ UpdateItem \/ CreateItem \/ PutDraftAgain \/ RequestFails \/ Reopen

CanvasSpec == CanvasInit /\ [][CanvasNext]_canvasVars

-----------------------------------------------------------------------------
(* Properties *)

CanvasTypeOK ==
    /\ \A n \in Range(canvas.nodes) :
        /\ n.id \in 1..(nextId - 1)
        /\ \A s \in n.spots : s.id \in 1..(nextId - 1)
    /\ IsInjective([i \in DOMAIN canvas.nodes |-> canvas.nodes[i].id])
    /\ due \in BOOLEAN /\ loading \in BOOLEAN /\ app \in Apps \cup {Unbound}
    /\ libraryItemId \in DOMAIN items \cup {None}
    /\ save = Nothing \/ save.at \in {"draft", "update", "create", "redraft"}

\* A hotspot leads to a screen that is or was on this canvas: what is inserted
\* from the library keeps the links among its own screens and no other.
LinksStayInside ==
    \A s \in SpotsOf(canvas.nodes) : s.to # None => s.to \in 1..(nextId - 1)

\* Once the effect has run, the history knows the canvas the user sees, however
\* edits, measurements, answers and undo overlapped: no undo step is lost
\* between two snapshots.
HistoryFollows == ~due /\ ~loading => history.last = canvas /\ ~history.applying

\* Undo and redo together hold no more steps than the history may remember,
\* however they and the edits alternate: every step is a copy of the canvas.
HistoryBounded == Len(history.past) + Len(history.future) <= MaxPast

\* When nothing has failed and no save is under way, the draft and the library
\* item it names hold the same scenario, whatever was edited during the saves.
SavedTogether ==
    ~faults /\ save = Nothing /\ draft # Nothing /\ draft.lib # None
    => items[draft.lib].draft.screens = draft.screens

\* When nothing has failed a scenario has one library item, across reloads.
OneLibraryItem ==
    ~faults => Cardinality({k \in DOMAIN items : items[k].by = "save"}) <= 1
=============================================================================
