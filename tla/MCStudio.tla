------------------------------ MODULE MCStudio ------------------------------
(***************************************************************************)
(* The simulation studio: the canvas of the editor and the components      *)
(* beside it.  They share no state here, so a behaviour is about one of    *)
(* them, its focus, while the others stay at one of their initial states.  *)
(***************************************************************************)
EXTENDS HotspotGeometry, SimulationMedia, LibraryPanel, ScenarioRules, StoreResolve,
        SimulationCanvas

VARIABLE focus

studioVars ==
    <<focus, geoVars, mediaVars, libraryVars, rulesVars, storeVars, canvasVars>>

\* A scenario of two screens, a link between them and a link to a screen that
\* it lost, and a canvas of few places.
MCCells == {<<1, 1>>}
\* Hotspots of an ordinary size, up to the edge and rounded over it (0.13 + 99.88),
\* and out of bounds: too thin, outside.
MCSpots ==
    {[x |-> 10125, width |-> 18004], [x |-> 125, width |-> 99875],
     [x |-> 0, width |-> 500], [x |-> -4, width |-> 100001]}
MCGiven ==
    <<[by |-> "panel",
       draft |-> [screens |-> <<[id |-> 101, styled |-> FALSE, end |-> FALSE,
                                 spots |-> {[id |-> 102, to |-> 103]}],
                                [id |-> 103, styled |-> FALSE, end |-> TRUE,
                                 spots |-> {[id |-> 104, to |-> 105]}]>>,
                  start |-> 101, app |-> Unbound, lib |-> None]]>>

AnyOf(S) == CHOOSE x \in S : TRUE
FirstLink == AnyOf(Link)
FirstScenario ==
    [links |-> [p \in Pos |-> {}], ends |-> {1}, start |-> 1, named |-> TRUE, flaw |-> "none",
     spot |-> AnyOf(Spots)]

StudioInit ==
    /\ focus \in {"geometry", "media", "library", "rules", "store", "canvas"}
    /\ GeoInit /\ (focus = "geometry" \/ least = AnyOf(Least))
    /\ MediaInit /\ (focus = "media" \/ stored = [p \in Picture |-> Unset])
    /\ LibraryInit /\ (focus = "library" \/ library = [i \in Item |-> AnyApp])
    /\ IF focus = "rules" THEN RulesInit
       ELSE /\ drawn = FirstScenario
            /\ edited = NoScenario /\ issues = NoScenario /\ released = NoScenario
    /\ StoreInit /\ (focus = "store" \/ link = FirstLink)
    /\ CanvasInit

Geometry(step) ==
    /\ focus = "geometry" /\ step
    /\ UNCHANGED <<focus, mediaVars, libraryVars, rulesVars, storeVars, canvasVars>>
Media(step) ==
    /\ focus = "media" /\ step
    /\ UNCHANGED <<focus, geoVars, libraryVars, rulesVars, storeVars, canvasVars>>
Library(step) ==
    /\ focus = "library" /\ step
    /\ UNCHANGED <<focus, geoVars, mediaVars, rulesVars, storeVars, canvasVars>>
Rules(step) ==
    /\ focus = "rules" /\ step
    /\ UNCHANGED <<focus, geoVars, mediaVars, libraryVars, storeVars, canvasVars>>
StoreOf(step) ==
    /\ focus = "store" /\ step
    /\ UNCHANGED <<focus, geoVars, mediaVars, libraryVars, rulesVars, canvasVars>>
Canvas(step) ==
    /\ focus = "canvas" /\ step
    /\ UNCHANGED <<focus, geoVars, mediaVars, libraryVars, rulesVars, storeVars>>

StudioNext ==
    \/ Geometry(GeoNext) \/ Media(MediaNext) \/ Library(LibraryNext)
    \/ Rules(RulesNext) \/ StoreOf(StoreNext) \/ Canvas(CanvasNext)

StudioSpec == StudioInit /\ [][StudioNext]_studioVars
=============================================================================
