---------------------------- MODULE ScenarioRules ----------------------------
(***************************************************************************)
(* What becomes of a drawn scenario: it is normalised when it is read      *)
(* (model/validation.ts), checked by the rules of the editor, and turned   *)
(* into the screens of a release, by the exporter of the editor            *)
(* (model/export.ts) or by the service that publishes a course             *)
(* (_expand_library_simulation).  The rules of the service are those of    *)
(* create_release.  Screens are named by their position, and one flaw at   *)
(* most, of those that the graph does not show, is assumed of a scenario.  *)
(* Of the hotspots one is measured, along the width of its screen.         *)
(***************************************************************************)
EXTENDS Integers, FiniteSets

CONSTANTS
    Screens,    \* how many screens a scenario has
    Spots       \* measures of the hotspot, in thousandths of a percent

ASSUME RulesConstants == Screens \in Nat \ {0} /\ Spots \subseteq [x : Int, width : Int]

VARIABLES
    drawn,      \* the scenario as it is stored
    edited,     \* the scenario as the editor has read it, or NoScenario
    issues,     \* errors and warnings found, or NoScenario
    released    \* screens of the release, or NoScenario

rulesVars == <<drawn, edited, issues, released>>

Pos == 1..Screens
Gone == 0               \* the identifier of a screen that was deleted
NoScenario == [none |-> TRUE]
Hundred == 100000       \* the width of the screen
OnePercent == 1000      \* that of the thinnest hotspot
\* Two screens share a key; the name, versions or date of the application are wrong.
Flaw == {"none", "same key", "application"}
Scenario ==
    [links : [Pos -> SUBSET (Pos \cup {Gone})], ends : SUBSET Pos, start : Pos \cup {Gone},
     named : BOOLEAN, flaw : Flaw,
     spot : Spots]

\* normalizeSimulationDraft: a start that is not there is replaced.
Normalized(s) ==
    [s EXCEPT !.start = IF s.named /\ s.start # Gone THEN s.start ELSE 1, !.named = TRUE]

-----------------------------------------------------------------------------
(* validateSimulationDraft *)

\* adjacency: links to screens that exist.
Adjacency(s) == [p \in Pos |-> s.links[p] \cap Pos]

\* The loop over the queue, which every screen leaves once.
Visited(adjacency, from) ==
    LET wave[n \in 0..Screens] ==
            IF n = 0 THEN {from}
            ELSE wave[n - 1] \cup UNION {adjacency[p] : p \in wave[n - 1]}
    IN  wave[Screens]

ReachedBy(s) == Visited(Adjacency(s), s.start)

StartEnds(s) == s.start \in s.ends

\* hasInvalidHotspotBounds: the other bounds of each measure follow.
InBounds(spot) ==
    /\ spot.x >= 0 /\ spot.width >= OnePercent
    /\ spot.x + spot.width <= Hundred

ApplicationIssues(s) == IF s.flaw = "application" THEN {"application"} ELSE {}
CompletionIssues(s) == IF s.ends = {} THEN {"no-completion-screens"} ELSE {}
StartIssues(s) == IF s.start \notin Pos THEN {"invalid-start-screen"} ELSE {}
KeyIssues(s) == IF s.flaw = "same key" THEN {"duplicate-key"} ELSE {}
HotspotIssues(s) ==
    (IF InBounds(s.spot) THEN {} ELSE {"hotspot-bounds"})
    \cup {"hotspot-target" : p \in {p \in Pos : Gone \in s.links[p]}}
TransitionIssues(s) ==
    IF (\A p \in Pos : s.links[p] = {}) /\ ~StartEnds(s) THEN {"no-transitions"} ELSE {}
OutgoingIssues(s) ==
    IF Adjacency(s)[s.start] = {} /\ ~StartEnds(s) THEN {"start-without-outgoing"} ELSE {}

\* Slip: a completion screen that the start does not reach is not looked for.
ReachLax(s) == {}

ReachIssues(s) ==
    {"unreachable-screens" : p \in Pos \ ReachedBy(s)}
    \cup (IF s.ends # {} /\ s.ends \cap ReachedBy(s) = {}
          THEN {"unreachable-completion-screens"} ELSE {})

DeadEnds(s) == {p \in ReachedBy(s) \ s.ends : Adjacency(s)[p] = {}}
EndsThatGoOn(s) == {p \in s.ends : Adjacency(s)[p] # {}}

Errors(s) ==
    ApplicationIssues(s) \cup CompletionIssues(s) \cup StartIssues(s) \cup KeyIssues(s)
    \cup HotspotIssues(s) \cup TransitionIssues(s)
    \cup IF s.start \in Pos THEN OutgoingIssues(s) \cup ReachIssues(s) ELSE {}

-----------------------------------------------------------------------------
(* Screens of a release *)

Clamped(n, least) == IF n < least THEN least ELSE IF n > Hundred THEN Hundred ELSE n

\* toFixed(2): the nearest hundredth.  A tie may fall on either side, as the binary
\* fraction next to it lies.
ToNumber(n) ==
    {m \in {(n \div 10) * 10, (n \div 10) * 10 + 10} : m - n <= 5 /\ n - m <= 5}

Rounded(spot) ==
    [x : ToNumber(Clamped(spot.x, 0)), width : ToNumber(Clamped(spot.width, OnePercent))]

\* simulationDraftToReleaseScreens: what a scenario may be exported as.
Exported(s) ==
    {[links |-> Adjacency(s), ends |-> s.ends, starts |-> {s.start} \cap Pos,
      distinct |-> s.flaw # "same key", spot |-> spot] :
        spot \in Rounded(s.spot)}

\* _expand_library_simulation: keys are made up from the position, the measures
\* stay as they are.  An unknown start, unlike a missing one, starts nowhere.
Expanded(s) ==
    [links |-> Adjacency(s), ends |-> s.ends,
     starts |-> IF s.named THEN {s.start} \cap Pos ELSE {1},
     distinct |-> TRUE, spot |-> s.spot]

\* _validate_simulation_hotspot
InsideScreen(spot) == spot.x >= 0 /\ spot.width > 0 /\ spot.x + spot.width <= Hundred

\* _validate_screens, _validate_simulation_payload and _collect_reachable_screens.
Accepts(r) ==
    /\ r.distinct /\ InsideScreen(r.spot)
    /\ Cardinality(r.starts) = 1
    /\ \E p \in r.starts : Visited(r.links, p) \cap r.ends # {}

-----------------------------------------------------------------------------
\* The first screen may branch, any other has one hotspot at most.  A flaw is not
\* joined to a hotspot out of bounds.
RulesInit ==
    /\ drawn \in {s \in Scenario :
                    /\ \A p \in Pos : Cardinality(s.links[p]) <= (IF p = 1 THEN 2 ELSE 1)
                    /\ s.named \/ s.start = Gone
                    /\ s.flaw = "none" \/ InBounds(s.spot)}
    /\ edited = NoScenario /\ issues = NoScenario /\ released = NoScenario

Edit ==
    /\ edited = NoScenario
    /\ edited' = Normalized(drawn)
    /\ UNCHANGED <<drawn, issues, released>>

Check ==
    /\ edited # NoScenario /\ issues = NoScenario
    /\ issues' = [errors |-> Errors(edited), warned |-> DeadEnds(edited) \cup EndsThatGoOn(edited)]
    /\ UNCHANGED <<drawn, edited, released>>

\* The editor exports, or saves for a course that is published.
Release ==
    /\ issues # NoScenario /\ released = NoScenario
    /\ released' \in Exported(edited) \cup {Expanded(edited)}
    /\ UNCHANGED <<drawn, edited, issues>>

RulesNext == Edit \/ Check \/ Release

RulesSpec == RulesInit /\ [][RulesNext]_rulesVars

-----------------------------------------------------------------------------
(* Properties *)

\* A hotspot that the export may push over the edge: its measures have a third
\* decimal, and it ends within a hundredth of a percent of the edge.
RoundsOver(spot) ==
    (spot.x % 10 # 0 \/ spot.width % 10 # 0) /\ spot.x + spot.width > Hundred - 10

\* The two sets of rules agree: a scenario the editor finds no error in makes
\* screens that the rules of create_release accept, by either way, unless the
\* export rounds a hotspot over the edge of its screen.
CheckedScenarioIsAccepted ==
    released # NoScenario /\ issues.errors = {} =>
        Accepts(released) \/ (RoundsOver(edited.spot) /\ released # Expanded(edited))
=============================================================================
