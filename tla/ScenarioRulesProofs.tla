------------------------- MODULE ScenarioRulesProofs -------------------------
(***************************************************************************)
(* The rules of the editor imply those of the service, for scenarios of    *)
(* any number of screens.                                                  *)
(***************************************************************************)
EXTENDS ScenarioRules, FiniteSetTheorems, TLAPS

\* A scenario the editor has read has a start and a name for it.
Read == {s \in Scenario : s.start \in Pos /\ s.named}

\* What is known along the way from the stored scenario to the release.
RulesInv ==
    /\ drawn \in Scenario
    /\ edited \in Read \cup {NoScenario}
    /\ issues # NoScenario => edited \in Read /\ issues.errors = Errors(edited)
    /\ released # NoScenario =>
        issues # NoScenario /\ released \in Exported(edited) \cup {Expanded(edited)}

\* A record with other fields is not the absent scenario.
LEMMA ScenarioIsOne ==
    /\ \A s \in Scenario : s # NoScenario
    /\ \A e, w : [errors |-> e, warned |-> w] # NoScenario
  BY DEF Scenario, NoScenario

\* Reading a scenario gives it a start.
LEMMA NormalizedIsRead ==
    ASSUME NEW s \in Scenario
    PROVE  Normalized(s) \in Read
  <1>1. 1 \in Pos
    BY RulesConstants DEF Pos
  <1>2. s.start # Gone => s.start \in Pos
    BY DEF Scenario
  <1> QED
    BY <1>1, <1>2 DEF Normalized, Scenario, Read

\* What it takes to pass: no flaw of the screens, and an end that is reached.
LEMMA PassingScenario ==
    ASSUME NEW s \in Read, Errors(s) = {}
    PROVE  /\ s.flaw # "same key"
           /\ InBounds(s.spot)
           /\ s.ends \cap ReachedBy(s) # {}
  <1>1. KeyIssues(s) = {} /\ HotspotIssues(s) = {} /\ CompletionIssues(s) = {} /\ ReachIssues(s) = {}
    BY DEF Errors, Read
  <1>2. s.flaw # "same key"
    BY <1>1 DEF KeyIssues
  <1>3. InBounds(s.spot)
    <2> SUFFICES ASSUME ~InBounds(s.spot) PROVE FALSE
      OBVIOUS
    <2>1. "hotspot-bounds" \in HotspotIssues(s)
      BY DEF HotspotIssues
    <2> QED
      BY <1>1, <2>1
  <1>4. s.ends # {}
    BY <1>1 DEF CompletionIssues
  <1>5. s.ends \cap ReachedBy(s) # {}
    BY <1>1, <1>4 DEF ReachIssues
  <1> QED
    BY <1>2, <1>3, <1>5

\* The bounds of the editor are within those of the service.
LEMMA InBoundsInside ==
    ASSUME NEW spot \in [x : Int, width : Int], InBounds(spot)
    PROVE  InsideScreen(spot)
  BY DEF InBounds, InsideScreen, OnePercent

\* Rounding moves a measure by half a hundredth at most, and a measure of two
\* decimals not at all.
LEMMA Rounding ==
    ASSUME NEW n \in Nat, NEW m \in ToNumber(n)
    PROVE  /\ m \in Int /\ m >= 0 /\ m <= n + 5
           /\ n >= OnePercent => m > 0
           /\ n % 10 = 0 => m = n
  BY DEF ToNumber, OnePercent

\* A hotspot in bounds is left alone by the export as far as it is clamped, and
\* rounded to measures that the service accepts, unless they reach over the edge.
LEMMA RoundedInside ==
    ASSUME NEW spot \in [x : Int, width : Int], InBounds(spot), ~RoundsOver(spot),
           NEW r \in Rounded(spot)
    PROVE  InsideScreen(r)
  <1>1. /\ spot.x \in Int /\ spot.x >= 0 /\ spot.x <= Hundred
        /\ spot.width \in Int /\ spot.width >= OnePercent /\ spot.width <= Hundred
        /\ spot.x + spot.width <= Hundred
    BY DEF InBounds, Hundred, OnePercent
  <1>2. Clamped(spot.x, 0) = spot.x /\ Clamped(spot.width, OnePercent) = spot.width
    BY <1>1 DEF Clamped, OnePercent, Hundred
  <1>3. spot.x \in Nat /\ spot.width \in Nat
    BY <1>1 DEF OnePercent, Hundred
  <1> DEFINE x == r.x
             width == r.width
  <1>4. x \in Int /\ x >= 0 /\ x <= spot.x + 5 /\ (spot.x % 10 = 0 => x = spot.x)
    <2>1. x \in ToNumber(spot.x)
      BY <1>2 DEF Rounded
    <2> QED
      BY <1>3, <2>1, Rounding
  <1>5. width \in Int /\ width > 0 /\ width <= spot.width + 5
        /\ (spot.width % 10 = 0 => width = spot.width)
    <2>1. width \in ToNumber(spot.width)
      BY <1>2 DEF Rounded
    <2> QED
      BY <1>1, <1>3, <2>1, Rounding
  <1>6. CASE spot.x % 10 = 0 /\ spot.width % 10 = 0
    BY <1>1, <1>4, <1>5, <1>6 DEF InsideScreen
  <1>7. CASE spot.x + spot.width <= Hundred - 10
    BY <1>3, <1>4, <1>5, <1>7 DEF InsideScreen, Hundred
  <1>8. spot.x + spot.width > Hundred - 10 \/ spot.x + spot.width <= Hundred - 10
    BY <1>3 DEF Hundred
  <1> QED
    BY <1>6, <1>7, <1>8 DEF RoundsOver

\* Screens with one start and an end that it reaches are accepted.
LEMMA OneStartThatEnds ==
    ASSUME NEW s \in Read, Errors(s) = {}, NEW r,
           r.distinct, InsideScreen(r.spot), r.starts = {s.start},
           r.links = Adjacency(s), r.ends = s.ends
    PROVE  Accepts(r)
  <1>1. Cardinality(r.starts) = 1
    BY FS_Singleton
  <1>2. s.start \in r.starts /\ Visited(r.links, s.start) \cap r.ends # {}
    BY PassingScenario DEF ReachedBy
  <1> QED
    BY <1>1, <1>2 DEF Accepts

\* The service finds nothing to refuse in what the editor finds no error in.
LEMMA RulesAgree ==
    ASSUME NEW s \in Read, Errors(s) = {}
    PROVE  /\ Accepts(Expanded(s))
           /\ ~RoundsOver(s.spot) => \A r \in Exported(s) : Accepts(r)
  <1>1. {s.start} \cap Pos = {s.start} /\ s.named
    BY DEF Read
  <1>2. s.flaw # "same key" /\ InBounds(s.spot)
    BY PassingScenario
  <1>3. s.spot \in [x : Int, width : Int]
    BY RulesConstants DEF Read, Scenario
  <1>4. ASSUME ~RoundsOver(s.spot), NEW r \in Exported(s) PROVE Accepts(r)
    <2>1. PICK spot \in Rounded(s.spot) :
            r = [links |-> Adjacency(s), ends |-> s.ends, starts |-> {s.start} \cap Pos,
                 distinct |-> s.flaw # "same key", spot |-> spot]
      BY <1>4 DEF Exported
    <2>2. /\ r.distinct /\ r.starts = {s.start}
          /\ r.links = Adjacency(s) /\ r.ends = s.ends
      BY <1>1, <1>2, <2>1
    <2>3. InsideScreen(r.spot)
      BY <1>2, <1>3, <1>4, <2>1, RoundedInside
    <2> QED
      BY <2>2, <2>3, OneStartThatEnds
  <1>5. Accepts(Expanded(s))
    <2>1. InsideScreen(s.spot)
      BY <1>2, <1>3, InBoundsInside
    <2> DEFINE r == Expanded(s)
    <2>2. /\ r.distinct /\ InsideScreen(r.spot) /\ r.starts = {s.start}
          /\ r.links = Adjacency(s) /\ r.ends = s.ends
      BY <1>1, <2>1 DEF Expanded
    <2>3. Accepts(r)
      <3> HIDE DEF r
      <3> QED
        BY <2>2, OneStartThatEnds
    <2> QED
      BY <2>3
  <1> QED
    BY <1>4, <1>5

LEMMA RulesInvInit == RulesInit => RulesInv
  BY DEF RulesInit, RulesInv

LEMMA RulesInvStep == RulesInv /\ [RulesNext]_rulesVars => RulesInv'
  <1> SUFFICES ASSUME RulesInv, [RulesNext]_rulesVars PROVE RulesInv'
    OBVIOUS
  <1>1. CASE Edit
    <2>1. edited' \in Read
      BY <1>1, NormalizedIsRead DEF Edit, RulesInv
    <2>2. issues = NoScenario /\ released = NoScenario
      BY <1>1, ScenarioIsOne DEF Edit, RulesInv, Read
    <2> QED
      BY <1>1, <2>1, <2>2 DEF Edit, RulesInv
  <1>2. CASE Check
    <2>1. edited \in Read /\ released = NoScenario
      BY <1>2 DEF Check, RulesInv
    <2>2. issues'.errors = Errors(edited)
      BY <1>2 DEF Check
    <2> QED
      BY <1>2, <2>1, <2>2 DEF Check, RulesInv
  <1>3. CASE Release
    BY <1>3 DEF Release, RulesInv
  <1>4. CASE UNCHANGED rulesVars
    BY <1>4 DEF rulesVars, RulesInv
  <1> QED
    BY <1>1, <1>2, <1>3, <1>4 DEF RulesNext

\* The rules of the editor imply those of create_release, whatever the number of
\* screens and the measures of the hotspot: a scenario without errors makes screens
\* the service accepts, but for a hotspot that the export rounds over the edge.
THEOREM CheckedIsAccepted == RulesSpec => []CheckedScenarioIsAccepted
  <1>1. RulesInv => CheckedScenarioIsAccepted
    <2> SUFFICES ASSUME RulesInv, released # NoScenario, issues.errors = {}
                 PROVE  \/ Accepts(released)
                        \/ RoundsOver(edited.spot) /\ released # Expanded(edited)
      BY DEF CheckedScenarioIsAccepted
    <2>1. edited \in Read /\ Errors(edited) = {}
      BY DEF RulesInv
    <2>2. released \in Exported(edited) \cup {Expanded(edited)}
      BY DEF RulesInv
    <2> QED
      BY <2>1, <2>2, RulesAgree
  <1> QED
    BY <1>1, RulesInvInit, RulesInvStep, PTL DEF RulesSpec
=============================================================================
