----------------------- MODULE HotspotGeometryProofs -----------------------
(***************************************************************************)
(* The geometry of a hotspot for every length of the axis and every set of *)
(* least sizes the zooms give: each stage of a resize is bounded by the    *)
(* stage before it, and the rectangle a drag starts from is remembered.    *)
(***************************************************************************)
EXTENDS HotspotGeometry, TLAPS

Held == [kind : {"move", "resize"}, from : Coord, initial : Extent, end : End, begun : BOOLEAN]

\* The strengthening: what a drag remembers lies on the screen as well.
GeoInv ==
    /\ GeoTypeOK
    /\ HotspotInside
    /\ gesture \in Held => Inside(gesture.initial)

LEMMA StretchInside ==
    ASSUME NEW x \in Extent, Inside(x), NEW end \in End, NEW d \in Int, NEW m \in Least
    PROVE  Stretch(x, end, d, m) \in Extent /\ Inside(Stretch(x, end, d, m))
<1> DEFINE lo == IF end = "start" THEN x.at + d ELSE x.at
           hi == IF end = "end" THEN x.at + x.size + d ELSE x.at + x.size
           grown == Grown(lo, hi, end, m)
           off == OffStart(grown, end)
           onto == OffEnd(off, end)
           again == Regrown(onto, m)
<1>1. m \in Int /\ 1 <= m /\ m <= Full /\ Full \in Nat
  BY GeoConstants
<1>2. x.at \in Int /\ x.size \in Int /\ 0 <= x.at /\ 0 <= x.size /\ x.at + x.size <= Full
  BY <1>1 DEF Extent, Coord, Inside
<1>3. lo \in Int /\ hi \in Int /\ (end # "start" => lo >= 0) /\ (end # "end" => hi <= Full)
  BY <1>2
<1>4. /\ grown = [lo |-> grown.lo, hi |-> grown.hi] /\ grown.lo \in Int /\ grown.hi \in Int
      /\ end = "start" => grown.hi >= 0 /\ grown.hi <= Full
      /\ end = "end" => grown.lo >= 0 /\ grown.lo <= Full
      /\ end = "neither" => grown.lo >= 0 /\ grown.hi - grown.lo <= Full
  BY <1>1, <1>2, <1>3 DEF Grown, End
<1>5. /\ off = [lo |-> off.lo, hi |-> off.hi] /\ off.lo \in Int /\ off.hi \in Int
      /\ off.lo >= 0
      /\ end = "start" => off.hi <= Full
      /\ end = "end" => off.lo <= Full
      /\ end = "neither" => off.hi - off.lo <= Full
  <2> HIDE DEF grown
  <2> QED BY <1>1, <1>4 DEF OffStart, End
<1>6. /\ onto = [lo |-> onto.lo, hi |-> onto.hi] /\ onto.lo \in Int /\ onto.hi \in Int
      /\ onto.lo >= 0 /\ onto.hi <= Full
  <2> HIDE DEF off
  <2> QED BY <1>1, <1>5 DEF OffEnd, End
<1>7. /\ again = [lo |-> again.lo, hi |-> again.hi] /\ again.lo \in Int /\ again.hi \in Int
      /\ again.lo >= 0 /\ again.hi <= Full /\ again.hi - again.lo >= m
  <2> HIDE DEF onto
  <2> QED BY <1>1, <1>6 DEF Regrown, Clamp
<1>8. Stretch(x, end, d, m) = Settled(again, m)
  BY DEF Stretch
<1>9. Settled(again, m) \in Extent /\ Inside(Settled(again, m))
  <2> HIDE DEF again
  <2> QED BY <1>1, <1>7 DEF Settled, Clamp, Extent, Coord, Inside
<1> QED BY <1>8, <1>9

\* A resize by nothing changes nothing.
LEMMA StretchByNothing ==
    ASSUME NEW x, NEW end, NEW m \in 1..Full, Full \in Nat,
           x = [at |-> x.at, size |-> x.size], x.at \in 0..Full, x.size \in 0..Full,
           x.at + x.size <= Full, x.size >= m
    PROVE  Stretch(x, end, 0, m) = x
<1> DEFINE s == [lo |-> x.at, hi |-> x.at + x.size]
<1>1. Grown(x.at, x.at + x.size, end, m) = s
  BY DEF Grown
<1>2. OffStart(s, end) = s
  BY DEF OffStart
<1>3. OffEnd(s, end) = s
  BY DEF OffEnd
<1>4. Regrown(s, m) = s
  BY DEF Regrown
<1>5. Settled(s, m) = x
  BY DEF Settled, Clamp
<1>6. x.at + 0 = x.at /\ x.at + x.size + 0 = x.at + x.size
  OBVIOUS
<1> HIDE DEF s
<1> QED BY <1>1, <1>2, <1>3, <1>4, <1>5, <1>6 DEF Stretch

LEMMA ShiftInside ==
    ASSUME NEW x \in Extent, NEW d \in Int
    PROVE  Shift(x, d) \in Extent /\ Inside(Shift(x, d))
BY GeoConstants DEF Shift, Clamp, Extent, Coord, Inside

LEMMA BetweenInside ==
    ASSUME NEW a \in Coord, NEW b \in Coord
    PROVE  Between(a, b) \in Extent /\ Inside(Between(a, b))
BY GeoConstants DEF Between, Extent, Coord, Inside

\* What is dragged is a rectangle, and no rectangle is NoSpan.
LEMMA ExtentIsSpan == NoSpan \notin Extent
<1>1. \A x \in Extent : DOMAIN x = {"at", "size"}
  BY DEF Extent
<1>2. DOMAIN NoSpan = {"none"}
  BY DEF NoSpan
<1> QED BY <1>1, <1>2

\* The kind of a gesture tells its record.
LEMMA GestureKinds ==
    ASSUME GeoTypeOK
    PROVE  /\ gesture # NoGesture /\ gesture.kind # "draw" => gesture \in Held
           /\ gesture # NoGesture /\ gesture.kind = "draw" =>
                gesture \in [kind : {"draw"}, from : Coord]
           /\ gesture \in Held => gesture # NoGesture /\ gesture.kind # "draw"
BY DEF GeoTypeOK, NoGesture, Held

-----------------------------------------------------------------------------
LEMMA GeoInvInit == GeoInit => GeoInv
<1> SUFFICES ASSUME GeoInit PROVE GeoInv
  OBVIOUS
<1>1. GeoTypeOK
  BY GeoConstants DEF GeoInit, GeoTypeOK, Coord
<1>2. gesture \notin Held
  BY DEF GeoInit, NoGesture, Held
<1> QED BY <1>1, <1>2 DEF GeoInit, GeoInv, HotspotInside

LEMMA GeoInvStep == GeoInv /\ [GeoNext]_geoVars => GeoInv'
<1> SUFFICES ASSUME GeoInv, [GeoNext]_geoVars PROVE GeoInv'
  OBVIOUS
<1> USE DEF GeoInv
<1>1. CASE UNCHANGED geoVars
  BY <1>1 DEF geoVars, GeoTypeOK, HotspotInside
<1>2. ASSUME NEW p \in Coord, DrawStart(p) PROVE GeoInv'
  <2>1. gesture' \in [kind : {"draw"}, from : Coord]
    BY <1>2 DEF DrawStart
  <2>2. gesture' \notin Held
    BY <2>1 DEF Held
  <2> QED BY <1>2, <2>1, <2>2 DEF DrawStart, GeoTypeOK, HotspotInside
<1>3. ASSUME NEW p \in Coord, PointerMove(p) PROVE GeoInv'
  <2>1. CASE gesture.kind = "draw"
    BY <1>3, <2>1 DEF PointerMove, GeoTypeOK, HotspotInside
  <2>2. CASE gesture.kind # "draw"
    <3>1. gesture \in Held
      BY <1>3, <2>2, GestureKinds DEF PointerMove
    <3>2. gesture' \in Held /\ gesture'.initial = gesture.initial
      BY <1>3, <2>2, <3>1 DEF PointerMove, Held
    <3>3. Dragged(p) \in Extent /\ Inside(Dragged(p))
      <4>1. /\ gesture.initial \in Extent /\ Inside(gesture.initial) /\ gesture.end \in End
            /\ p - gesture.from \in Int /\ least \in Least
        BY <3>1, GeoConstants DEF Held, GeoTypeOK, Coord
      <4> QED BY <4>1, StretchInside, ShiftInside DEF Dragged
    <3>4. span' \in Extent \cup {NoSpan} /\ HotspotInside'
      BY <1>3, <2>2, <3>3 DEF PointerMove, GeoTypeOK, HotspotInside
    <3> QED BY <1>3, <3>1, <3>2, <3>4 DEF PointerMove, GeoTypeOK, Held
  <2> QED BY <2>1, <2>2
<1>4. ASSUME NEW p \in Coord, NEW kind \in {"move", "resize"}, NEW end \in End,
             Grab(p, kind, end)
      PROVE  GeoInv'
  <2>1. span \in Extent /\ Inside(span)
    BY <1>4 DEF Grab, GeoTypeOK, HotspotInside
  <2>2. gesture' \in Held /\ gesture'.initial = span
    BY <1>4, <2>1 DEF Grab, Held
  <2> QED BY <1>4, <2>1, <2>2 DEF Grab, GeoTypeOK, HotspotInside, Held
<1>5. ASSUME NEW p \in Coord, NEW end \in End, GrabResize(p, end) PROVE GeoInv'
  BY <1>4, <1>5 DEF GrabResize
<1>6. ASSUME NEW p \in Coord, GrabMove(p) PROVE GeoInv'
  BY <1>4, <1>6 DEF GrabMove, End
<1>7. CASE PointerUp
  <2>1. gesture' = NoGesture /\ gesture' \notin Held
    BY <1>7 DEF PointerUp, NoGesture, Held
  <2>2. CASE UNCHANGED span
    BY <1>7, <2>1, <2>2 DEF PointerUp, GeoTypeOK, HotspotInside
  <2>3. CASE gesture.kind = "draw" /\ span' = Between(gesture.from, pointer)
    <3>1. span' \in Extent /\ Inside(span')
      BY <1>7, <2>3, GestureKinds, BetweenInside DEF PointerUp, GeoTypeOK
    <3> QED BY <1>7, <2>1, <3>1 DEF PointerUp, GeoTypeOK, HotspotInside
  <2> QED BY <1>7, <2>2, <2>3 DEF PointerUp
<1>8. CASE PointerCancel
  <2>1. gesture' = NoGesture /\ gesture' \notin Held
    BY <1>8 DEF PointerCancel, NoGesture, Held
  <2> QED BY <1>8, <2>1 DEF PointerCancel, GeoTypeOK, HotspotInside
<1>9. CASE Zoom
  BY <1>9 DEF Zoom, GeoTypeOK, HotspotInside
<1>10. CASE DeleteHotspot
  BY <1>10 DEF DeleteHotspot, GeoTypeOK, HotspotInside
<1> QED BY <1>1, <1>2, <1>3, <1>5, <1>6, <1>7, <1>8, <1>9, <1>10 DEF GeoNext

\* Whatever is drawn, dragged, zoomed and deleted in whatever order, a hotspot
\* of the canvas lies on its screen (applyResize, clampRectToBounds).
THEOREM HotspotStaysInside == GeoSpec => []HotspotInside
<1>1. GeoInv => HotspotInside
  BY DEF GeoInv
<1> QED BY <1>1, GeoInvInit, GeoInvStep, PTL DEF GeoSpec

\* A drag is a function of where it began and where the pointer is: brought
\* back, the pointer brings the hotspot back (handleThumbnailPointerMove).
THEOREM DragsDoNotDrift == GeoSpec => NoDrift
<1> DEFINE Back == /\ gesture # NoGesture /\ gesture.kind # "draw" /\ gesture.begun
                   /\ span # NoSpan /\ span' # NoSpan
                   /\ gesture.initial.size >= least
                   /\ pointer' # pointer /\ pointer' = gesture.from
                   => span' = gesture.initial
<1>1. ASSUME GeoInv, [GeoNext]_geoVars PROVE [Back]_geoVars
  <2> SUFFICES ASSUME gesture # NoGesture, gesture.kind # "draw", gesture.begun,
                      span # NoSpan, span' # NoSpan, gesture.initial.size >= least,
                      pointer' # pointer, pointer' = gesture.from, GeoNext
               PROVE  span' = gesture.initial
    BY <1>1 DEF geoVars
  <2>1. PICK p \in Coord : PointerMove(p)
    BY DEF GeoNext, DrawStart, GrabMove, GrabResize, Grab, PointerUp, PointerCancel, Zoom,
           DeleteHotspot
  <2>2. gesture \in Held
    BY <1>1, GestureKinds DEF GeoInv
  <2>3. span' = Dragged(p) /\ p = gesture.from
    BY <2>1 DEF PointerMove
  <2>4. p - gesture.from = 0 /\ least \in Int /\ 1 <= least /\ least <= Full /\ Full \in Nat
    BY <1>1, <2>2, <2>3, GeoConstants DEF GeoInv, GeoTypeOK, Coord
  <2>5. /\ gesture.initial = [at |-> gesture.initial.at, size |-> gesture.initial.size]
        /\ gesture.initial.at \in 0..Full /\ gesture.initial.size \in 0..Full
        /\ gesture.initial.at + gesture.initial.size <= Full
    BY <1>1, <2>2 DEF GeoInv, Held, Extent, Coord, Inside
  <2>6. Shift(gesture.initial, 0) = gesture.initial
    BY <2>4, <2>5 DEF Shift, Clamp
  <2>7. Stretch(gesture.initial, gesture.end, 0, least) = gesture.initial
    BY <2>4, <2>5, StretchByNothing
  <2> QED BY <2>3, <2>4, <2>6, <2>7 DEF Dragged
<1> QED BY <1>1, GeoInvInit, GeoInvStep, PTL DEF GeoSpec, NoDrift
=============================================================================
