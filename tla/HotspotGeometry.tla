-------------------------- MODULE HotspotGeometry --------------------------
(***************************************************************************)
(* The rectangle of a hotspot on the thumbnail of a screen (ScreenNode):   *)
(* it is drawn, moved by its grip and resized by its edges and corners,    *)
(* while the canvas may be zoomed at any moment.  The code computes the    *)
(* two axes separately and alike, so the model has one of them.  Lengths   *)
(* are per cent of the thumbnail, on a grid of Full steps.                 *)
(***************************************************************************)
EXTENDS Integers

CONSTANTS
    Full,       \* the length of the axis: 100 %
    Least       \* what 2 px may be in per cent, at the zooms of the canvas

ASSUME GeoConstants == Full \in Nat \ {0} /\ Least \subseteq 1..Full

VARIABLES
    span,       \* where the hotspot lies on the axis, or NoSpan
    gesture,    \* the pointer interaction under way, or NoGesture
    pointer,    \* where the pointer is on the thumbnail
    least       \* getMinHotspotSizePercent at the present zoom

geoVars == <<span, gesture, pointer, least>>

Coord == 0..Full
Extent == [at : Coord, size : Coord]
NoSpan == [none |-> TRUE]
NoGesture == [kind |-> "none"]
\* The end a handle drags: "n" and "s" drag neither end of the horizontal axis.
End == {"start", "end", "neither"}

Clamp(v, lo, hi) == IF v < lo THEN lo ELSE IF v > hi THEN hi ELSE v

\* buildRectFromPoints.
Between(a, b) == [at |-> IF a < b THEN a ELSE b, size |-> IF a < b THEN b - a ELSE a - b]

-----------------------------------------------------------------------------
(* applyResize in the order of the code: the dragged end, the least size,   *)
(* the two borders of the thumbnail, the least size again.                  *)

Grown(lo, hi, end, m) ==
    IF hi - lo >= m THEN [lo |-> lo, hi |-> hi]
    ELSE IF end = "start" THEN [lo |-> hi - m, hi |-> hi]
    ELSE [lo |-> lo, hi |-> lo + m]

OffStart(s, end) ==
    IF s.lo >= 0 THEN s
    ELSE IF end = "start" THEN [s EXCEPT !.lo = 0]
    ELSE [lo |-> 0, hi |-> s.hi - s.lo]

OffEnd(s, end) ==
    IF s.hi <= Full THEN s
    ELSE IF end = "end" THEN [s EXCEPT !.hi = Full]
    ELSE [lo |-> s.lo - (s.hi - Full), hi |-> Full]

Regrown(s, m) ==
    IF s.hi - s.lo >= m THEN s
    ELSE LET hi == Clamp(s.lo + m, m, Full) IN [lo |-> hi - m, hi |-> hi]

Settled(s, m) ==
    [at |-> Clamp(s.lo, 0, Full - m), size |-> Clamp(s.hi - s.lo, m, Full)]

Stretch(e, end, d, m) ==
    LET lo == IF end = "start" THEN e.at + d ELSE e.at
        hi == IF end = "end" THEN e.at + e.size + d ELSE e.at + e.size
    IN  Settled(Regrown(OffEnd(OffStart(Grown(lo, hi, end, m), end), end), m), m)

\* Slip: a move is stopped by the border for its near end only.
ShiftStart(e, d) == [at |-> Clamp(e.at + d, 0, Full), size |-> e.size]

\* clampRectToBounds of a rectangle that is moved.
Shift(e, d) ==
    LET size == Clamp(e.size, 0, Full)
    IN  [at |-> Clamp(e.at + d, 0, Full - size), size |-> size]

-----------------------------------------------------------------------------
(* Gestures *)

GeoInit ==
    /\ span = NoSpan /\ gesture = NoGesture
    /\ pointer = 0
    /\ least \in Least

\* handleThumbnailPointerDown, away from a hotspot.
DrawStart(p) ==
    /\ gesture = NoGesture /\ span = NoSpan
    /\ gesture' = [kind |-> "draw", from |-> p]
    /\ pointer' = p
    /\ UNCHANGED <<span, least>>

\* The rectangle of this moment is remembered for the whole gesture.
Grab(p, kind, end) ==
    /\ gesture = NoGesture /\ span # NoSpan
    /\ p - span.at \in 0..span.size
    /\ gesture' = [kind |-> kind, from |-> p, initial |-> span, end |-> end, begun |-> FALSE]
    /\ pointer' = p
    /\ UNCHANGED <<span, least>>

\* detectResizeHandle: an end is dragged from within 8 px, whatever that is in
\* per cent; near both ends, on a small hotspot, the nearer one is meant.
Near(p, end) ==
    \/ end = "neither"
    \/ end = "start" /\ 2 * (p - span.at) <= span.size
    \/ end = "end" /\ 2 * (p - span.at) >= span.size
GrabResize(p, end) == span # NoSpan /\ Near(p, end) /\ Grab(p, "resize", end)

\* handleHotspotGripPointerDown.
GrabMove(p) == Grab(p, "move", "neither")

\* Slip: the rectangle on the screen is dragged on, not the one remembered.
DraggedOn(p) ==
    IF gesture.kind = "move" THEN Shift(span, p - gesture.from)
    ELSE Stretch(span, gesture.end, p - gesture.from, least)

Dragged(p) ==
    IF gesture.kind = "move" THEN Shift(gesture.initial, p - gesture.from)
    ELSE Stretch(gesture.initial, gesture.end, p - gesture.from, least)

\* handleThumbnailPointerMove: a drag begins past a threshold, and its hotspot
\* may have been deleted since (onHotspotChange then changes nothing).
PointerMove(p) ==
    /\ gesture # NoGesture /\ p # pointer
    /\ pointer' = p
    /\ \/ gesture.kind = "draw" /\ UNCHANGED <<span, gesture>>
       \/ /\ gesture.kind # "draw"
          /\ span' = IF span = NoSpan THEN NoSpan ELSE Dragged(p)
          /\ gesture' = [gesture EXCEPT !.begun = TRUE]
       \/ gesture.kind # "draw" /\ ~gesture.begun /\ UNCHANGED <<span, gesture>>
    /\ UNCHANGED least

\* handleThumbnailPointerUp: a rectangle too small on either axis is dropped.
PointerUp ==
    /\ gesture # NoGesture
    /\ gesture' = NoGesture
    /\ LET drawn == Between(gesture.from, pointer)
       IN  \/ gesture.kind = "draw" /\ drawn.size >= least /\ span' = drawn
           \/ UNCHANGED span
    /\ UNCHANGED <<pointer, least>>

PointerCancel ==
    /\ gesture # NoGesture
    /\ gesture' = NoGesture
    /\ UNCHANGED <<span, pointer, least>>

\* The wheel zooms while a button is down, and Delete removes the hotspot.
Zoom ==
    /\ least' \in Least \ {least}
    /\ UNCHANGED <<span, gesture, pointer>>
DeleteHotspot ==
    /\ span # NoSpan
    /\ span' = NoSpan
    /\ UNCHANGED <<gesture, pointer, least>>

GeoNext ==
    \/ \E p \in Coord :
        \/ DrawStart(p) \/ PointerMove(p) \/ GrabMove(p)
        \/ \E end \in End : GrabResize(p, end)
    \/ PointerUp \/ PointerCancel \/ Zoom \/ DeleteHotspot

GeoSpec == GeoInit /\ [][GeoNext]_geoVars

-----------------------------------------------------------------------------
(* Properties *)

\* The gestures work on extents of the axis and on nothing else.
GeoTypeOK ==
    /\ span \in Extent \cup {NoSpan}
    /\ \/ gesture = NoGesture
       \/ gesture \in [kind : {"draw"}, from : Coord]
       \/ gesture \in [kind : {"move", "resize"}, from : Coord, initial : Extent,
                       end : End, begun : BOOLEAN]
    /\ pointer \in Coord /\ least \in Least

Inside(e) == e.at + e.size <= Full

\* Whatever is dragged where, and whatever the zoom, the hotspot lies on the
\* screen: normalizeHotspot would cut it and the server refuses a release whose
\* hotspot does not.
HotspotInside == span # NoSpan => Inside(span)

\* A resize leaves the end that is not dragged where it is, borders, least
\* size and zoom notwithstanding, if the hotspot was no smaller than the zoom
\* allows when it was grabbed.
OtherEndHolds ==
    [][/\ gesture # NoGesture /\ gesture' # NoGesture /\ gesture.kind = "resize"
       /\ span # NoSpan /\ span' # NoSpan /\ span' # span
       /\ gesture.initial.size >= least
       => /\ gesture.end # "start" => span'.at = gesture.initial.at
          /\ gesture.end # "end" => span'.at + span'.size
                                      = gesture.initial.at + gesture.initial.size]_geoVars

\* A drag does not drift: the pointer brought back to where it went down brings
\* the hotspot back, however far past the borders it was meanwhile.
NoDrift ==
    [][/\ gesture # NoGesture /\ gesture.kind # "draw" /\ gesture.begun
       /\ span # NoSpan /\ span' # NoSpan
       /\ gesture.initial.size >= least
       /\ pointer' # pointer /\ pointer' = gesture.from
       => span' = gesture.initial]_geoVars
=============================================================================
