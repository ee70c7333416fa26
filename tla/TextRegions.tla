----------------------------- MODULE TextRegions ------------------------------
(***************************************************************************)
(* From the foreground of a detector map to the rectangles of its text:    *)
(* extract_contours floods the components with a stack, and                *)
(* minimum_area_rect turns a rectangle around the hull of each contour.    *)
(*                                                                         *)
(* Pixels are whole numbers and so are all products here: directions are   *)
(* not scaled to unit length, and a corner is scaled by the square of the  *)
(* length of its direction.  The rounding of floating-point numbers        *)
(* decides only between rectangles of one area, so any of them is taken.   *)
(***************************************************************************)
EXTENDS Integers, Sequences, FiniteSets, SequencesExt

CONSTANTS
    Width, Height,  \* of the detector map
    Maps,           \* the foregrounds, sets of pixels in raster order from 0
    MaxCandidates   \* DB_MAX_CANDIDATES

VARIABLES
    foreground,  \* the pixels above the threshold
    visited,     \* visited
    stack,       \* stack, the last pixel on top
    boundary,    \* boundary, of the component that is being flooded
    contours,    \* contours
    rectangles   \* the rectangles of the first contours, or NoRectangle

regions == <<foreground, visited, stack, boundary, contours, rectangles>>

Pixels == 0..(Width * Height - 1)
PointOf(pixel) == <<pixel % Width, pixel \div Width>>
InRasterOrder(set) == SelectSeq([i \in 1..(Width * Height) |-> i - 1], LAMBDA p : p \in set)

Around(pixel) ==
    LET x == pixel % Width
        y == pixel \div Width
    IN  {q \in Pixels \ {pixel} :
            (q % Width) - x \in -1..1 /\ (q \div Width) - y \in -1..1}

------------------------------------------------------------------------------
(***************************************************************************)
(* Geometry.                                                               *)
(***************************************************************************)
Minus(a, b) == <<a[1] - b[1], a[2] - b[2]>>
Dot(a, b) == a[1] * b[1] + a[2] * b[2]
Cross(origin, a, b) ==
    (a[1] - origin[1]) * (b[2] - origin[2]) - (a[2] - origin[2]) * (b[1] - origin[1])

\* compare_points
Precedes(a, b) == a[1] < b[1] \/ (a[1] = b[1] /\ a[2] < b[2])

DoubleArea(points) ==
    FoldLeft(LAMBDA sum, i :
                LET next == points[(i % Len(points)) + 1]
                IN  sum + points[i][1] * next[2] - next[1] * points[i][2],
             0, [i \in DOMAIN points |-> i])

\* The points, sorted with compare_points.
Sorted(points) ==
    SelectSeq([i \in 1..(Width * Height) |-> <<(i - 1) \div Height, (i - 1) % Height>>],
              LAMBDA p : p \in points)

\* One of the two chains of convex_hull: a point pops those that it leaves inside.
Chain(sorted) ==
    LET Kept(chain, point) ==
            CHOOSE n \in 0..Len(chain) :
                /\ n < 2 \/ Cross(chain[n - 1], chain[n], point) > 0
                /\ \A m \in (n + 1)..Len(chain) :
                      m >= 2 /\ Cross(chain[m - 1], chain[m], point) <= 0
    IN  FoldLeft(LAMBDA chain, point :
                    Append(SubSeq(chain, 1, Kept(chain, point)), point),
                 <<>>, sorted)

\* convex_hull, of points that are not repeated.
ConvexHull(points) ==
    LET sorted == Sorted(points)
    IN  Front(Chain(sorted)) \o Front(Chain(Reverse(sorted)))

HasHull(points) ==
    /\ Cardinality(points) >= 3
    /\ Len(ConvexHull(points)) >= 3
    /\ DoubleArea(ConvexHull(points)) > 0

\* support_index: the last of the points that are farthest in a direction.
SupportIndex(hull, direction) ==
    CHOOSE i \in DOMAIN hull :
        /\ \A j \in DOMAIN hull : Dot(hull[j], direction) <= Dot(hull[i], direction)
        /\ \A j \in (i + 1)..Len(hull) : Dot(hull[j], direction) < Dot(hull[i], direction)

After(hull, i, steps) == ((i + steps - 1) % Len(hull)) + 1

\* Mutant: a support advances by one point at most.
AdvanceOnce(hull, current, direction) ==
    LET next == After(hull, current, 1)
    IN  IF Dot(hull[next], direction) >= Dot(hull[current], direction) THEN next ELSE current

\* advance_support: on along the hull as long as it does not fall back.
AdvanceSupport(hull, current, direction) ==
    LET Falls(steps) == Dot(hull[After(hull, current, steps + 1)], direction)
                        < Dot(hull[After(hull, current, steps)], direction)
        stops == {steps \in 0..Len(hull) : steps = Len(hull) \/ Falls(steps)}
    IN  After(hull, current, CHOOSE steps \in stops : \A other \in stops : steps <= other)

\* The four directions of an edge: along it, back, to the inside, to the outside.
Directions(edge) ==
    LET u == edge
        v == <<-edge[2], edge[1]>>
    IN  <<u, Minus(<<0, 0>>, u), v, Minus(<<0, 0>>, v)>>

\* canonical_quad: from the top left corner on, clockwise as seen on the screen.
CanonicalQuad(corners) ==
    LET p == SortSeq(corners, Precedes)
        left == IF p[2][2] > p[1][2] THEN <<p[1], p[2]>> ELSE <<p[2], p[1]>>
        right == IF p[4][2] > p[3][2] THEN <<p[3], p[4]>> ELSE <<p[4], p[3]>>
    IN  <<left[1], right[1], right[2], left[2]>>

\* The rectangle along an edge, between four supports.
RectCandidate(hull, edge, supports) ==
    LET d == Directions(edge)
        far == <<Dot(hull[supports[1]], d[1]), Dot(hull[supports[2]], d[1]),
                 Dot(hull[supports[3]], d[3]), Dot(hull[supports[4]], d[3])>>
        Corner(u, v) == <<edge[1] * u - edge[2] * v, edge[2] * u + edge[1] * v>>
    IN  [scale |-> Dot(edge, edge),
         area |-> (far[1] - far[2]) * (far[3] - far[4]),
         corners |-> CanonicalQuad(<<Corner(far[2], far[4]), Corner(far[1], far[4]),
                                     Corner(far[1], far[3]), Corner(far[2], far[3])>>)]

\* The loop of minimum_area_rect: the supports go around the hull with its edges.
Candidates(hull) ==
    LET Edge(i) == Minus(hull[After(hull, i, 1)], hull[i])
        Supports(Support(_, _), edge) ==
            LET d == Directions(edge)
            IN  <<Support(1, d[1]), Support(2, d[2]), Support(3, d[3]), Support(4, d[4])>>
        First(k, direction) == SupportIndex(hull, direction)
        Turn(state, i) ==
            LET Advanced(k, direction) == AdvanceSupport(hull, state.supports[k], direction)
                supports == Supports(Advanced, Edge(i))
            IN  [supports |-> supports,
                 found |-> Append(state.found, RectCandidate(hull, Edge(i), supports))]
    IN  FoldLeft(Turn, [supports |-> Supports(First, Edge(1)), found |-> <<>>],
                 [i \in DOMAIN hull |-> i]).found

\* RectCandidate::precedes, up to the order of rectangles of one area.
Smaller(a, b) == a.area * b.scale < b.area * a.scale

NoRectangle == [area |-> 0]

------------------------------------------------------------------------------
Init ==
    /\ foreground \in Maps
    /\ visited = {}
    /\ stack = <<>> /\ boundary = <<>>
    /\ contours = <<>>
    /\ rectangles = <<>>

Seeds == IF Len(contours) = MaxCandidates THEN {} ELSE foreground \ visited

\* The scan comes to the next pixel of the foreground that was not visited; whatever
\* is before it was.
Discover ==
    /\ stack = <<>>
    /\ Seeds # {}
    /\ LET start == CHOOSE p \in Seeds : \A q \in Seeds : p <= q
       IN  stack' = <<start>> /\ visited' = visited \cup {start}
    /\ UNCHANGED <<foreground, boundary, contours, rectangles>>

\* Mutant: a pixel at the edge of the map is no boundary.
IsInnerBoundary(pixel) == ~(Around(pixel) \subseteq foreground)

IsBoundary(pixel) ==
    Cardinality(Around(pixel)) < 8 \/ ~(Around(pixel) \subseteq foreground)

\* A turn of the flood; the last one of a component adds its contour.
Flood ==
    /\ stack # <<>>
    /\ LET pixel == Last(stack)
           found == (Around(pixel) \cap foreground) \ visited
           edge == IF IsBoundary(pixel) THEN Append(boundary, pixel) ELSE boundary
       IN  /\ stack' = Front(stack) \o InRasterOrder(found)
           /\ visited' = visited \cup found
           /\ IF stack' = <<>>
              THEN contours' = Append(contours, edge) /\ boundary' = <<>>
              ELSE boundary' = edge /\ UNCHANGED contours
    /\ UNCHANGED <<foreground, rectangles>>

\* minimum_area_rect of the next contour; one without a hull is left out.
Enclose ==
    /\ stack = <<>> /\ Seeds = {}
    /\ Len(rectangles) < Len(contours)
    /\ LET points == {PointOf(p) : p \in Range(contours[Len(rectangles) + 1])}
           found == Range(Candidates(ConvexHull(points)))
       IN  IF HasHull(points)
           THEN \E best \in found :
                   /\ \A other \in found : ~Smaller(other, best)
                   /\ rectangles' = Append(rectangles, best)
           ELSE rectangles' = Append(rectangles, NoRectangle)
    /\ UNCHANGED <<foreground, visited, stack, boundary, contours>>

Next == Discover \/ Flood \/ Enclose

Spec == Init /\ [][Next]_regions

------------------------------------------------------------------------------
(***************************************************************************)
(* Components and rectangles as they are meant.                            *)
(***************************************************************************)
Component(pixel) ==
    LET grown[n \in 0..Cardinality(foreground)] ==
            IF n = 0 THEN {pixel}
            ELSE LET near == grown[n - 1]
                 IN  near \cup (foreground \cap UNION {Around(p) : p \in near})
    IN  grown[Cardinality(foreground)]

\* In the order of their first pixels.
Components ==
    FoldLeft(LAMBDA parts, p : IF \E part \in Range(parts) : p \in part
                               THEN parts ELSE Append(parts, Component(p)),
             <<>>, InRasterOrder(foreground))

Straight(points) ==
    \A a, b, c \in points : Cross(a, b, c) = 0

\* A rectangle of four corners, in order, with the points inside it.
Encloses(rectangle, points) ==
    LET c == rectangle.corners
        Scaled(p) == <<p[1] * rectangle.scale, p[2] * rectangle.scale>>
    IN  /\ Dot(Minus(c[2], c[1]), Minus(c[4], c[1])) = 0
        /\ Minus(c[2], c[1]) = Minus(c[3], c[4])
        /\ \A p \in points, i \in 1..4 : Cross(c[i], c[(i % 4) + 1], Scaled(p)) >= 0
        /\ DoubleArea(c) = 2 * rectangle.area * rectangle.scale

\* No rectangle is smaller that has two of the points on a side.
Least(rectangle, points) ==
    \A a, b \in points : a # b /\ (\A p \in points : Cross(a, b, p) >= 0) =>
        LET d == Directions(Minus(b, a))
            Far(k) == CHOOSE n \in {Dot(p, d[k]) : p \in points} :
                         \A p \in points : Dot(p, d[k]) <= n
        IN  rectangle.area * Dot(d[1], d[1])
            <= (Far(1) + Far(2)) * (Far(3) + Far(4)) * rectangle.scale

\* "Components are discovered with deterministic raster-order, eight-neighbor
\* connectivity and capped": each has one contour, without repetition; and the
\* rectangle that is turned around this contour contains the whole component, has no
\* smaller one beside it, and has its corners in order; unless all is on a line.
RegionsAreExact ==
    stack = <<>> /\ Seeds = {} /\ Len(rectangles) = Len(contours) =>
        LET parts == Components
        IN  /\ Len(contours) = (IF Len(parts) < MaxCandidates THEN Len(parts) ELSE MaxCandidates)
            /\ \A i \in DOMAIN contours :
                  LET points == {PointOf(p) : p \in parts[i]}
                  IN  /\ Range(contours[i]) \subseteq parts[i]
                      /\ IsInjective(contours[i])
                      /\ IF rectangles[i] = NoRectangle
                         THEN Straight(points)
                         ELSE Encloses(rectangles[i], points) /\ Least(rectangles[i], points)
==============================================================================
