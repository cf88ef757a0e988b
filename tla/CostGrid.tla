---- MODULE CostGrid ----
(***************************************************************************)
(* CostMap: looking up what lies at a point in metres. Coordinates are     *)
(* whole numbers of a unit of which a cell measures Resolution, so that    *)
(* points inside a cell, on its edge and off the map are all there.        *)
(* GridMap: judging a pixel of the raster that SLAM built. Probabilities   *)
(* are counted in steps of 1/255, thresholds in thousandths.               *)
(***************************************************************************)
EXTENDS Integers

CONSTANTS
    Width, Height,    \* cells
    Resolution,       \* units per cell, even, so that a cell has a centre
    Reach             \* bound: how far off the map a point may lie, in units

ASSUME GridAssumption ==
    /\ Width \in Nat \ {0} /\ Height \in Nat \ {0}
    /\ Resolution \in Nat \ {0} /\ Resolution % 2 = 0
    /\ Reach \in Nat

FREE == 0
INSCRIBED == 253
LETHAL == 255

OccupiedThresh == 650
FreeThresh == 196

VARIABLES
    gridOrigin,    \* origin_x, origin_y
    wall,          \* the cell, by row and column, that is not free
    point,         \* where the caller looks, in the map frame
    negate,        \* of the GridMap: are light pixels the occupied ones?
    pixel          \* the grey value the caller judges

gridVars == <<gridOrigin, wall, point>>
pixelVars == <<negate, pixel>>

\* int() drops the fraction, towards zero from either side.
Truncated(a, b) == IF a >= 0 THEN a \div b ELSE -((-a) \div b)

\* A plausible slip: the axes swapped, x for the row.
WorldToGridSwapped(x, y) == <<Truncated(x - gridOrigin[1], Resolution), Truncated(y - gridOrigin[2], Resolution)>>

WorldToGrid(x, y) ==
    LET col == Truncated(x - gridOrigin[1], Resolution)
        row == Truncated(y - gridOrigin[2], Resolution)
    IN  <<row, col>>

\* The centre of a cell.
GridToWorld(row, col) ==
    <<gridOrigin[1] + col * Resolution + Resolution \div 2,
      gridOrigin[2] + row * Resolution + Resolution \div 2>>

\* data[row * width + col]
Data(i) == IF i = wall[1] * Width + wall[2] THEN INSCRIBED ELSE FREE

GetCost(row, col) ==
    IF row \in 0..(Height - 1) /\ col \in 0..(Width - 1) THEN Data(row * Width + col) ELSE LETHAL

IsFree(row, col) == GetCost(row, col) < INSCRIBED

IsFreeAt(x, y) == LET cell == WorldToGrid(x, y) IN IsFree(cell[1], cell[2])

----
(* GridMap.                                                                *)

Grey == 0..255

Probability(p) == IF negate THEN p ELSE 255 - p

IsOccupied(p) == Probability(p) * 1000 >= OccupiedThresh * 255
IsKnownFree(p) == Probability(p) * 1000 <= FreeThresh * 255

----
Xs == (-Reach)..(Width * Resolution + Reach)
Ys == (-Reach)..(Height * Resolution + Reach)

GridInit == gridOrigin = <<0, 0>> /\ wall = <<0, 0>> /\ point = <<0, 0>>
PixelInit == negate = FALSE /\ pixel = 0

\* A map arrives.
MapArrives ==
    /\ gridOrigin' \in {-Resolution, 0} \X {0, 1}
    /\ wall' \in (0..(Height - 1)) \X (0..(Width - 1))
    /\ point' = gridOrigin'

\* The caller looks along a row or a column of points on it and around it.
LookUp ==
    /\ \/ \E x \in Xs : point' = [point EXCEPT ![1] = gridOrigin[1] + x]
       \/ \E y \in Ys : point' = [point EXCEPT ![2] = gridOrigin[2] + y]
    /\ UNCHANGED <<gridOrigin, wall>>

\* The caller judges any pixel of a raster of either kind.
Judge == negate' \in BOOLEAN /\ pixel' \in Grey

GridNext == MapArrives \/ LookUp

LookupNext ==
    \/ GridNext /\ UNCHANGED pixelVars
    \/ Judge /\ UNCHANGED gridVars

LookupSpec == GridInit /\ PixelInit /\ [][LookupNext]_<<gridVars, pixelVars>>

----
(* Properties.                                                             *)

\* Whether the point lies on the map, and on the wall's square.
OnMap ==
    /\ point[1] >= gridOrigin[1] /\ point[1] < gridOrigin[1] + Width * Resolution
    /\ point[2] >= gridOrigin[2] /\ point[2] < gridOrigin[2] + Height * Resolution

OnWall ==
    LET west == gridOrigin[1] + wall[2] * Resolution
        south == gridOrigin[2] + wall[1] * Resolution
    IN  /\ west <= point[1] /\ point[1] < west + Resolution
        /\ south <= point[2] /\ point[2] < south + Resolution

\* Nothing is free off the map: get_cost answers LETHAL for a cell outside it,
\* "off the map is not free" (occupancy.py:46-47). The code keeps to that of the
\* cells; of the points in the strip of one cell before the near edges it does
\* not, because int() takes them for points of the edge cells.
OffTheMapIsNotFree == IsFreeAt(point[1], point[2]) => OnMap

\* On the map, a point is free exactly when it is not on the wall's square, and
\* the cell it is looked up in has its centre within half a cell of it; and what
\* OffTheMapIsNotFree does not get goes no further than that strip: beyond the
\* far edges, and a cell or more before the near ones, nothing is free
\* (occupancy.py:46-47, 73-102).
PointsAreFound ==
    /\ OnMap =>
        /\ IsFreeAt(point[1], point[2]) <=> ~OnWall
        /\ LET cell == WorldToGrid(point[1], point[2])
               centre == GridToWorld(cell[1], cell[2])
           IN  \A axis \in {1, 2} :
                   /\ 2 * (point[axis] - centre[axis]) < Resolution
                   /\ 2 * (centre[axis] - point[axis]) <= Resolution
    /\ IsFreeAt(point[1], point[2]) =>
        /\ point[1] - gridOrigin[1] \in (1 - Resolution)..(Width * Resolution - 1)
        /\ point[2] - gridOrigin[2] \in (1 - Resolution)..(Height * Resolution - 1)

\* No pixel is an obstacle and free, a pixel that is neither is unknown, and
\* the three are bands: next to an obstacle on the grey scale, a darker pixel is
\* one too, and next to free floor a lighter one is free - or the other way
\* round in a raster whose greys are inverted (occupancy.py:168-172, 190-207).
PixelsAreJudged ==
    /\ ~(IsOccupied(pixel) /\ IsKnownFree(pixel))
    /\ LET worse == IF negate THEN pixel + 1 ELSE pixel - 1
       IN  worse \in Grey =>
               /\ IsOccupied(pixel) => IsOccupied(worse)
               /\ IsKnownFree(worse) => IsKnownFree(pixel)
    /\ IsOccupied(IF negate THEN 255 ELSE 0) /\ IsKnownFree(IF negate THEN 0 ELSE 255)

\* What lies at a point, and what a pixel means.
LookupsAreRight == PointsAreFound /\ PixelsAreJudged
====
