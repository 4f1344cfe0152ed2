------------------------------- MODULE AoiGrid -------------------------------
(***************************************************************************)
(* AoiGrid (src/game/aoi_grid.{h,cpp}): which players are near each other. *)
(* A grid is a record of grid_, from a cell to the players in it, and      *)
(* player_cells_, from a player to its cell.  A point is a pair of         *)
(* integers, for the floats of the code.                                   *)
(***************************************************************************)
EXTENDS Integers, Maps

CONSTANT kCellSize   \* 200

ASSUME CellAssumption == kCellSize \in Nat \ {0}

emptyGrid == [grid |-> EmptyMap, cells |-> EmptyMap]

\* Mutant: the conversion to int32_t without floor, which rounds towards zero.
cellOfTruncated(point) ==
  LET cell(x) == IF x < 0 THEN -((-x) \div kCellSize) ELSE x \div kCellSize
  IN  <<cell(point[1]), cell(point[2])>>

cellOf(point) == <<point[1] \div kCellSize, point[2] \div kCellSize>>

\* Erase a player from its cell, and the cell when nobody is left in it.
leave(g, p) ==
  LET cell == g.cells[p]
  IN  IF g.grid[cell] = {p} THEN Erase(g.grid, {cell})
      ELSE Put(g.grid, cell, g.grid[cell] \ {p})

\* grid_[cell].insert(p), which makes the cell if it is not there.
enter(grid, cell, p) == Put(grid, cell, {p} \cup (IF cell \in DOMAIN grid THEN grid[cell] ELSE {}))

update(g, p, point) ==
  LET cell == cellOf(point)
  IN  IF p \notin DOMAIN g.cells
      THEN [grid |-> enter(g.grid, cell, p), cells |-> Put(g.cells, p, cell)]
      ELSE IF g.cells[p] = cell THEN g
      ELSE [grid |-> enter(leave(g, p), cell, p), cells |-> Put(g.cells, p, cell)]

\* The nine cells around a player's.
around(cell) == {<<cell[1] + dx, cell[2] + dy>> : dx \in -1 .. 1, dy \in -1 .. 1}

\* Mutant: a player does not see its own cell.
getNearbyOthers(g, p) ==
  IF p \notin DOMAIN g.cells THEN {}
  ELSE UNION {g.grid[cell] : cell \in (around(g.cells[p]) \ {g.cells[p]}) \cap DOMAIN g.grid}

getNearby(g, p) ==
  IF p \notin DOMAIN g.cells THEN {}
  ELSE UNION {g.grid[cell] : cell \in around(g.cells[p]) \cap DOMAIN g.grid}

=============================================================================
