------------------------------ MODULE NocCoords ------------------------------
(***************************************************************************)
(* Coordinates on the NoC (src/src/tile.cpp): where the tiles of a chip    *)
(* are, the translation tables the chip starts with, which order its       *)
(* columns or rows by the chip's harvesting, the NOC_ID_LOGICAL a tile     *)
(* reads, and the way from the coordinates of a request to a tile.         *)
(*                                                                         *)
(* w is TRUE for Wormhole (TT_ARCH_VERSION 0), FALSE for Blackhole; h is   *)
(* the chip's harvesting mask, as the set of its bits; n is the NoC.       *)
(***************************************************************************)
EXTENDS Integers, Sequences, FiniteSets, SequencesExt

Nocs == {0, 1}

\* NUM_TILE_COLS, NUM_TILE_ROWS, and the last coordinate of an axis.
Columns(w) == IF w THEN 0 .. 9 ELSE 0 .. 16
Rows == 0 .. 11
LastX(w) == IF w THEN 9 ELSE 16
LastY == 11

TENSIX_COLUMNS(w) == IF w THEN <<1, 2, 3, 4, 6, 7, 8, 9>>
                     ELSE <<1, 2, 3, 4, 5, 6, 7, 10, 11, 12, 13, 14, 15, 16>>
TENSIX_ROWS(w) == IF w THEN <<1, 2, 3, 4, 5, 7, 8, 9, 10, 11>>
                  ELSE <<2, 3, 4, 5, 6, 7, 8, 9, 10, 11>>
TENSIX_HARVESTING_ORDER == <<1, 16, 2, 15, 3, 14, 4, 13, 5, 12, 6, 11, 7, 10>>
GDDR_ROWS == <<0, 1, 11, 2, 10, 3, 9, 4, 8, 5, 7, 6>>
LiveEth == 12    \* of Blackhole's Ethernet tiles (ETH_LIVE_STATUS_MASK)

NonTensixColumns(w) == IF w THEN {0, 5} ELSE {0, 8, 9}
NonTensixRows(w)    == IF w THEN {0, 6} ELSE {0, 1}

\* Wormhole's mask names rows of Tensix tiles, Blackhole's names columns.
HarvestedRows(w, h)    == IF w THEN {TENSIX_ROWS(w)[i + 1] : i \in h} ELSE {}
HarvestedColumns(w, h) == IF w THEN {} ELSE {TENSIX_COLUMNS(w)[i + 1] : i \in h}

-----------------------------------------------------------------------------
(* The tiles.                                                              *)

\* The ports of each DRAM channel.
Ports(w) ==
  IF w THEN << {<<0, 0>>, <<0, 1>>, <<0, 11>>}, {<<0, 5>>, <<0, 6>>, <<0, 7>>},
               {<<5, 0>>, <<5, 1>>, <<5, 11>>}, {<<5, 2>>, <<5, 9>>, <<5, 10>>},
               {<<5, 3>>, <<5, 4>>, <<5, 8>>},  {<<5, 5>>, <<5, 6>>, <<5, 7>>} >>
  ELSE LET side(x) == << {<<x, 0>>, <<x, 1>>, <<x, 11>>}, {<<x, 2>>, <<x, 3>>, <<x, 10>>},
                         {<<x, 4>>, <<x, 8>>, <<x, 9>>},  {<<x, 5>>, <<x, 6>>, <<x, 7>>} >>
       IN side(0) \o side(9)
ArcAt(w)  == IF w THEN <<0, 10>> ELSE <<8, 0>>
PcieAt(w) == IF w THEN <<0, 3>> ELSE <<2, 0>>

\* Where Ethernet tile i is: from the sides to the middle, or the other way.
EthAt(w, i) ==
  LET k == i % 8
      x == IF w THEN (IF k % 2 = 1 THEN k \div 2 ELSE (6 - k) \div 2 + 4)
           ELSE (IF i % 2 = 1 THEN (13 - i) \div 2 + 7 ELSE i \div 2)
      half == IF w THEN 4 ELSE 7
  IN << x + (IF x < half THEN 1 ELSE IF w THEN 2 ELSE 3), IF w THEN 6 * (i \div 8) ELSE 1 >>

TensixX(w) == IF w THEN (1 .. 4) \cup (6 .. 9) ELSE (1 .. 7) \cup (10 .. 16)
TensixY(w) == IF w THEN (1 .. 5) \cup (7 .. 11) ELSE 2 .. 11
EthIds(w) == IF w THEN 0 .. 15 ELSE 0 .. 13

Tiles(w) == {<<"T", xy>> : xy \in TensixX(w) \X TensixY(w)}
            \cup {<<"E", i>> : i \in EthIds(w)}
            \cup {<<"D", c>> : c \in 0 .. Len(Ports(w)) - 1}
            \cup {<<"P", 0>>, <<"A", 0>>}
NoTile == <<"none", 0>>

\* tile_to_coord, of the tiles with a NIU of their own
Coord(w, t) == CASE t[1] = "T" -> t[2]
                 [] t[1] = "E" -> EthAt(w, t[2])
                 [] t[1] = "P" -> PcieAt(w)
                 [] t[1] = "A" -> ArcAt(w)

\* coord_to_tile: nothing is modelled at the coordinates left over.
TileAt(w, xy) ==
  CASE xy[1] \in TensixX(w) /\ xy[2] \in TensixY(w) -> <<"T", xy>>
    [] \E i \in EthIds(w) : EthAt(w, i) = xy -> <<"E", CHOOSE i \in EthIds(w) : EthAt(w, i) = xy>>
    [] \E c \in DOMAIN Ports(w) : xy \in Ports(w)[c] ->
         <<"D", (CHOOSE c \in DOMAIN Ports(w) : xy \in Ports(w)[c]) - 1>>
    [] xy = PcieAt(w) -> <<"P", 0>>
    [] xy = ArcAt(w) -> <<"A", 0>>
    [] OTHER -> NoTile

-----------------------------------------------------------------------------
(* The translation tables.                                                 *)

\* Coordinates on NoC 1 count from the other corner.
MirrorX(w, n, x) == IF n = 1 THEN LastX(w) - x ELSE x
MirrorY(n, y)    == IF n = 1 THEN LastY - y ELSE y

\* The entries of seq whose places are in S, in order: that at place i is the
\* Rank(S, i)-th.
Rank(S, i) == Cardinality({j \in S : j <= i})
Picked(seq, S) == [k \in 1 .. Cardinality(S) |-> seq[CHOOSE i \in S : Rank(S, i) = k]]

\* The physical rows (Wormhole) and columns (Blackhole) in logical order:
\* those in use, then the harvested ones.
RowOrder(h) ==
  LET cut == {i \in 1 .. 10 : i - 1 \in h} IN
  Picked(TENSIX_ROWS(TRUE), (1 .. 10) \ cut) \o Picked(TENSIX_ROWS(TRUE), cut)

\* Mutant of ColumnOrder: every column keeps its place.
ColumnOrderPhysical(h) == TENSIX_COLUMNS(FALSE)

ColumnOrder(h) ==
  LET used == {i \in 1 .. 14 : i - 1 \notin h}
      cut  == {i \in 1 .. 14 : TENSIX_HARVESTING_ORDER[i] \in HarvestedColumns(FALSE, h)}
  IN Picked(TENSIX_COLUMNS(FALSE), used) \o Reverse(Picked(TENSIX_HARVESTING_ORDER, cut))

\* Which of the columns v is.
ColumnIndex(v) == CHOOSE k \in DOMAIN TENSIX_COLUMNS(FALSE) : TENSIX_COLUMNS(FALSE)[k] = v

\* What the logical coordinate v stands for, as a physical one, given that order.
PhysicalX(w, order, v) ==
  IF w THEN CASE v <= 15 -> v
              [] v = 16 -> 0
              [] v = 17 -> 5
              [] v \in 18 .. 25 -> TENSIX_COLUMNS(w)[v - 17]
              [] OTHER -> 0
  ELSE CASE v \in ToSet(TENSIX_COLUMNS(w)) -> order[ColumnIndex(v)]
         [] v \in {8, 9} -> v
         [] v = 18 -> 9
         [] v = 19 -> 2
         [] v \in 20 .. 19 + LiveEth -> TENSIX_HARVESTING_ORDER[v - 19]
         [] OTHER -> 0

PhysicalY(w, order, v) ==
  IF w THEN CASE v <= 15 -> v
              [] v = 16 -> 0
              [] v = 17 -> 6
              [] v \in 18 .. 27 -> order[v - 17]
              [] OTHER -> 0
  ELSE CASE v <= 11 -> v
         [] v \in 12 .. 23 -> GDDR_ROWS[v - 11]
         [] v = 25 -> 1
         [] OTHER -> 0

\* noc_translation_x and _y: Wormhole's first 16 entries are the identity on
\* either NoC, and the last ones are 0.
TableX(w, h, n) ==
  LET order == ColumnOrder(h) IN
  [v \in 0 .. 31 |-> IF w /\ (v <= 15 \/ v > 25) THEN PhysicalX(w, order, v)
                     ELSE MirrorX(w, n, PhysicalX(w, order, v))]
TableY(w, h, n) ==
  LET order == RowOrder(h) IN
  [v \in 0 .. 31 |-> IF w /\ (v <= 15 \/ v > 27) THEN PhysicalY(w, order, v)
                     ELSE MirrorY(n, PhysicalY(w, order, v))]

\* noc_translation_table_find
Find(table, v, range) == CHOOSE i \in range : table[i] = v /\ \A j \in range : table[j] = v => i <= j

\* noc_id_logical of a tile with a NIU of its own, given the tables.
LogicalId(w, tx, ty, n, t) ==
  LET x == MirrorX(w, n, Coord(w, t)[1])
      y == MirrorY(n, Coord(w, t)[2])
  IN IF w THEN CASE t[1] = "T" -> <<Find(tx, x, 18 .. 25), Find(ty, y, 18 .. 27)>>
                 [] t[1] = "E" -> <<Find(tx, x, 18 .. 25), Find(ty, y, 16 .. 17)>>
                 [] t[1] \in {"P", "A"} -> <<Find(tx, x, 16 .. 17), y>>
     ELSE CASE t[1] = "T" -> <<Find(tx, x, 1 .. 16), Coord(w, t)[2]>>
            [] t[1] = "E" -> IF t[2] < LiveEth THEN <<20 + t[2], 25>> ELSE Coord(w, t)
            [] t[1] = "P" -> <<19, 24>>
            [] t[1] = "A" -> <<8, 0>>

Ids(w, h, n) ==
  LET tx == TableX(w, h, n)
      ty == TableY(w, h, n)
  IN [t \in {u \in Tiles(w) : u[1] # "D"} |-> LogicalId(w, tx, ty, n, t)]

\* noc_node_id
NodeId(w, n, t) == <<MirrorX(w, n, Coord(w, t)[1]), MirrorY(n, Coord(w, t)[2])>>

-----------------------------------------------------------------------------
(* remap_virtual_coordinate: what the sender's NIU takes the coordinates   *)
(* of a request for.                                                       *)

Nowhere == <<99, 99>>

\* Mutant of Remap: the columns of every row are translated.
RemapAllRows(w, tx, ty, n, translate, xy) ==
  LET x == IF translate THEN tx[xy[1]] ELSE xy[1]
      y == IF translate THEN ty[xy[2]] ELSE xy[2]
  IN IF x \notin Columns(w) \/ y \notin Rows THEN Nowhere
     ELSE <<MirrorX(w, n, x), MirrorY(n, y)>>

\* Blackhole's rows 0 and 1 keep their columns (noc_id_translate_row_mask).
Remap(w, tx, ty, n, translate, xy) ==
  LET x == IF translate /\ (w \/ xy[2] \notin {0, 1}) THEN tx[xy[1]] ELSE xy[1]
      y == IF translate THEN ty[xy[2]] ELSE xy[2]
  IN IF x \notin Columns(w) \/ y \notin Rows THEN Nowhere
     ELSE <<MirrorX(w, n, x), MirrorY(n, y)>>
=============================================================================
