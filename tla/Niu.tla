--------------------------------- MODULE Niu ---------------------------------
(***************************************************************************)
(* The NIUs of a tile (src/src/tile.cpp): its transactions on the two      *)
(* NoCs, the columns and rows its multicasts skip, and its counters, and   *)
(* which tiles of the chip have their clock off.  A transaction is         *)
(* performed at once, by the store to NOC_CMD_CTRL.                        *)
(*                                                                         *)
(* The program of the tile's cores is a sequence of requests, each for one *)
(* of the NoCs: what the command buffer holds when it is started, or a     *)
(* write to one of the configuration registers.  The checks of lengths and *)
(* alignments are left out: a request is one word, and what an access does *)
(* in the tile it reaches is in other modules, but for the write of a      *)
(* register that matters here, NIU_CFG_0 ("config").                       *)
(***************************************************************************)
EXTENDS NocCoords

CONSTANTS
  Boards,    \* <<w, h>>: the architecture and harvesting of a chip
  Programs   \* Programs[b][t]: what the cores of tile t of chip b may run

ASSUME BoardsAssumption ==
  Boards \subseteq ({TRUE} \X SUBSET (0 .. 9)) \cup ({FALSE} \X SUBSET (0 .. 13))

\* A transaction's coordinates are those of the tables; the start of one that is
\* no multicast is one of its ends.
Transactions == {"multicast", "write", "inline", "atomic", "read", "config"}
ASSUME ProgramsAssumption ==
  \A b \in Boards : \A t \in DOMAIN Programs[b] :
    /\ t \in Tiles(b[1]) /\ t[1] \in {"T", "E"}
    /\ \A p \in Programs[b][t] :
         /\ Len(p) \in Nat
         /\ \A i \in 1 .. Len(p) :
              /\ p[i].op \in {"niu cfg", "router cfg", "clear"} \cup Transactions => p[i].noc \in Nocs
              /\ p[i].op \in {"niu cfg", "config"} => p[i].on \in BOOLEAN /\ p[i].off \in BOOLEAN
              /\ p[i].op = "config" => p[i].reg \in Nocs
              /\ p[i].op \in Transactions =>
                   /\ {p[i].own, p[i].at, p[i].start} \subseteq (0 .. 31) \X (0 .. 31)
                   /\ p[i].op # "multicast" => p[i].start \in {p[i].own, p[i].at}

VARIABLES
  board,      \* the chip
  me,         \* the tile
  noc_translation_x, noc_translation_y,   \* its translation tables, for each NoC
  noc_id_logical,   \* noc_id_logical[n][t]: the NOC_ID_LOGICAL of tile t
  translate,  \* translate[n]: bit 14 of NIU_CFG_0
  clock_off,  \* clock_off[n]: the tiles whose NIU_CFG_0 has bit 12
  skip_x,     \* skip_x[n]: the columns set in ROUTER_CFG_1
  skip_y,     \* skip_y[n]: the rows set in ROUTER_CFG_3
  counters,   \* counters[n]: the counters of the NIU
  word,       \* word[t]: the word of tile t that requests are about
  local,      \* the word of this tile that they copy from or to
  prog, pc,   \* what the cores run, and which of its requests is next
  error       \* the TTSIM_VERIFY that ended the simulation, or none

fixed == <<board, me, noc_translation_x, noc_translation_y, noc_id_logical, prog>>
vars == <<fixed, translate, clock_off, skip_x, skip_y, counters, word, local, pc, error>>

w == board[1]
Cleared == [acks |-> 0, sent |-> 0, posted |-> 0, reads |-> 0, atomics |-> 0,
            postedAtomics |-> 0, outstanding |-> 0]

\* Where a request's coordinates lead on NoC n.
At(n, xy) == Remap(w, noc_translation_x[n], noc_translation_y[n], n, translate[n], xy)
TileOf(n, xy) == IF At(n, xy) = Nowhere THEN NoTile ELSE TileAt(w, At(n, xy))

Config == <<translate, clock_off, skip_x, skip_y>>
Fails(e) == error' = e /\ UNCHANGED <<Config, counters, word, local>>

\* The coordinates of both ends must be those of tiles, before all else, and where
\* a multicast starts must be on the grid.
Resolved(n, r) ==
  /\ translate[n] \/ ~w
  /\ TileOf(n, r.own) # NoTile /\ TileOf(n, r.at) # NoTile
  /\ At(n, r.start) # Nowhere

\* The tiles whose clock the ARC of Blackhole turns off at boot.
FusedOff ==
  {t \in Tiles(w) :
     ~w /\ IF t[1] = "T" THEN t[2][1] \in HarvestedColumns(w, board[2])
           ELSE t[1] = "E" /\ t[2] >= LiveEth}

\* check_tile_clock_on: either NIU turns the clock off.  Such a tile answers
\* requests to the registers of its NIUs and routers alone.
ClockOff(t) == ~w /\ \E m \in Nocs : t \in clock_off[m]

\* A write to NIU_CFG_0 of NIU m of tile t; only the translation of this tile's
\* NIUs is looked at.
SetNiuCfg(t, m, on, off) ==
  /\ clock_off' = [clock_off EXCEPT ![m] = IF off THEN @ \cup {t} ELSE @ \ {t}]
  /\ translate' = IF t = me THEN [translate EXCEPT ![m] = on] ELSE translate

-----------------------------------------------------------------------------
(* noc_cmd_ctrl.                                                           *)

\* The corner with the lower and the one with the higher coordinates.
Span(n, r) == IF n = 1 THEN <<At(n, r.at), At(n, r.start)>> ELSE <<At(n, r.start), At(n, r.at)>>

\* The rectangle, without the columns and rows this NIU is told to skip.
Reached(n, low, high) ==
  {<<x, y>> : x \in (low[1] .. high[1]) \ skip_x[n], y \in (low[2] .. high[2]) \ skip_y[n]}

\* Each tile that is written answers a request that is not posted; one request
\* was counted as outstanding.
Multicast(n, r) ==
  LET low == Span(n, r)[1]
      high == Span(n, r)[2]
      tiles == {TileAt(w, xy) : xy \in Reached(n, low, high)}
      written == IF r.include THEN tiles ELSE tiles \ {me}
      acks == Cardinality(written)
  IN IF ~(low[1] <= high[1] /\ low[2] <= high[2]) THEN Fails("start after end")
     ELSE IF \E t \in tiles : t[1] # "T" THEN Fails("multicast to another kind of tile")
     ELSE IF \E t \in written : ClockOff(t) THEN Fails("its clock is off")
     ELSE /\ word' = [t \in DOMAIN word |-> IF t \in written THEN local ELSE word[t]]
          /\ counters' =
               IF r.posted THEN [counters EXCEPT ![n].posted = @ + 1]
               ELSE [counters EXCEPT ![n].acks = @ + acks, ![n].sent = @ + 1,
                                     ![n].outstanding = @ - acks + 1]
          /\ UNCHANGED <<local, error>>

Acked(n, r) ==
  counters' = IF r.posted THEN [counters EXCEPT ![n].posted = @ + 1]
              ELSE [counters EXCEPT ![n].acks = @ + 1, ![n].sent = @ + 1]

Write(n, r) ==
  /\ word' = [word EXCEPT ![TileOf(n, r.at)] = local]
  /\ Acked(n, r)
  /\ UNCHANGED <<local, error>>

\* The data comes from the command buffer; Blackhole writes registers only.
InlineWrite(n, r) ==
  IF TileOf(n, r.at)[1] \notin {"T", "E"} THEN Fails("inline write to another kind of tile")
  ELSE /\ word' = [word EXCEPT ![TileOf(n, r.at)] = r.data]
       /\ Acked(n, r)
       /\ UNCHANGED <<local, error>>

\* An increment; the old value comes back unless it is posted.
Atomic(n, r) ==
  LET far == TileOf(n, r.at) IN
  IF far[1] \notin {"T", "E"} THEN Fails("atomic of another kind of tile")
  ELSE /\ word' = [word EXCEPT ![far] = @ + r.data]
       /\ local' = IF r.posted THEN local ELSE word[far]
       /\ counters' = IF r.posted THEN [counters EXCEPT ![n].postedAtomics = @ + 1]
                       ELSE [counters EXCEPT ![n].atomics = @ + 1]
       /\ UNCHANGED error

Read(n, r) ==
  /\ local' = word[TileOf(n, r.at)]
  /\ counters' = [counters EXCEPT ![n].reads = @ + 1]
  /\ UNCHANGED <<word, error>>

\* An inline write to NIU_CFG_0, which a tile answers with its clock off.
InlineConfig(n, r) ==
  LET far == TileOf(n, r.at) IN
  IF far[1] \notin {"T", "E"} THEN Fails("inline write to another kind of tile")
  ELSE /\ SetNiuCfg(far, r.reg, r.on, r.off)
       /\ Acked(n, r)
       /\ UNCHANGED <<skip_x, skip_y, word, local, error>>

\* The near end of every request must be this tile; tile_rd_bytes and
\* tile_wr_bytes look at the clock of the far one first.
CmdCtrl(n, r) ==
  IF ~Resolved(n, r) THEN Fails("no such tile")
  ELSE IF TileOf(n, r.own) # me THEN Fails("not this tile")
  ELSE IF r.op \notin {"multicast", "config"} /\ ClockOff(TileOf(n, r.at))
       THEN Fails("its clock is off")
  ELSE \/ /\ \/ r.op = "multicast" /\ Multicast(n, r)
             \/ r.op = "write" /\ Write(n, r)
             \/ r.op = "inline" /\ InlineWrite(n, r)
             \/ r.op = "atomic" /\ Atomic(n, r)
             \/ r.op = "read" /\ Read(n, r)
          /\ UNCHANGED Config
       \/ r.op = "config" /\ InlineConfig(n, r)

-----------------------------------------------------------------------------
(* The registers, and the tile's own memory.                               *)

CoreStore(v) == local' = v /\ UNCHANGED <<Config, counters, word, error>>

WriteNiuCfg(n, on, off) ==
  /\ SetNiuCfg(me, n, on, off)
  /\ UNCHANGED <<skip_x, skip_y, counters, word, local, error>>

\* The columns and rows without Tensix tiles stay set.
WriteRouterCfg(n, columns, rows) ==
  IF ~(NonTensixColumns(w) \subseteq columns /\ NonTensixRows(w) \subseteq rows)
  THEN Fails("clears a column or row without Tensix tiles")
  ELSE /\ skip_x' = [skip_x EXCEPT ![n] = columns]
       /\ skip_y' = [skip_y EXCEPT ![n] = rows]
       /\ UNCHANGED <<translate, clock_off, counters, word, local, error>>

ClearOutstanding(n) ==
  /\ counters' = [counters EXCEPT ![n].outstanding = 0]
  /\ UNCHANGED <<Config, word, local, error>>

-----------------------------------------------------------------------------
\* A word for each tile, so that they can be told apart.
FirstWord(t) == CASE t[1] = "T" -> 1000 + 32 * t[2][2] + t[2][1]
                  [] t[1] = "E" -> 2000 + t[2]
                  [] t[1] = "D" -> 3000 + t[2]
                  [] t[1] = "P" -> 4000
                  [] t[1] = "A" -> 5000

Init ==
  /\ board \in Boards
  /\ me \in DOMAIN Programs[board]
  /\ prog \in Programs[board][me] /\ pc = 1
  /\ noc_translation_x = [n \in Nocs |-> TableX(w, board[2], n)]
  /\ noc_translation_y = [n \in Nocs |-> TableY(w, board[2], n)]
  /\ noc_id_logical = [n \in Nocs |-> Ids(w, board[2], n)]
  /\ translate = [n \in Nocs |-> TRUE]
  /\ clock_off = [n \in Nocs |-> FusedOff]
  /\ skip_x = [n \in Nocs |-> NonTensixColumns(w) \cup HarvestedColumns(w, board[2])]
  /\ skip_y = [n \in Nocs |-> NonTensixRows(w) \cup HarvestedRows(w, board[2])]
  /\ counters = [n \in Nocs |-> Cleared]
  /\ word = [t \in Tiles(w) |-> FirstWord(t)]
  /\ local = 1
  /\ error = "none"

More == pc <= Len(prog) /\ error = "none"
Request == prog[pc]

\* A store of one of the tile's cores.
Store ==
  /\ More
  /\ pc' = pc + 1
  /\ \/ Request.op \in Transactions /\ CmdCtrl(Request.noc, Request)
     \/ Request.op = "niu cfg" /\ WriteNiuCfg(Request.noc, Request.on, Request.off)
     \/ Request.op = "router cfg" /\ WriteRouterCfg(Request.noc, Request.columns, Request.rows)
     \/ Request.op = "clear" /\ ClearOutstanding(Request.noc)
     \/ Request.op = "store" /\ CoreStore(Request.data)
  /\ UNCHANGED fixed

Done == ~More /\ UNCHANGED vars

Next == Store \/ Done
Spec == Init /\ [][Next]_vars

-----------------------------------------------------------------------------
(* Properties.                                                             *)

\* The tiles that software means by coordinates on NoC n: those that read them
\* as their NOC_ID_LOGICAL, or as their NOC_NODE_ID where that is not
\* translated, and the channels of DRAM.  The Ethernet tiles that are fused off
\* have no logical coordinates: the register holds the physical ones.
IdLeads(t) == w \/ t[1] # "E" \/ t[2] < LiveEth
AsItIs(n, t) == w \/ ~translate[n] \/ (n = 0 /\ Coord(w, t)[2] \in {0, 1})
Dram(n, xy) ==
  IF w THEN {c \in DOMAIN Ports(w) : <<MirrorX(w, n, xy[1]), MirrorY(n, xy[2])>> \in Ports(w)[c]}
  ELSE {c \in DOMAIN Ports(w) : /\ translate[n]
                                /\ xy[1] = IF c <= 4 THEN 17 ELSE 18
                                /\ xy[2] \in 12 .. 23 /\ (xy[2] - 12) \div 3 = (c - 1) % 4}
Means(n, xy) ==
  {t \in DOMAIN noc_id_logical[n] :
     \/ IdLeads(t) /\ translate[n] /\ noc_id_logical[n][t] = xy
     \/ AsItIs(n, t) /\ NodeId(w, n, t) = xy}
  \cup {<<"D", c - 1>> : c \in Dram(n, xy)}

\* No NIU of tile t turns its clock off; only Blackhole has that bit.
Answers(t) == w \/ \A m \in Nocs : t \notin clock_off[m]

\* The columns and rows that software has asked to be skipped since reset.
Asked(n) == {i \in 1 .. pc - 1 : prog[i].op = "router cfg" /\ prog[i].noc = n}
AskedToSkip(n, t) ==
  \E i \in Asked(n) : /\ \A j \in Asked(n) : j <= i
                      /\ t[2][1] \in prog[i].columns \/ t[2][2] \in prog[i].rows

InUse(t) == /\ t[1] = "T"
            /\ t[2][1] \notin HarvestedColumns(w, board[2])
            /\ t[2][2] \notin HarvestedRows(w, board[2])

\* A span between the logical coordinates of two Tensix tiles in use, in the
\* order that the NoC goes, while what is harvested is still skipped.
Low(n, r)  == IF n = 1 THEN r.at ELSE r.start
High(n, r) == IF n = 1 THEN r.start ELSE r.at
NamesSpan(n, r) ==
  /\ translate[n] /\ Means(n, r.own) = {me}
  /\ \A xy \in {r.start, r.at} :
       \E t \in DOMAIN noc_id_logical[n] : InUse(t) /\ noc_id_logical[n][t] = xy
  /\ \A axis \in {1, 2} : Low(n, r)[axis] <= High(n, r)[axis]
  /\ HarvestedColumns(w, board[2]) \subseteq skip_x[n]
  /\ HarvestedRows(w, board[2]) \subseteq skip_y[n]
NamedTiles(n, r) ==
  {t \in DOMAIN noc_id_logical[n] :
     /\ t[1] = "T" /\ ~AskedToSkip(n, t)
     /\ t # me \/ r.include
     /\ \A axis \in {1, 2} :
          noc_id_logical[n][t][axis] \in Low(n, r)[axis] .. High(n, r)[axis]}

\* A multicast writes the Tensix tiles whose NOC_ID_LOGICAL is in the span that
\* software names, and no other, whatever rows or columns of the chip are
\* harvested and on either NoC; and as many acknowledgements are counted, which
\* is what software waits for.  If the clock of one of them is off, the request
\* would never be answered, and the simulation ends.
MulticastStep ==
  More /\ Request.op = "multicast" /\ NamesSpan(Request.noc, Request) =>
    LET n == Request.noc
        named == NamedTiles(n, Request)
    IN IF \E t \in named : ~Answers(t) THEN error' # "none"
       ELSE /\ error' = "none"
            /\ word' = [t \in DOMAIN word |-> IF t \in named THEN local ELSE word[t]]
            /\ counters'[n].acks = counters[n].acks
                                     + IF Request.posted THEN 0 ELSE Cardinality(named)
MulticastExact == [][MulticastStep]_vars

\* A request to a tile by one of its names writes and reads that tile alone, on
\* either NoC and, in Blackhole, with translation on or off.  The tiles that are
\* fused off are among those with names: as long as either of its NIUs turns a
\* tile's clock off, a request to its memory ends the simulation and changes
\* nothing; a write to NIU_CFG_0 is performed all the same.
UnicastStep ==
  More /\ Request.op \in Transactions \ {"multicast"} =>
    LET r == Request
        far == Means(r.noc, r.at)
        regs == r.op \in {"inline", "atomic", "config"}
    IN (translate[r.noc] \/ ~w) /\ Cardinality(far) = 1 /\ Means(r.noc, r.own) = {me} =>
       \A t \in far :
         (regs => t[1] \in {"T", "E"}) =>
         IF ~Answers(t) /\ r.op # "config"
         THEN error' # "none" /\ UNCHANGED <<Config, word, local>>
         ELSE /\ error' = "none"
              /\ word' = [word EXCEPT ![t] = CASE r.op = "read" -> @
                                               [] r.op = "write" -> local
                                               [] r.op = "inline" -> r.data
                                               [] r.op = "atomic" -> @ + r.data
                                               [] r.op = "config" -> @]
              /\ local' = IF r.op = "read" \/ (r.op = "atomic" /\ ~r.posted) THEN word[t] ELSE local
              /\ \A m \in Nocs :
                   clock_off'[m] = IF r.op # "config" \/ m # r.reg THEN clock_off[m]
                                   ELSE IF r.off THEN clock_off[m] \cup {t}
                                   ELSE clock_off[m] \ {t}
UnicastExact == [][UnicastStep]_vars
=============================================================================
