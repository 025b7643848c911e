----------------------------- MODULE PcieEndpoint -----------------------------
(* The host's way into the chips (src/src/pcie.cpp, the PCI calls of            *)
(* src/src/libttsim.cpp) and the chips' way into host memory (tile.cpp): config *)
(* space with relocatable BARs, the TLB windows of BAR0 and BAR4, the DMA       *)
(* engines and the outbound iATU of BAR2, and the tiles behind them.            *)
(*                                                                              *)
(* Addresses count words.  An access returns a new machine m: the chips, host   *)
(* memory, the selected chip, the word last read and whether the simulator goes *)
(* on (an error ends it).                                                       *)
EXTENDS ArcTile, FiniteSets, FiniteSetsExt

CONSTANTS
  NumMmioChips,    \* g_num_mmio_chips
  Half,            \* 2^32: what one of the two words of a 64-bit register counts
  BarSize,         \* [wormhole -> [bar -> size]]
  Widths,          \* the width of each TLB window, in the order of the BAR
  CfgAt, ArcAt,    \* where BAR0 holds the window registers and Wormhole's ARC port
  ChunkSize,       \* DMA_BUFFER_SIZE
  Regions,         \* the outbound iATU regions
  WindowLimit,     \* IATU_OUTBOUND_WINDOW_LIMIT
  HostBase,        \* Wormhole's PCIE_HOST_WINDOW_BASE
  TileKind,        \* [coordinate -> "T", "D", "A", "P"]
  NonTensix,       \* the columns and rows outside the Tensix grid
  Disabled,        \* the columns and rows the routers are told to skip
  TileSize,        \* the words of memory of a tile
  HostSize         \* the words of host memory a device may be sent to

Bars == {0, 2, 4}
Chips == 0..(NumMmioChips - 1)
Coords == DOMAIN TileKind
Windows == DOMAIN Widths
NoCoord == <<0, 0>>

WindowBase(i) == FoldLeft(LAMBDA sum, w : sum + w, 0, SubSeq(Widths, 1, i - 1))
WindowsEnd == WindowBase(Len(Widths)) + Widths[Len(Widths)]
(* Blackhole reaches its last window through BAR4 alone; Wormhole's BAR4 is the *)
(* top of BAR0.                                                                 *)
LastWindow == Len(Widths)
Bar4Offset == BarSize[TRUE][0] - BarSize[TRUE][4]

---------------------------------------------------------------------------
(* A mutant: every bit of a BAR's low word can be written.                      *)
LowMaskNone(size) == 1

(* Config space.  A BAR's word keeps only the bits above the BAR's size, in the *)
(* low and in the high half; Wormhole's BAR2 has no high half.                  *)
LowMask(size) == IF size >= Half THEN Half ELSE size
HighMask(size) == IF size > Half THEN size \div Half ELSE 1

ConfigWrite(m, wh, c, reg, bar, v) ==
  LET size == BarSize[wh][bar]
      hi == (v \div HighMask(size)) * HighMask(size)
  IN CASE reg = "command" -> [m EXCEPT !.chip[c].mse = v]
       [] reg = "lo" -> [m EXCEPT !.chip[c].lo[bar] = (v \div LowMask(size)) * LowMask(size)]
       [] reg = "hi" /\ wh /\ bar = 2 -> m
       [] OTHER -> [m EXCEPT !.chip[c].hi[bar] = hi]

BarBase(ch, bar) == ch.hi[bar] * Half + ch.lo[bar]

(* Whether an access touches a BAR, and whether it lies in it.                  *)
Touches(wh, ch, bar, paddr, size) ==
  /\ paddr < BarBase(ch, bar) + BarSize[wh][bar]
  /\ BarBase(ch, bar) < paddr + size
Inside(wh, ch, bar, paddr, size) ==
  /\ BarBase(ch, bar) <= paddr
  /\ paddr + size <= BarBase(ch, bar) + BarSize[wh][bar]

(* A mutant: a chip whose memory space is off still claims accesses.            *)
HitAlways(wh, ch, paddr, size) == {bar \in Bars : Touches(wh, ch, bar, paddr, size)}

(* The BARs an access hits: none unless the chip's memory space is enabled.     *)
Hit(wh, ch, paddr, size) ==
  IF ~ch.mse THEN {} ELSE {bar \in Bars : Touches(wh, ch, bar, paddr, size)}

(* The chips and BARs that claim an access.  Anything but one is an error, and  *)
(* so is an access that lies in its BAR only in part.                           *)
Claims(m, wh, paddr, size) ==
  {cb \in Chips \X Bars : cb[2] \in Hit(wh, m.chip[cb[1]], paddr, size)}
Claimed(m, wh, paddr, size) ==
  LET claims == Claims(m, wh, paddr, size)
  IN IF Cardinality(claims) # 1 THEN {}
     ELSE {cb \in claims : Inside(wh, m.chip[cb[1]], cb[2], paddr, size)}

---------------------------------------------------------------------------
(* The outbound iATU: the enabled regions an access from the device lies in.    *)
RegionBase(r) == r.upper_base * Half + r.lower_base
RegionLimit(wh, r) == (IF wh THEN r.upper_base ELSE r.upper_limit) * Half + r.lower_limit
RegionTarget(r) == r.upper_target * Half + r.lower_target

(* A mutant: only the first word of an access is compared with the limit.       *)
MatchingStart(wh, ch, offset, size) ==
  {i \in Regions : /\ ch.iatu[i].enable
                   /\ RegionBase(ch.iatu[i]) <= offset
                   /\ offset <= RegionLimit(wh, ch.iatu[i])}

Matching(wh, ch, offset, size) ==
  {i \in Regions : /\ ch.iatu[i].enable
                   /\ RegionBase(ch.iatu[i]) <= offset
                   /\ offset + size - 1 <= RegionLimit(wh, ch.iatu[i])}

(* The host address an access to the PCIe tile goes to, in a set that is empty  *)
(* when there is none: Wormhole translates every access above its window's      *)
(* base, Blackhole lets windows 0 to 3 through and translates 4 to 7.           *)
Outbound(wh, ch, addr, size) ==
  LET window == addr \div (WindowLimit + 1)
      offset == IF wh THEN addr - HostBase ELSE addr % (WindowLimit + 1)
      hits == Matching(wh, ch, offset, size)
  IN IF offset < 0 \/ offset + size > WindowLimit + 1 THEN {}
     ELSE IF ~wh /\ window < 4 THEN {offset}
     ELSE IF (~wh /\ window >= 8) \/ Cardinality(hits) # 1 THEN {}
     ELSE {RegionTarget(ch.iatu[i]) + offset - RegionBase(ch.iatu[i]) : i \in hits}

(* Programming a region: the register is written, and an enabled region whose   *)
(* registers now make no range inside the window ends the run.                  *)
RegionWrite(m, wh, i, field, v) ==
  LET r == [m.chip[m.cur].iatu[i] EXCEPT ![field] = v]
      good == r.enable => /\ RegionBase(r) <= RegionLimit(wh, r)
                          /\ RegionLimit(wh, r) <= WindowLimit
  IN [m EXCEPT !.chip[m.cur].iatu[i] = r, !.ok = good]

---------------------------------------------------------------------------
(* Host memory, as the callbacks of the library reach it.                       *)
HostWrite(m, addr, vals) ==
  [m EXCEPT !.host = [h \in DOMAIN @ |->
     IF h \in addr..(addr + Len(vals) - 1) THEN vals[h - addr + 1] ELSE @[h]]]
HostWords(m, addr, size) == [k \in 1..size |-> m.host[addr + k - 1]]
InHost(addr, size) == addr \in 0..(HostSize - size)

(* Scratch 6 and 7 of Wormhole's reset unit turn the NoC's reads and writes of  *)
(* the host window to the PCIe controller's own register.                       *)
Dbi(m, wh, i) == wh /\ m.chip[m.cur].arc.scratch[i] # 0

(* A write to a tile of the selected chip.                                      *)
TileWrite(m, wh, coord, addr, vals) ==
  LET kind == TileKind[coord]
      ch == m.chip[m.cur]
      to == Outbound(wh, ch, addr, Len(vals))
      arc == ArcWrite(ch.arc, wh, m.cur, addr, vals[1])
  IN CASE kind \in {"T", "D"} /\ addr + Len(vals) <= TileSize ->
            [m EXCEPT !.chip[m.cur].mem[coord] = [w \in DOMAIN @ |->
               IF w \in addr..(addr + Len(vals) - 1) THEN vals[w - addr + 1] ELSE @[w]]]
       [] kind = "P" /\ Dbi(m, wh, 7) /\ addr = HostBase /\ Len(vals) = 1 ->
            [m EXCEPT !.chip[m.cur].dbi = vals[1]]
       [] kind = "P" /\ ~Dbi(m, wh, 7) /\ to # {} /\ (\A h \in to : InHost(h, Len(vals))) ->
            HostWrite(m, CHOOSE h \in to : TRUE, vals)
       [] kind = "A" /\ Len(vals) = 1 ->
            [m EXCEPT !.chip[m.cur].arc = arc.a, !.ok = arc.ok]
       [] OTHER -> [m EXCEPT !.ok = FALSE]

(* A read of a tile: the words, in m.val.                                       *)
TileRead(m, wh, coord, addr, size) ==
  LET kind == TileKind[coord]
      ch == m.chip[m.cur]
      from == Outbound(wh, ch, addr, size)
  IN CASE kind \in {"T", "D"} /\ addr + size <= TileSize ->
            [m EXCEPT !.val = [k \in 1..size |-> ch.mem[coord][addr + k - 1]]]
       [] kind = "P" /\ Dbi(m, wh, 6) /\ addr = HostBase /\ size = 1 ->
            [m EXCEPT !.val = <<ch.dbi>>]
       [] kind = "P" /\ ~Dbi(m, wh, 6) /\ from # {} /\ (\A h \in from : InHost(h, size)) ->
            [m EXCEPT !.val = HostWords(m, CHOOSE h \in from : TRUE, size)]
       [] kind = "A" /\ size = 1 /\ ArcReadable(wh, addr) ->
            [m EXCEPT !.val = <<ArcRead(ch.arc, addr)>>]
       [] OTHER -> [m EXCEPT !.ok = FALSE]

---------------------------------------------------------------------------
(* The TLB windows.  The window an offset of BAR0 falls in, and the check that  *)
(* the access stays in it; a window that multicasts names its first corner, and *)
(* one that does not must not.                                                  *)
WindowOf(offset) == CHOOSE i \in Windows : offset \in WindowBase(i)..(WindowBase(i) + Widths[i] - 1)
Fits(i, within, size) == within + size <= Widths[i]
Sane(t) == t.mcast \/ t.start = NoCoord

(* The tiles a multicast reaches: the rectangle, without the columns and rows   *)
(* that are disabled.                                                           *)
Rectangle(t) ==
  {xy \in Coords : /\ t.start[1] <= xy[1] /\ xy[1] <= t.coord[1]
                   /\ t.start[2] <= xy[2] /\ xy[2] <= t.coord[2]
                   /\ xy[1] \notin Disabled[1] /\ xy[2] \notin Disabled[2]}
GridCorners(t) ==
  /\ t.start[1] <= t.coord[1] /\ t.start[2] <= t.coord[2]
  /\ {t.start[1], t.coord[1]} \cap NonTensix[1] = {}
  /\ {t.start[2], t.coord[2]} \cap NonTensix[2] = {}

(* A mutant: a multicast also reaches the disabled columns and rows.            *)
WindowTilesAll(t) ==
  IF t.mcast THEN {xy \in Coords : /\ t.start[1] <= xy[1] /\ xy[1] <= t.coord[1]
                                   /\ t.start[2] <= xy[2] /\ xy[2] <= t.coord[2]}
  ELSE {t.coord}

WindowTiles(t) == IF t.mcast THEN Rectangle(t) ELSE {t.coord}

WindowWrite(m, wh, i, within, vals) ==
  LET t == m.chip[m.cur].tlb[i]
  IN IF ~Fits(i, within, Len(vals)) \/ ~Sane(t) \/ (t.mcast /\ ~GridCorners(t))
     THEN [m EXCEPT !.ok = FALSE]
     ELSE FoldSet(LAMBDA xy, n : IF n.ok THEN TileWrite(n, wh, xy, t.page * Widths[i] + within, vals)
                                 ELSE n,
                  m, WindowTiles(t))

WindowRead(m, wh, i, within, size) ==
  LET t == m.chip[m.cur].tlb[i]
  IN IF ~Fits(i, within, size) \/ ~Sane(t) \/ t.mcast THEN [m EXCEPT !.ok = FALSE]
     ELSE TileRead(m, wh, t.coord, t.page * Widths[i] + within, size)

(* A window's registers are words that hold some of its fields each: Wormhole   *)
(* has two of them (or one of twice the width), Blackhole three.                *)
CfgWords(wh) == IF wh THEN <<{"page", "coord"}, {"start", "mcast"}>>
                ELSE <<{"page"}, {"coord", "start"}, {"mcast"}>>

TlbCfgWrite(m, wh, offset, vals) ==
  LET n == Len(CfgWords(wh))
      i == (offset - CfgAt) \div n + 1
      fields == CfgWords(wh)[((offset - CfgAt) % n) + 1]
      all == IF Len(vals) = 1 THEN fields ELSE UNION {CfgWords(wh)[k] : k \in 1..n}
  IN IF Len(vals) = 1 \/ (wh /\ Len(vals) = 2 /\ (offset - CfgAt) % n = 0)
     THEN [m EXCEPT !.chip[m.cur].tlb[i] =
             [f \in DOMAIN @ |-> IF f \in all THEN vals[1][f] ELSE @[f]]]
     ELSE [m EXCEPT !.ok = FALSE]

---------------------------------------------------------------------------
(* The DMA engines.  A transfer is cut into chunks of the engine's buffer, each *)
(* of them one access to the windows; the host is told at the end, and an error *)
(* leaves the chunks before it in place.                                        *)
Chunks(size) == [k \in 1..((size + ChunkSize - 1) \div ChunkSize) |->
                   [off |-> (k - 1) * ChunkSize, len |-> Min({ChunkSize, size - (k - 1) * ChunkSize})]]

(* The device addresses of a transfer are those of BAR0's windows.  The engine  *)
(* does not bound them: Blackhole would take one above them for a window with   *)
(* the layout of these, not that of the windows of BAR4.                        *)
WindowOff(dev) == dev - WindowBase(WindowOf(dev))

ChunkToDevice(m, wh, host, dev, ck) ==
  WindowWrite(m, wh, WindowOf(dev + ck.off), WindowOff(dev + ck.off), HostWords(m, host + ck.off, ck.len))

ChunkToHost(m, wh, host, dev, ck) ==
  LET n == WindowRead(m, wh, WindowOf(dev + ck.off), WindowOff(dev + ck.off), ck.len)
  IN IF n.ok THEN HostWrite(n, host + ck.off, n.val) ELSE n

Chunked(Op(_, _), m, size) ==
  FoldLeft(LAMBDA n, ck : IF n.ok THEN Op(n, ck) ELSE n, m, Chunks(size))

(* Completion: Wormhole writes a word of the driver's choice to host memory,    *)
(* Blackhole clears the size register.                                          *)
Complete(m, wh, dir) ==
  LET d == m.chip[m.cur].dma[dir]
  IN IF ~m.ok THEN m
     ELSE IF wh THEN HostWrite(m, d.done, <<d.data>>)
     ELSE [m EXCEPT !.chip[m.cur].dma[dir].size = 0]

ReadEngine(m, wh) ==
  LET d == m.chip[m.cur].dma["read"]
  IN IF d.size = 0 THEN [m EXCEPT !.ok = FALSE]
     ELSE Complete(Chunked(LAMBDA n, ck : ChunkToDevice(n, wh, d.sar, d.dar, ck), m, d.size), wh, "read")

WriteEngine(m, wh) ==
  LET d == m.chip[m.cur].dma["write"]
  IN IF d.size = 0 THEN [m EXCEPT !.ok = FALSE]
     ELSE Complete(Chunked(LAMBDA n, ck : ChunkToHost(n, wh, d.dar, d.sar, ck), m, d.size), wh, "write")

(* A register of an engine (dma_reg_ptr); the doorbell starts it.  Only         *)
(* Wormhole has the engine that writes to the host.                             *)
DmaWrite(m, wh, dir, field, v) ==
  LET n == [m EXCEPT !.chip[m.cur].dma[dir][field] = v]
  IN IF dir = "write" /\ ~wh THEN [m EXCEPT !.ok = FALSE]
     ELSE IF field # "doorbell" THEN n
     ELSE IF v # (IF wh THEN 0 ELSE 1) THEN [n EXCEPT !.ok = FALSE]
     ELSE IF dir = "read" THEN ReadEngine(n, wh) ELSE WriteEngine(n, wh)

---------------------------------------------------------------------------
(* The BARs.  BAR2's registers are named by what they hold: a pair of an engine *)
(* or a region, and a field.                                                    *)
Bar0Write(m, wh, offset, vals) ==
  CASE offset < (IF wh THEN WindowsEnd ELSE WindowBase(LastWindow)) ->
         WindowWrite(m, wh, WindowOf(offset), offset - WindowBase(WindowOf(offset)), vals)
    [] offset \in CfgAt..(CfgAt + Len(Widths) * Len(CfgWords(wh)) - 1) ->
         TlbCfgWrite(m, wh, offset, vals)
    [] wh /\ offset >= ArcAt -> TileWrite(m, wh, CHOOSE xy \in Coords : TileKind[xy] = "A",
                                          offset - ArcAt + Apb, vals)
    [] OTHER -> [m EXCEPT !.ok = FALSE]

Bar0Read(m, wh, offset, size) ==
  CASE offset < (IF wh THEN WindowsEnd ELSE WindowBase(LastWindow)) ->
         WindowRead(m, wh, WindowOf(offset), offset - WindowBase(WindowOf(offset)), size)
    [] wh /\ offset >= ArcAt -> TileRead(m, wh, CHOOSE xy \in Coords : TileKind[xy] = "A",
                                         offset - ArcAt + Apb, size)
    [] OTHER -> [m EXCEPT !.ok = FALSE]

Engines == {"read", "write"}
Bar2Write(m, wh, reg, v) ==
  IF reg[1] \in Engines THEN DmaWrite(m, wh, reg[1], reg[2], v)
  ELSE RegionWrite(m, wh, reg[3], reg[2], v)
Bar2Read(m, reg) == [m EXCEPT !.val = <<m.chip[m.cur].dma[reg[1]][reg[2]]>>]

(* An access of the host: the chip that claims it is selected, and the chip     *)
(* that was selected before is again when the call returns.                     *)
Restored(m, cur) == [m EXCEPT !.cur = cur]

BarWrite(m, wh, bar, offset, reg, vals) ==
  CASE bar = 2 -> Bar2Write(m, wh, reg, vals[1])
    [] bar = 0 -> Bar0Write(m, wh, offset, vals)
    [] bar = 4 /\ wh -> Bar0Write(m, wh, Bar4Offset + offset, vals)
    [] bar = 4 /\ ~wh -> WindowWrite(m, wh, LastWindow, offset, vals)

BarRead(m, wh, bar, offset, reg, size) ==
  CASE bar = 2 -> Bar2Read(m, reg)
    [] bar = 0 -> Bar0Read(m, wh, offset, size)
    [] bar = 4 /\ wh -> Bar0Read(m, wh, Bar4Offset + offset, size)
    [] bar = 4 /\ ~wh -> WindowRead(m, wh, LastWindow, offset, size)

MemWrite(m, wh, paddr, reg, vals) ==
  LET to == Claimed(m, wh, paddr, Len(vals))
  IN IF to = {} THEN [m EXCEPT !.ok = FALSE]
     ELSE LET cb == CHOOSE cb \in to : TRUE
          IN Restored(BarWrite([m EXCEPT !.cur = cb[1]], wh, cb[2],
                               paddr - BarBase(m.chip[cb[1]], cb[2]), reg, vals), m.cur)

MemRead(m, wh, paddr, reg, size) ==
  LET to == Claimed(m, wh, paddr, size)
  IN IF to = {} THEN [m EXCEPT !.ok = FALSE]
     ELSE LET cb == CHOOSE cb \in to : TRUE
          IN Restored(BarRead([m EXCEPT !.cur = cb[1]], wh, cb[2],
                              paddr - BarBase(m.chip[cb[1]], cb[2]), reg, size), m.cur)
=============================================================================
