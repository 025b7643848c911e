------------------------------ MODULE MCHostPorts ------------------------------
(* Two chips, small BARs, and the programs of four scenarios.                   *)
EXTENDS HostPorts

MCBarSize == [w \in BOOLEAN |->
  0 :> 64 @@ 2 :> 32 @@ 4 :> (IF w THEN 32 ELSE 256)]
MCInitBase == [w \in BOOLEAN |->
  0 :> (0 :> 128 @@ 2 :> 64 @@ 4 :> 512) @@
  1 :> (0 :> 192 @@ 2 :> 96 @@ 4 :> (IF w THEN 544 ELSE 768))]
Moved(w) == 0 :> 320 @@ 2 :> 64 @@ 4 :> 512

MCWidths == <<4, 4, 8, 16, 8>>
MCTileKind ==
  <<0, 0>> :> "A" @@ <<0, 1>> :> "D" @@ <<0, 2>> :> "P" @@
  <<1, 1>> :> "T" @@ <<2, 1>> :> "T" @@ <<1, 2>> :> "T" @@ <<2, 2>> :> "T"
MCNonTensix == <<{0}, {0}>>
MCDisabled == <<{0, 2}, {0}>>
MCHarvested == 0 :> 3 @@ 1 :> 5

NoReg == <<"", "", 0>>
Op(op, c, bar, at, reg, vals) ==
  [op |-> op, chip |-> c, bar |-> bar, at |-> at, reg |-> reg, vals |-> vals]
Lo(c, bar, v) == Op("config", c, bar, 0, <<"lo", "", 0>>, <<v>>)
Hi(c, bar, v) == Op("config", c, bar, 0, <<"hi", "", 0>>, <<v>>)
Off(c) == Op("disable", c, 0, 0, NoReg, <<>>)
On(c, bases) == Op("enable", c, 0, 0, NoReg, <<bases>>)
Wr(c, bar, at, v) == Op("write", c, bar, at, NoReg, <<v>>)
Rd(c, bar, at) == Op("read", c, bar, at, NoReg, <<>>)
Until(c, bar, at, v) == Op("poll", c, bar, at, NoReg, <<v>>)
Dma(c, dir, field, v) == Op("write", c, 2, 0, <<dir, field, 0>>, <<v>>)
DmaUntil(c, dir, field, v) == Op("poll", c, 2, 0, <<dir, field, 0>>, <<v>>)
Iatu(c, i, field, v) == Op("write", c, 2, 8, <<"iatu", field, i>>, <<v>>)
Await1(at, v) == Op("await", 0, 0, at, NoReg, <<v>>)
Core(c, xy, at, vals) == Op("core", c, 0, at, <<xy, "", 0>>, vals)
CoreGet(c, xy, at) == Op("coreread", c, 0, at, <<xy, "", 0>>, <<>>)

Only(cond, seq) == IF cond THEN seq ELSE <<>>

(* Window i of a chip: its registers one word at a time.                        *)
Set(w, c, i, t) ==
  [k \in 1..Len(CfgWords(w)) |->
     Wr(c, 0, CfgAt + (i - 1) * Len(CfgWords(w)) + k - 1, t)]
Uni(page, xy) == [page |-> page, coord |-> xy, start |-> NoCoord, mcast |-> FALSE]
Multi(page) == [page |-> page, coord |-> <<2, 2>>, start |-> <<1, 1>>, mcast |-> TRUE]

(* The system sizes chip 0's BAR0 and BAR4 and moves BAR0; half-way, the base   *)
(* is the one of chip 1's.                                                      *)
Remap(w) ==
  <<Off(0), Lo(0, 0, 127), Hi(0, 0, 7), Lo(0, 0, 0), Hi(0, 0, 1),
    Lo(0, 4, 127), Hi(0, 4, 7), Lo(0, 4, 0), Hi(0, 4, 4),
    Lo(0, 2, 127), Hi(0, 2, 7), Lo(0, 2, 64), Hi(0, 2, 0),
    Lo(0, 0, 64), Hi(0, 0, 2), On(0, Moved(w))>>

(* A transfer of the read engine, its completion awaited.                       *)
Transfer(w, c, sar, dar, size, data) ==
  <<Dma(c, "read", "size", size), Dma(c, "read", "sar", sar), Dma(c, "read", "dar", dar),
    Dma(c, "read", "done", 23), Dma(c, "read", "data", data),
    Dma(c, "read", "doorbell", IF w THEN 0 ELSE 1),
    IF w THEN Await1(23, data) ELSE DmaUntil(c, "read", "size", 0)>>

Driver(w) ==
  Set(w, 1, 1, Uni(1, <<1, 1>>)) \o Set(w, 1, 2, Multi(0))
  \o Transfer(w, 1, 2, 0, 7, 1) \o Transfer(w, 1, 5, 4, 2, 2)
  \o Only(w, <<Dma(1, "write", "size", 3), Dma(1, "write", "sar", 1), Dma(1, "write", "dar", 16),
               Dma(1, "write", "done", 22), Dma(1, "write", "data", 3),
               Dma(1, "write", "doorbell", 0), Await1(22, 3)>>)
  \o <<Wr(1, 0, 2, 9), Rd(1, 0, 2)>>

(* The other chip's driver works through BAR4 while its BARs move.              *)
Other(w) == Set(w, 0, 5, Uni(0, <<0, 1>>)) \o <<Wr(0, 4, IF w THEN 1 ELSE 3, 7), Rd(0, 4, 1)>>

(* The last chunk leaves the window: a transfer that fails half-way.            *)
Straddle(w) == Set(w, 1, 3, Uni(0, <<2, 1>>)) \o Set(w, 1, 4, Uni(0, <<1, 1>>))
               \o Transfer(w, 1, 3, 10, 8, 4)

(* Region 1 of the iATU reaches words 16 to 19; region 2 words 24 to 27, until  *)
(* the driver moves it to words 8 to 11 and to another place in the window.     *)
Region(c, i, base, size, target) ==
  <<Iatu(c, i, "lower_base", base), Iatu(c, i, "lower_limit", base + size - 1),
    Iatu(c, i, "lower_target", target), Iatu(c, i, "enable", TRUE)>>
Pinning(c, words) == Op("pin", c, 0, 0, NoReg, <<words>>)
Pins(w) ==
  <<Pinning(1, 16..19 \cup 24..27)>> \o Region(1, 1, 0, 4, 16) \o Region(1, 2, 8, 4, 24)
  \o <<Iatu(1, 2, "enable", FALSE), Pinning(1, 16..19), Pinning(1, 8..11 \cup 16..19)>>
  \o Region(1, 2, 4, 4, 8)
  \o Only(w, <<Wr(1, 0, ArcAt + 6, 1), Wr(1, 0, ArcAt + 7, 1),
               Core(1, <<0, 2>>, HostBase, <<5>>), CoreGet(1, <<0, 2>>, HostBase)>>)
ToHost(w, at) == (IF w THEN HostBase ELSE 4 * (WindowLimit + 1)) + at
Writes(w) == <<Core(1, <<0, 2>>, ToHost(w, 9), <<31, 32>>), CoreGet(1, <<0, 2>>, ToHost(w, 2)),
               Core(1, <<0, 2>>, ToHost(w, 3), <<33>>), Core(1, <<0, 2>>, ToHost(w, 5), <<36>>),
               Core(1, <<0, 2>>, ToHost(w, 3), <<34, 35>>)>>

(* Two users of chip 1's ARC, a queue each; Wormhole has the scratch registers. *)
Push(k, bar, at, q, code) ==
  <<Wr(1, bar, at + ReqSlot(q, k) - Queue(q), code), Wr(1, bar, at + ReqWr, (k + 1) % Ring)>>
Pull(k, bar, at, q) ==
  <<Until(1, bar, at + ReqRd, (k + 1) % Ring), Rd(1, bar, at + ResSlot(q, k) - Queue(q)),
    Wr(1, bar, at + ResRd, (k + 1) % Ring)>>
Trigger == <<Wr(1, 0, WindowBase(4) + MiscCntl - Apb, Irq0)>>
Bell == <<Wr(1, 0, WindowBase(4) + MsiFifo - Apb, 0)>>
Both(bar, at, q, k, c1, c2) ==
  Push(k, bar, at, q, c1) \o Push(k + 1, bar, at, q, c2) \o Trigger
  \o <<Until(1, bar, at + ReqRd, (k + 2) % Ring),
       Rd(1, bar, at + ResSlot(q, k) - Queue(q)), Wr(1, bar, at + ResRd, (k + 1) % Ring),
       Rd(1, bar, at + ResSlot(q, k + 1) - Queue(q)), Wr(1, bar, at + ResRd, (k + 2) % Ring)>>

User0 == Set(FALSE, 1, 5, Uni(0, <<0, 0>>)) \o Set(FALSE, 1, 4, Uni(1, <<0, 0>>))
         \o Both(4, 0, 0, 0, GET_HARVESTING, DRAM_TRAINED)
         \o Push(2, 4, 0, 0, NOP) \o Bell \o Pull(2, 4, 0, 0)
         \o Both(4, 0, 0, 3, NOP, GET_HARVESTING)
User1 == Set(FALSE, 1, 3, Uni(1, <<0, 0>>))
         \o Push(0, 0, WindowBase(3), 1, DRAM_TRAINED) \o Push(1, 0, WindowBase(3), 1, NOP)
         \o <<Until(1, 0, WindowBase(3) + ReqRd, 2),
              Rd(1, 0, WindowBase(3) + ResSlot(1, 0) - Queue(1)), Wr(1, 0, WindowBase(3) + ResRd, 2)>>
UserScratch ==
  <<Wr(1, 0, ArcAt + 5, GET_HARVESTING), Wr(1, 0, ArcAt + 8, Irq0), Until(1, 0, ArcAt + 5, GET_HARVESTING),
    Until(1, 0, ArcAt + 8, 0), Rd(1, 0, ArcAt + 3), Wr(1, 0, ArcAt + 5, AICLK),
    Wr(1, 4, ArcAt + 8 - Bar4Offset, Irq0), Rd(1, 4, ArcAt + 3 - Bar4Offset), Wr(1, 0, ArcAt + 8, 0)>>

Calls(w, s) ==
  CASE s = "remap" -> <<Remap(w), Driver(w), Other(w)>>
    [] s = "straddle" -> <<Straddle(w), Other(w)>>
    [] s = "pins" -> <<Pins(w), Writes(w)>>
    [] s = "arc" -> IF w THEN <<UserScratch, Driver(w)>> ELSE <<User0, User1>>
MCPrograms == [w \in BOOLEAN |-> [s \in Scenarios |-> Calls(w, s)]]
=============================================================================
