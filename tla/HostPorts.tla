------------------------------- MODULE HostPorts -------------------------------
(* A host that uses the chips' PCIe endpoints: the operating system that moves  *)
(* BARs, drivers that program windows, DMA engines, the iATU and the ARC, and   *)
(* cores of the chips that write to host memory.  The library serves one call   *)
(* at a time (docs/libttsim_api.md: callers serialize); what interleaves is the *)
(* order of the threads' calls.                                                 *)
EXTENDS PcieEndpoint

CONSTANTS
  InitBase,    \* [wormhole -> [chip -> [bar -> address]]]: pcie_init
  Scenarios,   \* the sets of programs
  Programs     \* [wormhole -> [scenario -> the threads' calls]]

VARIABLES
  wh,        \* Wormhole or Blackhole
  scenario,
  m,         \* the machine
  pc,        \* [thread -> its next call]
  mapped,    \* the system's own record of where each chip's BARs are: <<>> while off
  pinned     \* [chip -> the host words its driver pinned for it]

vars == <<wh, scenario, m, pc, mapped, pinned>>

NoWindow == [page |-> 0, coord |-> NoCoord, start |-> NoCoord, mcast |-> FALSE]
NoRegion == [enable |-> FALSE, lower_base |-> 0, upper_base |-> 0, lower_limit |-> 0,
             upper_limit |-> 0, lower_target |-> 0, upper_target |-> 0]
NoTransfer == [size |-> 0, sar |-> 0, dar |-> 0, done |-> 0, data |-> 0, doorbell |-> 0]

ChipInit(base) ==
  [mse |-> TRUE,
   lo |-> [b \in Bars |-> base[b] % Half], hi |-> [b \in Bars |-> base[b] \div Half],
   tlb |-> [i \in Windows |-> NoWindow], iatu |-> [i \in Regions |-> NoRegion],
   dma |-> [d \in Engines |-> NoTransfer], arc |-> ArcInit, dbi |-> 0,
   mem |-> [xy \in Coords |-> [w \in 0..(TileSize - 1) |-> 0]]]

(* Host memory starts with words that tell its addresses apart.                 *)
Init ==
  /\ wh \in BOOLEAN
  /\ scenario \in Scenarios
  /\ m = [chip |-> [c \in Chips |-> ChipInit(InitBase[wh][c])],
          host |-> [h \in 0..(HostSize - 1) |-> 100 + h], cur |-> 0, val |-> <<>>, ok |-> TRUE]
  /\ pc = [t \in DOMAIN Programs[wh][scenario] |-> 1]
  /\ mapped = InitBase[wh]
  /\ pinned = [c \in Chips |-> {}]

Threads == DOMAIN pc
Program(t) == Programs[wh][scenario][t]
Call(t) == Program(t)[pc[t]]
Next1(t) == pc' = [pc EXCEPT ![t] = @ + 1]
Ready(t, op) == m.ok /\ pc[t] <= Len(Program(t)) /\ Call(t).op = op
Address(call) == mapped[call.chip][call.bar] + call.at
OnBus(call) == mapped[call.chip] # <<>>

(* Config space: moving a BAR is two writes to the chip, whose memory space the *)
(* system turns off for the time and on again.                                  *)
Config(t) ==
  /\ Ready(t, "config")
  /\ m' = ConfigWrite(m, wh, Call(t).chip, Call(t).reg[1], Call(t).bar, Call(t).vals[1])
  /\ UNCHANGED <<mapped, pinned>>

Disable(t) ==
  /\ Ready(t, "disable")
  /\ m' = ConfigWrite(m, wh, Call(t).chip, "command", 0, FALSE)
  /\ mapped' = [mapped EXCEPT ![Call(t).chip] = <<>>]
  /\ UNCHANGED pinned

Enable(t) ==
  /\ Ready(t, "enable")
  /\ m' = ConfigWrite(m, wh, Call(t).chip, "command", 0, TRUE)
  /\ mapped' = [mapped EXCEPT ![Call(t).chip] = Call(t).vals[1]]
  /\ UNCHANGED pinned

(* A driver's accesses, at the addresses the system gave it.                    *)
Write(t) ==
  /\ Ready(t, "write") /\ OnBus(Call(t))
  /\ m' = MemWrite(m, wh, Address(Call(t)), Call(t).reg, Call(t).vals)
  /\ UNCHANGED <<mapped, pinned>>

Read(t) ==
  /\ Ready(t, "read") /\ OnBus(Call(t))
  /\ m' = MemRead(m, wh, Address(Call(t)), Call(t).reg, 1)
  /\ UNCHANGED <<mapped, pinned>>

(* A driver that waits for a word to become what it expects.                    *)
Poll(t) ==
  /\ Ready(t, "poll") /\ OnBus(Call(t))
  /\ m' = MemRead(m, wh, Address(Call(t)), Call(t).reg, 1)
  /\ m'.ok => m'.val = Call(t).vals
  /\ UNCHANGED <<mapped, pinned>>

(* A driver that waits for a word of its own memory.                            *)
Await(t) ==
  /\ Ready(t, "await")
  /\ m.host[Call(t).at] = Call(t).vals[1]
  /\ UNCHANGED <<m, mapped, pinned>>

(* A driver pins the host words it lets the chip reach; the rest it may free.   *)
Pin(t) ==
  /\ Ready(t, "pin")
  /\ pinned' = [pinned EXCEPT ![Call(t).chip] = Call(t).vals[1]]
  /\ UNCHANGED <<m, mapped>>

(* The chip's own cores reach host memory through the PCIe tile; the clock      *)
(* selects the chip it steps.                                                   *)
CoreWrite(t) ==
  /\ Ready(t, "core")
  /\ m' = TileWrite([m EXCEPT !.cur = Call(t).chip], wh, Call(t).reg[1], Call(t).at, Call(t).vals)
  /\ UNCHANGED <<mapped, pinned>>

CoreRead(t) ==
  /\ Ready(t, "coreread")
  /\ m' = TileRead([m EXCEPT !.cur = Call(t).chip], wh, Call(t).reg[1], Call(t).at, 1)
  /\ UNCHANGED <<mapped, pinned>>

Step(t) ==
  /\ \/ Config(t) \/ Disable(t) \/ Enable(t)
     \/ Write(t) \/ Read(t) \/ Poll(t) \/ Await(t) \/ Pin(t)
     \/ CoreWrite(t) \/ CoreRead(t)
  /\ Next1(t)
  /\ UNCHANGED <<wh, scenario>>

Next == \E t \in Threads : Step(t)
Spec == Init /\ [][Next]_vars

---------------------------------------------------------------------------
WindowType == [page : Nat, coord : Coords, start : Coords, mcast : BOOLEAN]
RegionType ==
  [enable : BOOLEAN, lower_base : 0..(Half - 1), upper_base : Nat, lower_limit : 0..(Half - 1),
   upper_limit : Nat, lower_target : 0..(Half - 1), upper_target : Nat]
TransferType == [size : Nat, sar : Nat, dar : Nat, done : Nat, data : Nat, doorbell : Nat]

(* A BAR's base is always a multiple of its size: the bits below it are fixed.  *)
Aligned(ch) == \A bar \in Bars : BarBase(ch, bar) % BarSize[wh][bar] = 0

ChipType(ch) ==
  /\ ch.mse \in BOOLEAN /\ ch.dbi \in Nat
  /\ ch.lo \in [Bars -> 0..(Half - 1)] /\ ch.hi \in [Bars -> Nat]
  /\ Aligned(ch)
  /\ ch.tlb \in [Windows -> WindowType] /\ ch.iatu \in [Regions -> RegionType]
  /\ ch.dma \in [Engines -> TransferType] /\ ch.arc \in ArcType
  /\ ch.mem \in [Coords -> [0..(TileSize - 1) -> Nat]]

(* The endpoint's state has its type; a BAR stays aligned to its size through   *)
(* sizing and moves (pcie_config_wr32's write masks).                           *)
TypeOK ==
  /\ \A c \in Chips : ChipType(m.chip[c])
  /\ m.host \in [0..(HostSize - 1) -> Nat]
  /\ m.cur \in Chips /\ m.ok \in BOOLEAN

(* Every address of a chip the system has mapped is claimed by that chip and    *)
(* that BAR alone, whatever half-written bases another chip shows while it is   *)
(* sized and moved (pcie_bar_decode, pcie_device_from_paddr).                   *)
AccessClaimed ==
  \A c \in Chips, bar \in Bars : mapped[c] # <<>> =>
    \A at \in {0, BarSize[wh][bar] - 1} :
      Claimed(m, wh, mapped[c][bar] + at, 1) = {<<c, bar>>}

(* The words of a transfer, and where the windows put each of them: the tiles   *)
(* and address of device word dev.                                              *)
Engine(c, dir) == m.chip[c].dma[dir]
Words(c, dir) == 0..(Engine(c, dir).size - 1)
LandsAt(c, dev) ==
  LET i == CHOOSE i \in Windows : dev - WindowBase(i) \in 0..(Widths[i] - 1)
      t == m.chip[c].tlb[i]
  IN [tiles |-> IF t.mcast
                THEN {xy \in Coords : /\ xy[1] \in t.start[1]..t.coord[1] \ Disabled[1]
                                      /\ xy[2] \in t.start[2]..t.coord[2] \ Disabled[2]}
                ELSE {t.coord},
      addr |-> t.page * Widths[i] + dev - WindowBase(i)]

ReadWhole(c) ==
  LET d == Engine(c, "read")
      lands == [k \in Words(c, "read") |-> LandsAt(c, d.dar + k)]
      hit == UNION {lands[k].tiles \X {lands[k].addr} : k \in DOMAIN lands}
  IN /\ \A k \in DOMAIN lands : \A xy \in lands[k].tiles :
          m'.chip[c].mem[xy][lands[k].addr] = m.host[d.sar + k]
     /\ \A xy \in Coords, w \in 0..(TileSize - 1) :
          <<xy, w>> \notin hit => m'.chip[c].mem[xy][w] = m.chip[c].mem[xy][w]

WriteWhole(c) ==
  LET d == Engine(c, "write")
  IN \A k \in Words(c, "write") :
       m'.host[d.dar + k] = m.chip[c].mem[CHOOSE xy \in LandsAt(c, d.sar + k).tiles : TRUE]
                                         [LandsAt(c, d.sar + k).addr]

Told(c, dir) == IF wh THEN m'.host[Engine(c, dir).done] = Engine(c, dir).data
                ELSE m'.chip[c].dma[dir].size = 0

Rings(t, dir) ==
  Ready(t, "write") /\ Call(t).bar = 2 /\ Call(t).reg = <<dir, "doorbell", 0>> /\ pc'[t] # pc[t]

(* A DMA transfer reports completion only when every word lies where the        *)
(* windows named, on every enabled tile of a multicast and on no other; one     *)
(* that fails at a later chunk reports none (dma_read_engine, dma_write_engine, *)
(* tlb_window_write).                                                           *)
DmaWhole ==
  [][\A t \in Threads :
       /\ Rings(t, "read") => (Told(Call(t).chip, "read") <=> m'.ok)
                              /\ (m'.ok => ReadWhole(Call(t).chip))
       /\ Rings(t, "write") => (Told(Call(t).chip, "write") <=> m'.ok)
                               /\ (m'.ok => WriteWhole(Call(t).chip))]_vars

(* A core of a chip changes no host word but those pinned for it at the time,   *)
(* while its driver moves a region from words it frees to others, register by   *)
(* register (translate_pci_dma_addr, verify_iatu_region_write).  It holds of    *)
(* accesses that the iATU translates, and the cores here use no others:         *)
(* windows 0 to 3 of Blackhole lead straight to host memory, whatever is pinned.*)
CoresKeepPinned ==
  [][\A t \in Threads : Ready(t, "core") /\ pc'[t] # pc[t] =>
       \A h \in DOMAIN m.host : m'.host[h] # m.host[h] => h \in pinned[Call(t).chip]]_vars

(* The responses a host has not taken yet, by place in the ring, are each the   *)
(* answer of that chip to the request in the same place, though every trigger   *)
(* drains every queue and the pointers run modulo twice the ring's size         *)
(* (arc_drain_queue).                                                           *)
AnswersOwn ==
  \A c \in Chips, q \in 0..(NumQueues - 1) :
    LET csm == m.chip[c].arc.csm
        unread == (csm[Queue(q) + ResWr] - csm[Queue(q) + ResRd]) % Ring
    IN /\ unread <= NumEntries
       /\ csm[Queue(q) + ResWr] = csm[Queue(q) + ReqRd]
       /\ \A k \in 0..(unread - 1) :
            csm[ResSlot(q, csm[Queue(q) + ResRd] + k)]
              = Answer(c, csm[ReqSlot(q, csm[Queue(q) + ResRd] + k)], 0)
=============================================================================
