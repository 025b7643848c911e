# A verification development of ttsim

ttsim simulates Tenstorrent's Wormhole and Blackhole chips closely enough to
run unmodified kernels.  It is one single-threaded C++ library, but what it
simulates is concurrent everywhere: five RISC-V cores and three Tensix threads
per tile, expanders, unpackers and a Matrix Unit that hand buffers to one
another, Ethernet cores that run a relay protocol, and a host that reads and
writes in between.  In the code this concurrency takes the form of masks,
pointers and flags which one clock loop goes by and which everything the loop
calls may change.  That is what these modules model.

This document: the [inventory](#inventory) of the system, the
[plan](#plan), the [modules](#modules-and-the-code), the [runs](#runs),
[fairness](#fairness), the [proofs](#proofs) and [what is left
out](#what-is-not-modelled).  Paths are those of the repository; `PROJECT.json`
has the line ranges of every definition.

## Inventory

| Component | Where | State | Operations | What is hard | What makes it correct |
|---|---|---|---|---|---|
| Tensix front end | `src/tensix.cpp` 15-317, `src/tile.cpp` 1891-1960 | per pipe an instruction ring, a MOP in expansion, MOP configuration, replay buffer and its indices; masks of pipes | push, configuration write, front end step, issue | expansions spread over many clocks while software goes on; masks kept apart from what they summarise | instructions issue in program order, fully expanded; rings never overflow; no work is forgotten |
| Clock loop and core masks | `src/libttsim.cpp` 211-314, `src/sim.cpp`, `src/riscv_impl.h` 1074, `src/tile.cpp` 1118, 1962, 2414 | active, parked, paused and reset masks; busy tiles; the clock | clock, reset write, PAUSE, park, resume | the loop's body changes what the loop goes by | one state per core; busy tiles visited; clocks return; nothing sleeps for ever |
| Src banks | `src/tensix.cpp` 755-815, 1048-1500, 1777-2260, 3179-3724, 3915, 5505 | two banks, valid bits and two pointers per Src; race tracking | unpacks, moves, computes, releases, STALLWAIT | instructions of three threads in any order; releases without waits | the banks are queues; races, and only races, are reported |
| Mutexes, semaphores, Wait Gate | `src/tensix.cpp` 5424-5840, `src/tile.cpp` 1962-2023 | mutex owners, counts and maxima, a latched wait per thread | ATGETM/ATRELM, SEM*, STALLWAIT, TRISC reads and writes | check and change are separate instructions; waits are retried | no misuse by waiting programs; no overtaking; progress |
| Mailboxes | `src/tile.cpp` 2025-2052 | one slot per writer and reader | read, write (both may stall) | stalls that wait for each other | every message read once; documented capacity |
| RV32 cores | `src/riscv_impl.h`, `src/rv32.cpp` | registers, pc, data cache | step, FENCE, PAUSE | stale cache lines; stalls and retry | an instruction retried has had no effect |
| Tensix arithmetic | `src/tensix.cpp` | Dst, LReg, configuration | FPU, SFPU, pack, unpack | number formats | bit-exact results |
| NoC | `src/tile.cpp` 1179-1890 | command buffers, transaction counters | read, write, multicast, atomics | counters that kernels wait on; coordinates | counters match transactions |
| Ethernet queues | `src/tile.cpp` 2054-2270, `src/topology.h` | tx queues, links | send raw or data | act on another chip in the middle of a step | packets arrive at the linked tile, in order |
| Ethernet firmware | `fw/eth/eth_fw.c` | request and response rings, inboxes, relay slots, sequence numbers | service ticks of three roles | nested busy waits, shared buffers, doorbells | each command answered once, in order, with its own data; no cycle of waits |
| ARC | `src/tile.cpp` 2585-2860 | message rings, reset unit | message, drain | pointers modulo twice the size | one response per request |
| PCIe | `src/pcie.cpp` | BARs, TLB windows, iATU, DMA registers | host access, DMA | transfers cut at windows; order of register writes | each byte goes where the window says |
| Harvesting | `src/tile.cpp` 27-277, 380-870 | translation tables | translate | conventions of two chips | translation is one-to-one |
| Host API | `src/libttsim.cpp` 59-208, `src/main.cpp`, `src/sim.cpp` | running flag, current chip | init, clock, exit, accesses | current chip saved around calls | calls leave the current chip as it was |
| RV64 system | `src/rv64_system.cpp`, `src/rv64_fpu.cpp` | harts, CLINT, PLIC, TLBs, reservations, virtual time | run, interrupt, trap, WFI | cached deadlines; sleeping harts; LR/SC between turns | no interrupt lost; no false deadlock; SC exact |
| Code generation | `make.py`, `src/*.py`, `data/` | none at run time | | | |

How they interact:

- the **host** calls `libttsim_clock`; between clocks it reads and writes tiles
  through PCIe windows.  A write may be to a reset register;
- `clock_current_chip` **steps** every active core of every busy tile, then the
  front ends, then tries one instruction of each thread, and repeats the tile
  while some instruction executed; last it steps the Ethernet cores;
- a core's **stores** are calls: into the front end (push, MOP configuration), the
  PC buffer (semaphores, waiting, parking), mailboxes, its tile's reset register,
  and through the NoC into any other tile's memory and registers;
- the front end and the resets **set the busy bit** which makes the clock loop
  visit a tile, and the loop clears it when nothing of the tile is active;
- threads meet at the **Src banks**, at **mutexes** and **semaphores**.  The Wait
  Gate holds back instructions by what a latched wait sees there;
- an Ethernet send or a NoC write **selects the other chip**, acts there at once
  and comes back.

## Plan

Stages, the most important behaviour first.

1. *(done)* **Front end**: `TensixExpansion` (what a MOP and a REPLAY stand for),
   `TensixStream` (abstract: a push expands at once), `TensixFrontend`,
   `TensixRefinement` (how the one implements the other).
2. *(done)* **Clock loop**: `CoreStates` (abstract), `TileClock`.
3. *(done)* **Src banks**: `SrcQueue` (abstract), `SrcBanks`.
4. *(done)* **Synchronisation and mailboxes**: `TensixSync` under the kernels of
   `MCTensixSync`.
5. *(done)* **Ethernet**: `RemoteMemory` (abstract), `EthRelay`.
6. *(done)* **RV64 board**: `RvDevices`, `RvBoard`, `RvMemory`.
7. *(done)* **PCIe and ARC**: `ArcTile`, `PcieEndpoint`, composed by `HostPorts`.
8. *(done)* **NoC and harvesting**: `NocCoords`, `Niu`.
9. *(done)* **Proofs**: the front end, the clock, the Src banks and the relay implement
   their abstract specifications; the mutex passes in turn, the pipeline kernel neither
   misuses a semaphore nor shares a half of Dst, mail arrives in order; interrupts come in
   time and only then, and time keeps its order; PMP decides as its entries do, reservations
   hold, LR's assertion does and the TLBs hold what PMP allows; unicasts and multicasts reach
   what software names.  Not for the prover: `HostPorts`, see the end of the
   [proofs](#proofs).

## Modules and the code

**`TensixFrontend`** has one action for each way into the front end (`Push`,
`PushBypass`, `WriteLoopCfg`, `WriteOpCfg`, `FrontendStep`, `Issue`) and for each
turn of the loop in `tensix_frontend_step` (`EmitReplay`, `EmitMop`, `FinishStep`).
The loop is atomic in the code; here `expanding` names the pipe whose loop runs and
everything else waits, so its turns are separate steps without new interleavings.
Variables have the names of `TensixState`'s fields.  `error` stands for a failed
`TTSIM_VERIFY`, which ends the process; an input on which the code fails a check
that only concerns that input (a reserved bit, an unsupported mode) is not
generated.  A zero mask is a set of bit numbers, an instruction a record.
`IsNextStep` says what `mop_next` finds; `StepReg` and `Skipped` are
`mop_step_inst`.  MOPs are those Wormhole accepts; Blackhole differs in the bounds.

**`TensixStream`** is the promise: one queue per pipe to which a push appends the
full expansion under the configuration and replay buffer of that moment.
`TensixRefinement` gives the mapping: what a pipe has still to issue is its ring,
the rest of the replay, then the rest of the MOP sent through the Replay Expander.

**`TileClock`** cuts `clock_current_chip` where another actor's effect can matter:
before each tile, each core's step, each try of the pipes, each step of an Ethernet
core (`at`, `tile_id`, `rv32_mask`, `steps` are the loop's position and locals).
What an instruction can do to the masks is `Pause`, `Park`, `PushInst`,
`WriteReset` (to any tile, by any core or the host) or nothing.  `work[t]` counts
Tensix instructions in a tile, in expanders or rings.  **`CoreStates`** is the promise: four
states per core and their legal transitions.

**`SrcBanks`** has one action per instruction, or per group whose effect on the banks
is the same (`Compute` for the multiplications, poolings and element-wise
operations).  An instruction that stalls is not enabled.  `bank` holds one value for
a bank's 64 rows.  `ClrDisabled` is the per-thread configuration that keeps a
released bank valid.  **`SrcQueue`** is the promise: a queue of two for each Src.
`MCSrcBanks` adds each bank's history since its last release and says what a race is
in terms of it.

**`TensixSync`** executes the programs of a kernel: `TryPipe` tries a thread's next
instruction the way `tensix_decode_and_execute` does (Wait Gate, then the
instruction), in the order of the pipes; the TRISCs act when it is the cores' turn.
`MailboxRead` and `MailboxWrite` are not enabled where the code makes the core retry.
`MCTensixSync` has three kernels: a double-buffered pipeline, holders of a mutex that
wait at the gate, and cores that exchange mail.

**`EthRelay`** is `eth_fw.c` on every Ethernet core of three chips.  A step is what a
core does between two accesses to memory that others write; `pc` names the function
and, where a role waits for the link peer, what it waits for.  `Step` is the service
tick with its three roles.  `Host` is the driver (external): it keeps the ring from
overflowing, waits for a read's answer before its next command in that queue, and has
one broadcast of a chip in flight.  `EthSend` and `NocPut` take effect at once, as the simulator's
transfers do.  A command is one of a block or single read or write, a DRAM or host
memory access, or a broadcast; data is one value per block.  **`RemoteMemory`** is the
promise: a memory with one queue of commands per core, whose parts take effect once
and in order between issue and answer; `MCEthRelay` has the mapping.

**`RvBoard`** is the board's scheduler, virtual time, CLINT, interrupts and traps: a
step is one decision of `scheduler_choose_hart` or one instruction of the active hart.
A hart is a record of the fields of `Rv64SysHartState` these parts use; the cached
deadline `irq_next_check` is a field of it, and `NoneMissed` compares it with what
the devices and CSRs say.  **`RvDevices`** has the PLIC, the UART and the disk as
records with one operator per register access, which ends the turn of the hart
(`RetireAccess`, the `h->steps_left = 0` of `rv64_sys_load` and `rv64_sys_store`); the driver's
memory does not.  The guest is a table of routines:
firmware that delegates and passes timer interrupts on, a kernel that sleeps and
serves the devices.  `CodeAssumption` asks of a guest no more than that its operations are
`WellFormed`.  `Never` is `UINT64_MAX`, the time that does not come.  `ReadCsr` and `WriteCsr` are the CSRs of interrupts and traps.

**`RvMemory`** has a hart's accesses to memory: PMP flattened to segments, the page
walk, a first-level TLB per kind of access and a second-level one, and LR/SC with
`page_has_reservation`, the check that keeps a reserved page out of the store TLB.
Addresses count units of four bytes, tables are small, and a unit of memory holds what
a page-table entry would hold there.  Segments are a set, each from its first unit to its
last, where the code has a sorted array.  Guests are constrained by `WellFormed` only.
`ReservedPagesGuarded` (the invariant `page_has_reservation` is there for),
`ReservationsHold` and `LrReserves` (the assertion in `rv64_sys_lr_reserve`) are proved.
So is `CachesGranted`, what `CachesFresh` says of PMP: a hit in a TLB is an access that the
code never checks again.

**`PcieEndpoint`** and **`ArcTile`** are operators on a machine and a tile: each access
returns the new one and whether the simulator goes on.  `HostPorts` composes them under
the host's threads: every access is claimed by a chip's BAR, decoded to registers, a
window or the iATU, and ends in a tile, in the ARC's rings or in host memory.

**`NocCoords`** has the grid, the translation tables a tile starts with and the way
from a request's coordinates to a tile, for both chips (`w`) and any harvesting (`h`).
**`Niu`** is one tile's `noc_cmd_ctrl`: its operations, counters, the rows and columns
its multicasts skip, and the tiles whose clock is off (bit 12 of NIU_CFG_0 of either of
their NIUs; only Blackhole has it).  On Blackhole the ARC turns off the clocks of what is fused off,
the Tensix tiles of harvested columns among them, and any core can write the register of its own tile or,
with an inline write, of another; such a tile has its names all the same, and
`check_tile_clock_on` ends the simulation on a request to anything but the registers of its
NIUs and routers.  `UnicastExact` and `MulticastExact` say which requests these are.  A request is a record of the command buffer; the two ends are
`own` and `at` whichever of the source and return registers the operation takes them from.

## Runs

| Run | Module | Shows | Bounds and why they suffice |
|---|---|---|---|
| `FrontendReplay` | `MCTensixFrontend` | refinement of the stream by recording, loading and playing | one pipe, ring of 3, replay buffer of 2, loads with and without executing, plays, a MOP that plays; the ring fills in the middle of a play and of a MOP |
| `FrontendPair` | `MCTensixFrontend` | rings never fill, masks exact, busy bit, pushes resume, refinement while MOPs are reconfigured | two pipes, ring of 2: every MOP waits for room many times; both MOP types, zero masks, NOPs at the edges |
| `Clock` | `TileClock` | core states, busy bits; clocks return, paused cores resume, active ones are stepped | two tiles of two cores and an Ethernet core: a core can reset itself, its neighbour, a tile before and a tile after; two steps per busy Ethernet core; a resume every second clock |
| `SrcPair` | `SrcBanks` | queue of two | both Srcs, two values; one thread, as threads matter only to race tracking |
| `SrcRace` | `MCSrcBanks` | a race is reported exactly when the history has one | both Srcs, two threads, every instruction, four events in all histories: enough for write, wait, move, write in any order by both threads |
| `Sync` | `MCTensixSync` | no misuse, halves of Dst never shared, no overtaking at the mutex, mail in order, progress | unpack, math and pack threads over three semaphores with maxima 1 and 2; three contenders; BRISC and TRISCs with messages that cross |
| `Relay` | `MCEthRelay` | commands served once, in order, with their data; no post lost; all answered | two cores that each need the other's link, two commands in each queue; programs mix relays, broadcasts and blocks; rings of 2 (4 in the code) entered at a pointer that wraps; two chunks per block |
| `Board` | `MCRvBoard` | interrupts in time and only then, traps return, time, devices, false deadlock | one and two harts, slices of 3 and 7 instructions and 50 in all: reaches nested traps, sleep of all harts, timers met in sleep and awake, a claim open over a device reset, a FIFO of 2 that fills |
| `Memory` | `MCRvMemory` | no stale cache, PMP exact, SC exact | two harts; pages of 4 units, tables of 2 entries and 2 levels with a superpage; 2 PMP entries of all kinds; programs of racers, of a pager against a user, and behind PMP |
| `MemoryMprv` | `MCRvMemory` | the finding below | the same |
| `HostPorts` | `MCHostPorts` | claims, whole DMA, pinned memory, answers | two chips of each architecture; four scenarios of up to three threads; transfers of more than one chunk over two windows; ARC rings of 2 |
| `Noc` | `MCNiu` | unicast and multicast reach what software names | the six Wormhole and seven Blackhole harvestings that differ, a Tensix and an Ethernet sender, both NoCs; every span of the axis that is harvested; every kind of tile under each of its names, harvested columns with their clock off included; clocks that either NIU or both turn off and on again |

Ring sizes, loop lengths and `PAUSE_CLOCKS` (`PauseClocks`) are constants of the
code and small here; every other bound is named where a CONSTANT is declared
(`MaxLoop`, `MaxWork`, `MaxEvents`, `SemLimit`, `Chunks`, `MaxInsns`).  Deadlock is
checked in the runs of the chip's own parts: a failed `TTSIM_VERIFY` is a state with a
step of its own (`Ended`, `Done`).  `Relay`, `Board`, `Memory` and `HostPorts` may really
stop: the host has no more commands, the instruction limit is reached, the programs end.

Some properties deserve a remark.  `RaceCaught` is the comment above
`math_src_waited`, which the code implements with three bits per bank; the run
includes a thread that keeps banks valid.  It holds under the reading that a
release begins a new life of the bank.  `MutexInTurn` needs no queue of waiters in
the code: it is the fixed order of the pipes, together with the fact that a release
and the next acquisition by the same thread are different instructions, that lets
the others in between.  `MailInOrder` includes that some core can always go on, which
holds of kernels that read what they are sent before they write the same reader again,
the limit the comment at `tile.cpp:2025` describes.  `TypeOK` of `Board` and `Memory` rules out
states the architecture has no encoding for (an MPP of 2, an L1 entry outside DRAM).
`CachesFresh` leaves out, for the data TLBs, the one state of the finding.

### A finding

`take_trap` (`rv64_system.cpp:1952`) flushes the first-level TLB only if the privilege
level changes.  A trap taken in M while MPRV is set writes MPP = M, so that loads and
stores are M-mode accesses from then on; but the data TLBs do not tell privileges
apart, and entries filled for the MPP of before stay and are hit.  The comment at line
1430 says "loads/stores honor MPRV (use mstatus.MPP)".  `MprvHonored` says so of the
model and `MemoryMprv` finds the trap.

### What else the modelling showed

Not disagreements with anything the repository states, but worth knowing:

- an idle hart wakes from WFI for interrupts of the platform only
  (`MIP_PLATFORM_MASK`): one with SSIP or STIP pending and interrupts off sleeps on;
- "yield immediately to target" after an IPI (`rv64_system.cpp:316`) is lost when the
  slice ends with the same instruction; with three harts another may go first;
- with one hart a WFI whose only timer lies beyond the instructions that can still retire
  moves virtual time to it (`rv64_system.cpp:2012`), however close to `UINT64_MAX`;
- an instruction fetch that faults in a loop retires nothing, so the instruction limit
  never ends it;
- a virtio reset clears the status but leaves the interrupt line (873);
- `ETH_ROUTING_DATA_BUFFER` serves both payloads of requests, by their slot, and blocks
  read, by the response's slot (`eth_fw.c:572`): what keeps them apart is that the host
  waits for a read's answer before it goes on with that queue;
- a multicast adds 1 and subtracts the number of destinations from the count of
  outstanding requests, as its comment says: software must clear it;
- three comments in `tensix_can_push_inst` (`tensix.cpp:295`, `298`, `300`) say of the limits
  there "XXX this can easily still overflow in a MOP or REPLAY".  They no longer hold:
  a push puts one instruction into the ring or starts an expander, an expander's instructions
  enter the ring only in the loop of `tensix_frontend_step`, which ends when one entry is left (249), and a
  thread that expands cannot push (284).  `FifoNeverFull` is this case, with rings of 2
  that expansions fill many times over, and `FifoNeverFills` proves it for every size;
- Blackhole's harvested Ethernet tiles 12 and 13 keep their physical coordinates as
  NOC_ID_LOGICAL, which on NoC 1 would name another tile; nobody runs there;
- the comment at `sim.h:555` that BARs are not relocatable is out of date.

## Fairness

- `TensixFrontend`: weak fairness of the running loop, strong fairness of
  `FrontendStep` and `Issue` per pipe, weak fairness of waking the tile.  The clock
  loop serves all pipes of a busy tile in every clock; fairness of `Issue` says that
  what holds an instruction at the Wait Gate ends at some time.
- `TileClock`: weak fairness of the whole clock loop, no more: the host goes on
  calling and the call runs.  `PassesEnd` is a hypothesis of the liveness
  properties, not fairness: the loop over one tile only ends with a pass in which no
  Tensix instruction executes, so a program that pushes one per pass for ever keeps
  the clock from returning.
- `TensixSync`: weak fairness of the clock loop; strong fairness of each TRISC's push
  and polling, since cores act only in the cores' turn.
- `EthRelay`: weak fairness of each core's steps, which the clock loop gives it, and of
  the host's, which goes on polling.  A waiting role repeats its poll; nothing else is
  assumed to end the wait.

The other modules state no fairness and no liveness: what must happen is stated as a
safety property of the moment it is due (`NoneMissed`, `TakenWhenDue`).

## Proofs

TLAPS proves the following for all values of the constants that satisfy the modules'
assumptions.

| Module | Theorem | Says |
|---|---|---|
| `TensixFrontendProofs` | `BoundedInvariant` | types, and replay indices in bounds |
| | `FifoNeverFills` | `FifoNeverFull` |
| | `BusyCovers`, `MasksExact` | `BusyCoversWork`, `MasksAgree` |
| | `FrontendImplementsStream` | `StreamSpec`: `TensixFrontend` implements `TensixStream` |
| `TileClockProofs` | `ClockTypes`, `ClockInvariant` | `TypeOK`; the inductive invariant |
| | `MasksPartition`, `BusyTiles`, `PausedFlagged` | `OneMaskPerCore`, `BusyCoversActive`, `FlagCoversPaused` |
| | `MasksImplementStates` | `TileClock` implements `CoreStates` |
| `SrcBanksProofs` | `SrcInvariant`, `PointersAgree` | types and `BanksInStep` |
| | `ImplementsQueue` | `SrcBanks` implements `SrcQueue` |
| | `RacesCaught` | `RaceCaught`, of `MCSrcBanks` |
| `TensixSyncProofs` | `SyncTypes` | types: counts in range, mutexes owned by threads, threads in their programs |
| | `TurnsKept` | `MutexInTurn`, of `MCTensixSync` |
| | `PipelineGoesOn`, `HalvesStayApart` | `NoneMisused`, `HalvesApart`, of `MCTensixSync` |
| | `MailArrives` | `MailInOrder`, of `MCTensixSync` |
| `EthRelayProofs` | `RelayTypes` | `TypeOK` |
| | `PostsHeard` | `PostHeard` |
| | `CommandsServed` | `ServesCommands`: `MCEthRelay` implements `RemoteMemory` |
| `RvBoardProofs` | `BoardTypes` | `TypeOK` |
| | `InterruptsInTime` | `NoneMissed` |
| | `InterruptsWhenDue`, `TimeInOrder` | `TakenWhenDue`, `TimeKept` |
| `RvMemoryProofs` | `MemoryTypes` | `TypeOK` |
| | `PmpDecides` | `PmpExact` |
| | `ReservationsGuarded`, `ReservationsKept` | `ReservedPagesGuarded`, `ReservationsHold` |
| | `LrAsserts` | `LrReserves` |
| | `CachesAllowed` | `CachesGranted`, the part of `CachesFresh` about PMP |
| `NiuProofs` | `NiuInvariant` | tables, ids, counters and skipped columns and rows |
| | `UnicastServed`, `MulticastServed` | `UnicastExact`, `MulticastExact` |

*Front end.* `TypeOK /\ ReplayInBounds` is inductive; the second part is needed since
`EmitReplay` and `Record` index the buffer.  From it `FifoNeverFull` follows because
every push into the ring finds `InstFifoUsed(p) < FifoSize - 1`: a TRISC's by
`CanPushInst` and `PushLimit`, an expander's by the loop's condition.  The ring
arithmetic is in `Wrap` and `RoomForOne`.  For `MasksAgree` each mask gets an
invariant of its own (`FifoMask`, `ExpandMask`).

`FrontendImplementsStream` says that a ring, a replay under way and a stepwise MOP
Expander hand on what the instructions pushed stand for: all of it, once, in order, under the
configuration each was pushed with, for any loop counts, masks and instructions that fit the
fields they are written to.  What the abstract queue holds is what the mapping expands from the three
(ring, rest of the replay, `RestOfMop` through the Replay Expander).  A MOP begins with the whole of its
`Expansion` to come, and each `mop_next` takes the first instruction of what is to come
(`MopNext`), or finds nothing (`MopEmpty`); that needs to know which positions the expander's
registers can be in, which is the invariant `MopProgress`.  The abstract queue loses
an instruction only by `Issue`; that whatever is left is the same when an instruction goes from an
expander into the ring is `RingPushed` and `EmitReplaySame`, and that the Replay Expander
finds what it would have found when the instruction was pushed, though instructions were
issued in between, is `ThroughIssued`.  Loops and masks have any length, so these
rest on inductions: the prover cannot instantiate the library's induction rule, but proves one
for a set of naturals (`Counting`), and each claim is stated as such a set.

*Clock.* `ClockInv` adds to the three mask properties that `tile_id` names a tile
while one is visited.  Without it nothing says that `PipesStall` clears the bit of
the tile it looked at.  What a core's instruction may do is proved once for the masks
alone (`MaskInv`), since it happens at three places of the loop.  The refinement
then has a lemma for each transition.

*Synchronisation.* `TypeOK` is inductive as it stands, for any kernels: the guard of
each instruction ends the simulation, or stalls, where the count would leave its range.

`TurnsKept` is about the history `MCTensixSync` keeps, of who got the mutex since another
asked, and holds for any number of threads and any programs.  `TurnInv` ranks a
thread by when it is tried, counted from the turn of the one that waits: whoever has
overtaken the waiter ranks no later than the owner, so that the mutex, which only a
thread ranked later can take, moves towards the waiter.

`PipelineGoesOn` and `HalvesStayApart` are about one kernel, whose programs
`BuffersAssumption` names; which kernels are run next to it, with how many
letters and posts of the cores, is left open.  A thread's program says what it has waited
for, not what holds now: another thread may have moved since.  `PipeInv` says what the
others cannot have undone.  Nothing is left of a latched wait when the thread tries its
next instruction (`Open`); where a thread stands bounds each semaphore it has to do with, and
whether that has its maximum yet (`Counts`); and as many buffers were given to the packer as
it gave back, unless one is under way, when the numbers differ by one (`Halves`).  While math
and pack both work one buffer is under way, which is why they are on different halves.

`MailArrives` has two parts.  That letters arrive, all of them and in order, holds for any
programs.  `Sent(w, r)[n]` is what `w` sends to `r` with its first `n` letters; `InStep`
says that what `r` has received is the beginning of what `w` sends in a round, that an empty
mailbox means that as much has been received as sent, and that a full one holds the next.
That some core can always go on is about the kernel of the messages, which
`MailAssumption` names.  `Ledger` counts each core's rounds and says of each pair that sent less
loaded is what is on the way: 0 or 1.  No position of the four programs at which all of them
wait has such counts.

*Ethernet.* `RelayInv` has seven parts: the types of the state and of what is in
flight; that the commands of a queue stay what they were until they are read
(`QueueKept`) and the command at its head in particular (`HeadKept`), so that what a
role checked before it waited is what it serves after; that a role that waits serves
that command (`ServeKept`); that a slot of the data buffer belongs to the command that
reserved it (`SlotKept`); and `Heard`, which orders posts: what a core has served is no
newer than what its slot holds, and a post is newer than either.  A step is first
reduced to its effect on the shared memory (quiet, ring, doorbell, scan, reply, post),
and each part is proved per effect.  The chips a
broadcast is passed on to are a constant, `Bcast`, of which `Forwards` says what
`ttsim_e_tile_setup` fills the table with: each chip at the far end of a link that
the host does not reach itself, once.

`CommandsServed` says that the firmware implements `RemoteMemory`, for any number of
cores and links, rings of any size entered at any pointer, any cut into chunks and any
commands.  The history of `MCEthRelay` (the commands not answered, the parts performed
of the first of them, what those read) is updated by a rule of its own that looks at
the program counters and the host's counts, and the theorem is that the two agree:
every part has its effect once and in order, a write is counted when all of its parts
have, and what the host is given is what was read.  Its assumption beyond those of
`EthRelay` is `LinksLeave`, that no link of the host's chip comes back to it, which
holds of every peer table in `topology.h`; a core is then at one end of a link only.

Its `Inv` adds to `RelayInv` one part for each thing that a step could spoil.
`Receives`: a remote core does nothing but receive.  `Line`: at most one core works for
a queue, which is its own or the sibling that its relay was posted to; a relay is
posted only where the target needs one, and its slot holds the request until the reply.
`LinkKept`: the sequence numbers of the two ends differ by one request at most, and the
block of a write stays in the peer's buffer until that request is answered.  `RingKept`:
the ring holds the commands not answered, or the host has yet to take the response of the
only one.  `Past`: how many parts of the first command are done in each place that a
command can be at (in the grid, in a hop of its own, posted, in a sibling's hop, replied,
responded), and where the data it read is now.  `Past` rests on the others and they
not on it, so they are proved first (`Settled`).  A step of the memory is then one of
three: the access of a receiver or of the host's own grid performs a part
(`ReceiveServes`, `GridServes`), the end of a command answers a write, and the host's
two steps issue a command and take a read's answer; all other steps are stutters.
TLC has checked `Inv` on the run's instance.

*RV64 board.* `NoneMissed` compares a cached time with the state it was computed from, and
says nothing of how they came to agree, so it is not inductive.  `BoardInv` says it: the
interrupts a hart could take are cached exactly (`Exact`), the pending bits follow the
devices (`Wired`), the deadline is no later than an interrupt the hart would take
(`Timely`); the hart that runs has none due until its deadline (`Quiet`), and a
simulation that gave up cannot go on.  An instruction is reduced to its `Effect` on the
hart, the devices and the scheduler, and `RetireKeeps` then proves once that whatever
retires with such an effect keeps the invariant; `DispatchKeeps` does so for the
scheduler's choice, jumps of time included.  Counts are natural numbers and do not wrap.

*RV64 memory.* `MemoryInv` has the types, that the segments are the flattened entries
(`Flattened`), that no store entry of a hart, whatever its privilege and protection were when
it was filled, is for a reserved page (`Guarded`), and that every reservation is aligned within
a page of memory (`AllPlaced`): without the last an SC or a store could overlap a
reservation that `page_has_reservation` looks for elsewhere.  Operations are nested as in
the code (an access that crosses a page, translation, the walk that marks entries, the
filling of TLBs) and each level is reduced to what it may do to the machine
(`Kept` for a hart, `Flows` for the machine, `Outcome` for a translation), so that a new
caller costs one lemma.  That PMP is exact rests on two facts: between two
neighbouring bounds no entry begins or ends, so one entry decides the whole segment
(`Covers`), and the segments cover the addresses without overlap.  For LR's assertion the second
and third translations are followed through the TLB entries the first one left (`ReachesAgain`).

`CachesAllowed` says that a first-level entry is for a page which PMP, as it is now, lets the
hart access so as a whole, at the privilege it has now, and that the second level promises S
and U nothing that PMP denies them.  Its invariant, `CachesInv`, says so of the segments
instead of the entries (`Fits`, `ItlbFits`), and `Tame` is what every part of an instruction
must keep of it.  Whatever changes the segments flushes all of the TLBs; a change of
privilege or of MPRV need not touch the second level, which knows no privilege; a trap from M to M
changes no privilege but, with MPRV set, that of loads and stores.  That is the finding's
state, `Nested`, which `CachesGranted` excepts for the data TLBs; so outside it no
entry is ever hit with M's privilege.  A fetch from a page that PMP allows in part leaves an entry for as long as
the instruction takes (`OnceOnly`): `Drifts` is what its first half keeps.

*Network on chip.* `UnicastServed` and `MulticastServed` hold for every harvesting mask of
either chip (any rows of Wormhole, any columns of Blackhole), on either NoC, for any programs,
whatever they write to the configuration of their own NIUs or others': both say of each request whether
it is served or, the clock of a tile it names being off, ends the simulation.
What is assumed of these, `ProgramsAssumption`, is what the code verifies of a coordinate,
that it is below 32, and that the start of a request that is no multicast is one of its ends,
the model's convention.  That a name leads back to its tile (`NamesReach`) goes through the tables
kind by kind: NOC_ID_LOGICAL on each chip, NOC_NODE_ID where it is not translated, the channels
of DRAM.  The tables list the columns or rows in use in the order of the chip, then the
harvested ones: `Picked` takes the entries of a list at the places of a set, each by its rank
there, so `RowsInOrder` and `ColumnsInOrder` are about ranks and need no induction.  `KeepsOrder`
is what a multicast rests on: logical coordinates of columns in use have the order of the
chip, and those of harvested columns come after all of them.  Hence (`Between`) what a span
of logical coordinates names and what is in use in the rectangle the NIU goes over are the
same.  The rest is `SkipsKept`, that what is skipped is what software asked for last or, until then,
what the chip starts with, and never less than the columns and rows without Tensix tiles; so nothing
in the rectangle is of another kind, and the simulation does not end.

*Src banks.* Every instruction is first reduced to one of few effects on the
handover (`StepHasEffect`): it fills the unpackers' bank and hands it over,
writes a bank one side has, releases some banks, clears some or changes nothing.
Types, agreement of the pointers, and the queue are each proved per effect.  All
assume `ClrDisabled = {}`: with a bank kept valid on release, pointers and valid bits
part by design and the banks are not a queue.  `RacesCaught` does not assume it.  `RaceInv`
says what each of the three bits means in terms of the bank's history (`Agrees`), and
`Appended` how each meaning, and being a race, change with one more event.

Types, `ReplayInBounds`, `OneMaskPerCore`, `FlagCoversPaused` and `BanksInStep` are proved
and left out of the runs, where a consequence of theirs is checked.

Only model-checked: the liveness properties; of `RvBoard`,
`DevicesServe` and `TrapsReturn`, which are about what the guest's handlers do; of
`RvMemory`, `ScExact`, whose conjunct about the word an SC has stored fails for a guest that
maps one page twice, so that it depends on the programs, and
of `CachesFresh` the rest, which compares the TLBs with a history of every leaf of the tables and
is written for tables of two levels; and all of `HostPorts`: its accesses are folds over the
windows and chunks of a request, so that what they do is an induction over data, and what
the host is answered depends on its programs.

## What is not modelled

- Values: what a bank, a register or a MOP's instructions contain, beyond what the
  properties tell apart.
- Errors that concern one operand of one instruction; the models generate only inputs
  the code accepts at that point, except where an error is what a property is about.
- The clock over several chips.  `ttsim_t_tile_set_busy` acts on the current chip; in
  `EthRelay` a core takes its steps whenever it has something to do.
- What Blackhole does differently in the front end (its bounds on MOPs).
- The conditions of STALLWAIT other than those on Src banks: in `TensixSync` a
  STALLWAIT may stall or pass.
- Of the Ethernet tiles, the registers of the queues: in `EthRelay` a send is one step.
- Of the RV64 board, instruction semantics and floating point, the reset ROM's fetches,
  ASIDs, a count of instructions that wraps, the lookup hint of PMP (`pmp_seg_last`), the UART's line registers and its
  interactive input, and the contents of disk sectors.  `RvBoard` and
  `RvMemory` are not composed: a trap in `RvMemory` is a change of privilege and an
  access in `RvBoard` does not fault but where its program says so.
- Of PCIe, inbound iATU checks, NIU registers and tile registers over BAR0, and the
  check that a tile's clock is on, which is in `Niu`.  Coordinates are taken as they are there;
  `NocCoords` has their translation.  The device addresses of a DMA transfer are those of
  BAR0's windows: the engine of Blackhole does not bound them, and reads the register of a window of BAR4
  with the layout of BAR0's (`pcie.cpp:268-271`).  The cores of `HostPorts` reach host
  memory through the iATU only, and so far goes `CoresKeepPinned`: windows 0 to 3 of Blackhole's PCIe tile
  lead straight there (`tile.cpp:2546-2554`).
- Of the NoC, lengths and alignments, software's writes to the translation tables,
  overlay streams, and what an access does in the tile it reaches.
- RV32 instruction semantics and Tensix arithmetic: sequential functions of wide words,
  a matter for differential tests against hardware.  Code generation has no behaviour
  at run time.
