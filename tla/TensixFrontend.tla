---------------------------- MODULE TensixFrontend ----------------------------
(***************************************************************************)
(* The front end of one Tensix core (src/tensix.cpp): for every pipe, the  *)
(* MOP Expander, the Replay Expander and the instruction FIFO they feed,   *)
(* the two masks of pipes with work left, and the busy bit of the tile     *)
(* that makes the clock loop (libttsim.cpp) visit it.                      *)
(*                                                                         *)
(* The simulator is single threaded.  tensix_frontend_step is a loop, and  *)
(* its iterations are steps here: while `expanding' names a pipe, only     *)
(* that pipe's loop may step, so the loop is still atomic to the rest.     *)
(***************************************************************************)
EXTENDS Integers, FiniteSets

CONSTANTS
  Pipes,        \* the Tensix threads (TENSIX_INST_PIPES)
  OpIds,        \* names of the instructions that are not for the front end
  FifoSize,     \* TENSIX_INST_FIFO_SIZE
  ReplaySize,   \* REPLAY_BUF_ENTRIES
  ZBits,        \* bits in each half of a MOP's zero mask (16 in the code)
  MaxLoop,      \* bound on a loop count or length of a MOP
  PushLimit,    \* PushLimit[p]: a TRISC push waits at this FIFO occupancy
  BypassLimit,  \* and a BRISC push at this one
  Pushed,       \* the instructions the TRISCs push
  Bypassed,     \* the instructions BRISC pushes past the MOP Expander
  LoopWrites,   \* LoopWrites[k]: values software writes to MOP_CFG_LOOP(k)
  OpWrites,     \* OpWrites[k]: instructions it writes to MOP_CFG_LOOP(k)
  InitMopCfg,   \* MOP configurations the modelled programs start from
  NoPipe        \* no tensix_frontend_step is running

NOP  == [opcode |-> "NOP"]
Zero == [opcode |-> "ZERO"]  \* a word of memory never written since reset

OpInst      == [opcode: {"OP"}, id: OpIds]
MopCfgInst  == [opcode: {"MOP_CFG"}, hi: SUBSET (ZBits .. 2*ZBits - 1)]
MopInst     == [opcode: {"MOP"}, type: {0, 1}, zlo: SUBSET (0 .. ZBits - 1),
                count: 0 .. 2*ZBits - 1]
\* The REPLAYs the simulator accepts: all others end it (TTSIM_VERIFY).
ReplayInst  ==
  {r \in [opcode: {"REPLAY"}, load: BOOLEAN, exec: BOOLEAN,
          start: 0 .. ReplaySize, len: 1 .. ReplaySize] :
     r.start + r.len <= ReplaySize /\ (r.exec => r.load)}

PlainInst == OpInst \cup {NOP, Zero}
FifoInst  == PlainInst \cup ReplayInst
Inst      == FifoInst \cup MopInst \cup MopCfgInst

OpRegs == 2 .. 8    \* the MOP_CFG_LOOP registers that hold instructions
MopCfg == [loop: [0 .. 1 -> 0 .. MaxLoop], op: [OpRegs -> FifoInst]]

ASSUME FrontendAssumption ==
  /\ FifoSize \in Nat /\ FifoSize >= 2
  /\ ReplaySize \in Nat /\ MaxLoop \in Nat
  /\ ZBits \in Nat \ {0}
  /\ NoPipe \notin Pipes
  /\ PushLimit \in [Pipes -> 0 .. FifoSize - 1]
  /\ BypassLimit \in 0 .. FifoSize - 1
  /\ Pushed \subseteq Inst /\ Bypassed \subseteq FifoInst
  /\ LoopWrites \in [0 .. 1 -> SUBSET (0 .. MaxLoop)]
  /\ OpWrites \in [OpRegs -> SUBSET FifoInst]
  /\ InitMopCfg \subseteq MopCfg

VARIABLES
  inst,                \* inst[p]: the ring of the instruction FIFO
  inst_rd_ptr, inst_wr_ptr,
  inst_pipes_active,   \* pipes whose FIFO is not empty
  mop_zmask_hi16, mop_cfg,
  replay_buf, replay_index, replay_left, replay_execute_while_loading,
  replay_play_index, replay_play_left,
  mop,                 \* mop[p]: the MOP being expanded (TensixMopState)
  expand_pipes_active, \* pipes with something left to expand
  t_tile_busy,         \* the tile's bit of g_t_tiles_busy
  expanding,           \* the pipe whose tensix_frontend_step is running
  error                \* the TTSIM_VERIFY that ended the simulation, or none

fifoVars   == <<inst, inst_wr_ptr>>
playVars   == <<replay_play_index, replay_play_left>>
recordVars == <<replay_buf, replay_index, replay_left>>
cfgVars    == <<mop_zmask_hi16, mop_cfg>>
vars == <<inst, inst_rd_ptr, inst_wr_ptr, inst_pipes_active, mop_zmask_hi16,
          mop_cfg, replay_buf, replay_index, replay_left,
          replay_execute_while_loading, replay_play_index, replay_play_left,
          mop, expand_pipes_active, t_tile_busy, expanding, error>>

MopState ==
  [busy: BOOLEAN, type: {0, 1}, count: 0 .. 2*ZBits - 1,
   zmask: SUBSET (0 .. 2*ZBits - 1), cfg: MopCfg, iter: Nat, step: Nat]

TypeOK ==
  /\ inst \in [Pipes -> [0 .. FifoSize - 1 -> FifoInst]]
  /\ inst_rd_ptr \in [Pipes -> 0 .. FifoSize - 1]
  /\ inst_wr_ptr \in [Pipes -> 0 .. FifoSize - 1]
  /\ inst_pipes_active \subseteq Pipes
  /\ mop_zmask_hi16 \in [Pipes -> SUBSET (ZBits .. 2*ZBits - 1)]
  /\ mop_cfg \in [Pipes -> MopCfg]
  /\ replay_buf \in [Pipes -> [0 .. ReplaySize - 1 -> FifoInst]]
  /\ replay_index \in [Pipes -> 0 .. ReplaySize]
  /\ replay_left \in [Pipes -> 0 .. ReplaySize]
  /\ replay_execute_while_loading \in [Pipes -> BOOLEAN]
  /\ replay_play_index \in [Pipes -> 0 .. ReplaySize]
  /\ replay_play_left \in [Pipes -> 0 .. ReplaySize]
  /\ mop \in [Pipes -> MopState]
  /\ expand_pipes_active \subseteq Pipes
  /\ t_tile_busy \in BOOLEAN
  /\ expanding \in Pipes \cup {NoPipe}
  /\ error \in {"none", "inst fifo full", "nested REPLAY"}

-----------------------------------------------------------------------------
(* The MOP Expander: what one step of one iteration emits.                 *)

IsNop(i) == i.opcode = "NOP"

\* Bit k of the flags of a type 0 MOP, which the second loop register holds.
Flag(cfg, k) == (cfg.loop[1] \div (2^k)) % 2 = 1

\* Steps of the inner loop of a type 1 MOP: doubled by a second loop_op.
InnerLen(cfg) == IF IsNop(cfg.op[6]) THEN cfg.loop[1] ELSE 2 * cfg.loop[1]

Iters(m) == IF m.type = 1 THEN m.cfg.loop[0] ELSE m.count + 1

Steps(m, iter) ==
  CASE m.type = 1          -> InnerLen(m.cfg) + 3
    [] m.type = 0 /\ iter \in m.zmask    -> IF Flag(m.cfg, 0) THEN 2 ELSE 1
    [] m.type = 0 /\ iter \notin m.zmask ->
         1 + (IF Flag(m.cfg, 1) THEN 3 ELSE 0) + (IF Flag(m.cfg, 0) THEN 1 ELSE 0)

\* The configuration register that step `step' of iteration `iter' reads.
StepReg(m, iter, step) ==
  LET last == InnerLen(m.cfg) IN
  IF m.type = 0
  THEN IF iter \in m.zmask THEN 7 + step
       ELSE IF step = 0 THEN 3
       ELSE IF Flag(m.cfg, 1) /\ step <= 3 THEN 3 + step ELSE 2
  ELSE CASE step = 0        -> 2
         [] step \in 1 .. last - 1 -> IF step % 2 = 0 /\ ~IsNop(m.cfg.op[6]) THEN 6 ELSE 5
         [] step = last /\ last > 0 -> IF iter + 1 < m.cfg.loop[0] THEN 8 ELSE 7
         [] step = last + 1 /\ step > 0 -> 3
         [] OTHER           -> 4

\* Mutant of Skipped: end_op1 is skipped for its own sake alone.
SkippedAlone(m, iter, step) ==
  LET op == m.cfg.op  last == InnerLen(m.cfg) IN
  /\ m.type = 1
  /\ \/ step = 0 /\ IsNop(op[2])
     \/ step = last + 1 /\ IsNop(op[3])
     \/ step = last + 2 /\ IsNop(op[4])

\* A type 1 MOP skips start and end operations that are NOPs, and end_op1
\* with them when end_op0 is one.
Skipped(m, iter, step) ==
  LET op == m.cfg.op  last == InnerLen(m.cfg) IN
  /\ m.type = 1
  /\ \/ step = 0 /\ IsNop(op[2])
     \/ step = last + 1 /\ IsNop(op[3])
     \/ step = last + 2 /\ (IsNop(op[3]) \/ IsNop(op[4]))

MopStepInst(m, iter, step) == m.cfg.op[StepReg(m, iter, step)]

\* The (iteration, step) pairs of m that are still to emit something.
StepsLeft(m) ==
  {q \in (m.iter .. Iters(m) - 1) \X (0 .. 2*MaxLoop + 3) :
     /\ q[2] < Steps(m, q[1])
     /\ q[1] = m.iter => q[2] >= m.step
     /\ ~Skipped(m, q[1], q[2])}

\* q is where mop_next finds the next instruction to emit.
IsNextStep(m, q) ==
  /\ q \in StepsLeft(m)
  /\ \A r \in StepsLeft(m) : q[1] < r[1] \/ (q[1] = r[1] /\ q[2] <= r[2])

-----------------------------------------------------------------------------
InstFifoUsed(p) ==
  (inst_wr_ptr[p] + FifoSize - inst_rd_ptr[p]) % FifoSize

TensixExpanding(p) == mop[p].busy \/ replay_play_left[p] > 0

\* Mutant of CanPushInst: a push does not wait for the expanders.
CanPushWhileExpanding(p, bypass_mop_expander) ==
  InstFifoUsed(p) < IF bypass_mop_expander THEN BypassLimit ELSE PushLimit[p]

CanPushInst(p, bypass_mop_expander) ==
  /\ ~TensixExpanding(p)
  /\ InstFifoUsed(p) < IF bypass_mop_expander THEN BypassLimit ELSE PushLimit[p]

\* tensix_push_inst_fifo: NOPs are eaten, and running into the read pointer
\* ends the simulation (after the write).
PushInstFifo(p, i) ==
  LET wr == (inst_wr_ptr[p] + 1) % FifoSize IN
  IF IsNop(i)
  THEN UNCHANGED <<fifoVars, inst_pipes_active, t_tile_busy, error>>
  ELSE /\ inst' = [inst EXCEPT ![p][inst_wr_ptr[p]] = i]
       /\ inst_wr_ptr' = [inst_wr_ptr EXCEPT ![p] = wr]
       /\ inst_pipes_active' = inst_pipes_active \cup {p}
       /\ t_tile_busy' = TRUE
       /\ error' = IF wr = inst_rd_ptr[p] THEN "inst fifo full" ELSE error

\* replay_expander, while it records: the instruction goes to the buffer,
\* and on to the FIFO only if it executes while loading.
Record(p, i) ==
  /\ replay_left[p] > 0
  /\ i.opcode # "REPLAY"
  /\ replay_buf' = [replay_buf EXCEPT ![p][replay_index[p]] = i]
  /\ replay_index' = [replay_index EXCEPT ![p] = @ + 1]
  /\ replay_left' = [replay_left EXCEPT ![p] = @ - 1]
  /\ IF replay_execute_while_loading[p]
     THEN PushInstFifo(p, i)
     ELSE UNCHANGED <<fifoVars, inst_pipes_active, t_tile_busy, error>>
  /\ UNCHANGED <<replay_execute_while_loading, playVars>>

NestedReplay(p, i) ==
  /\ replay_left[p] > 0
  /\ i.opcode = "REPLAY"
  /\ error' = "nested REPLAY"
  /\ UNCHANGED <<fifoVars, inst_pipes_active, t_tile_busy, recordVars,
                 replay_execute_while_loading, playVars>>

StartRecording(p, i) ==
  /\ replay_left[p] = 0
  /\ i.opcode = "REPLAY" /\ i.load
  /\ replay_index' = [replay_index EXCEPT ![p] = i.start]
  /\ replay_left' = [replay_left EXCEPT ![p] = i.len]
  /\ replay_execute_while_loading' = [replay_execute_while_loading EXCEPT ![p] = i.exec]
  /\ UNCHANGED <<fifoVars, inst_pipes_active, t_tile_busy, error, replay_buf, playVars>>

StartPlaying(p, i) ==
  /\ replay_left[p] = 0
  /\ i.opcode = "REPLAY" /\ ~i.load
  /\ replay_play_index' = [replay_play_index EXCEPT ![p] = i.start]
  /\ replay_play_left' = [replay_play_left EXCEPT ![p] = i.len]
  /\ UNCHANGED <<fifoVars, inst_pipes_active, t_tile_busy, error, recordVars,
                 replay_execute_while_loading>>

PassThrough(p, i) ==
  /\ replay_left[p] = 0
  /\ i.opcode # "REPLAY"
  /\ PushInstFifo(p, i)
  /\ UNCHANGED <<recordVars, replay_execute_while_loading, playVars>>

ReplayExpander(p, i) ==
  \/ Record(p, i)
  \/ NestedReplay(p, i)
  \/ StartRecording(p, i)
  \/ StartPlaying(p, i)
  \/ PassThrough(p, i)

\* The MOPs mop_ingest accepts (on Wormhole): all others end the simulation.
MopAccepted(p, i) ==
  IF i.type = 0
  THEN mop_cfg[p].loop[1] <= 3
  ELSE i.zlo = {} /\ i.count = 0 /\ mop_cfg[p].loop[0] >= 1 /\ mop_cfg[p].loop[1] >= 1

\* mop_ingest: the configuration is sampled here.
MopIngest(p, i) ==
  /\ MopAccepted(p, i)
  /\ mop' = [mop EXCEPT ![p] =
               [busy |-> TRUE, type |-> i.type, count |-> i.count,
                zmask |-> i.zlo \cup mop_zmask_hi16[p], cfg |-> mop_cfg[p],
                iter |-> 0, step |-> 0]]
  /\ UNCHANGED <<fifoVars, inst_pipes_active, t_tile_busy, error, recordVars,
                 replay_execute_while_loading, playVars, mop_zmask_hi16>>

MopCfgExec(p, i) ==
  /\ mop_zmask_hi16' = [mop_zmask_hi16 EXCEPT ![p] = i.hi]
  /\ UNCHANGED <<fifoVars, inst_pipes_active, t_tile_busy, error, recordVars,
                 replay_execute_while_loading, playVars, mop>>

-----------------------------------------------------------------------------
Quiet == expanding = NoPipe /\ error = "none"

\* tensix_inst_wr32 by a TRISC: tensix_push_inst, whose frontend step follows.
Push(p, i) ==
  /\ Quiet /\ t_tile_busy
  /\ CanPushInst(p, FALSE)
  /\ \/ i.opcode = "MOP" /\ MopIngest(p, i)
     \/ i.opcode = "MOP_CFG" /\ MopCfgExec(p, i)
     \/ i.opcode \notin {"MOP", "MOP_CFG"} /\ ReplayExpander(p, i) /\ UNCHANGED <<mop, mop_zmask_hi16>>
  /\ expanding' = p
  /\ UNCHANGED <<inst_rd_ptr, mop_cfg, expand_pipes_active>>

\* tensix_inst_wr32 by BRISC: the instruction bypasses the MOP Expander.
PushBypass(p, i) ==
  /\ Quiet /\ t_tile_busy
  /\ CanPushInst(p, TRUE)
  /\ ReplayExpander(p, i)
  /\ expanding' = p
  /\ UNCHANGED <<inst_rd_ptr, cfgVars, mop, expand_pipes_active>>

\* tensix_mop_cfg_wr32: nothing makes it wait for a MOP being expanded.
WriteLoopCfg(p, k, n) ==
  /\ Quiet /\ t_tile_busy
  /\ mop_cfg' = [mop_cfg EXCEPT ![p].loop[k] = n]
  /\ UNCHANGED <<fifoVars, inst_rd_ptr, inst_pipes_active, mop_zmask_hi16, recordVars,
                 replay_execute_while_loading, playVars, mop, expand_pipes_active,
                 t_tile_busy, expanding, error>>

WriteOpCfg(p, k, i) ==
  /\ Quiet /\ t_tile_busy
  /\ mop_cfg' = [mop_cfg EXCEPT ![p].op[k] = i]
  /\ UNCHANGED <<fifoVars, inst_rd_ptr, inst_pipes_active, mop_zmask_hi16, recordVars,
                 replay_execute_while_loading, playVars, mop, expand_pipes_active,
                 t_tile_busy, expanding, error>>

-----------------------------------------------------------------------------
(* tensix_frontend_step, an iteration at a time.                           *)

\* Mutant of HasRoom: it counts the slot that a ring keeps free.
HasRoomForAll(p) == InstFifoUsed(p) < FifoSize

HasRoom(p) == InstFifoUsed(p) < FifoSize - 1

\* The clock loop's call, for a pipe of expand_pipes_active.
FrontendStep(p) ==
  /\ Quiet /\ t_tile_busy
  /\ p \in expand_pipes_active
  /\ expanding' = p
  /\ UNCHANGED <<fifoVars, inst_rd_ptr, inst_pipes_active, cfgVars, recordVars,
                 replay_execute_while_loading, playVars, mop, expand_pipes_active,
                 t_tile_busy, error>>

EmitReplay(p) ==
  /\ expanding = p /\ error = "none"
  /\ HasRoom(p)
  /\ replay_play_left[p] > 0
  /\ PushInstFifo(p, replay_buf[p][replay_play_index[p]])
  /\ replay_play_index' = [replay_play_index EXCEPT ![p] = @ + 1]
  /\ replay_play_left' = [replay_play_left EXCEPT ![p] = @ - 1]
  /\ UNCHANGED <<inst_rd_ptr, cfgVars, recordVars, replay_execute_while_loading, mop,
                 expand_pipes_active, expanding>>

\* mop_next and, with what it returns, replay_expander.
EmitMop(p) ==
  /\ expanding = p /\ error = "none"
  /\ HasRoom(p)
  /\ replay_play_left[p] = 0
  /\ mop[p].busy
  /\ \E q \in StepsLeft(mop[p]) :
       /\ IsNextStep(mop[p], q)
       /\ mop' = [mop EXCEPT ![p].iter = q[1], ![p].step = q[2] + 1]
       /\ ReplayExpander(p, MopStepInst(mop[p], q[1], q[2]))
  /\ UNCHANGED <<inst_rd_ptr, cfgVars, expand_pipes_active, expanding>>

\* Mutant of FinishStep: a pipe with more to expand is forgotten.
FinishAndForget(p) ==
  /\ expanding = p /\ error = "none"
  /\ HasRoom(p) => replay_play_left[p] = 0 /\ (mop[p].busy => StepsLeft(mop[p]) = {})
  /\ mop' = IF HasRoom(p) /\ mop[p].busy
            THEN [mop EXCEPT ![p].busy = FALSE, ![p].iter = Iters(mop[p]), ![p].step = 0]
            ELSE mop
  /\ expand_pipes_active' = expand_pipes_active \ {p}
  /\ expanding' = NoPipe
  /\ UNCHANGED <<fifoVars, inst_rd_ptr, inst_pipes_active, cfgVars, recordVars,
                 replay_execute_while_loading, playVars, t_tile_busy, error>>

\* The loop ends: the FIFO has no room, or there is nothing left to emit.  A
\* MOP found to have no step left is done, but only if mop_next was called.
FinishStep(p) ==
  /\ expanding = p /\ error = "none"
  /\ HasRoom(p) => replay_play_left[p] = 0 /\ (mop[p].busy => StepsLeft(mop[p]) = {})
  /\ mop' = IF HasRoom(p) /\ mop[p].busy
            THEN [mop EXCEPT ![p].busy = FALSE, ![p].iter = Iters(mop[p]), ![p].step = 0]
            ELSE mop
  /\ IF TensixExpanding(p) /\ ~HasRoom(p)
     THEN expand_pipes_active' = expand_pipes_active \cup {p} /\ t_tile_busy' = TRUE
     ELSE expand_pipes_active' = expand_pipes_active \ {p} /\ UNCHANGED t_tile_busy
  /\ expanding' = NoPipe
  /\ UNCHANGED <<fifoVars, inst_rd_ptr, inst_pipes_active, cfgVars, recordVars,
                 replay_execute_while_loading, playVars, error>>

-----------------------------------------------------------------------------
(* The clock loop's other dealings with the front end.                     *)

\* Mutant of Issue: it leaves the pipe's bit.
IssueLeavesBit(p) ==
  /\ Quiet /\ t_tile_busy
  /\ p \in inst_pipes_active
  /\ inst_rd_ptr[p] # inst_wr_ptr[p]
  /\ inst_rd_ptr' = [inst_rd_ptr EXCEPT ![p] = (@ + 1) % FifoSize]
  /\ UNCHANGED <<fifoVars, inst_pipes_active, cfgVars, recordVars,
                 replay_execute_while_loading, playVars, mop, expand_pipes_active,
                 t_tile_busy, expanding, error>>

\* tensix_decode_and_execute accepted the head of the pipe's FIFO.
Issue(p) ==
  /\ Quiet /\ t_tile_busy
  /\ p \in inst_pipes_active
  /\ inst_rd_ptr[p] # inst_wr_ptr[p]
  /\ inst_rd_ptr' = [inst_rd_ptr EXCEPT ![p] = (@ + 1) % FifoSize]
  /\ inst_pipes_active' = IF inst_rd_ptr'[p] = inst_wr_ptr[p]
                          THEN inst_pipes_active \ {p} ELSE inst_pipes_active
  /\ UNCHANGED <<fifoVars, cfgVars, recordVars, replay_execute_while_loading,
                 playVars, mop, expand_pipes_active, t_tile_busy, expanding, error>>

\* Mutant of GoIdle: only the FIFOs are looked at.
GoIdleWhileExpanding ==
  /\ Quiet /\ t_tile_busy
  /\ inst_pipes_active = {}
  /\ t_tile_busy' = FALSE
  /\ UNCHANGED <<fifoVars, inst_rd_ptr, inst_pipes_active, cfgVars, recordVars,
                 replay_execute_while_loading, playVars, mop, expand_pipes_active,
                 expanding, error>>

\* The tile has nothing left to do (t_tile_active; no RISC-V core of it is
\* active), so the clock loop stops visiting it.
GoIdle ==
  /\ Quiet /\ t_tile_busy
  /\ inst_pipes_active \cup expand_pipes_active = {}
  /\ t_tile_busy' = FALSE
  /\ UNCHANGED <<fifoVars, inst_rd_ptr, inst_pipes_active, cfgVars, recordVars,
                 replay_execute_while_loading, playVars, mop, expand_pipes_active,
                 expanding, error>>

\* A core of the tile comes out of reset or resumes (sim.cpp).
WakeTile ==
  /\ Quiet /\ ~t_tile_busy
  /\ t_tile_busy' = TRUE
  /\ UNCHANGED <<fifoVars, inst_rd_ptr, inst_pipes_active, cfgVars, recordVars,
                 replay_execute_while_loading, playVars, mop, expand_pipes_active,
                 expanding, error>>

\* A failed TTSIM_VERIFY ends the process.
Ended == error # "none" /\ UNCHANGED vars

-----------------------------------------------------------------------------
ClearCfg == [loop |-> [k \in 0 .. 1 |-> 0], op |-> [k \in OpRegs |-> Zero]]
IdleMop == [busy |-> FALSE, type |-> 0, count |-> 0, zmask |-> {},
            cfg |-> ClearCfg, iter |-> 0, step |-> 0]

\* tensix_init clears everything; the programs modelled here have written
\* their MOP configuration before they start.
Init ==
  /\ inst = [p \in Pipes |-> [k \in 0 .. FifoSize - 1 |-> Zero]]
  /\ inst_rd_ptr = [p \in Pipes |-> 0]
  /\ inst_wr_ptr = [p \in Pipes |-> 0]
  /\ inst_pipes_active = {}
  /\ mop_zmask_hi16 = [p \in Pipes |-> {}]
  /\ mop_cfg \in [Pipes -> InitMopCfg]
  /\ replay_buf = [p \in Pipes |-> [k \in 0 .. ReplaySize - 1 |-> Zero]]
  /\ replay_index = [p \in Pipes |-> 0]
  /\ replay_left = [p \in Pipes |-> 0]
  /\ replay_execute_while_loading = [p \in Pipes |-> FALSE]
  /\ replay_play_index = [p \in Pipes |-> 0]
  /\ replay_play_left = [p \in Pipes |-> 0]
  /\ mop = [p \in Pipes |-> IdleMop]
  /\ expand_pipes_active = {}
  /\ t_tile_busy = FALSE
  /\ expanding = NoPipe
  /\ error = "none"

Next ==
  \/ \E p \in Pipes :
       \/ \E i \in Pushed : Push(p, i)
       \/ \E i \in Bypassed : PushBypass(p, i)
       \/ \E k \in 0 .. 1 : \E n \in LoopWrites[k] : WriteLoopCfg(p, k, n)
       \/ \E k \in OpRegs : \E i \in OpWrites[k] : WriteOpCfg(p, k, i)
       \/ FrontendStep(p) \/ EmitReplay(p) \/ EmitMop(p) \/ FinishStep(p)
       \/ Issue(p)
  \/ GoIdle \/ WakeTile \/ Ended

Spec == Init /\ [][Next]_vars

\* The clock loop steps every expanding pipe and tries every pipe with
\* instructions in each clock of a busy tile.  That Issue is fair says that
\* what holds an instruction at the Wait Gate ends.
FairSpec ==
  /\ Spec
  /\ \A p \in Pipes : /\ WF_vars(EmitReplay(p) \/ EmitMop(p) \/ FinishStep(p))
                      /\ SF_vars(FrontendStep(p))
                      /\ SF_vars(Issue(p))
  /\ WF_vars(WakeTile)

-----------------------------------------------------------------------------
(* Properties.                                                             *)

\* The instruction FIFO never fills up (the TTSIM_VERIFY of
\* tensix_push_inst_fifo never fails), although one push may expand to far
\* more instructions than it holds.  The comments in tensix_can_push_inst
\* (tensix.cpp:295, 298, 300) say that it "can easily still overflow in a MOP
\* or REPLAY"; they are older than the loop of tensix_frontend_step, which
\* lets the expanders emit one instruction at a time as there is room.
FifoNeverFull == error # "inst fifo full"

\* Neither recording nor playing runs past the end of the replay buffer.
ReplayInBounds ==
  \A p \in Pipes :
    /\ replay_index[p] + replay_left[p] <= ReplaySize
    /\ replay_play_index[p] + replay_play_left[p] <= ReplaySize

\* The masks the clock loop works from tell the truth between handlers: a
\* pipe whose bit were missing would never be stepped again.
MasksAgree ==
  \A p \in Pipes :
    /\ error = "none" => (p \in inst_pipes_active <=> inst_rd_ptr[p] # inst_wr_ptr[p])
    /\ expanding # p => (p \in expand_pipes_active <=> TensixExpanding(p))

\* A tile with a pipe left to serve is visited by the clock loop, also when
\* its cores have gone idle since they pushed.
BusyCoversWork ==
  (inst_pipes_active \cup expand_pipes_active # {}) => t_tile_busy

\* No thread's pushes stall for ever: its expanders run dry and its FIFO
\* drains below the limit (a failed TTSIM_VERIFY aside).
PushesResume ==
  \A p \in Pipes :
    error = "none" ~> (CanPushInst(p, FALSE) \/ error # "none")
=============================================================================
