------------------------- MODULE TensixFrontendProofs -------------------------
(***************************************************************************)
(* Theorems about TensixFrontend, for any number of pipes, any FIFO and    *)
(* replay buffer size and any limits below the FIFO's capacity: its        *)
(* invariants, and that it implements TensixStream.                        *)
(*                                                                         *)
(* What TensixStream expands at once the code expands step by step.  The   *)
(* refinement is proved along the mapping of TensixRefinement: what is     *)
(* left of a MOP (RestOfMop) starts as its whole expansion and loses its   *)
(* first instruction with every mop_next; what is left of a replay and the *)
(* ring of the FIFO hand instructions on in order; and taking the first    *)
(* instruction to issue commutes with Through, which sends the others      *)
(* through the Replay Expander.  FlattenSeq and Through are recursive; the *)
(* lemmas about them are inductions over a set of naturals (Counting).     *)
(***************************************************************************)
EXTENDS TensixRefinement, SequenceTheorems, WellFoundedInduction, TLAPS

\* The ring arithmetic: what % does to the sums the code forms.
LEMMA Wrap ==
  ASSUME NEW x \in 0 .. 2 * FifoSize - 1
  PROVE  /\ x < FifoSize => x % FifoSize = x
         /\ x >= FifoSize => x % FifoSize = x - FifoSize
  BY FrontendAssumption, SMT

\* A FIFO with room does not run into its read pointer, and is not empty,
\* after one more instruction.
LEMMA RoomForOne ==
  ASSUME TypeOK, NEW p \in Pipes, InstFifoUsed(p) < FifoSize - 1
  PROVE  /\ (inst_wr_ptr[p] + 1) % FifoSize \in 0 .. FifoSize - 1
         /\ (inst_wr_ptr[p] + 1) % FifoSize # inst_rd_ptr[p]
<1> DEFINE rd == inst_rd_ptr[p]  wr == inst_wr_ptr[p]
<1>1. rd \in 0 .. FifoSize - 1 /\ wr \in 0 .. FifoSize - 1
  BY DEF TypeOK
<1>2. wr + FifoSize - rd \in 0 .. 2 * FifoSize - 1
  BY <1>1, FrontendAssumption
<1>3. (wr + FifoSize - rd) % FifoSize < FifoSize - 1
  BY DEF InstFifoUsed
<1>4. wr + 1 \in 0 .. 2 * FifoSize - 1
  BY <1>1, FrontendAssumption
<1> HIDE DEF rd, wr
<1>5. (wr + 1) % FifoSize \in 0 .. FifoSize - 1 /\ (wr + 1) % FifoSize # rd
  BY <1>1, <1>2, <1>3, <1>4, Wrap, FrontendAssumption
<1> QED BY <1>5 DEF rd, wr

-----------------------------------------------------------------------------
(* Types of what the expanders emit.                                       *)

\* Every step of a MOP that is left reads an instruction register.
LEMMA StepEmits ==
  ASSUME NEW m \in MopState, NEW q \in StepsLeft(m)
  PROVE  /\ MopStepInst(m, q[1], q[2]) \in FifoInst
         /\ q[1] \in Nat /\ q[2] \in Nat
<1> DEFINE it == q[1]  st == q[2]
<1>1. /\ it \in Nat /\ st \in Nat /\ st < Steps(m, it)
  BY DEF StepsLeft, MopState, Iters, MopCfg
<1>2. m.type \in {0, 1} /\ m.cfg \in MopCfg
  BY DEF MopState
<1>3. InnerLen(m.cfg) \in Nat
  BY <1>2, FrontendAssumption DEF InnerLen, MopCfg
<1>4. StepReg(m, it, st) \in OpRegs
  <2>1. CASE m.type = 0
    BY <1>1, <2>1 DEF StepReg, Steps, OpRegs
  <2>2. CASE m.type = 1
    BY <1>1, <1>3, <2>2 DEF StepReg, OpRegs
  <2> QED BY <1>2, <2>1, <2>2
<1>5. MopStepInst(m, it, st) \in FifoInst
  BY <1>2, <1>4 DEF MopStepInst, MopCfg
<1> QED BY <1>1, <1>5

-----------------------------------------------------------------------------
(* The inductive invariant: types and the bounds of the replay buffer need *)
(* each other, as recording and playing index the buffer.                  *)

Bounded == TypeOK /\ ReplayInBounds

\* What tensix_push_inst_fifo leaves, when the FIFO has room.
LEMMA PushInstFifoKeeps ==
  ASSUME TypeOK, NEW p \in Pipes, NEW i \in FifoInst,
         InstFifoUsed(p) < FifoSize - 1, PushInstFifo(p, i)
  PROVE  /\ inst' \in [Pipes -> [0 .. FifoSize - 1 -> FifoInst]]
         /\ inst_wr_ptr' \in [Pipes -> 0 .. FifoSize - 1]
         /\ inst_pipes_active' \subseteq Pipes
         /\ t_tile_busy' \in BOOLEAN
         /\ error' = error
<1>1. CASE IsNop(i)
  BY <1>1 DEF PushInstFifo, TypeOK, fifoVars
<1>2. CASE ~IsNop(i)
  <2>1. /\ (inst_wr_ptr[p] + 1) % FifoSize \in 0 .. FifoSize - 1
        /\ (inst_wr_ptr[p] + 1) % FifoSize # inst_rd_ptr[p]
    BY RoomForOne
  <2>2. inst_wr_ptr[p] \in 0 .. FifoSize - 1
    BY DEF TypeOK
  <2>3. inst' = [inst EXCEPT ![p][inst_wr_ptr[p]] = i]
    BY <1>2 DEF PushInstFifo
  <2> QED BY <1>2, <2>1, <2>2, <2>3 DEF PushInstFifo, TypeOK
<1> QED BY <1>1, <1>2

\* What the Replay Expander leaves of its own and the FIFO's state.
LEMMA ReplayExpanderKeeps ==
  ASSUME Bounded, NEW p \in Pipes, NEW i \in FifoInst,
         InstFifoUsed(p) < FifoSize - 1, ReplayExpander(p, i)
  PROVE  /\ inst' \in [Pipes -> [0 .. FifoSize - 1 -> FifoInst]]
         /\ inst_wr_ptr' \in [Pipes -> 0 .. FifoSize - 1]
         /\ inst_pipes_active' \subseteq Pipes
         /\ t_tile_busy' \in BOOLEAN
         /\ error' \in {error, "nested REPLAY"}
         /\ replay_buf' \in [Pipes -> [0 .. ReplaySize - 1 -> FifoInst]]
         /\ replay_index' \in [Pipes -> 0 .. ReplaySize]
         /\ replay_left' \in [Pipes -> 0 .. ReplaySize]
         /\ replay_execute_while_loading' \in [Pipes -> BOOLEAN]
         /\ replay_play_index' \in [Pipes -> 0 .. ReplaySize]
         /\ replay_play_left' \in [Pipes -> 0 .. ReplaySize]
         /\ ReplayInBounds'
<1> USE DEF fifoVars, recordVars, playVars, Bounded
<1>0. PushInstFifo(p, i) =>
        /\ inst' \in [Pipes -> [0 .. FifoSize - 1 -> FifoInst]]
        /\ inst_wr_ptr' \in [Pipes -> 0 .. FifoSize - 1]
        /\ inst_pipes_active' \subseteq Pipes
        /\ t_tile_busy' \in BOOLEAN
        /\ error' = error
  BY PushInstFifoKeeps
<1>1. CASE Record(p, i)
  <2>1. /\ replay_index[p] \in 0 .. ReplaySize /\ replay_left[p] \in 1 .. ReplaySize
        /\ replay_index[p] + replay_left[p] <= ReplaySize
    <3>1. replay_left[p] > 0 /\ TypeOK /\ ReplayInBounds
      BY <1>1 DEF Record
    <3>2. replay_index[p] \in 0 .. ReplaySize /\ replay_left[p] \in 0 .. ReplaySize
      BY <3>1 DEF TypeOK
    <3>3. replay_index[p] + replay_left[p] <= ReplaySize
      BY <3>1 DEF ReplayInBounds
    <3> QED BY <3>1, <3>2, <3>3, FrontendAssumption
  <2>2. replay_index[p] \in 0 .. ReplaySize - 1
    BY <2>1, FrontendAssumption
  <2>3. replay_buf' \in [Pipes -> [0 .. ReplaySize - 1 -> FifoInst]]
    BY <1>1, <2>2 DEF Record, TypeOK
  <2>4. /\ replay_index' = [replay_index EXCEPT ![p] = @ + 1]
        /\ replay_left' = [replay_left EXCEPT ![p] = @ - 1]
    BY <1>1 DEF Record
  <2>5. /\ replay_index' \in [Pipes -> 0 .. ReplaySize]
        /\ replay_left' \in [Pipes -> 0 .. ReplaySize]
    <3>1. replay_index[p] + 1 \in 0 .. ReplaySize /\ replay_left[p] - 1 \in 0 .. ReplaySize
      BY <2>1, <2>2, FrontendAssumption
    <3> QED BY <2>4, <3>1 DEF TypeOK
  <2>6. ReplayInBounds'
    <3>1. UNCHANGED playVars
      BY <1>1 DEF Record
    <3> SUFFICES ASSUME NEW q \in Pipes
                 PROVE  (replay_index[q] + replay_left[q])' <= ReplaySize
      BY <3>1 DEF ReplayInBounds
    <3>2. CASE q = p
      <4>1. replay_index'[q] = replay_index[p] + 1 /\ replay_left'[q] = replay_left[p] - 1
        BY <2>4, <3>2 DEF TypeOK
      <4> QED BY <2>1, <4>1, FrontendAssumption
    <3>3. CASE q # p
      BY <2>4, <3>3 DEF TypeOK, ReplayInBounds
    <3> QED BY <3>2, <3>3
  <2>7. /\ inst' \in [Pipes -> [0 .. FifoSize - 1 -> FifoInst]]
        /\ inst_wr_ptr' \in [Pipes -> 0 .. FifoSize - 1]
        /\ inst_pipes_active' \subseteq Pipes
        /\ t_tile_busy' \in BOOLEAN
        /\ error' = error
    BY <1>0, <1>1 DEF Record, TypeOK
  <2> QED BY <1>1, <2>3, <2>5, <2>6, <2>7 DEF Record, TypeOK
<1>2. CASE NestedReplay(p, i)
  BY <1>2 DEF NestedReplay, TypeOK, ReplayInBounds
<1>3. CASE i.opcode = "REPLAY" /\ (StartRecording(p, i) \/ StartPlaying(p, i))
  <2>1. i \in ReplayInst
    BY <1>3 DEF FifoInst, PlainInst, OpInst, NOP, Zero
  <2>2. /\ i.start \in 0 .. ReplaySize /\ i.len \in 0 .. ReplaySize
        /\ i.start + i.len <= ReplaySize /\ i.exec \in BOOLEAN
    BY <2>1, FrontendAssumption DEF ReplayInst
  <2>3. CASE StartRecording(p, i)
    BY <2>2, <2>3 DEF StartRecording, TypeOK, ReplayInBounds
  <2>4. CASE StartPlaying(p, i)
    BY <2>2, <2>4 DEF StartPlaying, TypeOK, ReplayInBounds
  <2> QED BY <1>3, <2>3, <2>4
<1>4. CASE PassThrough(p, i)
  BY <1>0, <1>4 DEF PassThrough, TypeOK, ReplayInBounds
<1> QED BY <1>1, <1>2, <1>3, <1>4 DEF ReplayExpander, StartRecording, StartPlaying

-----------------------------------------------------------------------------
LEMMA InitBounded == Init => Bounded
<1> SUFFICES ASSUME Init PROVE Bounded
  OBVIOUS
<1>1. Zero \in FifoInst
  BY DEF FifoInst, PlainInst
<1>2. IdleMop \in MopState
  <2>1. ClearCfg \in MopCfg
    <3> DEFINE loop0 == [k \in 0 .. 1 |-> 0]
               op0 == [k \in OpRegs |-> Zero]
    <3>1. loop0 \in [0 .. 1 -> 0 .. MaxLoop] /\ op0 \in [OpRegs -> FifoInst]
      BY <1>1, FrontendAssumption
    <3>2. ClearCfg = [loop |-> loop0, op |-> op0]
      BY DEF ClearCfg
    <3> HIDE DEF loop0, op0
    <3> QED BY <3>1, <3>2 DEF MopCfg
  <2> QED BY <2>1, FrontendAssumption DEF IdleMop, MopState
<1>3. TypeOK
  <2>1. mop_cfg \in [Pipes -> MopCfg]
    BY FrontendAssumption DEF Init
  <2>2. 0 \in 0 .. FifoSize - 1 /\ 0 \in 0 .. ReplaySize
    BY FrontendAssumption
  <2>3. /\ inst \in [Pipes -> [0 .. FifoSize - 1 -> FifoInst]]
        /\ replay_buf \in [Pipes -> [0 .. ReplaySize - 1 -> FifoInst]]
        /\ mop \in [Pipes -> MopState]
        /\ mop_zmask_hi16 \in [Pipes -> SUBSET (ZBits .. 2*ZBits - 1)]
    BY <1>1, <1>2 DEF Init
  <2>4. /\ inst_rd_ptr \in [Pipes -> 0 .. FifoSize - 1] /\ inst_wr_ptr \in [Pipes -> 0 .. FifoSize - 1]
        /\ replay_index \in [Pipes -> 0 .. ReplaySize] /\ replay_left \in [Pipes -> 0 .. ReplaySize]
        /\ replay_play_index \in [Pipes -> 0 .. ReplaySize]
        /\ replay_play_left \in [Pipes -> 0 .. ReplaySize]
        /\ replay_execute_while_loading \in [Pipes -> BOOLEAN]
    BY <2>2 DEF Init
  <2> QED BY <2>1, <2>3, <2>4 DEF Init, TypeOK
<1>4. ReplayInBounds
  BY FrontendAssumption DEF Init, ReplayInBounds
<1> QED BY <1>3, <1>4 DEF Bounded

\* A push is accepted only with room to spare.
LEMMA CanPushHasRoom ==
  ASSUME TypeOK, NEW p \in Pipes, NEW b \in BOOLEAN, CanPushInst(p, b)
  PROVE  InstFifoUsed(p) < FifoSize - 1
<1>1. InstFifoUsed(p) \in Int
  <2>1. inst_wr_ptr[p] \in 0 .. FifoSize - 1 /\ inst_rd_ptr[p] \in 0 .. FifoSize - 1
    BY DEF TypeOK
  <2>2. inst_wr_ptr[p] + FifoSize - inst_rd_ptr[p] \in 0 .. 2 * FifoSize - 1
    BY <2>1, FrontendAssumption
  <2> QED BY <2>2, Wrap, FrontendAssumption DEF InstFifoUsed
<1>2. PushLimit[p] \in 0 .. FifoSize - 1 /\ BypassLimit \in 0 .. FifoSize - 1
  BY FrontendAssumption
<1> QED BY <1>1, <1>2, FrontendAssumption DEF CanPushInst

LEMMA PushKeepsBounded ==
  ASSUME Bounded, NEW p \in Pipes, NEW i \in Pushed, Push(p, i)
  PROVE  Bounded' /\ error' \in {error, "nested REPLAY"}
<1> USE DEF Bounded, fifoVars, recordVars, playVars
<1>1. InstFifoUsed(p) < FifoSize - 1
  BY CanPushHasRoom DEF Push
<1>2. i \in Inst
  BY FrontendAssumption
<1>3. expanding' \in Pipes \cup {NoPipe} /\ UNCHANGED <<inst_rd_ptr, mop_cfg, expand_pipes_active>>
  BY DEF Push
<1>4. CASE i.opcode = "MOP" /\ MopIngest(p, i)
  <2>1. i \in MopInst
    BY <1>2, <1>4 DEF Inst, FifoInst, PlainInst, OpInst, NOP, Zero, ReplayInst, MopCfgInst
  <2>2. mop_zmask_hi16[p] \in SUBSET (ZBits .. 2*ZBits - 1) /\ mop_cfg[p] \in MopCfg
    BY DEF TypeOK
  <2>3. i.zlo \cup mop_zmask_hi16[p] \in SUBSET (0 .. 2*ZBits - 1)
    BY <2>1, <2>2, FrontendAssumption DEF MopInst
  <2>4. [busy |-> TRUE, type |-> i.type, count |-> i.count,
         zmask |-> i.zlo \cup mop_zmask_hi16[p], cfg |-> mop_cfg[p],
         iter |-> 0, step |-> 0] \in MopState
    BY <2>1, <2>2, <2>3 DEF MopInst, MopState
  <2>5. mop' \in [Pipes -> MopState]
    BY <1>4, <2>4 DEF MopIngest, TypeOK
  <2> QED BY <1>3, <1>4, <2>5 DEF MopIngest, TypeOK, ReplayInBounds
<1>5. CASE i.opcode = "MOP_CFG" /\ MopCfgExec(p, i)
  <2>1. i \in MopCfgInst
    BY <1>2, <1>5 DEF Inst, FifoInst, PlainInst, OpInst, NOP, Zero, ReplayInst, MopInst
  <2>2. mop_zmask_hi16' \in [Pipes -> SUBSET (ZBits .. 2*ZBits - 1)]
    BY <1>5, <2>1 DEF MopCfgExec, MopCfgInst, TypeOK
  <2> QED BY <1>3, <1>5, <2>2 DEF MopCfgExec, TypeOK, ReplayInBounds
<1>6. CASE /\ i.opcode \notin {"MOP", "MOP_CFG"} /\ ReplayExpander(p, i)
           /\ UNCHANGED <<mop, mop_zmask_hi16>>
  <2>1. i \in FifoInst
    BY <1>2, <1>6 DEF Inst, MopInst, MopCfgInst
  <2> HIDE DEF Bounded
  <2> QED BY <1>1, <1>3, <1>6, <2>1, ReplayExpanderKeeps DEF TypeOK, Bounded
<1> QED BY <1>4, <1>5, <1>6 DEF Push

LEMMA PushBypassKeepsBounded ==
  ASSUME Bounded, NEW p \in Pipes, NEW i \in Bypassed, PushBypass(p, i)
  PROVE  Bounded' /\ error' \in {error, "nested REPLAY"}
<1>1. InstFifoUsed(p) < FifoSize - 1
  BY CanPushHasRoom DEF PushBypass, Bounded
<1>2. i \in FifoInst /\ ReplayExpander(p, i)
  BY FrontendAssumption DEF PushBypass
<1>3. /\ expanding' \in Pipes \cup {NoPipe}
      /\ UNCHANGED <<inst_rd_ptr, mop_zmask_hi16, mop_cfg, mop, expand_pipes_active>>
  BY DEF PushBypass, cfgVars
<1> QED BY <1>1, <1>2, <1>3, ReplayExpanderKeeps DEF TypeOK, Bounded

LEMMA WriteCfgKeepsBounded ==
  ASSUME Bounded, NEW p \in Pipes,
         \/ \E k \in 0 .. 1 : \E n \in LoopWrites[k] : WriteLoopCfg(p, k, n)
         \/ \E k \in OpRegs : \E i \in OpWrites[k] : WriteOpCfg(p, k, i)
  PROVE  Bounded' /\ error' = error
<1> USE DEF Bounded, fifoVars, recordVars, playVars
<1>1. ASSUME NEW k \in 0 .. 1, NEW n \in LoopWrites[k], WriteLoopCfg(p, k, n)
      PROVE  Bounded' /\ error' = error
  <2>1. n \in 0 .. MaxLoop
    BY FrontendAssumption
  <2>2. mop_cfg' \in [Pipes -> MopCfg]
    BY <1>1, <2>1 DEF WriteLoopCfg, TypeOK, MopCfg
  <2> QED BY <1>1, <2>2 DEF WriteLoopCfg, TypeOK, ReplayInBounds
<1>2. ASSUME NEW k \in OpRegs, NEW i \in OpWrites[k], WriteOpCfg(p, k, i)
      PROVE  Bounded' /\ error' = error
  <2>1. i \in FifoInst
    BY FrontendAssumption
  <2>2. mop_cfg' \in [Pipes -> MopCfg]
    <3>1. mop_cfg \in [Pipes -> MopCfg] /\ mop_cfg[p] \in MopCfg
      BY DEF TypeOK
    <3>2. mop_cfg' = [mop_cfg EXCEPT ![p] = [mop_cfg[p] EXCEPT !.op = [mop_cfg[p].op EXCEPT ![k] = i]]]
      BY <1>2 DEF WriteOpCfg
    <3>3. [mop_cfg[p].op EXCEPT ![k] = i] \in [OpRegs -> FifoInst]
      BY <2>1, <3>1 DEF MopCfg
    <3>4. [mop_cfg[p] EXCEPT !.op = [mop_cfg[p].op EXCEPT ![k] = i]] \in MopCfg
      BY <3>1, <3>3 DEF MopCfg
    <3> QED BY <3>1, <3>2, <3>4
  <2> QED BY <1>2, <2>2 DEF WriteOpCfg, TypeOK, ReplayInBounds
<1> QED BY <1>1, <1>2

LEMMA EmitReplayKeepsBounded ==
  ASSUME Bounded, NEW p \in Pipes, EmitReplay(p)
  PROVE  Bounded' /\ error' = error
<1>1. /\ replay_play_index[p] \in 0 .. ReplaySize /\ replay_play_left[p] \in 0 .. ReplaySize
      /\ replay_buf[p] \in [0 .. ReplaySize - 1 -> FifoInst]
  BY DEF Bounded, TypeOK
<1>2. replay_play_left[p] > 0 /\ replay_play_index[p] + replay_play_left[p] <= ReplaySize
  BY DEF Bounded, ReplayInBounds, EmitReplay
<1>3. /\ replay_play_index[p] \in 0 .. ReplaySize - 1
      /\ replay_play_index[p] + 1 \in 0 .. ReplaySize
      /\ replay_play_left[p] - 1 \in 0 .. ReplaySize
  <2> DEFINE i == replay_play_index[p]
             n == replay_play_left[p]
  <2>1. i \in 0 .. ReplaySize /\ n \in 0 .. ReplaySize /\ ReplaySize \in Nat
    BY <1>1, FrontendAssumption
  <2>2. n > 0 /\ i + n <= ReplaySize
    BY <1>2
  <2> HIDE DEF i, n
  <2>3. i \in 0 .. ReplaySize - 1 /\ i + 1 \in 0 .. ReplaySize /\ n - 1 \in 0 .. ReplaySize
    BY <2>1, <2>2
  <2> QED BY <2>3 DEF i, n
<1>4. replay_buf[p][replay_play_index[p]] \in FifoInst
  BY <1>1, <1>3
<1>5. /\ inst' \in [Pipes -> [0 .. FifoSize - 1 -> FifoInst]]
      /\ inst_wr_ptr' \in [Pipes -> 0 .. FifoSize - 1]
      /\ inst_pipes_active' \subseteq Pipes
      /\ t_tile_busy' \in BOOLEAN
      /\ error' = error
  BY <1>4, PushInstFifoKeeps DEF EmitReplay, HasRoom, Bounded
<1>6. /\ replay_play_index' = [replay_play_index EXCEPT ![p] = @ + 1]
      /\ replay_play_left' = [replay_play_left EXCEPT ![p] = @ - 1]
      /\ UNCHANGED <<inst_rd_ptr, mop_zmask_hi16, mop_cfg, replay_buf, replay_index, replay_left,
                     replay_execute_while_loading, mop, expand_pipes_active, expanding>>
  BY DEF EmitReplay, cfgVars, recordVars
<1>7. TypeOK'
  BY <1>3, <1>5, <1>6 DEF TypeOK, Bounded
<1>8. ReplayInBounds'
  <2> SUFFICES ASSUME NEW q \in Pipes
               PROVE  (replay_play_index[q] + replay_play_left[q])' <= ReplaySize
    BY <1>6 DEF ReplayInBounds, Bounded
  <2>1. CASE q = p
    <3>1. replay_play_index'[q] = replay_play_index[p] + 1 /\ replay_play_left'[q] = replay_play_left[p] - 1
      BY <1>6, <2>1 DEF TypeOK, Bounded
    <3> QED BY <1>1, <1>2, <3>1, FrontendAssumption
  <2>2. CASE q # p
    BY <1>6, <2>2 DEF TypeOK, ReplayInBounds, Bounded
  <2> QED BY <2>1, <2>2
<1> QED BY <1>5, <1>7, <1>8 DEF Bounded

LEMMA EmitMopKeepsBounded ==
  ASSUME Bounded, NEW p \in Pipes, EmitMop(p)
  PROVE  Bounded' /\ error' \in {error, "nested REPLAY"}
<1>1. PICK q \in StepsLeft(mop[p]) :
        /\ mop' = [mop EXCEPT ![p].iter = q[1], ![p].step = q[2] + 1]
        /\ ReplayExpander(p, MopStepInst(mop[p], q[1], q[2]))
  BY DEF EmitMop
<1>2. mop[p] \in MopState
  BY DEF Bounded, TypeOK
<1>3. MopStepInst(mop[p], q[1], q[2]) \in FifoInst /\ q[1] \in Nat /\ q[2] \in Nat
  BY <1>2, StepEmits
<1>4. mop' \in [Pipes -> MopState]
  <2>1. mop \in [Pipes -> MopState]
    BY DEF Bounded, TypeOK
  <2>2. mop' = [mop EXCEPT ![p] = [mop[p] EXCEPT !.iter = q[1], !.step = q[2] + 1]]
    BY <1>1, <2>1
  <2>3. [mop[p] EXCEPT !.iter = q[1], !.step = q[2] + 1] \in MopState
    <3>1. q[2] + 1 \in Nat
      BY <1>3
    <3> HIDE DEF MopState
    <3>2. ASSUME NEW m \in MopState, NEW j \in Nat, NEW k \in Nat
          PROVE  [m EXCEPT !.iter = j, !.step = k] \in MopState
      BY DEF MopState
    <3> QED BY <1>2, <1>3, <3>1, <3>2
  <2> QED BY <2>1, <2>2, <2>3
<1>5. UNCHANGED <<inst_rd_ptr, mop_zmask_hi16, mop_cfg, expand_pipes_active, expanding>>
  BY DEF EmitMop, cfgVars
<1>6. InstFifoUsed(p) < FifoSize - 1
  BY DEF EmitMop, HasRoom
<1> QED BY <1>1, <1>3, <1>4, <1>5, <1>6, ReplayExpanderKeeps DEF Bounded, TypeOK

LEMMA FinishStepKeepsBounded ==
  ASSUME Bounded, NEW p \in Pipes, FinishStep(p)
  PROVE  Bounded' /\ error' = error
<1>1. mop \in [Pipes -> MopState] /\ mop[p] \in MopState
  BY DEF Bounded, TypeOK
<1>2. Iters(mop[p]) \in Nat
  BY <1>1, FrontendAssumption DEF Iters, MopState, MopCfg
<1>3. mop' \in [Pipes -> MopState]
  <2>1. [mop[p] EXCEPT !.busy = FALSE, !.iter = Iters(mop[p]), !.step = 0] \in MopState
    BY <1>1, <1>2 DEF MopState
  <2>2. [mop EXCEPT ![p].busy = FALSE, ![p].iter = Iters(mop[p]), ![p].step = 0]
          = [mop EXCEPT ![p] = [mop[p] EXCEPT !.busy = FALSE, !.iter = Iters(mop[p]), !.step = 0]]
    BY <1>1 DEF MopState
  <2> QED BY <1>1, <2>1, <2>2 DEF FinishStep
<1>4. /\ expand_pipes_active' \subseteq Pipes /\ t_tile_busy' \in BOOLEAN /\ expanding' = NoPipe
      /\ UNCHANGED <<inst, inst_wr_ptr, inst_rd_ptr, inst_pipes_active, mop_zmask_hi16, mop_cfg,
                     replay_buf, replay_index, replay_left, replay_execute_while_loading,
                     replay_play_index, replay_play_left, error>>
  BY DEF FinishStep, Bounded, TypeOK, fifoVars, cfgVars, recordVars, playVars
<1> QED BY <1>3, <1>4 DEF Bounded, TypeOK, ReplayInBounds

\* The steps of the clock loop, and no step at all.
LEMMA OtherKeepsBounded ==
  ASSUME Bounded,
         \/ \E p \in Pipes : FrontendStep(p) \/ Issue(p)
         \/ GoIdle \/ WakeTile \/ Ended \/ UNCHANGED vars
  PROVE  Bounded' /\ error' = error
<1> USE DEF Bounded, fifoVars, recordVars, playVars, cfgVars
<1>1. ASSUME NEW p \in Pipes, FrontendStep(p) PROVE Bounded' /\ error' = error
  BY <1>1 DEF FrontendStep, TypeOK, ReplayInBounds
<1>2. ASSUME NEW p \in Pipes, Issue(p) PROVE Bounded' /\ error' = error
  <2>0. inst_rd_ptr[p] \in 0 .. FifoSize - 1
    BY DEF TypeOK
  <2>1. inst_rd_ptr[p] + 1 \in 0 .. 2 * FifoSize - 1
    BY <2>0, FrontendAssumption
  <2>2. (inst_rd_ptr[p] + 1) % FifoSize \in 0 .. FifoSize - 1
    BY <2>1, Wrap, FrontendAssumption
  <2>3. inst_rd_ptr' \in [Pipes -> 0 .. FifoSize - 1]
    BY <1>2, <2>2 DEF Issue, TypeOK
  <2> QED BY <1>2, <2>3 DEF Issue, TypeOK, ReplayInBounds
<1>3. CASE GoIdle
  BY <1>3 DEF GoIdle, TypeOK, ReplayInBounds
<1>4. CASE WakeTile
  BY <1>4 DEF WakeTile, TypeOK, ReplayInBounds
<1>5. CASE Ended \/ UNCHANGED vars
  BY <1>5 DEF Ended, vars, TypeOK, ReplayInBounds
<1> QED BY <1>1, <1>2, <1>3, <1>4, <1>5

LEMMA NextKeepsBounded ==
  ASSUME Bounded, [Next]_vars
  PROVE  Bounded' /\ error' \in {error, "nested REPLAY"}
BY PushKeepsBounded, PushBypassKeepsBounded, WriteCfgKeepsBounded, EmitReplayKeepsBounded,
   EmitMopKeepsBounded, FinishStepKeepsBounded, OtherKeepsBounded DEF Next

\* Every variable keeps its type, and recording and playing stay inside the
\* replay buffer.
THEOREM BoundedInvariant == Spec => [](TypeOK /\ ReplayInBounds)
<1>1. Init => Bounded
  BY InitBounded
<1>2. Bounded /\ [Next]_vars => Bounded'
  BY NextKeepsBounded
<1>3. Bounded => TypeOK /\ ReplayInBounds
  BY DEF Bounded
<1> QED BY <1>1, <1>2, <1>3, PTL DEF Spec

\* The instruction FIFO never fills up, whatever a push expands to: the limits
\* of tensix_can_push_inst and the room tensix_frontend_step leaves suffice.
THEOREM FifoNeverFills == Spec => []FifoNeverFull
<1> DEFINE Inv == Bounded /\ FifoNeverFull
<1>1. Init => Inv
  BY InitBounded DEF Init, FifoNeverFull
<1>2. Inv /\ [Next]_vars => Inv'
  BY NextKeepsBounded DEF FifoNeverFull
<1>3. Inv => FifoNeverFull
  OBVIOUS
<1> QED BY <1>1, <1>2, <1>3, PTL DEF Spec

-----------------------------------------------------------------------------
(* The masks of pending work.                                              *)

\* The busy bit of the tile is set whenever one of its pipes has work left, so
\* the clock loop never forgets a tile that still has instructions to issue.
THEOREM BusyCovers == Spec => []BusyCoversWork
<1>1. Init => BusyCoversWork
  BY DEF Init, BusyCoversWork
<1>2. BusyCoversWork /\ [Next]_vars => BusyCoversWork'
  <2> SUFFICES ASSUME BusyCoversWork, [Next]_vars
               PROVE  BusyCoversWork'
    OBVIOUS
  <2> USE DEF BusyCoversWork, fifoVars, recordVars, playVars, cfgVars
  <2>1. ASSUME NEW p, NEW i, PushInstFifo(p, i), UNCHANGED expand_pipes_active
        PROVE  BusyCoversWork'
    BY <2>1 DEF PushInstFifo
  <2>2. ASSUME NEW p, NEW i, ReplayExpander(p, i), UNCHANGED expand_pipes_active
        PROVE  BusyCoversWork'
    BY <2>1, <2>2 DEF ReplayExpander, Record, NestedReplay, StartRecording, StartPlaying, PassThrough
  <2>3. ASSUME NEW p \in Pipes, NEW i, Push(p, i) \/ PushBypass(p, i)
        PROVE  BusyCoversWork'
    BY <2>2, <2>3 DEF Push, PushBypass, MopIngest, MopCfgExec
  <2>4. ASSUME NEW p \in Pipes, NEW k, NEW x, WriteLoopCfg(p, k, x) \/ WriteOpCfg(p, k, x)
        PROVE  BusyCoversWork'
    BY <2>4 DEF WriteLoopCfg, WriteOpCfg
  <2>5. ASSUME NEW p \in Pipes, EmitReplay(p) \/ EmitMop(p)
        PROVE  BusyCoversWork'
    BY <2>1, <2>2, <2>5 DEF EmitReplay, EmitMop
  <2>6. ASSUME NEW p \in Pipes, FrontendStep(p) \/ FinishStep(p) \/ Issue(p)
        PROVE  BusyCoversWork'
    BY <2>6 DEF FrontendStep, FinishStep, Issue
  <2>7. CASE GoIdle \/ WakeTile \/ Ended \/ UNCHANGED vars
    BY <2>7 DEF GoIdle, WakeTile, Ended, vars
  <2> QED BY <2>3, <2>4, <2>5, <2>6, <2>7 DEF Next
<1> QED BY <1>1, <1>2, PTL DEF Spec

\* The two halves of MasksAgree.
FifoMask == error = "none" =>
  \A p \in Pipes : p \in inst_pipes_active <=> inst_rd_ptr[p] # inst_wr_ptr[p]
ExpandMask ==
  \A p \in Pipes : expanding # p => (p \in expand_pipes_active <=> TensixExpanding(p))

LEMMA PushInstFifoMask ==
  ASSUME TypeOK, FifoMask, error = "none", NEW p \in Pipes, NEW i,
         InstFifoUsed(p) < FifoSize - 1, PushInstFifo(p, i), UNCHANGED inst_rd_ptr
  PROVE  FifoMask'
<1>1. CASE IsNop(i)
  BY <1>1 DEF PushInstFifo, FifoMask, fifoVars
<1>2. CASE ~IsNop(i)
  <2> SUFFICES ASSUME NEW q \in Pipes
               PROVE  q \in inst_pipes_active' <=> inst_rd_ptr[q] # inst_wr_ptr'[q]
    BY DEF FifoMask
  <2>1. /\ inst_pipes_active' = inst_pipes_active \cup {p}
        /\ inst_wr_ptr' = [inst_wr_ptr EXCEPT ![p] = (inst_wr_ptr[p] + 1) % FifoSize]
    BY <1>2 DEF PushInstFifo
  <2>2. CASE q = p
    BY <2>1, <2>2, RoomForOne DEF TypeOK
  <2>3. CASE q # p
    BY <2>1, <2>3 DEF FifoMask, TypeOK
  <2> QED BY <2>2, <2>3
<1> QED BY <1>1, <1>2

LEMMA ReplayExpanderMask ==
  ASSUME Bounded, FifoMask, error = "none", NEW p \in Pipes, NEW i,
         InstFifoUsed(p) < FifoSize - 1, ReplayExpander(p, i), UNCHANGED inst_rd_ptr
  PROVE  /\ FifoMask'
         /\ \A q \in Pipes \ {p} : replay_play_left'[q] = replay_play_left[q]
<1> USE DEF fifoVars, recordVars, playVars
<1>0. PushInstFifo(p, i) => FifoMask'
  BY PushInstFifoMask DEF Bounded
<1>1. CASE Record(p, i)
  BY <1>0, <1>1 DEF Record, FifoMask
<1>2. CASE NestedReplay(p, i)
  BY <1>2 DEF NestedReplay, FifoMask
<1>3. CASE StartRecording(p, i)
  BY <1>3 DEF StartRecording, FifoMask
<1>4. CASE StartPlaying(p, i)
  BY <1>4 DEF StartPlaying, FifoMask, Bounded, TypeOK
<1>5. CASE PassThrough(p, i)
  BY <1>0, <1>5 DEF PassThrough
<1> QED BY <1>1, <1>2, <1>3, <1>4, <1>5 DEF ReplayExpander

\* Between handlers the masks the clock loop works from are exact: they name
\* just the pipes with instructions to issue, and with work to expand.
THEOREM MasksExact == Spec => []MasksAgree
<1> DEFINE Inv == Bounded /\ FifoMask /\ ExpandMask
<1>1. Init => Inv
  BY InitBounded DEF Init, FifoMask, ExpandMask, TensixExpanding, IdleMop
<1>2. Inv /\ [Next]_vars => Inv'
  <2> SUFFICES ASSUME Inv, [Next]_vars
               PROVE  FifoMask' /\ ExpandMask'
    BY NextKeepsBounded
  <2> USE DEF fifoVars, recordVars, playVars, cfgVars
  <2>1. ASSUME NEW p \in Pipes, NEW i, Push(p, i)
        PROVE  FifoMask' /\ ExpandMask'
    <3>1. /\ InstFifoUsed(p) < FifoSize - 1 /\ error = "none" /\ expanding = NoPipe
          /\ expanding' = p /\ UNCHANGED <<inst_rd_ptr, expand_pipes_active>>
      BY <2>1, CanPushHasRoom DEF Push, Quiet, Bounded
    <3>2. /\ FifoMask'
          /\ \A q \in Pipes \ {p} : replay_play_left'[q] = replay_play_left[q] /\ mop'[q].busy = mop[q].busy
      <4>1. CASE MopIngest(p, i)
        BY <3>1, <4>1 DEF MopIngest, FifoMask, Bounded, TypeOK
      <4>2. CASE MopCfgExec(p, i)
        BY <3>1, <4>2 DEF MopCfgExec, FifoMask
      <4>3. CASE ReplayExpander(p, i) /\ UNCHANGED mop
        BY <3>1, <4>3, ReplayExpanderMask
      <4> QED BY <2>1, <4>1, <4>2, <4>3 DEF Push
    <3> QED BY <3>1, <3>2, FrontendAssumption DEF ExpandMask, TensixExpanding
  <2>2. ASSUME NEW p \in Pipes, NEW i, PushBypass(p, i)
        PROVE  FifoMask' /\ ExpandMask'
    <3>1. /\ InstFifoUsed(p) < FifoSize - 1 /\ error = "none" /\ expanding = NoPipe
          /\ expanding' = p /\ UNCHANGED <<inst_rd_ptr, expand_pipes_active, mop>>
          /\ ReplayExpander(p, i)
      BY <2>2, CanPushHasRoom DEF PushBypass, Quiet, Bounded
    <3>2. FifoMask' /\ \A q \in Pipes \ {p} : replay_play_left'[q] = replay_play_left[q]
      BY <3>1, ReplayExpanderMask
    <3> QED BY <3>1, <3>2, FrontendAssumption DEF ExpandMask, TensixExpanding
  <2>3. ASSUME NEW p \in Pipes, NEW k, NEW x, WriteLoopCfg(p, k, x) \/ WriteOpCfg(p, k, x)
        PROVE  FifoMask' /\ ExpandMask'
    BY <2>3 DEF WriteLoopCfg, WriteOpCfg, FifoMask, ExpandMask, TensixExpanding
  <2>4. ASSUME NEW p \in Pipes, EmitReplay(p)
        PROVE  FifoMask' /\ ExpandMask'
    <3>1. FifoMask'
      BY <2>4, PushInstFifoMask DEF EmitReplay, HasRoom, Bounded
    <3>2. \A q \in Pipes \ {p} : replay_play_left'[q] = replay_play_left[q]
      BY <2>4 DEF EmitReplay, Bounded, TypeOK
    <3> QED BY <2>4, <3>1, <3>2 DEF EmitReplay, ExpandMask, TensixExpanding
  <2>5. ASSUME NEW p \in Pipes, EmitMop(p)
        PROVE  FifoMask' /\ ExpandMask'
    <3>1. PICK q \in StepsLeft(mop[p]) :
            /\ mop' = [mop EXCEPT ![p].iter = q[1], ![p].step = q[2] + 1]
            /\ ReplayExpander(p, MopStepInst(mop[p], q[1], q[2]))
      BY <2>5 DEF EmitMop
    <3>2. /\ InstFifoUsed(p) < FifoSize - 1 /\ error = "none"
          /\ UNCHANGED <<inst_rd_ptr, expand_pipes_active, expanding>> /\ expanding = p
      BY <2>5 DEF EmitMop, HasRoom
    <3>3. FifoMask' /\ \A r \in Pipes \ {p} : replay_play_left'[r] = replay_play_left[r]
      BY <3>1, <3>2, ReplayExpanderMask
    <3>4. \A r \in Pipes \ {p} : mop'[r] = mop[r]
      BY <3>1 DEF Bounded, TypeOK
    <3> QED BY <3>2, <3>3, <3>4 DEF ExpandMask, TensixExpanding
  <2>6. ASSUME NEW p \in Pipes, FinishStep(p)
        PROVE  FifoMask' /\ ExpandMask'
    <3>1. FifoMask'
      BY <2>6 DEF FinishStep, FifoMask
    <3>2. ASSUME NEW q \in Pipes \ {p}
          PROVE  q \in expand_pipes_active' <=> TensixExpanding(q)'
      <4>1. mop'[q] = mop[q] /\ expanding # q /\ UNCHANGED replay_play_left
        BY <2>6, <3>2 DEF FinishStep, Bounded, TypeOK
      <4>2. q \in expand_pipes_active' <=> q \in expand_pipes_active
        BY <2>6, <3>2 DEF FinishStep
      <4> QED BY <3>2, <4>1, <4>2 DEF ExpandMask, TensixExpanding
    <3>3. p \in expand_pipes_active' <=> TensixExpanding(p)'
      <4>1. mop \in [Pipes -> MopState] /\ mop[p] \in MopState /\ replay_play_left[p] \in 0 .. ReplaySize
        BY DEF Bounded, TypeOK
      <4>2. CASE HasRoom(p)
        <5>1. replay_play_left[p] = 0 /\ UNCHANGED replay_play_left
          BY <2>6, <4>2, <4>1, FrontendAssumption DEF FinishStep
        <5>2. mop'[p].busy = FALSE
          BY <2>6, <4>1, <4>2 DEF FinishStep, MopState
        <5>3. p \notin expand_pipes_active'
          BY <2>6, <4>2 DEF FinishStep
        <5> QED BY <5>1, <5>2, <5>3 DEF TensixExpanding
      <4>3. CASE ~HasRoom(p)
        BY <2>6, <4>3 DEF FinishStep, TensixExpanding
      <4> QED BY <4>2, <4>3
    <3> QED BY <3>1, <3>2, <3>3 DEF ExpandMask
  <2>7. ASSUME NEW p \in Pipes, Issue(p)
        PROVE  FifoMask' /\ ExpandMask'
    <3>1. FifoMask'
      <4> SUFFICES ASSUME NEW q \in Pipes
                   PROVE  q \in inst_pipes_active' <=> inst_rd_ptr'[q] # inst_wr_ptr'[q]
        BY DEF FifoMask
      <4>1. CASE q = p
        BY <2>7, <4>1 DEF Issue, FifoMask, Quiet, Bounded, TypeOK
      <4>2. CASE q # p
        BY <2>7, <4>2 DEF Issue, FifoMask, Quiet, Bounded, TypeOK
      <4> QED BY <4>1, <4>2
    <3> QED BY <2>7, <3>1 DEF Issue, ExpandMask, TensixExpanding
  <2>8. ASSUME NEW p \in Pipes, FrontendStep(p)
        PROVE  FifoMask' /\ ExpandMask'
    BY <2>8, FrontendAssumption DEF FrontendStep, Quiet, FifoMask, ExpandMask, TensixExpanding
  <2>9. CASE GoIdle \/ WakeTile \/ Ended \/ UNCHANGED vars
    BY <2>9 DEF GoIdle, WakeTile, Ended, vars, FifoMask, ExpandMask, TensixExpanding
  <2> QED BY <2>1, <2>2, <2>3, <2>4, <2>5, <2>6, <2>7, <2>8, <2>9 DEF Next
<1>3. Inv => MasksAgree
  BY DEF FifoMask, ExpandMask, MasksAgree
<1> QED BY <1>1, <1>2, <1>3, PTL DEF Spec

-----------------------------------------------------------------------------
(* Sequences: induction on their length, and what FlattenSeq does.         *)

\* Induction over the natural numbers, for a set that has been defined.
LEMMA Counting ==
  ASSUME NEW T, 0 \in T, \A n \in Nat \ {0} : n - 1 \in T => n \in T
  PROVE  \A n \in Nat : n \in T
<1> DEFINE Out == Nat \ T
<1>1. SUFFICES ASSUME Out # {} PROVE FALSE
  OBVIOUS
<1>2. PICK n \in Out : \A k \in Out : ~ (<<k, n>> \in OpToRel(<, Nat))
  BY <1>1, NatLessThanWellFounded, WFMin
<1>3. n \in Nat /\ n # 0
  OBVIOUS
<1>4. n - 1 \in Nat /\ n - 1 < n
  BY <1>3
<1>5. <<n - 1, n>> \in OpToRel(<, Nat)
  BY <1>3, <1>4 DEF OpToRel
<1>6. n - 1 \in T
  BY <1>2, <1>4, <1>5
<1> QED BY <1>3, <1>6

-----------------------------------------------------------------------------
(* FlattenSeq, from either end.                                            *)

\* For k up to n, f[k] is the first k sequences of s, one after the other.
HeadsTo(S, s, n, f) ==
  /\ f \in [0 .. n -> Seq(S)]
  /\ f[0] = <<>>
  /\ \A k \in 1 .. n : f[k] = f[k - 1] \o s[k]
Heads(S, s, f) == HeadsTo(S, s, Len(s), f)
OneMore(f, n, x) == [k \in 0 .. n |-> IF k = n THEN x ELSE f[k]]

LEMMA OneMoreAt ==
  ASSUME NEW f, NEW n \in Nat, NEW x
  PROVE  OneMore(f, n, x)[n] = x
BY DEF OneMore

LEMMA HeadsOneMore ==
  ASSUME NEW S, NEW n \in Nat \ {0}, NEW s, NEW f, HeadsTo(S, s, n - 1, f), s[n] \in Seq(S)
  PROVE  HeadsTo(S, s, n, OneMore(f, n, f[n - 1] \o s[n]))
<1> DEFINE x == f[n - 1] \o s[n]
           g == OneMore(f, n, x)
<1>1. f \in [0 .. n - 1 -> Seq(S)] /\ f[n - 1] \in Seq(S) /\ f[0] = <<>>
  BY DEF HeadsTo
<1>2. x \in Seq(S)
  BY <1>1
<1>3. 0 .. n = (0 .. n - 1) \cup {n}
  OBVIOUS
<1>4. /\ g[n] = x
      /\ \A k \in 0 .. n - 1 : g[k] = f[k]
      /\ g \in [0 .. n -> Seq(S)]
  <2> HIDE DEF x
  <2> QED BY <1>1, <1>2, <1>3 DEF OneMore
<1> HIDE DEF g
<1>5. g[0] = <<>>
  BY <1>1, <1>4
<1>6. ASSUME NEW k \in 1 .. n PROVE g[k] = g[k - 1] \o s[k]
  <2>1. k - 1 \in 0 .. n - 1
    OBVIOUS
  <2>2. g[k - 1] = f[k - 1]
    BY <1>4, <2>1
  <2>3. CASE k = n
    BY <1>4, <2>2, <2>3
  <2>4. CASE k # n
    <3>1. k \in 1 .. n - 1 /\ k \in 0 .. n - 1
      BY <2>4
    <3>2. g[k] = f[k] /\ f[k] = f[k - 1] \o s[k]
      BY <1>4, <3>1 DEF HeadsTo
    <3> QED BY <2>2, <3>2
  <2> QED BY <2>3, <2>4
<1>7. HeadsTo(S, s, n, g)
  BY <1>4, <1>5, <1>6 DEF HeadsTo
<1> QED BY <1>7 DEF g

LEMMA HeadsExist ==
  ASSUME NEW S, NEW s \in Seq(Seq(S))
  PROVE  \E f : Heads(S, s, f)
<1> DEFINE T == {n \in Nat : n <= Len(s) => \E f : HeadsTo(S, s, n, f)}
<1>1. 0 \in T
  <2>1. HeadsTo(S, s, 0, [k \in 0 .. 0 |-> <<>>])
    BY DEF HeadsTo
  <2> QED BY <2>1
<1>2. ASSUME NEW n \in Nat \ {0}, n - 1 \in T PROVE n \in T
  <2>1. CASE n <= Len(s)
    <3>1. n - 1 <= Len(s) /\ s[n] \in Seq(S)
      BY <2>1
    <3>2. PICK f : HeadsTo(S, s, n - 1, f)
      BY <1>2, <3>1
    <3>3. \E g : HeadsTo(S, s, n, g)
      BY <3>1, <3>2, HeadsOneMore
    <3> QED BY <3>3
  <2>2. CASE ~ (n <= Len(s))
    BY <2>2
  <2> QED BY <2>1, <2>2
<1>3. Len(s) \in T
  <2> HIDE DEF T
  <2>1. \A n \in Nat : n \in T
    BY <1>1, <1>2, Counting
  <2> QED BY <2>1
<1>4. Len(s) <= Len(s)
  OBVIOUS
<1> QED BY <1>3, <1>4 DEF Heads

LEMMA Together ==
  ASSUME NEW S, NEW x \in Seq(S), NEW y \in Seq(S), NEW z \in Seq(S)
  PROVE  x \o (y \o z) = (x \o y) \o z
OBVIOUS

\* What FlattenSeq takes the last value of.
Flattening(s, g) == g = [i \in 1 .. Len(s) |-> IF i = 1 THEN s[i] ELSE g[i - 1] \o s[i]]
Without0(f, n) == [i \in 1 .. n |-> f[i]]

LEMMA FlatteningIs ==
  ASSUME NEW S, NEW s \in Seq(Seq(S)), NEW f, Heads(S, s, f)
  PROVE  /\ Flattening(s, Without0(f, Len(s)))
         /\ \A g : Flattening(s, g) => \A i \in 1 .. Len(s) : g[i] = f[i]
<1> DEFINE N == Len(s)
<1>0. N \in Nat /\ N = Len(s)
  OBVIOUS
<1> HIDE DEF N
<1>1. ASSUME NEW i \in 1 .. N
      PROVE  f[i] = IF i = 1 THEN s[i] ELSE f[i - 1] \o s[i]
  <2>1. i \in 1 .. Len(s)
    BY <1>0
  <2>2. f[i] = f[i - 1] \o s[i] /\ f[0] = <<>>
    BY <2>1 DEF Heads, HeadsTo
  <2>3. s[i] \in Seq(S)
    BY <2>1
  <2>4. <<>> \o s[i] = s[i]
    BY <2>3
  <2>5. i = 1 => i - 1 = 0
    BY <1>0
  <2> QED BY <2>2, <2>4, <2>5
<1>2. Flattening(s, Without0(f, N))
  <2>1. ASSUME NEW i \in 1 .. N
        PROVE  f[i] = IF i = 1 THEN s[i] ELSE Without0(f, N)[i - 1] \o s[i]
    <3>1. i # 1 => i - 1 \in 1 .. N
      BY <1>0
    <3>2. i # 1 => Without0(f, N)[i - 1] = f[i - 1]
      BY <3>1 DEF Without0
    <3> QED BY <1>1, <3>2
  <2>2. [i \in 1 .. N |-> f[i]]
        = [i \in 1 .. N |-> IF i = 1 THEN s[i] ELSE Without0(f, N)[i - 1] \o s[i]]
    BY <2>1
  <2>3. Without0(f, N) = [i \in 1 .. N |-> f[i]]
    BY DEF Without0
  <2> QED BY <1>0, <2>2, <2>3 DEF Flattening
<1>3. ASSUME NEW g, Flattening(s, g) PROVE \A i \in 1 .. N : g[i] = f[i]
  <2>1. ASSUME NEW i \in 1 .. N PROVE g[i] = IF i = 1 THEN s[i] ELSE g[i - 1] \o s[i]
    BY <1>0, <1>3 DEF Flattening
  <2> DEFINE T == {n \in Nat : n \in 1 .. N => g[n] = f[n]}
  <2>2. 0 \in T
    OBVIOUS
  <2>3. ASSUME NEW n \in Nat \ {0}, n - 1 \in T PROVE n \in T
    <3>1. SUFFICES ASSUME n \in 1 .. N PROVE g[n] = f[n]
      OBVIOUS
    <3>2. CASE n = 1
      BY <1>1, <2>1, <3>1, <3>2
    <3>3. CASE n # 1
      <4>1. n - 1 \in 1 .. N
        BY <1>0, <3>1, <3>3
      <4>2. g[n - 1] = f[n - 1]
        BY <2>3, <4>1
      <4>3. g[n] = g[n - 1] \o s[n]
        BY <2>1, <3>1, <3>3
      <4>4. f[n] = f[n - 1] \o s[n]
        BY <1>1, <3>1, <3>3
      <4> QED BY <4>2, <4>3, <4>4
    <3> QED BY <3>2, <3>3
  <2>4. \A n \in Nat : n \in T
    <3> HIDE DEF T
    <3> QED BY <2>2, <2>3, Counting
  <2> QED BY <2>4
<1> QED BY <1>0, <1>2, <1>3

LEMMA FlattenIs ==
  ASSUME NEW S, NEW s \in Seq(Seq(S)), NEW f, Heads(S, s, f)
  PROVE  FlattenSeq(s) = f[Len(s)]
<1>1. CASE Len(s) = 0
  <2>1. FlattenSeq(s) = s /\ f[0] = <<>>
    BY <1>1 DEF FlattenSeq, Heads, HeadsTo
  <2>2. s = <<>>
    BY <1>1
  <2> QED BY <1>1, <2>1, <2>2
<1>2. CASE Len(s) # 0
  <2> DEFINE g == CHOOSE g : Flattening(s, g)
  <2>1. FlattenSeq(s) = g[Len(s)]
    BY <1>2 DEF FlattenSeq, Flattening
  <2>2. Flattening(s, g)
    BY FlatteningIs
  <2>3. Len(s) \in 1 .. Len(s)
    BY <1>2
  <2> HIDE DEF g
  <2>4. g[Len(s)] = f[Len(s)]
    BY <2>2, <2>3, FlatteningIs
  <2> QED BY <2>1, <2>4
<1> QED BY <1>1, <1>2

\* A flattened sequence, of the elements its parts have; none, and one more at
\* the end.
LEMMA FlattenLast ==
  ASSUME NEW S, NEW s \in Seq(Seq(S))
  PROVE  /\ FlattenSeq(s) \in Seq(S)
         /\ Len(s) = 0 => FlattenSeq(s) = <<>>
         /\ \A t \in Seq(Seq(S)) :
              Len(t) = Len(s) + 1 /\ (\A k \in 1 .. Len(s) : t[k] = s[k])
                => FlattenSeq(t) = FlattenSeq(s) \o t[Len(t)]
<1>1. PICK f : Heads(S, s, f)
  BY HeadsExist
<1>2. FlattenSeq(s) = f[Len(s)]
  BY <1>1, FlattenIs
<1>3. f[Len(s)] \in Seq(S) /\ f[0] = <<>>
  BY <1>1 DEF Heads, HeadsTo
<1>4. ASSUME NEW t \in Seq(Seq(S)), Len(t) = Len(s) + 1, \A k \in 1 .. Len(s) : t[k] = s[k]
      PROVE  FlattenSeq(t) = FlattenSeq(s) \o t[Len(t)]
  <2> DEFINE N == Len(t)
  <2>1. N \in Nat \ {0} /\ Len(s) = N - 1 /\ N \in 1 .. N
    BY <1>4
  <2>2. t[N] \in Seq(S)
    BY <2>1
  <2>3. HeadsTo(S, t, N - 1, f)
    BY <1>1, <1>4, <2>1 DEF Heads, HeadsTo
  <2>4. Heads(S, t, OneMore(f, N, f[N - 1] \o t[N]))
    <3> HIDE DEF N
    <3>1. HeadsTo(S, t, N, OneMore(f, N, f[N - 1] \o t[N]))
      BY <2>1, <2>2, <2>3, HeadsOneMore
    <3> QED BY <3>1 DEF Heads, N
  <2>5. FlattenSeq(t) = OneMore(f, N, f[N - 1] \o t[N])[N]
    <3> DEFINE g == OneMore(f, N, f[N - 1] \o t[N])
    <3> HIDE DEF g
    <3>1. FlattenSeq(t) = g[Len(t)]
      BY <2>4, FlattenIs DEF g
    <3> QED BY <3>1 DEF g
  <2>6. OneMore(f, N, f[N - 1] \o t[N])[N] = f[N - 1] \o t[N]
    <3> HIDE DEF N
    <3> QED BY <2>1, OneMoreAt
  <2> QED BY <1>2, <2>1, <2>5, <2>6
<1> QED BY <1>2, <1>3, <1>4

\* And past empty ones at the front.
Parts(S, s) == s \in Seq(Seq(S))
From(f, n, k, x) == [j \in 0 .. n |-> IF j < k THEN <<>> ELSE x \o f[j - k]]

\* The first k - 1 parts of s are empty, and t is the parts after the k-th.
Skipping(s, t, k) ==
  /\ k \in 1 .. Len(s)
  /\ \A n \in 1 .. k - 1 : s[n] = <<>>
  /\ Len(t) = Len(s) - k
  /\ \A n \in 1 .. Len(t) : t[n] = s[n + k]

LEMMA FlattenSkip ==
  ASSUME NEW S, NEW s, NEW t, NEW k, Parts(S, s), Parts(S, t), Skipping(s, t, k)
  PROVE  FlattenSeq(s) = s[k] \o FlattenSeq(t)
<1>1. PICK f : Heads(S, t, f)
  BY HeadsExist DEF Parts
<1> DEFINE N == Len(s)
           g == From(f, N, k, s[k])
<1>2. N \in Nat /\ k \in 1 .. N /\ Len(t) = N - k /\ N = Len(s) /\ N - k \in Nat
      /\ (\A n \in 1 .. k - 1 : s[n] = <<>>) /\ (\A n \in 1 .. Len(t) : t[n] = s[n + k])
  BY DEF Parts, Skipping
<1>3. s[k] \in Seq(S)
  BY DEF Parts, Skipping
<1> HIDE DEF N, g
<1>4. f \in [0 .. N - k -> Seq(S)] /\ f[0] = <<>>
      /\ \A j \in 1 .. N - k : f[j] = f[j - 1] \o t[j]
  BY <1>1, <1>2 DEF Heads, HeadsTo
<1>5. /\ g \in [0 .. N -> Seq(S)]
      /\ \A j \in 0 .. k - 1 : g[j] = <<>>
      /\ \A j \in k .. N : g[j] = s[k] \o f[j - k]
  <2>1. ASSUME NEW j \in k .. N PROVE s[k] \o f[j - k] \in Seq(S)
    <3>1. j - k \in 0 .. N - k
      BY <1>2
    <3>2. f[j - k] \in Seq(S)
      BY <1>4, <3>1
    <3> QED BY <1>3, <3>2
  <2>2. \A j \in 0 .. N : g[j] = IF j < k THEN <<>> ELSE s[k] \o f[j - k]
    BY DEF g, From
  <2>3. ASSUME NEW j \in 0 .. N PROVE g[j] \in Seq(S)
    <3>1. CASE j < k
      <4>1. <<>> \in Seq(S)
        OBVIOUS
      <4> QED BY <2>2, <3>1, <4>1
    <3>2. CASE ~ (j < k)
      <4>1. j \in k .. N
        BY <1>2, <3>2
      <4>2. g[j] = s[k] \o f[j - k]
        BY <2>2, <3>2
      <4> QED BY <2>1, <4>1, <4>2
    <3> QED BY <3>1, <3>2
  <2>4. g = [j \in 0 .. N |-> g[j]]
    BY DEF g, From
  <2>5. g \in [0 .. N -> Seq(S)]
    BY <2>3, <2>4
  <2>6. /\ \A j \in 0 .. k - 1 : j \in 0 .. N /\ j < k
        /\ \A j \in k .. N : j \in 0 .. N /\ ~ (j < k)
    BY <1>2
  <2> QED BY <2>2, <2>5, <2>6
<1>6. ASSUME NEW j \in 1 .. N PROVE g[j] = g[j - 1] \o s[j]
  <2>1. CASE j < k
    <3>1. j \in 0 .. k - 1 /\ j - 1 \in 0 .. k - 1 /\ j \in 1 .. k - 1
      BY <1>2, <2>1
    <3>2. s[j] = <<>> /\ g[j] = <<>> /\ g[j - 1] = <<>>
      BY <1>2, <1>5, <3>1
    <3>3. <<>> \o <<>> = <<>>
      OBVIOUS
    <3> QED BY <3>2, <3>3
  <2>2. CASE j = k
    <3>1. s[k] \o <<>> = s[k] /\ <<>> \o s[k] = s[k]
      BY <1>3
    <3>2. j - 1 \in 0 .. k - 1 /\ j \in k .. N /\ j - k = 0
      BY <1>2, <2>2
    <3>3. g[j - 1] = <<>> /\ g[j] = s[k] \o f[0]
      BY <1>5, <3>2
    <3> QED BY <1>4, <2>2, <3>1, <3>3
  <2>3. CASE j > k
    <3> DEFINE i == j - k
    <3>1. i \in 1 .. N - k /\ j \in k .. N /\ j - 1 \in k .. N /\ j - 1 - k = i - 1
          /\ i \in 1 .. Len(t) /\ i + k = j /\ i - 1 \in 0 .. N - k
      BY <1>2, <2>3
    <3>2. g[j] = s[k] \o f[i]
      BY <1>5, <3>1
    <3>3. g[j - 1] = s[k] \o f[i - 1]
      BY <1>5, <3>1
    <3> HIDE DEF i
    <3>4. f[i] = f[i - 1] \o t[i]
      BY <1>4, <3>1
    <3>5. t[i] = s[j]
      BY <1>2, <3>1
    <3> DEFINE x == s[k]  y == f[i - 1]  z == t[i]
    <3>6. x \in Seq(S) /\ y \in Seq(S)
      BY <1>3, <1>4, <3>1
    <3>7. z \in Seq(S)
      BY <3>1 DEF Parts
    <3> HIDE DEF x, y, z
    <3>8. x \o (y \o z) = (x \o y) \o z
      BY <3>6, <3>7, Together
    <3>9. s[k] \o (f[i - 1] \o t[i]) = (s[k] \o f[i - 1]) \o t[i]
      BY <3>8 DEF x, y, z
    <3> QED BY <3>2, <3>3, <3>4, <3>5, <3>9
  <2>4. j < k \/ j = k \/ j > k
    BY <1>2
  <2> QED BY <2>1, <2>2, <2>3, <2>4
<1>7. Heads(S, s, g)
  <2>1. 0 \in 0 .. k - 1
    BY <1>2
  <2> QED BY <1>2, <1>5, <1>6, <2>1 DEF Heads, HeadsTo
<1>8. FlattenSeq(s) = g[N]
  BY <1>2, <1>7, FlattenIs DEF Parts
<1>9. FlattenSeq(t) = f[N - k]
  BY <1>1, <1>2, FlattenIs DEF Parts
<1>10. N \in k .. N
  BY <1>2
<1> QED BY <1>5, <1>8, <1>9, <1>10

LEMMA FlattenFirst ==
  ASSUME NEW S, NEW s, NEW t, Parts(S, s), Parts(S, t), Len(s) = Len(t) + 1,
         \A n \in 1 .. Len(t) : t[n] = s[n + 1]
  PROVE  FlattenSeq(s) = s[1] \o FlattenSeq(t)
<1>1. Len(s) \in Nat /\ Len(t) \in Nat
  BY DEF Parts
<1>2. Skipping(s, t, 1)
  BY <1>1 DEF Skipping
<1> QED BY <1>2, FlattenSkip

\* Nothing but empty sequences.
LEMMA FlattenNone ==
  ASSUME NEW S, NEW s, Parts(S, s), \A n \in 1 .. Len(s) : s[n] = <<>>
  PROVE  FlattenSeq(s) = <<>>
<1> DEFINE N == Len(s)
           f == [j \in 0 .. N |-> <<>>]
<1>1. N \in Nat /\ N = Len(s)
  BY DEF Parts
<1> HIDE DEF N
<1>2. f \in [0 .. N -> Seq(S)] /\ f[0] = <<>> /\ f[N] = <<>>
  BY <1>1
<1>3. ASSUME NEW j \in 1 .. N PROVE f[j] = f[j - 1] \o s[j]
  <2>1. s[j] = <<>> /\ f[j] = <<>> /\ f[j - 1] = <<>>
    BY <1>1
  <2>2. <<>> \o <<>> = <<>>
    OBVIOUS
  <2> HIDE DEF f
  <2> QED BY <2>1, <2>2
<1>4. Heads(S, s, f)
  BY <1>1, <1>2, <1>3 DEF Heads, HeadsTo
<1> HIDE DEF f
<1>5. FlattenSeq(s) = f[N]
  BY <1>1, <1>4, FlattenIs DEF Parts
<1> QED BY <1>2, <1>5

\* Sequences of one element each.
FirstOnes(x, n) == [j \in 0 .. n |-> [i \in 1 .. j |-> x[i]]]

LEMMA FlattenOnes ==
  ASSUME NEW S, NEW s, Parts(S, s), NEW x \in Seq(S), Len(x) = Len(s),
         \A n \in 1 .. Len(s) : s[n] = <<x[n]>>
  PROVE  FlattenSeq(s) = x
<1> DEFINE N == Len(s)
           f == FirstOnes(x, N)
<1>1. N \in Nat /\ N = Len(s) /\ N = Len(x)
  BY DEF Parts
<1>2. \A i \in 1 .. N : x[i] \in S
  BY <1>1
<1> HIDE DEF N, f
<1>3. \A j \in 0 .. N : f[j] = [i \in 1 .. j |-> x[i]]
  BY DEF f, FirstOnes
<1>4. ASSUME NEW j \in 0 .. N PROVE f[j] \in Seq(S)
  <2>1. \A i \in 1 .. j : i \in 1 .. N
    BY <1>1
  <2>2. [i \in 1 .. j |-> x[i]] \in Seq(S)
    BY <1>2, <2>1
  <2> QED BY <1>3, <2>2
<1>5. f \in [0 .. N -> Seq(S)]
  <2>1. f = [j \in 0 .. N |-> f[j]]
    BY DEF f, FirstOnes
  <2> QED BY <1>4, <2>1
<1>6. f[0] = <<>>
  <2>1. f[0] = [i \in 1 .. 0 |-> x[i]]
    <3>1. 0 \in 0 .. N
      BY <1>1
    <3> QED BY <1>3, <3>1, Zenon
  <2>2. [i \in 1 .. 0 |-> x[i]] = <<>>
    OBVIOUS
  <2> QED BY <2>1, <2>2
<1>7. ASSUME NEW j \in 1 .. N PROVE f[j] = f[j - 1] \o s[j]
  <2>1. j \in 0 .. N /\ j - 1 \in 0 .. N /\ j - 1 \in Nat /\ j \in Nat
    BY <1>1
  <2>2. f[j] = [i \in 1 .. j |-> x[i]] /\ f[j - 1] = [i \in 1 .. j - 1 |-> x[i]]
    BY <1>3, <2>1
  <2>3. s[j] = <<x[j]>>
    BY <1>1
  <2>4. [i \in 1 .. j |-> x[i]] = [i \in 1 .. j - 1 |-> x[i]] \o <<x[j]>>
    BY <2>1
  <2> QED BY <2>2, <2>3, <2>4
<1>8. Heads(S, s, f)
  BY <1>1, <1>5, <1>6, <1>7 DEF Heads, HeadsTo
<1>9. FlattenSeq(s) = f[N]
  BY <1>1, <1>8, FlattenIs DEF Parts
<1>10. f[N] = x
  <2>1. x = [i \in 1 .. N |-> x[i]]
    BY <1>1
  <2>2. N \in 0 .. N
    BY <1>1
  <2> QED BY <1>3, <2>1, <2>2
<1> QED BY <1>9, <1>10

\* A short sequence, element by element.
LEMMA Spelled ==
  ASSUME NEW S, NEW x \in Seq(S)
  PROVE  /\ Len(x) = 1 => x = <<x[1]>>
         /\ Len(x) = 2 => x = <<x[1], x[2]>>
         /\ Len(x) = 4 => x = <<x[1], x[2], x[3], x[4]>>
         /\ Len(x) = 5 => x = <<x[1], x[2], x[3], x[4], x[5]>>
<1>1. Len(x) = 1 => x = <<x[1]>>
  OBVIOUS
<1>2. Len(x) = 2 => x = <<x[1], x[2]>>
  OBVIOUS
<1>3. Len(x) = 4 => x = <<x[1], x[2], x[3], x[4]>>
  OBVIOUS
<1>4. Len(x) = 5 => x = <<x[1], x[2], x[3], x[4], x[5]>>
  OBVIOUS
<1> QED BY <1>1, <1>2, <1>3, <1>4

LEMMA JoinedTwo ==
  ASSUME NEW S, NEW a \in S, NEW b \in S
  PROVE  <<a>> \o <<>> = <<a>> /\ <<a>> \o <<b>> = <<a, b>>
<1> DEFINE x == <<a>>  y == <<b>>  xy == x \o y
<1>1. <<a>> \o <<>> = <<a>>
  OBVIOUS
<1>2. x \in Seq(S) /\ Len(x) = 1 /\ x[1] = a /\ y \in Seq(S) /\ Len(y) = 1 /\ y[1] = b
  OBVIOUS
<1> HIDE DEF x, y
<1>3. xy \in Seq(S) /\ Len(xy) = 2 /\ xy[1] = a /\ xy[2] = b
  <2>1. /\ xy \in Seq(S) /\ Len(xy) = 2
        /\ \A i \in 1 .. 2 : xy[i] = IF i <= 1 THEN x[i] ELSE y[i - 1]
    BY <1>2, ConcatProperties
  <2> QED BY <1>2, <2>1
<1> HIDE DEF xy
<1>4. xy = <<a, b>>
  BY <1>3, Spelled
<1> QED BY <1>1, <1>4 DEF x, y, xy

LEMMA JoinedFour ==
  ASSUME NEW S, NEW a \in S, NEW b \in S, NEW c \in S, NEW d \in S
  PROVE  <<a>> \o <<b, c, d>> = <<a, b, c, d>> /\ <<a, b, c, d>> \o <<>> = <<a, b, c, d>>
<1> DEFINE x == <<a>>  z == <<b, c, d>>  xz == x \o z
<1>1. <<a, b, c, d>> \o <<>> = <<a, b, c, d>>
  OBVIOUS
<1>2. x \in Seq(S) /\ Len(x) = 1 /\ x[1] = a
  OBVIOUS
<1>3. z \in Seq(S) /\ Len(z) = 3 /\ z[1] = b /\ z[2] = c /\ z[3] = d
  OBVIOUS
<1> HIDE DEF x, z
<1>4. xz \in Seq(S) /\ Len(xz) = 4 /\ xz[1] = a /\ xz[2] = b /\ xz[3] = c /\ xz[4] = d
  <2>1. /\ xz \in Seq(S) /\ Len(xz) = Len(x) + Len(z)
        /\ \A i \in 1 .. Len(x) + Len(z) : xz[i] = IF i <= Len(x) THEN x[i] ELSE z[i - Len(x)]
    BY <1>2, <1>3, ConcatProperties
  <2> HIDE DEF xz
  <2>2. xz[1] = x[1] /\ xz[2] = z[2 - 1] /\ xz[3] = z[3 - 1] /\ xz[4] = z[4 - 1]
    BY <1>2, <1>3, <2>1
  <2>3. 2 - 1 = 1 /\ 3 - 1 = 2 /\ 4 - 1 = 3
    OBVIOUS
  <2> QED BY <1>2, <1>3, <2>1, <2>2, <2>3
<1> HIDE DEF xz
<1>5. xz = <<a, b, c, d>>
  BY <1>4, Spelled
<1> QED BY <1>1, <1>5 DEF x, z, xz

LEMMA JoinedFive ==
  ASSUME NEW S, NEW a \in S, NEW b \in S, NEW c \in S, NEW d \in S, NEW e \in S
  PROVE  <<a, b, c, d>> \o <<e>> = <<a, b, c, d, e>>
<1> DEFINE w == <<a, b, c, d>>  v == <<e>>  wv == w \o v
<1>1. v \in Seq(S) /\ Len(v) = 1 /\ v[1] = e
  OBVIOUS
<1>2. w \in Seq(S) /\ Len(w) = 4 /\ w[1] = a /\ w[2] = b /\ w[3] = c /\ w[4] = d
  OBVIOUS
<1> HIDE DEF w, v
<1>3. wv \in Seq(S) /\ Len(wv) = 5
      /\ wv[1] = a /\ wv[2] = b /\ wv[3] = c /\ wv[4] = d /\ wv[5] = e
  <2>1. /\ wv \in Seq(S) /\ Len(wv) = Len(w) + Len(v)
        /\ \A i \in 1 .. Len(w) + Len(v) : wv[i] = IF i <= Len(w) THEN w[i] ELSE v[i - Len(w)]
    BY <1>1, <1>2, ConcatProperties
  <2> HIDE DEF wv
  <2>2. wv[1] = w[1] /\ wv[2] = w[2] /\ wv[3] = w[3] /\ wv[4] = w[4] /\ wv[5] = v[5 - 4] /\ 5 - 4 = 1
    BY <1>1, <1>2, <2>1
  <2> QED BY <1>1, <1>2, <2>1, <2>2
<1> HIDE DEF wv
<1>4. wv = <<a, b, c, d, e>>
  BY <1>3, Spelled
<1> QED BY <1>4 DEF w, v, wv

-----------------------------------------------------------------------------
(* Through, an instruction at a time.                                      *)

\* The state of the Replay Expander after each of the first n instructions.
After(r0, s, n, f) ==
  /\ f = [k \in 0 .. n |-> f[k]]
  /\ f[0] = r0
  /\ \A k \in 1 .. n : f[k] = Replayed(f[k - 1], s[k])

\* What Through takes the last value of.
Passing(r0, s, g) ==
  g = [n \in 0 .. Len(s) |->
         IF n = 0 THEN r0
         ELSE CHOOSE r \in {Replayed(before, s[n]) : before \in {g[n - 1]}} : TRUE]

LEMMA PassingOne ==
  ASSUME NEW v, NEW i
  PROVE  (CHOOSE r \in {Replayed(before, i) : before \in {v}} : TRUE) = Replayed(v, i)
<1>1. {Replayed(before, i) : before \in {v}} = {Replayed(v, i)}
  OBVIOUS
<1> QED BY <1>1

LEMMA PassingIs ==
  ASSUME NEW r0, NEW s, NEW g, Len(s) \in Nat
  PROVE  Passing(r0, s, g)
           <=> g = [n \in 0 .. Len(s) |-> IF n = 0 THEN r0 ELSE Replayed(g[n - 1], s[n])]
<1>1. \A n : (CHOOSE r \in {Replayed(before, s[n]) : before \in {g[n - 1]}} : TRUE)
             = Replayed(g[n - 1], s[n])
  BY PassingOne
<1> QED BY <1>1 DEF Passing

LEMMA AfterOneMore ==
  ASSUME NEW r0, NEW s, NEW n \in Nat \ {0}, NEW f, After(r0, s, n - 1, f), NEW x,
         x = Replayed(f[n - 1], s[n])
  PROVE  After(r0, s, n, OneMore(f, n, x))
<1> DEFINE g == OneMore(f, n, x)
<1>1. /\ g = [k \in 0 .. n |-> g[k]]
      /\ g[n] = x
      /\ \A k \in 0 .. n - 1 : g[k] = f[k]
  BY DEF OneMore
<1> HIDE DEF g
<1>2. g[0] = r0
  BY <1>1 DEF After
<1>3. ASSUME NEW k \in 1 .. n PROVE g[k] = Replayed(g[k - 1], s[k])
  <2>1. k - 1 \in 0 .. n - 1
    OBVIOUS
  <2>2. g[k - 1] = f[k - 1]
    BY <1>1, <2>1
  <2>3. CASE k = n
    BY <1>1, <2>2, <2>3
  <2>4. CASE k # n
    <3>1. k \in 1 .. n - 1 /\ k \in 0 .. n - 1
      BY <2>4
    <3>2. g[k] = f[k] /\ f[k] = Replayed(f[k - 1], s[k])
      BY <1>1, <3>1 DEF After
    <3> QED BY <2>2, <3>2
  <2> QED BY <2>3, <2>4
<1>4. After(r0, s, n, g)
  BY <1>1, <1>2, <1>3 DEF After
<1> QED BY <1>4 DEF g

LEMMA AfterExists ==
  ASSUME NEW r0, NEW s, NEW n \in Nat
  PROVE  \E f : After(r0, s, n, f)
<1> DEFINE T == {k \in Nat : \E f : After(r0, s, k, f)}
<1>1. 0 \in T
  <2> DEFINE f == [k \in 0 .. 0 |-> r0]
  <2>1. f = [k \in 0 .. 0 |-> f[k]] /\ f[0] = r0
    OBVIOUS
  <2> HIDE DEF f
  <2>2. After(r0, s, 0, f)
    BY <2>1 DEF After
  <2> QED BY <2>2
<1>2. ASSUME NEW k \in Nat \ {0}, k - 1 \in T PROVE k \in T
  <2>1. PICK f : After(r0, s, k - 1, f)
    BY <1>2
  <2>2. After(r0, s, k, OneMore(f, k, Replayed(f[k - 1], s[k])))
    BY <2>1, AfterOneMore
  <2> QED BY <2>2
<1> HIDE DEF T
<1>3. n \in T
  BY <1>1, <1>2, Counting
<1> QED BY <1>3 DEF T

LEMMA ThroughIs ==
  ASSUME NEW r0, NEW s, Len(s) \in Nat, NEW f, After(r0, s, Len(s), f)
  PROVE  Through(r0, s) = f[Len(s)]
<1> DEFINE N == Len(s)
           g == CHOOSE g : Passing(r0, s, g)
<1>1. Through(r0, s) = g[Len(s)]
  BY DEF Through, Passing
<1>2. Passing(r0, s, g)
  <2>1. f = [n \in 0 .. Len(s) |-> IF n = 0 THEN r0 ELSE Replayed(f[n - 1], s[n])]
    <3>1. f = [n \in 0 .. Len(s) |-> f[n]]
      BY DEF After
    <3>2. \A n \in 0 .. Len(s) : n # 0 => n \in 1 .. Len(s)
      OBVIOUS
    <3> QED BY <3>1, <3>2 DEF After
  <2>2. Passing(r0, s, f)
    BY <2>1, PassingIs
  <2> QED BY <2>2
<1> HIDE DEF g
<1>3. g = [n \in 0 .. N |-> IF n = 0 THEN r0 ELSE Replayed(g[n - 1], s[n])]
  BY <1>2, PassingIs
<1> DEFINE T == {k \in Nat : k <= N => g[k] = f[k]}
<1>4. 0 \in T
  BY <1>3 DEF After
<1>5. ASSUME NEW k \in Nat \ {0}, k - 1 \in T PROVE k \in T
  <2>1. SUFFICES ASSUME k <= N PROVE g[k] = f[k]
    OBVIOUS
  <2>2. k - 1 <= N /\ k \in 1 .. N /\ k \in 0 .. N /\ k # 0
    BY <2>1
  <2>3. g[k - 1] = f[k - 1]
    BY <1>5, <2>2
  <2>4. g[k] = Replayed(g[k - 1], s[k])
    BY <1>3, <2>2
  <2>5. f[k] = Replayed(f[k - 1], s[k])
    BY <2>2 DEF After
  <2> QED BY <2>3, <2>4, <2>5
<1>6. N \in T
  <2> HIDE DEF T
  <2>1. \A k \in Nat : k \in T
    BY <1>4, <1>5, Counting
  <2> QED BY <2>1
<1> QED BY <1>1, <1>6

-----------------------------------------------------------------------------
(* The operators of TensixStream are those of TensixExpansion.             *)

LEMMA SameFlatten ==
  ASSUME NEW s
  PROVE  Stream!FlattenSeq(s) = FlattenSeq(s)
BY DEF Stream!FlattenSeq, FlattenSeq

LEMMA SameNoNops ==
  ASSUME NEW s
  PROVE  Stream!NoNops(s) = NoNops(s)
BY SameFlatten DEF Stream!NoNops, NoNops, Stream!Unless, Unless, Stream!Nop, Nop

LEMMA SameReplayed ==
  ASSUME NEW r, NEW i
  PROVE  Stream!Replayed(r, i) = Replayed(r, i)
BY SameNoNops DEF Stream!Replayed, Replayed, Stream!Let, Let, Stream!Unless, Unless, Stream!Nop, Nop

LEMMA SameThrough ==
  ASSUME NEW r, NEW s
  PROVE  Stream!Through(r, s) = Through(r, s)
BY SameReplayed DEF Stream!Through, Through

LEMMA SameType0 ==
  ASSUME NEW cf, NEW zmask, NEW count
  PROVE  Stream!Type0(cf, zmask, count) = Type0(cf, zmask, count)
BY SameFlatten DEF Stream!Type0, Type0, Stream!Only, Only

LEMMA SameType1 ==
  ASSUME NEW cf
  PROVE  Stream!Type1(cf) = Type1(cf)
BY SameFlatten DEF Stream!Type1, Type1, Stream!Unless, Unless, Stream!Nop, Nop

LEMMA SameExpansion ==
  ASSUME NEW cf, NEW hi, NEW i
  PROVE  Stream!Expansion(cf, hi, i) = Expansion(cf, hi, i)
BY SameType0, SameType1 DEF Stream!Expansion, Expansion

-----------------------------------------------------------------------------
(* Through, from its first instruction.                                    *)

LEMMA ThroughNone == ASSUME NEW r PROVE Through(r, <<>>) = r
<1>1. PICK f : After(r, <<>>, 0, f)
  BY AfterExists
<1>2. Len(<<>>) = 0
  OBVIOUS
<1>3. Through(r, <<>>) = f[0]
  BY <1>1, <1>2, ThroughIs
<1> QED BY <1>1, <1>3 DEF After

Before(f, n, r) == [k \in 0 .. n |-> IF k = 0 THEN r ELSE f[k - 1]]

LEMMA ThroughFirst ==
  ASSUME NEW r, NEW i, NEW t \in Seq(FifoInst)
  PROVE  Through(r, <<i>> \o t) = Through(Replayed(r, i), t)
<1> DEFINE s == <<i>> \o t
           N == Len(s)
<1>1. /\ N \in Nat \ {0} /\ Len(t) = N - 1 /\ N = Len(s) /\ s[1] = i
      /\ \A k \in 2 .. N : s[k] = t[k - 1]
  OBVIOUS
<1> HIDE DEF s
<1>2. PICK f : After(Replayed(r, i), t, Len(t), f)
  BY AfterExists
<1> DEFINE g == Before(f, N, r)
<1> HIDE DEF N
<1>3. /\ g = [k \in 0 .. N |-> g[k]]
      /\ g[0] = r
      /\ \A k \in 1 .. N : g[k] = f[k - 1]
  BY <1>1 DEF Before
<1> HIDE DEF g
<1>4. ASSUME NEW k \in 1 .. N PROVE g[k] = Replayed(g[k - 1], s[k])
  <2>1. CASE k = 1
    <3>1. k - 1 = 0
      BY <2>1
    <3>2. g[k] = f[0]
      BY <1>3, <3>1
    <3>3. f[0] = Replayed(r, i)
      BY <1>2 DEF After
    <3> QED BY <1>1, <1>3, <2>1, <3>1, <3>2, <3>3
  <2>2. CASE k # 1
    <3> DEFINE j == k - 1
    <3>1. j \in 1 .. N /\ j \in 1 .. Len(t) /\ k \in 2 .. N
      BY <1>1, <2>2
    <3>2. f[j] = Replayed(f[j - 1], t[j])
      BY <1>2, <3>1 DEF After
    <3>3. g[k] = f[j] /\ g[j] = f[j - 1] /\ s[k] = t[j]
      BY <1>1, <1>3, <3>1
    <3> QED BY <3>2, <3>3
  <2> QED BY <2>1, <2>2
<1>5. After(r, s, N, g)
  BY <1>3, <1>4 DEF After
<1>6. Through(r, s) = g[N]
  BY <1>1, <1>5, ThroughIs
<1>7. Through(Replayed(r, i), t) = f[N - 1]
  BY <1>1, <1>2, ThroughIs
<1>8. g[N] = f[N - 1]
  BY <1>1, <1>3
<1> QED BY <1>6, <1>7, <1>8 DEF s

-----------------------------------------------------------------------------
(* What issues comes out first: dropping it commutes with all that is yet  *)
(* to go through the Replay Expander.                                      *)

ReplayState ==
  [buf: [0 .. ReplaySize - 1 -> FifoInst], index: Int, left: Int, exec: BOOLEAN,
   out: Seq(FifoInst), broken: BOOLEAN]

Issued(r) == [r EXCEPT !.out = Tail(@)]

LEMMA UnlessType ==
  ASSUME NEW i \in FifoInst, NEW cond
  PROVE  Unless(cond, i) \in Seq(FifoInst)
BY DEF Unless

LEMMA NoNopsParts ==
  ASSUME NEW s \in Seq(FifoInst)
  PROVE  Parts(FifoInst, [n \in 1 .. Len(s) |-> Unless(Nop(s[n]), s[n])])
<1>1. \A n \in 1 .. Len(s) : Unless(Nop(s[n]), s[n]) \in Seq(FifoInst)
  <2>1. \A n \in 1 .. Len(s) : s[n] \in FifoInst
    OBVIOUS
  <2> QED BY <2>1, UnlessType
<1> QED BY <1>1 DEF Parts

LEMMA NoNopsType ==
  ASSUME NEW s \in Seq(FifoInst)
  PROVE  NoNops(s) \in Seq(FifoInst)
BY NoNopsParts, FlattenLast DEF Parts, NoNops

LEMMA PlayedType ==
  ASSUME NEW buf \in [0 .. ReplaySize - 1 -> FifoInst], NEW i \in ReplayInst
  PROVE  [n \in 1 .. i.len |-> buf[i.start + n - 1]] \in Seq(FifoInst)
<1>1. i.start \in 0 .. ReplaySize /\ i.len \in 1 .. ReplaySize /\ i.start + i.len <= ReplaySize
  BY DEF ReplayInst
<1>2. \A n \in 1 .. i.len : i.start + n - 1 \in 0 .. ReplaySize - 1
  BY <1>1, FrontendAssumption
<1>3. i.len \in Nat
  BY <1>1, FrontendAssumption
<1>4. \A n \in 1 .. i.len : buf[i.start + n - 1] \in FifoInst
  BY <1>2
<1> QED BY <1>3, <1>4

LEMMA FifoInstKinds ==
  ASSUME NEW i \in FifoInst
  PROVE  /\ i.opcode = "REPLAY" => i \in ReplayInst
         /\ Nop(i) \in BOOLEAN
BY DEF FifoInst, PlainInst, OpInst, NOP, Zero, Nop

\* The four things Replayed does to a state that is not broken.
LEMMA ReplayedKinds ==
  ASSUME NEW r \in ReplayState, NEW i \in FifoInst, ~ r.broken
  PROVE  /\ r.left > 0 /\ i.opcode = "REPLAY" => Replayed(r, i) = [r EXCEPT !.broken = TRUE]
         /\ r.left > 0 /\ i.opcode # "REPLAY"
              => Replayed(r, i) = [r EXCEPT !.buf[r.index] = i, !.index = @ + 1, !.left = @ - 1,
                                            !.out = IF r.exec THEN Let(@, i) ELSE @]
         /\ ~ (r.left > 0) /\ i.opcode # "REPLAY" => Replayed(r, i) = [r EXCEPT !.out = Let(@, i)]
         /\ ~ (r.left > 0) /\ i.opcode = "REPLAY" /\ i.load
              => Replayed(r, i) = [r EXCEPT !.index = i.start, !.left = i.len, !.exec = i.exec]
         /\ ~ (r.left > 0) /\ i.opcode = "REPLAY" /\ ~ i.load
              => Replayed(r, i)
                 = [r EXCEPT !.out = @ \o NoNops([n \in 1 .. i.len |-> r.buf[i.start + n - 1]])]
BY Zenon DEF Replayed

LEMMA LetIs ==
  ASSUME NEW out \in Seq(FifoInst), NEW i \in FifoInst
  PROVE  /\ Let(out, i) \in Seq(FifoInst)
         /\ out # <<>> => Let(out, i) # <<>> /\ Let(Tail(out), i) = Tail(Let(out, i))
<1>1. CASE Nop(i)
  <2>1. Let(out, i) = out /\ Let(Tail(out), i) = Tail(out) \o <<>>
    BY <1>1 DEF Let, Unless
  <2>2. out # <<>> => Tail(out) \o <<>> = Tail(out)
    OBVIOUS
  <2> QED BY <2>1, <2>2
<1>2. CASE ~ Nop(i)
  <2>1. Let(out, i) = out \o <<i>> /\ Let(Tail(out), i) = Tail(out) \o <<i>>
    BY <1>2 DEF Let, Unless
  <2>2. out \o <<i>> \in Seq(FifoInst)
    OBVIOUS
  <2>3. out # <<>> => out \o <<i>> # <<>> /\ Tail(out) \o <<i>> = Tail(out \o <<i>>)
    OBVIOUS
  <2> QED BY <2>1, <2>2, <2>3
<1> QED BY <1>1, <1>2

LEMMA TailOfConcat ==
  ASSUME NEW S, NEW x \in Seq(S), NEW y \in Seq(S), x # <<>>
  PROVE  x \o y # <<>> /\ Tail(x) \o y = Tail(x \o y)
OBVIOUS

LEMMA ReplayedType ==
  ASSUME NEW r \in ReplayState, NEW i \in FifoInst
  PROVE  /\ Replayed(r, i) \in ReplayState
         /\ r.out # <<>> => /\ Replayed(r, i).out # <<>>
                            /\ Replayed(Issued(r), i) = Issued(Replayed(r, i))
<1> DEFINE q == Issued(r)
<1>0. /\ r.out \in Seq(FifoInst) /\ r.buf \in [0 .. ReplaySize - 1 -> FifoInst]
      /\ r.index \in Int /\ r.left \in Int /\ r.exec \in BOOLEAN /\ r.broken \in BOOLEAN
  BY DEF ReplayState
<1>1. /\ q.buf = r.buf /\ q.index = r.index /\ q.left = r.left /\ q.exec = r.exec
      /\ q.broken = r.broken /\ q.out = Tail(r.out)
      /\ q = [r EXCEPT !.out = Tail(r.out)]
  BY DEF Issued, ReplayState
<1>2. r.out # <<>> => q \in ReplayState
  <2>1. r.out # <<>> => Tail(r.out) \in Seq(FifoInst)
    BY <1>0
  <2> QED BY <2>1, <1>1 DEF ReplayState
<1> HIDE DEF q
<1>3. CASE r.broken
  <2>1. Replayed(r, i) = r /\ Replayed(q, i) = q
    BY <1>1, <1>3 DEF Replayed
  <2> QED BY <2>1 DEF q
<1>4. CASE ~ r.broken /\ r.left > 0 /\ i.opcode = "REPLAY"
  <2>1. Replayed(r, i) = [r EXCEPT !.broken = TRUE]
    BY <1>4, ReplayedKinds
  <2>2. r.out # <<>> => Replayed(q, i) = [q EXCEPT !.broken = TRUE]
    BY <1>1, <1>2, <1>4, ReplayedKinds
  <2>3. [r EXCEPT !.broken = TRUE] \in ReplayState
    BY DEF ReplayState
  <2>4. [r EXCEPT !.broken = TRUE].out = r.out
    BY DEF ReplayState
  <2>5. Issued([r EXCEPT !.broken = TRUE]) = [q EXCEPT !.broken = TRUE]
    BY <1>1 DEF Issued, ReplayState
  <2> QED BY <2>1, <2>2, <2>3, <2>4, <2>5 DEF q
<1>5. CASE ~ r.broken /\ r.left > 0 /\ i.opcode # "REPLAY"
  <2> DEFINE o == IF r.exec THEN Let(r.out, i) ELSE r.out
             u == [r EXCEPT !.buf[r.index] = i, !.index = @ + 1, !.left = @ - 1, !.out = o]
  <2>1. Replayed(r, i) = u
    <3>1. Replayed(r, i) = [r EXCEPT !.buf[r.index] = i, !.index = @ + 1, !.left = @ - 1,
                                            !.out = IF r.exec THEN Let(@, i) ELSE @]
      BY <1>5, ReplayedKinds
    <3> QED BY <3>1 DEF ReplayState
  <2>2. o \in Seq(FifoInst)
        /\ (r.out # <<>> => o # <<>> /\ Tail(o) = IF q.exec THEN Let(q.out, i) ELSE q.out)
    BY <1>0, <1>1, LetIs
  <2>3. r.out # <<>> => Replayed(q, i)
          = [q EXCEPT !.buf[r.index] = i, !.index = @ + 1, !.left = @ - 1, !.out = Tail(o)]
    <3>1. SUFFICES ASSUME r.out # <<>>
                   PROVE  Replayed(q, i) = [q EXCEPT !.buf[r.index] = i, !.index = @ + 1,
                                                     !.left = @ - 1, !.out = Tail(o)]
      OBVIOUS
    <3>2. Replayed(q, i) = [q EXCEPT !.buf[q.index] = i, !.index = @ + 1, !.left = @ - 1,
                                     !.out = IF q.exec THEN Let(@, i) ELSE @]
      BY <1>1, <1>2, <1>5, <3>1, ReplayedKinds
    <3> QED BY <1>1, <1>2, <2>2, <3>1, <3>2 DEF ReplayState
  <2> HIDE DEF o
  <2>4. u \in ReplayState /\ u.out = o
    <3>1. [r.buf EXCEPT ![r.index] = i] \in [0 .. ReplaySize - 1 -> FifoInst]
      BY <1>0
    <3>2. r.index + 1 \in Int /\ r.left - 1 \in Int
      BY <1>0
    <3> DEFINE v == [r.buf EXCEPT ![r.index] = i]  x1 == r.index + 1  x2 == r.left - 1
    <3>3. u = [r EXCEPT !.buf = v, !.index = x1, !.left = x2, !.out = o]
      BY DEF ReplayState
    <3> HIDE DEF v, x1, x2, u
    <3>4. v \in [0 .. ReplaySize - 1 -> FifoInst] /\ x1 \in Int /\ x2 \in Int
      BY <3>1, <3>2 DEF v, x1, x2
    <3> QED BY <2>2, <3>3, <3>4 DEF ReplayState
  <2>5. Issued(u) = [q EXCEPT !.buf[r.index] = i, !.index = @ + 1, !.left = @ - 1, !.out = Tail(o)]
    BY <1>1 DEF Issued, ReplayState
  <2> HIDE DEF u
  <2> QED BY <2>1, <2>2, <2>3, <2>4, <2>5 DEF q
<1>6. CASE ~ r.broken /\ ~ (r.left > 0) /\ i.opcode # "REPLAY"
  <2>1. Replayed(r, i) = [r EXCEPT !.out = Let(r.out, i)]
    <3>1. Replayed(r, i) = [r EXCEPT !.out = Let(@, i)]
      BY <1>6, ReplayedKinds
    <3> QED BY <3>1
  <2>2. r.out # <<>> => Replayed(q, i) = [q EXCEPT !.out = Let(q.out, i)]
    <3>1. r.out # <<>> => Replayed(q, i) = [q EXCEPT !.out = Let(@, i)]
      BY <1>1, <1>2, <1>6, ReplayedKinds
    <3> QED BY <3>1
  <2>3. Let(r.out, i) \in Seq(FifoInst)
        /\ (r.out # <<>> => Let(r.out, i) # <<>> /\ Let(q.out, i) = Tail(Let(r.out, i)))
    BY <1>0, <1>1, LetIs
  <2>4. [r EXCEPT !.out = Let(r.out, i)] \in ReplayState
        /\ [r EXCEPT !.out = Let(r.out, i)].out = Let(r.out, i)
    BY <2>3 DEF ReplayState
  <2>5. Issued([r EXCEPT !.out = Let(r.out, i)]) = [q EXCEPT !.out = Tail(Let(r.out, i))]
    BY <1>1 DEF Issued, ReplayState
  <2> QED BY <2>1, <2>2, <2>3, <2>4, <2>5 DEF q
<1>7. CASE ~ r.broken /\ ~ (r.left > 0) /\ i.opcode = "REPLAY" /\ i.load
  <2> DEFINE u == [r EXCEPT !.index = i.start, !.left = i.len, !.exec = i.exec]
  <2>1. Replayed(r, i) = u
    BY <1>7, ReplayedKinds
  <2>2. r.out # <<>> => Replayed(q, i) = [q EXCEPT !.index = i.start, !.left = i.len, !.exec = i.exec]
    BY <1>1, <1>2, <1>7, ReplayedKinds
  <2>3. i.start \in Int /\ i.len \in Int /\ i.exec \in BOOLEAN
    BY <1>7, FifoInstKinds, FrontendAssumption DEF ReplayInst
  <2>4. u \in ReplayState /\ u.out = r.out
    BY <2>3 DEF ReplayState
  <2>5. Issued(u) = [q EXCEPT !.index = i.start, !.left = i.len, !.exec = i.exec]
    BY <1>1 DEF Issued, ReplayState
  <2> HIDE DEF u
  <2> QED BY <2>1, <2>2, <2>4, <2>5 DEF q
<1>8. CASE ~ r.broken /\ ~ (r.left > 0) /\ i.opcode = "REPLAY" /\ ~ i.load
  <2> DEFINE y == NoNops([n \in 1 .. i.len |-> r.buf[i.start + n - 1]])
  <2>1. Replayed(r, i) = [r EXCEPT !.out = r.out \o y]
    <3>1. Replayed(r, i) = [r EXCEPT !.out = @ \o y]
      BY <1>8, ReplayedKinds
    <3> HIDE DEF y
    <3> QED BY <3>1
  <2>2. r.out # <<>> => Replayed(q, i) = [q EXCEPT !.out = q.out \o y]
    <3> DEFINE z == NoNops([n \in 1 .. i.len |-> q.buf[i.start + n - 1]])
    <3>1. r.out # <<>> => Replayed(q, i) = [q EXCEPT !.out = @ \o z]
      BY <1>1, <1>2, <1>8, ReplayedKinds
    <3>2. z = y
      BY <1>1
    <3> HIDE DEF y, z
    <3> QED BY <3>1, <3>2
  <2>3. y \in Seq(FifoInst)
    BY <1>0, <1>8, FifoInstKinds, PlayedType, NoNopsType
  <2> HIDE DEF y
  <2>4. r.out \o y \in Seq(FifoInst)
        /\ (r.out # <<>> => r.out \o y # <<>> /\ q.out \o y = Tail(r.out \o y))
    BY <1>0, <1>1, <2>3, TailOfConcat
  <2>5. [r EXCEPT !.out = r.out \o y] \in ReplayState
        /\ [r EXCEPT !.out = r.out \o y].out = r.out \o y
    BY <2>4 DEF ReplayState
  <2>6. Issued([r EXCEPT !.out = r.out \o y]) = [q EXCEPT !.out = Tail(r.out \o y)]
    BY <1>1 DEF Issued, ReplayState
  <2> QED BY <2>1, <2>2, <2>4, <2>5, <2>6 DEF q
<1> QED BY <1>0, <1>3, <1>4, <1>5, <1>6, <1>7, <1>8

IssuedAll(f, n) == [k \in 0 .. n |-> Issued(f[k])]

LEMMA ThroughIssued ==
  ASSUME NEW r \in ReplayState, r.out # <<>>, NEW s \in Seq(FifoInst)
  PROVE  /\ Through(r, s).out # <<>>
         /\ Through(Issued(r), s) = Issued(Through(r, s))
<1> DEFINE N == Len(s)
<1>1. N \in Nat /\ N = Len(s) /\ \A k \in 1 .. N : s[k] \in FifoInst
  OBVIOUS
<1> HIDE DEF N
<1>2. PICK f : After(r, s, N, f)
  BY <1>1, AfterExists
<1> DEFINE T == {k \in Nat : k <= N => f[k] \in ReplayState /\ f[k].out # <<>>}
<1>3. 0 \in T
  BY <1>2 DEF After
<1>4. ASSUME NEW k \in Nat \ {0}, k - 1 \in T PROVE k \in T
  <2>1. SUFFICES ASSUME k <= N PROVE f[k] \in ReplayState /\ f[k].out # <<>>
    OBVIOUS
  <2>2. k - 1 <= N /\ k \in 1 .. N
    BY <1>1, <2>1
  <2>3. f[k - 1] \in ReplayState /\ f[k - 1].out # <<>>
    BY <1>4, <2>2
  <2>4. s[k] \in FifoInst
    BY <1>1, <2>2
  <2>5. f[k] = Replayed(f[k - 1], s[k])
    BY <1>2, <2>2 DEF After
  <2> HIDE DEF T
  <2> QED BY <2>3, <2>4, <2>5, ReplayedType
<1>5. ASSUME NEW k \in 0 .. N PROVE f[k] \in ReplayState /\ f[k].out # <<>>
  <2>1. k \in Nat /\ k <= N
    BY <1>1
  <2>2. k \in T
    <3> HIDE DEF T
    <3>1. \A j \in Nat : j \in T
      BY <1>3, <1>4, Counting
    <3> QED BY <2>1, <3>1
  <2> QED BY <2>1, <2>2
<1> HIDE DEF T
<1> DEFINE g == IssuedAll(f, N)
<1>6. /\ g = [k \in 0 .. N |-> g[k]]
      /\ \A k \in 0 .. N : g[k] = Issued(f[k])
  BY DEF IssuedAll
<1> HIDE DEF g
<1>7. g[0] = Issued(r)
  BY <1>1, <1>2, <1>6 DEF After
<1>8. ASSUME NEW k \in 1 .. N PROVE g[k] = Replayed(g[k - 1], s[k])
  <2>1. k - 1 \in 0 .. N /\ k \in 0 .. N
    BY <1>1
  <2>2. f[k] = Replayed(f[k - 1], s[k])
    BY <1>2 DEF After
  <2>3. Replayed(Issued(f[k - 1]), s[k]) = Issued(Replayed(f[k - 1], s[k]))
    BY <1>1, <1>5, <2>1, ReplayedType
  <2> QED BY <1>6, <2>1, <2>2, <2>3
<1>9. After(Issued(r), s, N, g)
  BY <1>6, <1>7, <1>8 DEF After
<1>10. Through(Issued(r), s) = g[N] /\ Through(r, s) = f[N]
  BY <1>1, <1>2, <1>9, ThroughIs
<1>11. N \in 0 .. N
  BY <1>1
<1> QED BY <1>5, <1>6, <1>10, <1>11

-----------------------------------------------------------------------------
(* The ring as a sequence.                                                 *)

LEMMA UsedIs ==
  ASSUME NEW rd \in 0 .. FifoSize - 1, NEW wr \in 0 .. FifoSize - 1
  PROVE  (wr + FifoSize - rd) % FifoSize = IF wr >= rd THEN wr - rd ELSE wr + FifoSize - rd
<1>1. wr + FifoSize - rd \in 0 .. 2 * FifoSize - 1
  BY FrontendAssumption
<1>2. CASE wr >= rd
  <2> DEFINE x == wr + FifoSize - rd
  <2>1. x >= FifoSize /\ x - FifoSize = wr - rd /\ x \in 0 .. 2 * FifoSize - 1
    BY <1>1, <1>2, FrontendAssumption
  <2> HIDE DEF x
  <2>2. x % FifoSize = wr - rd
    BY <2>1, Wrap
  <2> QED BY <1>2, <2>2 DEF x
<1>3. CASE ~ (wr >= rd)
  <2>1. wr + FifoSize - rd < FifoSize
    BY <1>3, FrontendAssumption
  <2> QED BY <1>1, <1>3, <2>1, Wrap
<1> QED BY <1>2, <1>3

\* The slots of n instructions from rd on are different ones.
LEMMA SlotsDiffer ==
  ASSUME NEW rd \in 0 .. FifoSize - 1, NEW n \in 0 .. FifoSize - 1, NEW k \in 0 .. n - 1
  PROVE  /\ (rd + k) % FifoSize \in 0 .. FifoSize - 1
         /\ (rd + n) % FifoSize \in 0 .. FifoSize - 1
         /\ (rd + k) % FifoSize # (rd + n) % FifoSize
<1>1. rd + k \in 0 .. 2 * FifoSize - 1 /\ rd + n \in 0 .. 2 * FifoSize - 1 /\ FifoSize \in Nat
  BY FrontendAssumption
<1>2. CASE rd + n < FifoSize
  <2>1. rd + k < FifoSize
    BY <1>1, <1>2
  <2> QED BY <1>1, <1>2, <2>1, Wrap
<1>3. CASE rd + n >= FifoSize
  <2>1. (rd + n) % FifoSize = rd + n - FifoSize
    BY <1>1, <1>3, Wrap
  <2>2. CASE rd + k < FifoSize
    <3>1. (rd + k) % FifoSize = rd + k
      BY <1>1, <2>2, Wrap
    <3> QED BY <1>1, <2>1, <2>2, <3>1, <1>3
  <2>3. CASE rd + k >= FifoSize
    <3>1. (rd + k) % FifoSize = rd + k - FifoSize
      BY <1>1, <2>3, Wrap
    <3> QED BY <1>1, <2>1, <2>3, <3>1, <1>3
  <2> QED BY <1>1, <2>2, <2>3
<1> QED BY <1>1, <1>2, <1>3

\* Where a pointer that wraps is after one more.
LEMMA NextSlot ==
  ASSUME NEW x \in 0 .. FifoSize - 1
  PROVE  /\ (x + 1) % FifoSize \in 0 .. FifoSize - 1
         /\ (x + 1) % FifoSize = IF x = FifoSize - 1 THEN 0 ELSE x + 1
<1>1. x + 1 \in 0 .. 2 * FifoSize - 1 /\ FifoSize \in Nat
  BY FrontendAssumption
<1> QED BY <1>1, Wrap

LEMMA UsedAfterPush ==
  ASSUME NEW rd \in 0 .. FifoSize - 1, NEW wr \in 0 .. FifoSize - 1, NEW used,
         used = (wr + FifoSize - rd) % FifoSize, used < FifoSize - 1
  PROVE  /\ used \in 0 .. FifoSize - 2
         /\ (((wr + 1) % FifoSize) + FifoSize - rd) % FifoSize = used + 1
         /\ (rd + used) % FifoSize = wr
<1>0. FifoSize \in Nat
  BY FrontendAssumption
<1>1. used = IF wr >= rd THEN wr - rd ELSE wr + FifoSize - rd
  BY UsedIs
<1>2. used \in 0 .. FifoSize - 2
  BY <1>0, <1>1
<1> DEFINE w == (wr + 1) % FifoSize
<1>3. w \in 0 .. FifoSize - 1 /\ w = IF wr = FifoSize - 1 THEN 0 ELSE wr + 1
  BY NextSlot
<1> HIDE DEF w
<1>4. (w + FifoSize - rd) % FifoSize = IF w >= rd THEN w - rd ELSE w + FifoSize - rd
  BY <1>3, UsedIs
<1>5. (w + FifoSize - rd) % FifoSize = used + 1
  <2>1. (IF w >= rd THEN w - rd ELSE w + FifoSize - rd) = used + 1
    BY <1>0, <1>1, <1>2, <1>3
  <2> QED BY <1>4, <2>1
<1>6. (rd + used) % FifoSize = wr
  <2>1. rd + used \in 0 .. 2 * FifoSize - 1
    BY <1>0, <1>2
  <2>2. CASE wr >= rd
    <3>1. rd + used = wr /\ wr < FifoSize
      BY <1>0, <1>1, <2>2
    <3> QED BY <2>1, <3>1, Wrap
  <2>3. CASE ~ (wr >= rd)
    <3>1. rd + used >= FifoSize /\ rd + used - FifoSize = wr
      BY <1>0, <1>1, <2>3
    <3> DEFINE x == rd + used
    <3>2. x \in 0 .. 2 * FifoSize - 1 /\ x >= FifoSize /\ x - FifoSize = wr
      BY <1>0, <1>2, <2>1, <3>1
    <3> HIDE DEF x
    <3>3. x % FifoSize = wr
      BY <3>2, Wrap
    <3> QED BY <3>3 DEF x
  <2> QED BY <2>2, <2>3
<1> QED BY <1>2, <1>5, <1>6 DEF w

LEMMA UsedAfterIssue ==
  ASSUME NEW rd \in 0 .. FifoSize - 1, NEW wr \in 0 .. FifoSize - 1, NEW used,
         used = (wr + FifoSize - rd) % FifoSize, rd # wr
  PROVE  /\ used \in 1 .. FifoSize - 1
         /\ (wr + FifoSize - ((rd + 1) % FifoSize)) % FifoSize = used - 1
         /\ \A k \in 0 .. used - 2 :
              (((rd + 1) % FifoSize) + k) % FifoSize = (rd + 1 + k) % FifoSize
<1>0. FifoSize \in Nat
  BY FrontendAssumption
<1>1. used = IF wr >= rd THEN wr - rd ELSE wr + FifoSize - rd
  BY UsedIs
<1>2. used \in 1 .. FifoSize - 1
  BY <1>0, <1>1
<1> DEFINE d1 == (rd + 1) % FifoSize
<1>3. d1 \in 0 .. FifoSize - 1 /\ d1 = IF rd = FifoSize - 1 THEN 0 ELSE rd + 1
  BY NextSlot
<1> HIDE DEF d1
<1>4. (wr + FifoSize - d1) % FifoSize = IF wr >= d1 THEN wr - d1 ELSE wr + FifoSize - d1
  BY <1>3, UsedIs
<1>5. (wr + FifoSize - d1) % FifoSize = used - 1
  <2>1. (IF wr >= d1 THEN wr - d1 ELSE wr + FifoSize - d1) = used - 1
    BY <1>0, <1>1, <1>2, <1>3
  <2> QED BY <1>4, <2>1
<1>6. ASSUME NEW k \in 0 .. used - 2 PROVE (d1 + k) % FifoSize = (rd + 1 + k) % FifoSize
  <2>1. CASE rd # FifoSize - 1
    BY <1>3, <2>1
  <2>2. CASE rd = FifoSize - 1
    <3>1. d1 + k = k /\ rd + 1 + k = FifoSize + k /\ k \in 0 .. FifoSize - 1
      BY <1>0, <1>2, <1>3, <2>2
    <3>2. FifoSize + k \in 0 .. 2 * FifoSize - 1 /\ k \in 0 .. 2 * FifoSize - 1
          /\ k < FifoSize /\ FifoSize + k >= FifoSize /\ FifoSize + k - FifoSize = k
      BY <1>0, <3>1
    <3> DEFINE x == FifoSize + k
    <3>3. k % FifoSize = k
      BY <3>2, Wrap
    <3>4. x % FifoSize = k
      <4>1. x \in 0 .. 2 * FifoSize - 1 /\ x >= FifoSize /\ x - FifoSize = k
        BY <1>0, <3>2
      <4> HIDE DEF x
      <4> QED BY <4>1, Wrap
    <3> QED BY <3>1, <3>3, <3>4
  <2> QED BY <2>1, <2>2
<1> QED BY <1>2, <1>5, <1>6 DEF d1

-----------------------------------------------------------------------------
(* The ring and the Replay Expander, and what is left to issue.            *)

\* The used slots of a ring, from its read pointer on.
RingOf(buf, rd, used) == [n \in 1 .. used |-> buf[(rd + n - 1) % FifoSize]]

LEMMA RingOfType ==
  ASSUME NEW buf \in [0 .. FifoSize - 1 -> FifoInst], NEW rd \in 0 .. FifoSize - 1,
         NEW used \in 0 .. FifoSize - 1
  PROVE  RingOf(buf, rd, used) \in Seq(FifoInst) /\ Len(RingOf(buf, rd, used)) = used
<1>1. used \in Nat /\ FifoSize \in Nat
  BY FrontendAssumption
<1>2. ASSUME NEW n \in 1 .. used PROVE buf[(rd + n - 1) % FifoSize] \in FifoInst
  <2>1. n \in 0 .. FifoSize - 1 /\ n - 1 \in 0 .. n - 1 /\ rd + (n - 1) = rd + n - 1
    BY <1>1
  <2> DEFINE k == n - 1
  <2>2. (rd + k) % FifoSize \in 0 .. FifoSize - 1
    <3> HIDE DEF k
    <3>1. k \in 0 .. n - 1
      BY <2>1 DEF k
    <3> QED BY <2>1, <3>1, SlotsDiffer
  <2> QED BY <2>1, <2>2
<1> QED BY <1>1, <1>2 DEF RingOf

\* Writing i at wr puts it behind the others.
PutsLast(buf, rd, wr, used, i) ==
  RingOf([buf EXCEPT ![wr] = i], rd, used + 1) = RingOf(buf, rd, used) \o <<i>>

LEMMA RingOfPushed ==
  ASSUME NEW buf \in [0 .. FifoSize - 1 -> FifoInst], NEW rd \in 0 .. FifoSize - 1,
         NEW wr \in 0 .. FifoSize - 1, NEW used, used = (wr + FifoSize - rd) % FifoSize,
         used < FifoSize - 1, NEW i \in FifoInst
  PROVE  PutsLast(buf, rd, wr, used, i)
<1> DEFINE new == [buf EXCEPT ![wr] = i]
<1>1. used \in 0 .. FifoSize - 2 /\ (rd + used) % FifoSize = wr
  BY UsedAfterPush
<1>2. FifoSize \in Nat /\ used \in Nat /\ used \in 0 .. FifoSize - 1 /\ used + 1 \in 0 .. FifoSize - 1
  BY <1>1, FrontendAssumption
<1>3. ASSUME NEW n \in 1 .. used
      PROVE  new[(rd + n - 1) % FifoSize] = buf[(rd + n - 1) % FifoSize]
  <2> DEFINE k == n - 1
  <2>1. k \in 0 .. used - 1 /\ rd + k = rd + n - 1
    BY <1>2
  <2> HIDE DEF k
  <2>2. (rd + k) % FifoSize \in 0 .. FifoSize - 1 /\ (rd + k) % FifoSize # wr
    BY <1>1, <1>2, <2>1, SlotsDiffer
  <2>3. new[(rd + k) % FifoSize] = buf[(rd + k) % FifoSize]
    BY <2>2
  <2> QED BY <2>1, <2>3
<1>4. new[(rd + (used + 1) - 1) % FifoSize] = i
  <2>1. rd + (used + 1) - 1 = rd + used
    BY <1>2
  <2>2. new[wr] = i
    OBVIOUS
  <2> QED BY <1>1, <2>1, <2>2
<1>5. new \in [0 .. FifoSize - 1 -> FifoInst]
  OBVIOUS
<1> HIDE DEF new
<1> DEFINE x == RingOf(buf, rd, used)  y == RingOf(new, rd, used + 1)
<1>6. x \in Seq(FifoInst) /\ Len(x) = used /\ y \in Seq(FifoInst) /\ Len(y) = used + 1
  BY <1>2, <1>5, RingOfType
<1>7. \A n \in 1 .. used : y[n] = x[n]
  <2>1. \A n \in 1 .. used : n \in 1 .. used + 1
    BY <1>2
  <2> QED BY <1>3, <2>1 DEF RingOf
<1>8. y[used + 1] = i
  <2>1. used + 1 \in 1 .. used + 1
    BY <1>2
  <2> QED BY <1>4, <2>1 DEF RingOf
<1> HIDE DEF x, y
<1>9. y = x \o <<i>>
  <2> DEFINE z == x \o <<i>>
  <2>1. z \in Seq(FifoInst) /\ Len(z) = used + 1 /\ z[used + 1] = i /\ \A n \in 1 .. used : z[n] = x[n]
    BY <1>6
  <2> HIDE DEF z
  <2>2. ASSUME NEW n \in 1 .. used + 1 PROVE y[n] = z[n]
    <3>1. CASE n = used + 1
      BY <1>8, <2>1, <3>1
    <3>2. CASE n # used + 1
      <4>1. n \in 1 .. used
        BY <1>2, <3>2
      <4> QED BY <1>7, <2>1, <4>1
    <3> QED BY <3>1, <3>2
  <2>3. y = z
    BY <1>6, <2>1, <2>2, SeqEqual
  <2> QED BY <2>3 DEF z
<1> QED BY <1>9 DEF x, y, new, PutsLast

LEMMA RingOfIssued ==
  ASSUME NEW buf \in [0 .. FifoSize - 1 -> FifoInst], NEW rd \in 0 .. FifoSize - 1,
         NEW wr \in 0 .. FifoSize - 1, NEW used, used = (wr + FifoSize - rd) % FifoSize,
         rd # wr
  PROVE  /\ RingOf(buf, rd, used) # <<>>
         /\ RingOf(buf, (rd + 1) % FifoSize, used - 1) = Tail(RingOf(buf, rd, used))
<1> DEFINE d1 == (rd + 1) % FifoSize
<1>1. /\ used \in 1 .. FifoSize - 1
      /\ \A k \in 0 .. used - 2 : (d1 + k) % FifoSize = (rd + 1 + k) % FifoSize
  BY UsedAfterIssue
<1>2. d1 \in 0 .. FifoSize - 1
  BY NextSlot
<1>3. FifoSize \in Nat /\ used \in Nat /\ used \in 0 .. FifoSize - 1 /\ used - 1 \in 0 .. FifoSize - 1
  BY <1>1, FrontendAssumption
<1> HIDE DEF d1
<1> DEFINE x == RingOf(buf, rd, used)  y == RingOf(buf, d1, used - 1)
<1>4. x \in Seq(FifoInst) /\ Len(x) = used /\ y \in Seq(FifoInst) /\ Len(y) = used - 1
  BY <1>2, <1>3, RingOfType
<1>5. ASSUME NEW n \in 1 .. used - 1 PROVE y[n] = x[n + 1]
  <2> DEFINE k == n - 1
  <2>1. k \in 0 .. used - 2 /\ d1 + k = d1 + n - 1 /\ rd + 1 + k = rd + (n + 1) - 1 /\ n + 1 \in 1 .. used
    BY <1>2, <1>3
  <2> HIDE DEF k
  <2>2. (d1 + k) % FifoSize = (rd + 1 + k) % FifoSize
    BY <1>1, <2>1
  <2>3. y[n] = buf[(d1 + n - 1) % FifoSize] /\ x[n + 1] = buf[(rd + (n + 1) - 1) % FifoSize]
    BY <2>1 DEF RingOf
  <2> QED BY <2>1, <2>2, <2>3
<1> HIDE DEF x, y
<1>6. x # <<>> /\ y = Tail(x)
  <2> DEFINE z == Tail(x)
  <2>1. x # <<>> /\ z \in Seq(FifoInst) /\ Len(z) = used - 1 /\ \A n \in 1 .. used - 1 : z[n] = x[n + 1]
    BY <1>1, <1>4
  <2> HIDE DEF z
  <2>2. y = z
    BY <1>4, <1>5, <2>1, SeqEqual
  <2> QED BY <2>1, <2>2 DEF z
<1> QED BY <1>6 DEF x, y, d1

LEMMA RingIs ==
  ASSUME TypeOK, NEW p \in Pipes
  PROVE  /\ Ring(p) = RingOf(inst[p], inst_rd_ptr[p], InstFifoUsed(p))
         /\ Ring(p) \in Seq(FifoInst)
         /\ InstFifoUsed(p) \in 0 .. FifoSize - 1
<1> DEFINE rd == inst_rd_ptr[p]  wr == inst_wr_ptr[p]
<1>1. rd \in 0 .. FifoSize - 1 /\ wr \in 0 .. FifoSize - 1
      /\ inst[p] \in [0 .. FifoSize - 1 -> FifoInst]
  BY DEF TypeOK
<1>2. InstFifoUsed(p) = (wr + FifoSize - rd) % FifoSize
  BY DEF InstFifoUsed
<1> HIDE DEF rd, wr
<1>3. InstFifoUsed(p) \in 0 .. FifoSize - 1
  BY <1>1, <1>2, UsedIs, FrontendAssumption
<1>4. Ring(p) = RingOf(inst[p], rd, InstFifoUsed(p))
  BY DEF Ring, RingOf, rd
<1> QED BY <1>1, <1>3, <1>4, RingOfType DEF rd

LEMMA RingSame ==
  ASSUME NEW p \in Pipes, inst'[p] = inst[p], inst_rd_ptr'[p] = inst_rd_ptr[p],
         inst_wr_ptr'[p] = inst_wr_ptr[p]
  PROVE  Ring(p)' = Ring(p)
BY DEF Ring, InstFifoUsed

\* tensix_push_inst_fifo puts an instruction that is no NOP behind the others.
LEMMA RingPushed ==
  ASSUME TypeOK, NEW p \in Pipes, NEW i \in FifoInst, InstFifoUsed(p) < FifoSize - 1,
         PushInstFifo(p, i), UNCHANGED inst_rd_ptr
  PROVE  /\ Ring(p)' = Let(Ring(p), i)
         /\ \A q \in Pipes \ {p} : inst'[q] = inst[q] /\ inst_wr_ptr'[q] = inst_wr_ptr[q]
<1>1. CASE IsNop(i)
  <2>1. UNCHANGED <<inst, inst_wr_ptr>>
    BY <1>1 DEF PushInstFifo, fifoVars
  <2>2. Ring(p)' = Ring(p)
    BY <2>1, RingSame
  <2>3. Ring(p) \in Seq(FifoInst)
    BY RingIs
  <2>4. Let(Ring(p), i) = Ring(p)
    BY <1>1, <2>3 DEF Let, Unless, Nop, IsNop
  <2> QED BY <2>1, <2>2, <2>4
<1>2. CASE ~ IsNop(i)
  <2> DEFINE rd == inst_rd_ptr[p]  wr == inst_wr_ptr[p]  used == InstFifoUsed(p)  buf == inst[p]
  <2>1. rd \in 0 .. FifoSize - 1 /\ wr \in 0 .. FifoSize - 1 /\ buf \in [0 .. FifoSize - 1 -> FifoInst]
        /\ inst \in [Pipes -> [0 .. FifoSize - 1 -> FifoInst]]
        /\ inst_wr_ptr \in [Pipes -> 0 .. FifoSize - 1]
    BY DEF TypeOK
  <2>2. used = (wr + FifoSize - rd) % FifoSize
    BY DEF InstFifoUsed
  <2>3. inst' = [inst EXCEPT ![p][wr] = i] /\ inst_wr_ptr' = [inst_wr_ptr EXCEPT ![p] = (wr + 1) % FifoSize]
    BY <1>2 DEF PushInstFifo
  <2>4. inst'[p] = [buf EXCEPT ![wr] = i] /\ inst_wr_ptr'[p] = (wr + 1) % FifoSize /\ inst_rd_ptr'[p] = rd
    BY <2>1, <2>3
  <2>5. \A q \in Pipes \ {p} : inst'[q] = inst[q] /\ inst_wr_ptr'[q] = inst_wr_ptr[q]
    BY <2>1, <2>3
  <2>6. InstFifoUsed(p)' = (((wr + 1) % FifoSize) + FifoSize - rd) % FifoSize
    BY <2>4 DEF InstFifoUsed
  <2>7. Ring(p) = RingOf(buf, rd, used)
    BY RingIs
  <2>8. Ring(p)' = RingOf([buf EXCEPT ![wr] = i], rd, InstFifoUsed(p)')
    BY <2>4 DEF Ring, RingOf
  <2>9. used < FifoSize - 1
    OBVIOUS
  <2> HIDE DEF rd, wr, used, buf
  <2>10. InstFifoUsed(p)' = used + 1
    BY <2>1, <2>2, <2>6, <2>9, UsedAfterPush
  <2>11. RingOf([buf EXCEPT ![wr] = i], rd, used + 1) = RingOf(buf, rd, used) \o <<i>>
    <3>1. PutsLast(buf, rd, wr, used, i)
      BY <2>1, <2>2, <2>9, RingOfPushed
    <3> QED BY <3>1 DEF PutsLast
  <2>12. Let(Ring(p), i) = Ring(p) \o <<i>>
    BY <1>2 DEF Let, Unless, Nop, IsNop
  <2> QED BY <2>5, <2>7, <2>8, <2>10, <2>11, <2>12
<1> QED BY <1>1, <1>2

LEMMA RingIssued ==
  ASSUME TypeOK, NEW p \in Pipes, Issue(p)
  PROVE  /\ Ring(p) # <<>> /\ Ring(p)' = Tail(Ring(p))
         /\ \A q \in Pipes \ {p} : Ring(q)' = Ring(q)
<1> DEFINE rd == inst_rd_ptr[p]  wr == inst_wr_ptr[p]  used == InstFifoUsed(p)  buf == inst[p]
<1>1. rd \in 0 .. FifoSize - 1 /\ wr \in 0 .. FifoSize - 1 /\ buf \in [0 .. FifoSize - 1 -> FifoInst]
      /\ inst_rd_ptr \in [Pipes -> 0 .. FifoSize - 1]
  BY DEF TypeOK
<1>2. used = (wr + FifoSize - rd) % FifoSize
  BY DEF InstFifoUsed
<1>3. /\ inst_rd_ptr' = [inst_rd_ptr EXCEPT ![p] = (rd + 1) % FifoSize]
      /\ rd # wr /\ inst' = inst /\ inst_wr_ptr' = inst_wr_ptr
  BY DEF Issue, fifoVars
<1>4. inst_rd_ptr'[p] = (rd + 1) % FifoSize
      /\ \A q \in Pipes \ {p} : inst_rd_ptr'[q] = inst_rd_ptr[q]
  BY <1>1, <1>3
<1>5. InstFifoUsed(p)' = (wr + FifoSize - ((rd + 1) % FifoSize)) % FifoSize
  BY <1>3, <1>4 DEF InstFifoUsed
<1>6. Ring(p) = RingOf(buf, rd, used)
  BY RingIs
<1>7. Ring(p)' = RingOf(buf, (rd + 1) % FifoSize, InstFifoUsed(p)')
  BY <1>3, <1>4 DEF Ring, RingOf
<1>8. \A q \in Pipes \ {p} : Ring(q)' = Ring(q)
  BY <1>3, <1>4, RingSame
<1> HIDE DEF rd, wr, used, buf
<1>9. InstFifoUsed(p)' = used - 1
  BY <1>1, <1>2, <1>3, <1>5, UsedAfterIssue
<1>10. /\ RingOf(buf, rd, used) # <<>>
       /\ RingOf(buf, (rd + 1) % FifoSize, used - 1) = Tail(RingOf(buf, rd, used))
  BY <1>1, <1>2, <1>3, RingOfIssued
<1> QED BY <1>6, <1>7, <1>8, <1>9, <1>10

\* What a pipe's part of the mapping reads, and what of it stays.
AtExpanderOf(buf, index, left, exec, out, broken) ==
  [buf |-> buf, index |-> index, left |-> left, exec |-> exec, out |-> out, broken |-> broken]

LEMMA PlayingType ==
  ASSUME Bounded, NEW p \in Pipes
  PROVE  /\ Playing(p) \in Seq(FifoInst) /\ Len(Playing(p)) = replay_play_left[p]
         /\ NoNops(Playing(p)) \in Seq(FifoInst)
<1> DEFINE x == replay_play_index[p]  n == replay_play_left[p]  buf == replay_buf[p]
<1>1. /\ x \in 0 .. ReplaySize /\ n \in 0 .. ReplaySize /\ x + n <= ReplaySize
      /\ buf \in [0 .. ReplaySize - 1 -> FifoInst]
  BY DEF Bounded, TypeOK, ReplayInBounds
<1> HIDE DEF x, n, buf
<1>2. \A k \in 1 .. n : x + k - 1 \in 0 .. ReplaySize - 1
  BY <1>1, FrontendAssumption
<1>3. n \in Nat
  BY <1>1, FrontendAssumption
<1>4. \A k \in 1 .. n : buf[x + k - 1] \in FifoInst
  BY <1>1, <1>2
<1>5. Playing(p) = [k \in 1 .. n |-> buf[x + k - 1]]
  BY DEF Playing, x, n, buf
<1>6. Playing(p) \in Seq(FifoInst) /\ Len(Playing(p)) = n
  BY <1>3, <1>4, <1>5
<1> QED BY <1>6, NoNopsType DEF n

LEMMA AtExpanderType ==
  ASSUME Bounded, NEW p \in Pipes
  PROVE  AtExpander(p) \in ReplayState
<1>1. Ring(p) \o NoNops(Playing(p)) \in Seq(FifoInst)
  BY RingIs, PlayingType DEF Bounded
<1>2. /\ replay_buf[p] \in [0 .. ReplaySize - 1 -> FifoInst]
      /\ replay_index[p] \in Int /\ replay_left[p] \in Int
      /\ replay_execute_while_loading[p] \in BOOLEAN
  <2>1. /\ replay_buf[p] \in [0 .. ReplaySize - 1 -> FifoInst]
        /\ replay_index[p] \in 0 .. ReplaySize /\ replay_left[p] \in 0 .. ReplaySize
        /\ replay_execute_while_loading[p] \in BOOLEAN
    BY DEF Bounded, TypeOK
  <2> QED BY <2>1
<1> QED BY <1>1, <1>2 DEF AtExpander, ReplayState

NotBroken(p) == ~ (error = "nested REPLAY" /\ expanding = p)

\* A pipe whose part of the state stays, when nothing breaks.
LEMMA AtExpanderSame ==
  ASSUME NEW q \in Pipes, Ring(q)' = Ring(q),
         replay_buf'[q] = replay_buf[q], replay_index'[q] = replay_index[q],
         replay_left'[q] = replay_left[q],
         replay_execute_while_loading'[q] = replay_execute_while_loading[q],
         replay_play_index'[q] = replay_play_index[q], replay_play_left'[q] = replay_play_left[q],
         NotBroken(q), NotBroken(q)'
  PROVE  AtExpander(q)' = AtExpander(q)
<1>1. Playing(q)' = Playing(q)
  BY DEF Playing
<1>2. NoNops(Playing(q))' = NoNops(Playing(q))
  BY <1>1 DEF NoNops
<1>3. (error' = "nested REPLAY" /\ expanding' = q) = (error = "nested REPLAY" /\ expanding = q)
  BY DEF NotBroken
<1> QED BY <1>2, <1>3 DEF AtExpander

LEMMA NonePlaying ==
  ASSUME NEW p \in Pipes, TypeOK, replay_play_left[p] = 0
  PROVE  AtExpander(p).out = Ring(p) /\ NoNops(Playing(p)) = <<>>
<1>1. Playing(p) = <<>>
  BY DEF Playing
<1>2. NoNops(<<>>) = <<>>
  <2>1. <<>> \in Seq(FifoInst) /\ Len(<<>>) = 0
    OBVIOUS
  <2> DEFINE s == [n \in 1 .. Len(<<>>) |-> Unless(Nop(<<>>[n]), <<>>[n])]
  <2>2. s \in Seq(Seq(FifoInst)) /\ Len(s) = 0
    BY <2>1, NoNopsParts DEF Parts
  <2>3. FlattenSeq(s) = <<>>
    <3> HIDE DEF s
    <3> QED BY <2>2, FlattenLast
  <2> QED BY <2>3 DEF NoNops
<1>3. Ring(p) \o <<>> = Ring(p)
  BY RingIs
<1> QED BY <1>1, <1>2, <1>3 DEF AtExpander

\* The Replay Expander does to the mapping what Replayed does, and nothing to
\* the other pipes.
LEMMA ExpanderFed ==
  ASSUME Bounded, NEW p \in Pipes, NEW i \in FifoInst, InstFifoUsed(p) < FifoSize - 1,
         ReplayExpander(p, i), error = "none", replay_play_left[p] = 0,
         UNCHANGED inst_rd_ptr, expanding' = p
  PROVE  /\ AtExpander(p)' = Replayed(AtExpander(p), i)
         /\ \A q \in Pipes \ {p} : AtExpander(q)' = AtExpander(q)
<1> DEFINE r == AtExpander(p)
<1>1. TypeOK /\ ReplayInBounds
  BY DEF Bounded
<1>2. r \in ReplayState /\ ~ r.broken
  BY AtExpanderType DEF AtExpander
<1>3. /\ r.buf = replay_buf[p] /\ r.index = replay_index[p] /\ r.left = replay_left[p]
      /\ r.exec = replay_execute_while_loading[p] /\ r.out = Ring(p) /\ r.broken = FALSE
      /\ NoNops(Playing(p)) = <<>>
  BY <1>1, NonePlaying DEF AtExpander
<1>4. replay_left[p] \in Nat /\ Ring(p) \in Seq(FifoInst) /\ Let(Ring(p), i) \in Seq(FifoInst)
  <2>1. replay_left[p] \in 0 .. ReplaySize
    BY <1>1 DEF TypeOK
  <2>2. Ring(p) \in Seq(FifoInst)
    BY <1>1, RingIs
  <2>3. Let(Ring(p), i) \in Seq(FifoInst)
    BY <2>2, LetIs
  <2> QED BY <2>1, <2>2, <2>3
<1>5. /\ replay_buf \in [Pipes -> [0 .. ReplaySize - 1 -> FifoInst]]
      /\ replay_index \in [Pipes -> 0 .. ReplaySize]
      /\ replay_left \in [Pipes -> 0 .. ReplaySize]
      /\ replay_execute_while_loading \in [Pipes -> BOOLEAN]
      /\ replay_play_index \in [Pipes -> 0 .. ReplaySize]
      /\ replay_play_left \in [Pipes -> 0 .. ReplaySize]
  BY <1>1 DEF TypeOK
<1>6. PushInstFifo(p, i) =>
        /\ Ring(p)' = Let(Ring(p), i) /\ error' = "none"
        /\ \A q \in Pipes \ {p} : Ring(q)' = Ring(q)
  <2> SUFFICES ASSUME PushInstFifo(p, i)
               PROVE  /\ Ring(p)' = Let(Ring(p), i) /\ error' = "none"
                      /\ \A q \in Pipes \ {p} : Ring(q)' = Ring(q)
    OBVIOUS
  <2>1. /\ Ring(p)' = Let(Ring(p), i)
        /\ \A q \in Pipes \ {p} : inst'[q] = inst[q] /\ inst_wr_ptr'[q] = inst_wr_ptr[q]
    BY <1>1, RingPushed
  <2>2. error' = error
    BY <1>1, PushInstFifoKeeps
  <2> QED BY <2>1, <2>2, RingSame
<1>7. UNCHANGED fifoVars => \A q \in Pipes : Ring(q)' = Ring(q)
  BY RingSame DEF fifoVars
<1>8. \A q \in Pipes : NotBroken(q)
  BY DEF NotBroken
<1>9. \A q \in Pipes \ {p} : NotBroken(q)'
  BY DEF NotBroken
<1>11. UNCHANGED playVars => NoNops(Playing(p))' = <<>>
  <2> SUFFICES ASSUME UNCHANGED playVars PROVE NoNops(Playing(p))' = <<>>
    OBVIOUS
  <2>1. Playing(p)' = <<>> /\ Playing(p) = <<>>
    BY DEF playVars, Playing
  <2> QED BY <1>3, <2>1 DEF NoNops
<1> HIDE DEF r
<1>12. CASE Record(p, i)
  <2>1. /\ replay_left[p] > 0 /\ i.opcode # "REPLAY"
        /\ replay_buf' = [replay_buf EXCEPT ![p][replay_index[p]] = i]
        /\ replay_index' = [replay_index EXCEPT ![p] = @ + 1]
        /\ replay_left' = [replay_left EXCEPT ![p] = @ - 1]
        /\ UNCHANGED <<replay_execute_while_loading, playVars>>
    BY <1>12 DEF Record
  <2>2. /\ Ring(p)' = IF replay_execute_while_loading[p] THEN Let(Ring(p), i) ELSE Ring(p)
        /\ error' = "none"
        /\ \A q \in Pipes \ {p} : Ring(q)' = Ring(q)
    <3>1. CASE replay_execute_while_loading[p]
      <4>1. PushInstFifo(p, i)
        BY <1>12, <3>1 DEF Record
      <4> QED BY <1>6, <3>1, <4>1
    <3>2. CASE ~ replay_execute_while_loading[p]
      <4>1. UNCHANGED fifoVars /\ UNCHANGED error
        BY <1>12, <3>2 DEF Record
      <4> QED BY <1>7, <3>2, <4>1
    <3> QED BY <3>1, <3>2
  <2>3. /\ replay_buf'[p] = [replay_buf[p] EXCEPT ![replay_index[p]] = i]
        /\ replay_index'[p] = replay_index[p] + 1 /\ replay_left'[p] = replay_left[p] - 1
        /\ replay_execute_while_loading'[p] = replay_execute_while_loading[p]
    BY <1>5, <2>1
  <2>4. AtExpander(p)' = AtExpanderOf([r.buf EXCEPT ![r.index] = i], r.index + 1, r.left - 1, r.exec,
                                      IF r.exec THEN Let(r.out, i) ELSE r.out, FALSE)
    <3> DEFINE o == IF r.exec THEN Let(r.out, i) ELSE r.out
    <3>1. Ring(p)' = o /\ o \in Seq(FifoInst)
      BY <1>3, <1>4, <2>2
    <3> HIDE DEF o
    <3>2. Ring(p)' \o <<>> = o
      BY <3>1
    <3>3. Ring(p)' \o NoNops(Playing(p))' = o
      BY <1>11, <2>1, <3>2
    <3>4. (error' = "nested REPLAY" /\ expanding' = p) = FALSE
      BY <2>2
    <3>5. AtExpander(p)' = AtExpanderOf(replay_buf'[p], replay_index'[p], replay_left'[p],
                                        replay_execute_while_loading'[p], o, FALSE)
      BY <3>3, <3>4 DEF AtExpander, AtExpanderOf
    <3> QED BY <1>3, <2>3, <3>5 DEF o
  <2>5. Replayed(r, i) = [r EXCEPT !.buf[r.index] = i, !.index = @ + 1, !.left = @ - 1,
                                   !.out = IF r.exec THEN Let(@, i) ELSE @]
    <3>1. r.left > 0
      BY <1>3, <2>1
    <3> QED BY <1>2, <2>1, <3>1, ReplayedKinds
  <2>6. Replayed(r, i) = AtExpanderOf([r.buf EXCEPT ![r.index] = i], r.index + 1, r.left - 1, r.exec,
                                      IF r.exec THEN Let(r.out, i) ELSE r.out, FALSE)
    BY <1>2, <2>5 DEF AtExpanderOf, ReplayState
  <2>7. \A q \in Pipes \ {p} : AtExpander(q)' = AtExpander(q)
    <3>1. \A q \in Pipes \ {p} :
            /\ replay_buf'[q] = replay_buf[q] /\ replay_index'[q] = replay_index[q]
            /\ replay_left'[q] = replay_left[q]
            /\ replay_execute_while_loading'[q] = replay_execute_while_loading[q]
            /\ replay_play_index'[q] = replay_play_index[q]
            /\ replay_play_left'[q] = replay_play_left[q]
      BY <1>5, <2>1 DEF playVars
    <3> QED BY <1>8, <1>9, <2>2, <3>1, AtExpanderSame
  <2> QED BY <2>4, <2>6, <2>7 DEF r
<1>13. CASE NestedReplay(p, i)
  <2>1. /\ replay_left[p] > 0 /\ i.opcode = "REPLAY" /\ error' = "nested REPLAY"
        /\ UNCHANGED <<fifoVars, recordVars, replay_execute_while_loading, playVars>>
    BY <1>13 DEF NestedReplay
  <2>2. \A q \in Pipes : Ring(q)' = Ring(q)
    BY <1>7, <2>1
  <2>3. AtExpander(p)' = AtExpanderOf(r.buf, r.index, r.left, r.exec, r.out, TRUE)
    <3>1. Ring(p)' \o NoNops(Playing(p))' = r.out
      <4>1. Ring(p) \o <<>> = Ring(p)
        BY <1>4
      <4> QED BY <1>3, <1>11, <2>1, <2>2, <4>1
    <3>2. (error' = "nested REPLAY" /\ expanding' = p) = TRUE
      BY <2>1
    <3> QED BY <1>3, <2>1, <3>1, <3>2 DEF AtExpander, AtExpanderOf, recordVars
  <2>4. Replayed(r, i) = [r EXCEPT !.broken = TRUE]
    <3>1. r.left > 0
      BY <1>3, <2>1
    <3> QED BY <1>2, <2>1, <3>1, ReplayedKinds
  <2>5. Replayed(r, i) = AtExpanderOf(r.buf, r.index, r.left, r.exec, r.out, TRUE)
    BY <1>2, <2>4 DEF AtExpanderOf, ReplayState
  <2>6. \A q \in Pipes \ {p} : AtExpander(q)' = AtExpander(q)
    BY <1>8, <1>9, <2>1, <2>2, AtExpanderSame DEF recordVars, playVars
  <2> QED BY <2>3, <2>5, <2>6 DEF r
<1>14. CASE StartRecording(p, i)
  <2>1. /\ replay_left[p] = 0 /\ i.opcode = "REPLAY" /\ i.load
        /\ replay_index' = [replay_index EXCEPT ![p] = i.start]
        /\ replay_left' = [replay_left EXCEPT ![p] = i.len]
        /\ replay_execute_while_loading' = [replay_execute_while_loading EXCEPT ![p] = i.exec]
        /\ UNCHANGED <<fifoVars, error, replay_buf, playVars>>
    BY <1>14 DEF StartRecording
  <2>2. \A q \in Pipes : Ring(q)' = Ring(q)
    BY <1>7, <2>1
  <2>3. AtExpander(p)' = AtExpanderOf(r.buf, i.start, i.len, i.exec, r.out, FALSE)
    <3>1. Ring(p)' \o NoNops(Playing(p))' = r.out
      <4>1. Ring(p) \o <<>> = Ring(p)
        BY <1>4
      <4> QED BY <1>3, <1>11, <2>1, <2>2, <4>1
    <3>2. (error' = "nested REPLAY" /\ expanding' = p) = FALSE
      BY <2>1
    <3>3. replay_index'[p] = i.start /\ replay_left'[p] = i.len
          /\ replay_execute_while_loading'[p] = i.exec
      BY <1>5, <2>1
    <3> QED BY <1>3, <2>1, <3>1, <3>2, <3>3 DEF AtExpander, AtExpanderOf
  <2>4. Replayed(r, i) = [r EXCEPT !.index = i.start, !.left = i.len, !.exec = i.exec]
    <3>1. ~ (r.left > 0)
      BY <1>3, <2>1
    <3> QED BY <1>2, <2>1, <3>1, ReplayedKinds
  <2>5. Replayed(r, i) = AtExpanderOf(r.buf, i.start, i.len, i.exec, r.out, FALSE)
    BY <1>2, <2>4 DEF AtExpanderOf, ReplayState
  <2>6. \A q \in Pipes \ {p} : AtExpander(q)' = AtExpander(q)
    <3>1. \A q \in Pipes \ {p} :
            /\ replay_buf'[q] = replay_buf[q] /\ replay_index'[q] = replay_index[q]
            /\ replay_left'[q] = replay_left[q]
            /\ replay_execute_while_loading'[q] = replay_execute_while_loading[q]
            /\ replay_play_index'[q] = replay_play_index[q]
            /\ replay_play_left'[q] = replay_play_left[q]
      BY <1>5, <2>1 DEF playVars
    <3> QED BY <1>8, <1>9, <2>2, <3>1, AtExpanderSame
  <2> QED BY <2>3, <2>5, <2>6 DEF r
<1>15. CASE StartPlaying(p, i)
  <2>1. /\ replay_left[p] = 0 /\ i.opcode = "REPLAY" /\ ~ i.load
        /\ replay_play_index' = [replay_play_index EXCEPT ![p] = i.start]
        /\ replay_play_left' = [replay_play_left EXCEPT ![p] = i.len]
        /\ UNCHANGED <<fifoVars, error, recordVars, replay_execute_while_loading>>
    BY <1>15 DEF StartPlaying
  <2>2. \A q \in Pipes : Ring(q)' = Ring(q)
    BY <1>7, <2>1
  <2> DEFINE y == NoNops([n \in 1 .. i.len |-> r.buf[i.start + n - 1]])
  <2>3. AtExpander(p)' = AtExpanderOf(r.buf, r.index, r.left, r.exec, r.out \o y, FALSE)
    <3>1. replay_play_index'[p] = i.start /\ replay_play_left'[p] = i.len
      BY <1>5, <2>1
    <3>2. Playing(p)' = [n \in 1 .. i.len |-> r.buf[i.start + n - 1]]
      BY <1>3, <2>1, <3>1 DEF Playing, recordVars
    <3>3. NoNops(Playing(p))' = y
      BY <3>2 DEF NoNops
    <3>4. (error' = "nested REPLAY" /\ expanding' = p) = FALSE
      BY <2>1
    <3> HIDE DEF y
    <3> QED BY <1>3, <2>1, <2>2, <3>3, <3>4 DEF AtExpander, AtExpanderOf, recordVars
  <2>4. Replayed(r, i) = [r EXCEPT !.out = @ \o y]
    <3>1. ~ (r.left > 0)
      BY <1>3, <2>1
    <3> QED BY <1>2, <2>1, <3>1, ReplayedKinds
  <2>5. Replayed(r, i) = AtExpanderOf(r.buf, r.index, r.left, r.exec, r.out \o y, FALSE)
    <3> HIDE DEF y
    <3> QED BY <1>2, <2>4 DEF AtExpanderOf, ReplayState
  <2>6. \A q \in Pipes \ {p} : AtExpander(q)' = AtExpander(q)
    <3>1. \A q \in Pipes \ {p} :
            /\ replay_buf'[q] = replay_buf[q] /\ replay_index'[q] = replay_index[q]
            /\ replay_left'[q] = replay_left[q]
            /\ replay_execute_while_loading'[q] = replay_execute_while_loading[q]
            /\ replay_play_index'[q] = replay_play_index[q]
            /\ replay_play_left'[q] = replay_play_left[q]
      BY <1>5, <2>1 DEF recordVars
    <3> QED BY <1>8, <1>9, <2>2, <3>1, AtExpanderSame
  <2> QED BY <2>3, <2>5, <2>6 DEF r
<1>16. CASE PassThrough(p, i)
  <2>1. /\ replay_left[p] = 0 /\ i.opcode # "REPLAY" /\ PushInstFifo(p, i)
        /\ UNCHANGED <<recordVars, replay_execute_while_loading, playVars>>
    BY <1>16 DEF PassThrough
  <2>2. /\ Ring(p)' = Let(Ring(p), i) /\ error' = "none"
        /\ \A q \in Pipes \ {p} : Ring(q)' = Ring(q)
    BY <1>6, <2>1
  <2>3. AtExpander(p)' = AtExpanderOf(r.buf, r.index, r.left, r.exec, Let(r.out, i), FALSE)
    <3>1. Ring(p)' \o NoNops(Playing(p))' = Let(r.out, i)
      <4>1. Let(Ring(p), i) \o <<>> = Let(Ring(p), i)
        BY <1>4
      <4> QED BY <1>3, <1>11, <2>1, <2>2, <4>1
    <3>2. (error' = "nested REPLAY" /\ expanding' = p) = FALSE
      BY <2>2
    <3> QED BY <1>3, <2>1, <3>1, <3>2 DEF AtExpander, AtExpanderOf, recordVars
  <2>4. Replayed(r, i) = [r EXCEPT !.out = Let(@, i)]
    <3>1. ~ (r.left > 0)
      BY <1>3, <2>1
    <3> QED BY <1>2, <2>1, <3>1, ReplayedKinds
  <2>5. Replayed(r, i) = AtExpanderOf(r.buf, r.index, r.left, r.exec, Let(r.out, i), FALSE)
    BY <1>2, <2>4 DEF AtExpanderOf, ReplayState
  <2>6. \A q \in Pipes \ {p} : AtExpander(q)' = AtExpander(q)
    BY <1>8, <1>9, <2>1, <2>2, AtExpanderSame DEF recordVars, playVars
  <2> QED BY <2>3, <2>5, <2>6 DEF r
<1> QED BY <1>12, <1>13, <1>14, <1>15, <1>16 DEF ReplayExpander

\* NoNops from the front.
LEMMA NoNopsFirst ==
  ASSUME NEW s \in Seq(FifoInst), NEW t \in Seq(FifoInst), Len(s) = Len(t) + 1,
         \A n \in 1 .. Len(t) : t[n] = s[n + 1]
  PROVE  NoNops(s) = Unless(Nop(s[1]), s[1]) \o NoNops(t)
<1> DEFINE fs == [n \in 1 .. Len(s) |-> Unless(Nop(s[n]), s[n])]
           ft == [n \in 1 .. Len(t) |-> Unless(Nop(t[n]), t[n])]
<1>1. Len(s) \in Nat /\ Len(t) \in Nat /\ 1 \in 1 .. Len(s)
  OBVIOUS
<1>2. Parts(FifoInst, fs) /\ Parts(FifoInst, ft)
  BY NoNopsParts
<1>3. Len(fs) = Len(s) /\ Len(ft) = Len(t)
  BY <1>1
<1>4. \A n \in 1 .. Len(t) : ft[n] = fs[n + 1]
  <2>1. \A n \in 1 .. Len(t) : n + 1 \in 1 .. Len(s)
    BY <1>1
  <2> QED BY <2>1
<1>5. fs[1] = Unless(Nop(s[1]), s[1])
  BY <1>1
<1>6. NoNops(s) = FlattenSeq(fs) /\ NoNops(t) = FlattenSeq(ft)
  BY DEF NoNops
<1> HIDE DEF fs, ft
<1>7. FlattenSeq(fs) = fs[1] \o FlattenSeq(ft)
  <2>1. Len(fs) = Len(ft) + 1 /\ \A n \in 1 .. Len(ft) : ft[n] = fs[n + 1]
    BY <1>1, <1>3, <1>4
  <2> QED BY <1>2, <2>1, FlattenFirst
<1> QED BY <1>5, <1>6, <1>7

\* An instruction that moves from the replay buffer to the FIFO issues in the
\* same place.
LEMMA EmitReplaySame ==
  ASSUME Bounded, NEW p \in Pipes, EmitReplay(p)
  PROVE  \A q \in Pipes : AtExpander(q)' = AtExpander(q)
<1> DEFINE x == replay_play_index[p]  n == replay_play_left[p]  buf == replay_buf[p]  j == buf[x]
<1>1. /\ x \in 0 .. ReplaySize /\ n \in 0 .. ReplaySize /\ x + n <= ReplaySize
      /\ buf \in [0 .. ReplaySize - 1 -> FifoInst] /\ TypeOK /\ ReplaySize \in Nat
      /\ replay_play_index \in [Pipes -> 0 .. ReplaySize]
      /\ replay_play_left \in [Pipes -> 0 .. ReplaySize]
  BY FrontendAssumption DEF Bounded, TypeOK, ReplayInBounds
<1>2. /\ n > 0 /\ InstFifoUsed(p) < FifoSize - 1 /\ PushInstFifo(p, j) /\ error = "none"
      /\ replay_play_index' = [replay_play_index EXCEPT ![p] = x + 1]
      /\ replay_play_left' = [replay_play_left EXCEPT ![p] = n - 1]
      /\ UNCHANGED <<inst_rd_ptr, recordVars, replay_execute_while_loading>>
  BY DEF EmitReplay, HasRoom
<1>3. j \in FifoInst
  <2>1. x \in 0 .. ReplaySize - 1
    BY <1>1, <1>2
  <2> QED BY <1>1, <2>1
<1>4. /\ Ring(p)' = Let(Ring(p), j)
      /\ \A q \in Pipes \ {p} : inst'[q] = inst[q] /\ inst_wr_ptr'[q] = inst_wr_ptr[q]
  BY <1>1, <1>2, <1>3, RingPushed
<1>5. error' = "none"
  BY <1>1, <1>2, <1>3, PushInstFifoKeeps
<1>6. \A q \in Pipes : NotBroken(q) /\ NotBroken(q)'
  BY <1>2, <1>5 DEF NotBroken
<1>7. ASSUME NEW q \in Pipes \ {p} PROVE AtExpander(q)' = AtExpander(q)
  <2>1. Ring(q)' = Ring(q)
    BY <1>2, <1>4, RingSame
  <2>2. /\ replay_buf'[q] = replay_buf[q] /\ replay_index'[q] = replay_index[q]
        /\ replay_left'[q] = replay_left[q]
        /\ replay_execute_while_loading'[q] = replay_execute_while_loading[q]
        /\ replay_play_index'[q] = replay_play_index[q]
        /\ replay_play_left'[q] = replay_play_left[q]
    BY <1>1, <1>2 DEF recordVars
  <2> QED BY <1>6, <2>1, <2>2, AtExpanderSame
<1>8. AtExpander(p)' = AtExpander(p)
  <2>1. replay_play_index'[p] = x + 1 /\ replay_play_left'[p] = n - 1 /\ replay_buf'[p] = buf
    BY <1>1, <1>2 DEF recordVars
  <2> DEFINE s == Playing(p)  t == [k \in 1 .. n - 1 |-> buf[x + 1 + k - 1]]
  <2>2. Playing(p)' = t
    BY <2>1 DEF Playing
  <2>3. s = [k \in 1 .. n |-> buf[x + k - 1]]
    BY DEF Playing
  <2>4. s \in Seq(FifoInst) /\ Len(s) = n
    BY PlayingType
  <2>5. n - 1 \in Nat
    BY <1>1, <1>2
  <2> HIDE DEF n, x, buf, j, s
  <2>6. \A k \in 1 .. n - 1 : t[k] = s[k + 1]
    <3>1. \A k \in 1 .. n - 1 : k + 1 \in 1 .. n /\ x + 1 + k - 1 = x + (k + 1) - 1
      BY <1>1, <2>5
    <3> QED BY <2>3, <3>1
  <2>7. t \in Seq(FifoInst) /\ Len(t) = n - 1
    <3>1. \A k \in 1 .. n - 1 : s[k + 1] \in FifoInst
      <4>1. \A k \in 1 .. n - 1 : k + 1 \in 1 .. Len(s)
        BY <1>1, <2>4
      <4> QED BY <2>4, <4>1
    <3>2. \A k \in 1 .. n - 1 : t[k] \in FifoInst
      BY <2>6, <3>1
    <3> QED BY <2>5, <3>2
  <2>8. s[1] = j
    <3>1. 1 \in 1 .. n /\ x + 1 - 1 = x
      BY <1>1, <1>2
    <3> QED BY <2>3, <3>1 DEF j
  <2> HIDE DEF t
  <2>9. NoNops(s) = Unless(Nop(j), j) \o NoNops(t)
    <3>1. Len(s) = Len(t) + 1
      BY <2>4, <2>5, <2>7
    <3>2. NoNops(s) = Unless(Nop(s[1]), s[1]) \o NoNops(t)
      BY <2>4, <2>6, <2>7, <3>1, NoNopsFirst
    <3> QED BY <2>8, <3>2
  <2>10. NoNops(Playing(p))' = NoNops(t)
    BY <2>2 DEF NoNops
  <2> DEFINE a1 == Ring(p)  b1 == Unless(Nop(j), j)  c1 == NoNops(t)
  <2>11. a1 \in Seq(FifoInst) /\ b1 \in Seq(FifoInst) /\ c1 \in Seq(FifoInst)
    BY <1>1, <1>3, <2>7, RingIs, UnlessType, NoNopsType DEF j
  <2>12. Ring(p)' = a1 \o b1
    BY <1>4 DEF Let, j, buf, x
  <2>13. Ring(p) \o NoNops(s) = a1 \o (b1 \o c1)
    BY <2>9
  <2>14. Ring(p)' \o NoNops(Playing(p))' = (a1 \o b1) \o c1
    BY <2>10, <2>12
  <2> HIDE DEF a1, b1, c1
  <2>15. a1 \o (b1 \o c1) = (a1 \o b1) \o c1
    BY <2>11, Together
  <2>16. Ring(p)' \o NoNops(Playing(p))' = Ring(p) \o NoNops(Playing(p))
    BY <2>13, <2>14, <2>15 DEF s
  <2>17. (error' = "nested REPLAY" /\ expanding' = p) = (error = "nested REPLAY" /\ expanding = p)
    BY <1>2, <1>5
  <2> QED BY <1>2, <2>16, <2>17 DEF AtExpander, recordVars
<1> QED BY <1>7, <1>8

LEMMA IssuedOf ==
  ASSUME NEW buf, NEW index, NEW left, NEW exec, NEW out, NEW broken
  PROVE  Issued(AtExpanderOf(buf, index, left, exec, out, broken))
         = AtExpanderOf(buf, index, left, exec, Tail(out), broken)
<1> DEFINE x == AtExpanderOf(buf, index, left, exec, out, broken)  t == Tail(out)
<1>1. x.out = out
  BY DEF AtExpanderOf
<1>2. Issued(x) = [x EXCEPT !.out = t]
  <2>1. Issued(x) = [x EXCEPT !.out = Tail(x.out)]
    BY DEF Issued
  <2> HIDE DEF x
  <2> QED BY <1>1, <2>1
<1> HIDE DEF t
<1>3. [x EXCEPT !.out = t] = AtExpanderOf(buf, index, left, exec, t, broken)
  BY DEF AtExpanderOf
<1> QED BY <1>2, <1>3 DEF t

\* Issuing takes the first instruction of what is left.
LEMMA IssueDrops ==
  ASSUME Bounded, NEW p \in Pipes, Issue(p)
  PROVE  /\ AtExpander(p).out # <<>>
         /\ AtExpander(p)' = Issued(AtExpander(p))
         /\ \A q \in Pipes \ {p} : AtExpander(q)' = AtExpander(q)
<1>1. /\ Ring(p) # <<>> /\ Ring(p)' = Tail(Ring(p))
      /\ \A q \in Pipes \ {p} : Ring(q)' = Ring(q)
  BY RingIssued DEF Bounded
<1>2. /\ error = "none"
      /\ UNCHANGED <<recordVars, replay_execute_while_loading, playVars, expanding, error>>
  BY DEF Issue, Quiet
<1>3. \A q \in Pipes : NotBroken(q) /\ NotBroken(q)'
  BY <1>2 DEF NotBroken
<1>4. \A q \in Pipes \ {p} : AtExpander(q)' = AtExpander(q)
  BY <1>1, <1>2, <1>3, AtExpanderSame DEF recordVars, playVars
<1>5. NoNops(Playing(p))' = NoNops(Playing(p))
  <2>1. Playing(p)' = Playing(p)
    BY <1>2 DEF Playing, recordVars, playVars
  <2> QED BY <2>1 DEF NoNops
<1> DEFINE x == Ring(p)  y == NoNops(Playing(p))
<1>6. x \in Seq(FifoInst) /\ y \in Seq(FifoInst)
  BY RingIs, PlayingType DEF Bounded
<1> HIDE DEF x, y
<1>7. x \o y # <<>> /\ Tail(x) \o y = Tail(x \o y)
  BY <1>1, <1>6, TailOfConcat DEF x
<1>8. AtExpander(p).out = x \o y
  BY DEF AtExpander, x, y
<1>9. Ring(p)' \o NoNops(Playing(p))' = Tail(x \o y)
  BY <1>1, <1>5, <1>7 DEF x, y
<1>10. AtExpander(p)' = Issued(AtExpander(p))
  <2>1. (error' = "nested REPLAY" /\ expanding' = p) = (error = "nested REPLAY" /\ expanding = p)
    BY <1>2
  <2> DEFINE z == error = "nested REPLAY" /\ expanding = p
  <2>2. AtExpander(p)' = AtExpanderOf(replay_buf[p], replay_index[p], replay_left[p],
                                      replay_execute_while_loading[p], Tail(x \o y), z)
    BY <1>2, <1>9, <2>1 DEF AtExpander, AtExpanderOf, recordVars
  <2>3. AtExpander(p) = AtExpanderOf(replay_buf[p], replay_index[p], replay_left[p],
                                     replay_execute_while_loading[p], x \o y, z)
    BY DEF AtExpander, AtExpanderOf, x, y
  <2> DEFINE u == x \o y
  <2> HIDE DEF z, u
  <2>4. AtExpander(p) = AtExpanderOf(replay_buf[p], replay_index[p], replay_left[p],
                                     replay_execute_while_loading[p], u, z)
    BY <2>3 DEF u
  <2>5. Issued(AtExpander(p)) = AtExpanderOf(replay_buf[p], replay_index[p], replay_left[p],
                                             replay_execute_while_loading[p], Tail(u), z)
    BY <2>4, IssuedOf
  <2> QED BY <2>2, <2>5 DEF u
<1> QED BY <1>4, <1>7, <1>8, <1>10

-----------------------------------------------------------------------------
(* What is left of a MOP, as the MOP Expander steps through it.            *)

\* A MOP being expanded has not run past its iterations, nor past the steps
\* of the one it is in.
InProgress(m) == m.iter < Iters(m) /\ m.step <= Steps(m, m.iter)

LEMMA FlagIs ==
  ASSUME NEW cf \in MopCfg
  PROVE  /\ Flag(cf, 0) <=> (cf.loop[1] % 2 = 1)
         /\ Flag(cf, 1) <=> ((cf.loop[1] \div 2) % 2 = 1)
<1>1. cf.loop[1] \in 0 .. MaxLoop /\ cf.loop[1] \in Nat
  BY FrontendAssumption DEF MopCfg
<1>2. 2^0 = 1 /\ 2^1 = 2
  OBVIOUS
<1>3. cf.loop[1] \div 1 = cf.loop[1]
  BY <1>1
<1> QED BY <1>2, <1>3 DEF Flag

LEMMA MopSizes ==
  ASSUME NEW m \in MopState
  PROVE  /\ Iters(m) \in Nat /\ m.iter \in Nat /\ m.step \in Nat
         /\ m.type \in {0, 1} /\ m.cfg \in MopCfg
         /\ InnerLen(m.cfg) \in 0 .. 2 * MaxLoop
         /\ \A it : Steps(m, it) \in 0 .. 2 * MaxLoop + 3
<1>1. m.type \in {0, 1} /\ m.cfg \in MopCfg /\ m.iter \in Nat /\ m.step \in Nat
      /\ m.count \in 0 .. 2 * ZBits - 1
  BY DEF MopState
<1>2. m.cfg.loop[0] \in 0 .. MaxLoop /\ m.cfg.loop[1] \in 0 .. MaxLoop /\ MaxLoop \in Nat
  BY <1>1, FrontendAssumption DEF MopCfg
<1>3. Iters(m) \in Nat
  BY <1>1, <1>2, FrontendAssumption DEF Iters
<1>4. InnerLen(m.cfg) \in 0 .. 2 * MaxLoop
  BY <1>2 DEF InnerLen
<1>5. ASSUME NEW it PROVE Steps(m, it) \in 0 .. 2 * MaxLoop + 3
  <2>1. CASE m.type = 1
    <3>1. Steps(m, it) = InnerLen(m.cfg) + 3
      BY <2>1 DEF Steps
    <3> QED BY <1>2, <1>4, <3>1
  <2>2. CASE m.type = 0
    <3>1. Flag(m.cfg, 0) => MaxLoop >= 1
      BY <1>1, <1>2, FlagIs
    <3>2. Flag(m.cfg, 1) => MaxLoop >= 2
      BY <1>1, <1>2, FlagIs
    <3>3. it \in m.zmask => Steps(m, it) \in 1 .. 2 /\ (Steps(m, it) = 2 => MaxLoop >= 1)
      BY <2>2, <3>1 DEF Steps
    <3>4. it \notin m.zmask => Steps(m, it) \in 1 .. 5 /\ (Steps(m, it) # 1 => MaxLoop >= 1)
      <4>1. it \notin m.zmask =>
              Steps(m, it) = 1 + (IF Flag(m.cfg, 1) THEN 3 ELSE 0) + (IF Flag(m.cfg, 0) THEN 1 ELSE 0)
        BY <2>2 DEF Steps
      <4> QED BY <1>2, <3>1, <3>2, <4>1
    <3> QED BY <1>2, <3>3, <3>4
  <2> QED BY <1>1, <2>1, <2>2
<1> QED BY <1>1, <1>3, <1>4, <1>5

\* Every step of a MOP reads an instruction register.
LEMMA StepTyped ==
  ASSUME NEW m \in MopState, NEW it, NEW k \in Nat, k < Steps(m, it)
  PROVE  MopStepInst(m, it, k) \in FifoInst /\ Emits(m, it, k) \in Seq(FifoInst)
<1>1. /\ m.type \in {0, 1} /\ m.cfg \in MopCfg /\ InnerLen(m.cfg) \in Nat
  BY MopSizes, FrontendAssumption
<1>2. StepReg(m, it, k) \in OpRegs
  <2>1. CASE m.type = 0
    BY <1>1, <2>1 DEF StepReg, Steps, OpRegs
  <2>2. CASE m.type = 1
    BY <1>1, <2>2 DEF StepReg, OpRegs
  <2> QED BY <1>1, <2>1, <2>2
<1>3. MopStepInst(m, it, k) \in FifoInst
  BY <1>1, <1>2 DEF MopStepInst, MopCfg
<1> QED BY <1>3 DEF Emits

\* The parts that RestOfIteration and RestOfMop put together.
StepParts(m, it, from) == [n \in 1 .. Steps(m, it) - from |-> Emits(m, it, from + n - 1)]
Part(m, n) == RestOfIteration(m, m.iter + n - 1, IF n = 1 THEN m.step ELSE 0)
MopParts(m) == [n \in 1 .. Iters(m) - m.iter |-> Part(m, n)]

LEMMA StepPartsAre ==
  ASSUME NEW m \in MopState, NEW it, NEW from \in Nat, from <= Steps(m, it)
  PROVE  /\ RestOfIteration(m, it, from) = FlattenSeq(StepParts(m, it, from))
         /\ Parts(FifoInst, StepParts(m, it, from))
         /\ Len(StepParts(m, it, from)) = Steps(m, it) - from
         /\ RestOfIteration(m, it, from) \in Seq(FifoInst)
<1> DEFINE N == Steps(m, it) - from
<1>1. Steps(m, it) \in Nat /\ N \in Nat
  <2>1. Steps(m, it) \in Nat
    BY MopSizes, FrontendAssumption
  <2> QED BY <2>1
<1>2. \A n \in 1 .. N : Emits(m, it, from + n - 1) \in Seq(FifoInst)
  <2>1. \A n \in 1 .. N : from + n - 1 \in Nat /\ from + n - 1 < Steps(m, it)
    BY <1>1
  <2> QED BY <2>1, StepTyped
<1>3. RestOfIteration(m, it, from) = FlattenSeq(StepParts(m, it, from))
  BY DEF RestOfIteration, StepParts
<1>4. StepParts(m, it, from) = [n \in 1 .. N |-> Emits(m, it, from + n - 1)]
  BY DEF StepParts
<1> HIDE DEF N
<1>5. StepParts(m, it, from) \in Seq(Seq(FifoInst)) /\ Len(StepParts(m, it, from)) = N
  BY <1>1, <1>2, <1>4
<1>6. FlattenSeq(StepParts(m, it, from)) \in Seq(FifoInst)
  BY <1>5, FlattenLast
<1> QED BY <1>3, <1>5, <1>6 DEF Parts, N

LEMMA PartIs ==
  ASSUME NEW m \in MopState, InProgress(m), NEW n \in 1 .. Iters(m) - m.iter
  PROVE  Part(m, n) \in Seq(FifoInst)
<1> DEFINE it == m.iter + n - 1  from == IF n = 1 THEN m.step ELSE 0
<1>1. from \in Nat /\ from <= Steps(m, it)
  <2>1. m.iter \in Nat /\ m.step \in Nat /\ Steps(m, it) \in Nat
    BY MopSizes, FrontendAssumption
  <2>2. n = 1 => it = m.iter
    BY <2>1
  <2> QED BY <2>1, <2>2 DEF InProgress
<1> HIDE DEF it, from
<1>2. RestOfIteration(m, it, from) \in Seq(FifoInst)
  BY <1>1, StepPartsAre
<1> QED BY <1>2 DEF Part, it, from

LEMMA MopPartsAre ==
  ASSUME NEW m \in MopState, InProgress(m)
  PROVE  /\ RestOfMop(m) = FlattenSeq(MopParts(m))
         /\ Parts(FifoInst, MopParts(m))
         /\ Len(MopParts(m)) = Iters(m) - m.iter
         /\ RestOfMop(m) \in Seq(FifoInst)
<1> DEFINE N == Iters(m) - m.iter
<1>1. N \in Nat
  BY MopSizes DEF InProgress
<1>2. \A n \in 1 .. N : Part(m, n) \in Seq(FifoInst)
  BY PartIs
<1>3. RestOfMop(m) = FlattenSeq(MopParts(m))
  BY DEF RestOfMop, MopParts, Part
<1>4. MopParts(m) = [n \in 1 .. N |-> Part(m, n)]
  BY DEF MopParts
<1> HIDE DEF N
<1>5. MopParts(m) \in Seq(Seq(FifoInst)) /\ Len(MopParts(m)) = N
  BY <1>1, <1>2, <1>4
<1>6. FlattenSeq(MopParts(m)) \in Seq(FifoInst)
  BY <1>5, FlattenLast
<1> QED BY <1>3, <1>5, <1>6 DEF Parts, N

\* Steps that are all skipped emit nothing.
LEMMA AllSkipped ==
  ASSUME NEW m \in MopState, NEW it, NEW from \in Nat, from <= Steps(m, it),
         \A k \in Nat : from <= k /\ k < Steps(m, it) => Skipped(m, it, k)
  PROVE  RestOfIteration(m, it, from) = <<>>
<1> DEFINE s == StepParts(m, it, from)
<1>1. /\ RestOfIteration(m, it, from) = FlattenSeq(s) /\ Parts(FifoInst, s)
      /\ Len(s) = Steps(m, it) - from
  BY StepPartsAre
<1>2. ASSUME NEW n \in 1 .. Len(s) PROVE s[n] = <<>>
  <2>1. Steps(m, it) \in Nat
    BY MopSizes, FrontendAssumption
  <2> DEFINE k == from + n - 1
  <2>2. k \in Nat /\ from <= k /\ k < Steps(m, it) /\ n \in 1 .. Steps(m, it) - from
    BY <1>1, <2>1
  <2>3. s[n] = Emits(m, it, k)
    BY <2>2 DEF StepParts
  <2> HIDE DEF k
  <2>4. Emits(m, it, k) = <<>>
    BY <2>2 DEF Emits
  <2> QED BY <2>3, <2>4
<1> HIDE DEF s
<1>3. FlattenSeq(s) = <<>>
  BY <1>1, <1>2, FlattenNone
<1> QED BY <1>1, <1>3

\* What is left of an iteration whose next step is k.
LEMMA NextOfIteration ==
  ASSUME NEW m \in MopState, NEW it, NEW from \in Nat, NEW k \in Nat, from <= k,
         k < Steps(m, it), ~ Skipped(m, it, k),
         \A j \in Nat : from <= j /\ j < k => Skipped(m, it, j)
  PROVE  RestOfIteration(m, it, from)
         = <<MopStepInst(m, it, k)>> \o RestOfIteration(m, it, k + 1)
<1> DEFINE s == StepParts(m, it, from)  t == StepParts(m, it, k + 1)  K == k - from + 1
<1>0. Steps(m, it) \in Nat
  BY MopSizes, FrontendAssumption
<1>1. /\ RestOfIteration(m, it, from) = FlattenSeq(s) /\ Parts(FifoInst, s)
      /\ Len(s) = Steps(m, it) - from
  BY <1>0, StepPartsAre
<1>2. /\ RestOfIteration(m, it, k + 1) = FlattenSeq(t) /\ Parts(FifoInst, t)
      /\ Len(t) = Steps(m, it) - (k + 1)
  BY <1>0, StepPartsAre
<1>3. \A n \in 1 .. Steps(m, it) - from : s[n] = Emits(m, it, from + n - 1)
  BY DEF StepParts
<1>4. \A n \in 1 .. Steps(m, it) - (k + 1) : t[n] = Emits(m, it, k + 1 + n - 1)
  BY DEF StepParts
<1>5. K \in Nat /\ K \in 1 .. Len(s) /\ Len(t) = Len(s) - K /\ from + K - 1 = k
  BY <1>0, <1>1, <1>2
<1> HIDE DEF s, t
<1>6. s[K] = <<MopStepInst(m, it, k)>>
  <2>1. s[K] = Emits(m, it, k)
    BY <1>1, <1>3, <1>5
  <2> QED BY <2>1 DEF Emits
<1>7. ASSUME NEW n \in 1 .. K - 1 PROVE s[n] = <<>>
  <2> DEFINE j == from + n - 1
  <2>1. j \in Nat /\ from <= j /\ j < k /\ n \in 1 .. Steps(m, it) - from
    BY <1>0, <1>1, <1>5
  <2>2. s[n] = Emits(m, it, j)
    BY <1>3, <2>1
  <2> HIDE DEF j
  <2>3. Emits(m, it, j) = <<>>
    BY <2>1 DEF Emits
  <2> QED BY <2>2, <2>3
<1>8. ASSUME NEW n \in 1 .. Len(t) PROVE t[n] = s[n + K]
  <2>1. n + K \in 1 .. Steps(m, it) - from /\ from + (n + K) - 1 = k + 1 + n - 1
        /\ n \in 1 .. Steps(m, it) - (k + 1)
    BY <1>0, <1>1, <1>2, <1>5
  <2>2. s[n + K] = Emits(m, it, from + (n + K) - 1)
    BY <1>3, <2>1
  <2>3. t[n] = Emits(m, it, k + 1 + n - 1)
    BY <1>4, <2>1
  <2> QED BY <2>1, <2>2, <2>3
<1> HIDE DEF K
<1>9. Skipping(s, t, K)
  <2>1. \A n \in 1 .. K - 1 : s[n] = <<>>
    BY <1>7, Zenon
  <2>2. \A n \in 1 .. Len(t) : t[n] = s[n + K]
    BY <1>8, Zenon
  <2>3. K \in 1 .. Len(s) /\ Len(t) = Len(s) - K
    BY <1>5, Zenon
  <2> QED BY <2>1, <2>2, <2>3, Zenon DEF Skipping
<1>10. FlattenSeq(s) = s[K] \o FlattenSeq(t)
  <2>1. Parts(FifoInst, s) /\ Parts(FifoInst, t)
    BY <1>1, <1>2
  <2> QED BY <1>9, <2>1, FlattenSkip
<1> QED BY <1>1, <1>2, <1>6, <1>10, Zenon

\* The MOP after mop_next has found step k of iteration it.
Advanced(m, it, k) == [m EXCEPT !.iter = it, !.step = k + 1]

LEMMA StepsLeftAre ==
  ASSUME NEW m \in MopState, NEW it \in Nat, NEW k \in Nat
  PROVE  <<it, k>> \in StepsLeft(m)
           <=> /\ m.iter <= it /\ it < Iters(m) /\ k < Steps(m, it)
               /\ (it = m.iter => m.step <= k) /\ ~ Skipped(m, it, k)
<1>1. Iters(m) \in Nat /\ m.iter \in Nat /\ Steps(m, it) \in 0 .. 2 * MaxLoop + 3 /\ MaxLoop \in Nat
      /\ m.step \in Nat
  BY MopSizes, FrontendAssumption
<1>2. k < Steps(m, it) => k \in 0 .. 2 * MaxLoop + 3
  BY <1>1
<1>3. it \in m.iter .. Iters(m) - 1 <=> m.iter <= it /\ it < Iters(m)
  BY <1>1
<1> DEFINE q == <<it, k>>
<1>4. q[1] = it /\ q[2] = k
  OBVIOUS
<1>5. q \in StepsLeft(m)
      <=> /\ it \in m.iter .. Iters(m) - 1 /\ k \in 0 .. 2 * MaxLoop + 3
          /\ k < Steps(m, it) /\ (it = m.iter => k >= m.step) /\ ~ Skipped(m, it, k)
  BY <1>4 DEF StepsLeft
<1> HIDE DEF q
<1>6. k >= m.step <=> m.step <= k
  BY <1>1
<1>7. q \in StepsLeft(m)
      <=> /\ m.iter <= it /\ it < Iters(m) /\ k < Steps(m, it)
          /\ (it = m.iter => m.step <= k) /\ ~ Skipped(m, it, k)
  BY <1>2, <1>3, <1>5, <1>6
<1> QED BY <1>7 DEF q

\* What the lexicographic minimum says.
LEMMA NextStepIs ==
  ASSUME NEW m \in MopState, NEW q \in StepsLeft(m), IsNextStep(m, q)
  PROVE  /\ q[1] \in Nat /\ q[2] \in Nat /\ m.iter <= q[1] /\ q[1] < Iters(m)
         /\ q[2] < Steps(m, q[1]) /\ ~ Skipped(m, q[1], q[2])
         /\ q[1] = m.iter => m.step <= q[2]
         /\ \A it, k \in Nat :
              /\ m.iter <= it /\ k < Steps(m, it) /\ (it = m.iter => m.step <= k)
              /\ it < q[1] \/ (it = q[1] /\ k < q[2])
              => Skipped(m, it, k)
<1>1. /\ q[1] \in m.iter .. Iters(m) - 1 /\ q[2] \in 0 .. 2 * MaxLoop + 3
      /\ q[2] < Steps(m, q[1]) /\ (q[1] = m.iter => q[2] >= m.step) /\ ~ Skipped(m, q[1], q[2])
  BY DEF StepsLeft
<1>2. m.iter \in Nat /\ Iters(m) \in Nat /\ MaxLoop \in Nat /\ m.step \in Nat
  BY MopSizes, FrontendAssumption
<1>3. q[1] \in Nat /\ q[2] \in Nat /\ m.iter <= q[1] /\ q[1] < Iters(m)
      /\ (q[1] = m.iter => m.step <= q[2])
  BY <1>1, <1>2
<1>4. ASSUME NEW it \in Nat, NEW k \in Nat, m.iter <= it, k < Steps(m, it),
             it = m.iter => m.step <= k, it < q[1] \/ (it = q[1] /\ k < q[2]),
             ~ Skipped(m, it, k)
      PROVE  FALSE
  <2> DEFINE u == <<it, k>>
  <2>1. u[1] = it /\ u[2] = k
    OBVIOUS
  <2>2. it < Iters(m)
    BY <1>2, <1>3, <1>4
  <2>3. u \in StepsLeft(m)
    BY <1>4, <2>2, StepsLeftAre
  <2> HIDE DEF u
  <2>4. q[1] < u[1] \/ (q[1] = u[1] /\ q[2] <= u[2])
    BY <2>3 DEF IsNextStep
  <2> QED BY <1>3, <1>4, <2>1, <2>4
<1>5. \A it, k \in Nat :
        /\ m.iter <= it /\ k < Steps(m, it) /\ (it = m.iter => m.step <= k)
        /\ it < q[1] \/ (it = q[1] /\ k < q[2])
        => Skipped(m, it, k)
  BY <1>4
<1> QED BY <1>1, <1>3, <1>5

\* How far a MOP has got does not change what its steps are.
LEMMA AdvancedIs ==
  ASSUME NEW m \in MopState, NEW it \in Nat, NEW k \in Nat
  PROVE  /\ Advanced(m, it, k) \in MopState
         /\ Advanced(m, it, k).iter = it /\ Advanced(m, it, k).step = k + 1
         /\ Advanced(m, it, k).busy = m.busy
         /\ Iters(Advanced(m, it, k)) = Iters(m)
         /\ \A i : Steps(Advanced(m, it, k), i) = Steps(m, i)
         /\ \A i, from : RestOfIteration(Advanced(m, it, k), i, from) = RestOfIteration(m, i, from)
<1> DEFINE n == Advanced(m, it, k)
<1>1. /\ n \in MopState /\ n.iter = it /\ n.step = k + 1 /\ n.busy = m.busy /\ n.type = m.type
      /\ n.cfg = m.cfg /\ n.zmask = m.zmask /\ n.count = m.count
  <2> DEFINE j == k + 1
  <2>1. j \in Nat
    OBVIOUS
  <2> HIDE DEF j
  <2>2. n = [m EXCEPT !.iter = it, !.step = j]
    BY DEF Advanced, j
  <2> HIDE DEF n
  <2>3. n \in MopState /\ n.iter = it /\ n.step = j /\ n.busy = m.busy /\ n.type = m.type
        /\ n.cfg = m.cfg /\ n.zmask = m.zmask /\ n.count = m.count
    BY <2>1, <2>2 DEF MopState
  <2> QED BY <2>3 DEF j
<1> HIDE DEF n
<1>2. Iters(n) = Iters(m)
  BY <1>1 DEF Iters
<1>3. ASSUME NEW i PROVE Steps(n, i) = Steps(m, i)
  BY <1>1 DEF Steps
<1>4. ASSUME NEW i, NEW j PROVE Emits(n, i, j) = Emits(m, i, j)
  <2>1. StepReg(n, i, j) = StepReg(m, i, j)
    BY <1>1 DEF StepReg
  <2>2. Skipped(n, i, j) <=> Skipped(m, i, j)
    BY <1>1 DEF Skipped
  <2> QED BY <1>1, <2>1, <2>2 DEF Emits, MopStepInst
<1>5. ASSUME NEW i, NEW from PROVE RestOfIteration(n, i, from) = RestOfIteration(m, i, from)
  <2>1. [j \in 1 .. Steps(n, i) - from |-> Emits(n, i, from + j - 1)]
        = [j \in 1 .. Steps(m, i) - from |-> Emits(m, i, from + j - 1)]
    BY <1>3, <1>4
  <2> QED BY <2>1 DEF RestOfIteration
<1> QED BY <1>1, <1>2, <1>3, <1>5 DEF n

\* mop_next takes the first instruction of what is left of the MOP.
LEMMA MopNext ==
  ASSUME NEW m \in MopState, InProgress(m), NEW q \in StepsLeft(m), IsNextStep(m, q)
  PROVE  /\ InProgress(Advanced(m, q[1], q[2]))
         /\ RestOfMop(m) = <<MopStepInst(m, q[1], q[2])>> \o RestOfMop(Advanced(m, q[1], q[2]))
<1> DEFINE it == q[1]  k == q[2]  n == Advanced(m, it, k)
<1>1. /\ it \in Nat /\ k \in Nat /\ m.iter <= it /\ it < Iters(m)
      /\ k < Steps(m, it) /\ ~ Skipped(m, it, k)
      /\ (it = m.iter => m.step <= k)
      /\ \A i, j \in Nat :
           /\ m.iter <= i /\ j < Steps(m, i) /\ (i = m.iter => m.step <= j)
           /\ i < it \/ (i = it /\ j < k)
           => Skipped(m, i, j)
  BY NextStepIs
<1> HIDE DEF it, k
<1>2. /\ n \in MopState /\ n.iter = it /\ n.step = k + 1 /\ Iters(n) = Iters(m)
      /\ \A i : Steps(n, i) = Steps(m, i)
      /\ \A i, from : RestOfIteration(n, i, from) = RestOfIteration(m, i, from)
  BY <1>1, AdvancedIs
<1> HIDE DEF n
<1>3. /\ m.iter \in Nat /\ m.step \in Nat /\ Iters(m) \in Nat
      /\ \A i : Steps(m, i) \in Nat
  BY MopSizes, FrontendAssumption
<1>4. InProgress(n)
  BY <1>1, <1>2, <1>3 DEF InProgress
<1> DEFINE s == MopParts(m)  s2 == MopParts(n)  K == it - m.iter + 1
           t == [j \in 1 .. Iters(m) - it - 1 |-> RestOfIteration(m, it + j, 0)]
           from == IF it = m.iter THEN m.step ELSE 0
<1>5. /\ RestOfMop(m) = FlattenSeq(s) /\ Parts(FifoInst, s) /\ Len(s) = Iters(m) - m.iter
  BY MopPartsAre
<1>6. /\ RestOfMop(n) = FlattenSeq(s2) /\ Parts(FifoInst, s2) /\ Len(s2) = Iters(m) - it
  BY <1>2, <1>4, MopPartsAre
<1>7. \A j \in 1 .. Iters(m) - m.iter : s[j] = Part(m, j)
  BY DEF MopParts
<1>8. \A j \in 1 .. Iters(m) - it : s2[j] = Part(n, j)
  BY <1>2 DEF MopParts
<1>9. /\ Parts(FifoInst, t) /\ Len(t) = Iters(m) - it - 1
      /\ \A j \in 1 .. Iters(m) - it - 1 : t[j] = RestOfIteration(m, it + j, 0)
  <2>1. Iters(m) - it - 1 \in Nat
    BY <1>1, <1>3
  <2>2. ASSUME NEW i PROVE RestOfIteration(m, i, 0) \in Seq(FifoInst)
    <3>1. 0 \in Nat /\ 0 <= Steps(m, i)
      BY <1>3
    <3> QED BY <3>1, StepPartsAre
  <2>3. t \in Seq(Seq(FifoInst)) /\ Len(t) = Iters(m) - it - 1
    BY <2>1, <2>2
  <2> QED BY <2>3 DEF Parts
<1> HIDE DEF s, s2, t
<1>10. K \in Nat /\ K \in 1 .. Len(s) /\ Len(t) = Len(s) - K /\ m.iter + K - 1 = it /\ Len(s2) = Len(t) + 1
  <2>1. it \in Nat /\ m.iter \in Nat /\ Iters(m) \in Nat /\ m.iter <= it /\ it < Iters(m)
    BY <1>1, <1>3
  <2>2. Len(s) = Iters(m) - m.iter /\ Len(s2) = Iters(m) - it /\ Len(t) = Iters(m) - it - 1
    BY <1>5, <1>6, <1>9
  <2>3. K \in Nat /\ K >= 1 /\ m.iter + K - 1 = it
    BY <2>1
  <2>4. K <= Iters(m) - m.iter /\ Iters(m) - it - 1 = Iters(m) - m.iter - K
    BY <2>1
  <2>5. Iters(m) - it = Iters(m) - it - 1 + 1
    BY <2>1
  <2> HIDE DEF K
  <2>6. K \in 1 .. Len(s)
    BY <2>1, <2>2, <2>3, <2>4
  <2> QED BY <2>2, <2>3, <2>4, <2>5, <2>6
<1>11. s[K] = RestOfIteration(m, it, from)
  <2>1. s[K] = Part(m, K)
    BY <1>5, <1>7, <1>10
  <2>2. K = 1 <=> it = m.iter
    BY <1>1, <1>3
  <2> HIDE DEF K
  <2>3. Part(m, K) = RestOfIteration(m, m.iter + K - 1, IF K = 1 THEN m.step ELSE 0)
    BY DEF Part
  <2> QED BY <1>10, <2>1, <2>2, <2>3
<1>12. ASSUME NEW j \in 1 .. K - 1 PROVE s[j] = <<>>
  <2> DEFINE i == m.iter + j - 1  f == IF j = 1 THEN m.step ELSE 0
  <2>1. i \in Nat /\ m.iter <= i /\ i < it /\ j \in 1 .. Iters(m) - m.iter /\ (i = m.iter <=> j = 1)
    BY <1>1, <1>3
  <2>2. f \in Nat /\ f <= Steps(m, i)
    <3>1. j = 1 => f = m.step /\ i = m.iter /\ m.step <= Steps(m, m.iter)
      BY <2>1 DEF InProgress
    <3>2. j # 1 => f = 0
      OBVIOUS
    <3> QED BY <1>3, <3>1, <3>2
  <2>3. s[j] = RestOfIteration(m, i, f)
    BY <1>7, <2>1 DEF Part
  <2>4. ASSUME NEW x \in Nat, f <= x, x < Steps(m, i) PROVE Skipped(m, i, x)
    <3>1. i = m.iter => m.step <= x
      BY <2>1, <2>4
    <3> HIDE DEF i, f
    <3> QED BY <1>1, <2>1, <2>4, <3>1
  <2> HIDE DEF i, f
  <2>5. RestOfIteration(m, i, f) = <<>>
    BY <2>2, <2>4, AllSkipped
  <2> QED BY <2>3, <2>5
<1>13. ASSUME NEW j \in 1 .. Len(t) PROVE t[j] = s[j + K]
  <2>1. j + K \in 1 .. Iters(m) - m.iter /\ m.iter + (j + K) - 1 = it + j /\ j + K # 1
        /\ j \in 1 .. Iters(m) - it - 1
    <3>1. it \in Nat /\ m.iter \in Nat /\ Iters(m) \in Nat /\ m.iter <= it /\ it < Iters(m)
      BY <1>1, <1>3
    <3>2. Len(t) = Iters(m) - it - 1
      BY <1>9
    <3> QED BY <3>1, <3>2
  <2>2. s[j + K] = Part(m, j + K)
    BY <1>7, <2>1
  <2>3. t[j] = RestOfIteration(m, it + j, 0)
    BY <1>9, <2>1
  <2> HIDE DEF K
  <2> QED BY <2>1, <2>2, <2>3 DEF Part
<1>14. RestOfMop(m) = s[K] \o FlattenSeq(t)
  <2> HIDE DEF K
  <2>1. Skipping(s, t, K)
    BY <1>10, <1>12, <1>13 DEF Skipping
  <2> QED BY <1>5, <1>9, <2>1, FlattenSkip
<1>15. s[K] = <<MopStepInst(m, it, k)>> \o RestOfIteration(m, it, k + 1)
  <2>1. from \in Nat /\ from <= k
    BY <1>1, <1>3
  <2>2. ASSUME NEW x \in Nat, from <= x, x < k PROVE Skipped(m, it, x)
    <3>1. it = m.iter => m.step <= x
      BY <2>2
    <3>2. x < Steps(m, it)
      BY <1>1, <1>3, <2>2
    <3> HIDE DEF from
    <3> QED BY <1>1, <2>2, <3>1, <3>2
  <2> HIDE DEF from
  <2> QED BY <1>1, <1>11, <2>1, <2>2, NextOfIteration
<1>16. s2[1] = RestOfIteration(m, it, k + 1)
  <2>1. 1 \in 1 .. Iters(m) - it /\ it + 1 - 1 = it
    BY <1>1, <1>3
  <2>2. Part(n, 1) = RestOfIteration(n, it, k + 1)
    BY <1>2, <2>1 DEF Part
  <2> QED BY <1>2, <1>8, <2>1, <2>2
<1>17. ASSUME NEW j \in 1 .. Len(t) PROVE t[j] = s2[j + 1]
  <2>1. j + 1 \in 1 .. Iters(m) - it /\ it + (j + 1) - 1 = it + j /\ j + 1 # 1
        /\ j \in 1 .. Iters(m) - it - 1
    BY <1>1, <1>3, <1>9
  <2>2. s2[j + 1] = Part(n, j + 1)
    BY <1>8, <2>1
  <2>3. Part(n, j + 1) = RestOfIteration(n, it + j, 0)
    BY <1>2, <2>1 DEF Part
  <2>4. t[j] = RestOfIteration(m, it + j, 0)
    BY <1>9, <2>1
  <2> QED BY <1>2, <2>2, <2>3, <2>4
<1>18. RestOfMop(n) = s2[1] \o FlattenSeq(t)
  BY <1>6, <1>9, <1>10, <1>17, FlattenFirst
<1> DEFINE x == <<MopStepInst(m, it, k)>>  y == RestOfIteration(m, it, k + 1)  z == FlattenSeq(t)
<1>19. x \in Seq(FifoInst) /\ y \in Seq(FifoInst) /\ z \in Seq(FifoInst)
  <2>1. MopStepInst(m, it, k) \in FifoInst
    BY <1>1, StepTyped
  <2>2. k + 1 \in Nat /\ k + 1 <= Steps(m, it)
    BY <1>1, <1>3
  <2>3. y \in Seq(FifoInst)
    BY <2>2, StepPartsAre
  <2>4. z \in Seq(FifoInst)
    BY <1>9, FlattenLast DEF Parts
  <2> QED BY <2>1, <2>3, <2>4
<1>20. RestOfMop(m) = (x \o y) \o z /\ RestOfMop(n) = y \o z
  BY <1>14, <1>15, <1>16, <1>18
<1> HIDE DEF x, y, z
<1>21. x \o (y \o z) = (x \o y) \o z
  BY <1>19, Together
<1>22. RestOfMop(m) = x \o RestOfMop(n)
  BY <1>20, <1>21
<1> QED BY <1>4, <1>22 DEF x, it, k, n

\* A MOP with no step left has nothing to emit.
LEMMA MopEmpty ==
  ASSUME NEW m \in MopState, InProgress(m), StepsLeft(m) = {}
  PROVE  RestOfMop(m) = <<>>
<1> DEFINE s == MopParts(m)
<1>1. /\ RestOfMop(m) = FlattenSeq(s) /\ Parts(FifoInst, s) /\ Len(s) = Iters(m) - m.iter
  BY MopPartsAre
<1>2. /\ m.iter \in Nat /\ m.step \in Nat /\ Iters(m) \in Nat
      /\ \A i : Steps(m, i) \in Nat
  BY MopSizes, FrontendAssumption
<1>3. ASSUME NEW j \in 1 .. Len(s) PROVE s[j] = <<>>
  <2> DEFINE i == m.iter + j - 1  f == IF j = 1 THEN m.step ELSE 0
  <2>1. i \in Nat /\ m.iter <= i /\ i < Iters(m) /\ j \in 1 .. Iters(m) - m.iter /\ (i = m.iter <=> j = 1)
    BY <1>1, <1>2
  <2>2. f \in Nat /\ f <= Steps(m, i)
    <3>1. j = 1 => f = m.step /\ i = m.iter /\ m.step <= Steps(m, m.iter)
      BY <2>1 DEF InProgress
    <3>2. j # 1 => f = 0
      OBVIOUS
    <3> QED BY <1>2, <3>1, <3>2
  <2>3. s[j] = RestOfIteration(m, i, f)
    BY <2>1 DEF MopParts, Part
  <2>4. ASSUME NEW x \in Nat, f <= x, x < Steps(m, i) PROVE Skipped(m, i, x)
    <3>1. i = m.iter => m.step <= x
      BY <2>1, <2>4
    <3> HIDE DEF i, f
    <3> QED BY <2>1, <2>4, <3>1, StepsLeftAre
  <2> HIDE DEF i, f
  <2>5. RestOfIteration(m, i, f) = <<>>
    BY <2>2, <2>4, AllSkipped
  <2> QED BY <2>3, <2>5
<1> HIDE DEF s
<1>4. FlattenSeq(s) = <<>>
  BY <1>1, <1>3, FlattenNone
<1> QED BY <1>1, <1>4

\* The two templates of a type 0 MOP and an iteration of a type 1 MOP, by the
\* names that TensixExpansion gives them locally.
Unmasked(cf) ==
  <<cf.op[3]>> \o (IF cf.loop[1] \in {2, 3} THEN <<cf.op[4], cf.op[5], cf.op[6]>> ELSE <<>>)
               \o Only(cf.loop[1] \in {1, 3}, cf.op[2])
Masked(cf) == <<cf.op[7]>> \o Only(cf.loop[1] \in {1, 3}, cf.op[8])

LEMMA Type0Is ==
  ASSUME NEW cf, NEW zmask, NEW count
  PROVE  Type0(cf, zmask, count)
         = FlattenSeq([n \in 1 .. count + 1 |-> IF n - 1 \in zmask THEN Masked(cf) ELSE Unmasked(cf)])
BY DEF Type0, Masked, Unmasked

Inner(cf, n) ==
  [k \in 1 .. InnerLen(cf) |->
     IF k = InnerLen(cf) THEN (IF n = cf.loop[0] THEN cf.op[7] ELSE cf.op[8])
     ELSE IF Nop(cf.op[6]) \/ k % 2 = 1 THEN cf.op[5] ELSE cf.op[6]]
Outer(cf, n) ==
  Unless(Nop(cf.op[2]), cf.op[2]) \o Inner(cf, n)
  \o Unless(Nop(cf.op[3]), cf.op[3])
  \o Unless(Nop(cf.op[3]) \/ Nop(cf.op[4]), cf.op[4])

LEMMA Type1Is ==
  ASSUME NEW cf
  PROVE  Type1(cf) = FlattenSeq([n \in 1 .. cf.loop[0] |-> Outer(cf, n)])
BY DEF Type1, Outer, Inner, InnerLen, Nop, IsNop

\* What mop_ingest accepts.
Accepted(m) ==
  IF m.type = 0 THEN m.cfg.loop[1] <= 3 ELSE m.cfg.loop[0] >= 1 /\ m.cfg.loop[1] >= 1

LEMMA OpsTyped ==
  ASSUME NEW cf \in MopCfg
  PROVE  /\ cf.op[2] \in FifoInst /\ cf.op[3] \in FifoInst /\ cf.op[4] \in FifoInst
         /\ cf.op[5] \in FifoInst /\ cf.op[6] \in FifoInst /\ cf.op[7] \in FifoInst
         /\ cf.op[8] \in FifoInst
         /\ cf.loop[0] \in Nat /\ cf.loop[1] \in Nat
BY FrontendAssumption DEF MopCfg, OpRegs

\* The two templates of a type 0 MOP, by the two flags of its configuration.
LEMMA TemplatesAre ==
  ASSUME NEW cf \in MopCfg
  PROVE  /\ Masked(cf) = IF cf.loop[1] \in {1, 3} THEN <<cf.op[7], cf.op[8]>> ELSE <<cf.op[7]>>
         /\ Unmasked(cf)
            = IF cf.loop[1] \in {2, 3}
              THEN IF cf.loop[1] \in {1, 3}
                   THEN <<cf.op[3], cf.op[4], cf.op[5], cf.op[6], cf.op[2]>>
                   ELSE <<cf.op[3], cf.op[4], cf.op[5], cf.op[6]>>
              ELSE IF cf.loop[1] \in {1, 3} THEN <<cf.op[3], cf.op[2]>> ELSE <<cf.op[3]>>
<1> DEFINE a == cf.op[2]  b == cf.op[3]  c == cf.op[4]  d == cf.op[5]  e == cf.op[6]
           f == cf.op[7]  g == cf.op[8]  P == cf.loop[1] \in {1, 3}  Q == cf.loop[1] \in {2, 3}
<1>1. /\ a \in FifoInst /\ b \in FifoInst /\ c \in FifoInst /\ d \in FifoInst
      /\ e \in FifoInst /\ f \in FifoInst /\ g \in FifoInst
  BY OpsTyped
<1>2. Masked(cf) = <<f>> \o (IF P THEN <<g>> ELSE <<>>)
  BY DEF Masked, Only
<1>3. Unmasked(cf) = <<b>> \o (IF Q THEN <<c, d, e>> ELSE <<>>) \o (IF P THEN <<a>> ELSE <<>>)
  BY DEF Unmasked, Only
<1> SUFFICES /\ Masked(cf) = IF P THEN <<f, g>> ELSE <<f>>
             /\ Unmasked(cf) = IF Q THEN IF P THEN <<b, c, d, e, a>> ELSE <<b, c, d, e>>
                               ELSE IF P THEN <<b, a>> ELSE <<b>>
  OBVIOUS
<1> HIDE DEF a, b, c, d, e, f, g, P, Q
<1>4. <<f>> \o <<>> = <<f>> /\ <<f>> \o <<g>> = <<f, g>>
  BY <1>1, JoinedTwo
<1>5. <<b>> \o <<>> = <<b>> /\ <<b>> \o <<a>> = <<b, a>>
  BY <1>1, JoinedTwo
<1>6. /\ <<b>> \o <<c, d, e>> = <<b, c, d, e>>
      /\ <<b, c, d, e>> \o <<>> = <<b, c, d, e>>
      /\ <<b, c, d, e>> \o <<a>> = <<b, c, d, e, a>>
  <2>1. <<b>> \o <<c, d, e>> = <<b, c, d, e>>
    BY <1>1, JoinedFour
  <2>2. <<b, c, d, e>> \o <<>> = <<b, c, d, e>>
    BY <1>1, JoinedFour
  <2>3. <<b, c, d, e>> \o <<a>> = <<b, c, d, e, a>>
    BY <1>1, JoinedFive
  <2> QED BY <2>1, <2>2, <2>3
<1>7. Masked(cf) = IF P THEN <<f, g>> ELSE <<f>>
  <2>1. CASE P
    BY <1>2, <1>4, <2>1
  <2>2. CASE ~ P
    BY <1>2, <1>4, <2>2
  <2> QED BY <2>1, <2>2
<1>8. Unmasked(cf) = IF Q THEN IF P THEN <<b, c, d, e, a>> ELSE <<b, c, d, e>>
                     ELSE IF P THEN <<b, a>> ELSE <<b>>
  <2>1. CASE P /\ Q
    BY <1>3, <1>6, <2>1
  <2>2. CASE ~ P /\ Q
    BY <1>3, <1>6, <2>2
  <2>3. CASE P /\ ~ Q
    BY <1>3, <1>5, <2>3
  <2>4. CASE ~ P /\ ~ Q
    BY <1>3, <1>5, <2>4
  <2> QED BY <2>1, <2>2, <2>3, <2>4
<1> QED BY <1>7, <1>8

\* An iteration of a type 0 MOP, step by step, is its template.
LEMMA IterationOfType0 ==
  ASSUME NEW m \in MopState, m.type = 0, Accepted(m), NEW it
  PROVE  RestOfIteration(m, it, 0) = IF it \in m.zmask THEN Masked(m.cfg) ELSE Unmasked(m.cfg)
<1> DEFINE cf == m.cfg  N == Steps(m, it)  s == StepParts(m, it, 0)
           x == [n \in 1 .. N |-> cf.op[StepReg(m, it, n - 1)]]
<1>1. cf \in MopCfg /\ N \in Nat
  BY MopSizes, FrontendAssumption
<1>2. /\ RestOfIteration(m, it, 0) = FlattenSeq(s) /\ Parts(FifoInst, s) /\ Len(s) = N
  BY <1>1, StepPartsAre
<1>3. cf.loop[1] \in 0 .. 3
  BY <1>1, OpsTyped DEF Accepted
<1>4. /\ Flag(cf, 0) <=> cf.loop[1] \in {1, 3}
      /\ Flag(cf, 1) <=> cf.loop[1] \in {2, 3}
  BY <1>1, <1>3, FlagIs
<1>5. ASSUME NEW n \in 1 .. N PROVE s[n] = <<x[n]>> /\ x[n] \in FifoInst
  <2>1. n \in 1 .. N - 0 /\ 0 + n - 1 = n - 1 /\ n - 1 \in Nat /\ n - 1 < N
    BY <1>1
  <2>2. s[n] = Emits(m, it, n - 1)
    BY <2>1 DEF StepParts
  <2>3. MopStepInst(m, it, n - 1) \in FifoInst
    BY <2>1, StepTyped
  <2>4. ~ Skipped(m, it, n - 1)
    BY DEF Skipped
  <2> QED BY <2>2, <2>3, <2>4 DEF Emits, MopStepInst
<1>6. x \in Seq(FifoInst) /\ Len(x) = N
  BY <1>1, <1>5
<1>7. FlattenSeq(s) = x
  <2> HIDE DEF s, x, N
  <2> QED BY <1>2, <1>5, <1>6, FlattenOnes
<1>8. /\ cf.op[2] \in FifoInst /\ cf.op[3] \in FifoInst /\ cf.op[4] \in FifoInst
      /\ cf.op[5] \in FifoInst /\ cf.op[6] \in FifoInst /\ cf.op[7] \in FifoInst
      /\ cf.op[8] \in FifoInst
  BY <1>1, OpsTyped
<1>9. \A n \in 1 .. N : x[n] = cf.op[StepReg(m, it, n - 1)]
  OBVIOUS
<1> HIDE DEF s, x
<1>10. CASE it \in m.zmask
  <2>1. N = IF Flag(cf, 0) THEN 2 ELSE 1
    BY <1>10 DEF Steps
  <2>2. \A n \in 1 .. N : x[n] = cf.op[7 + (n - 1)]
    BY <1>9, <1>10 DEF StepReg
  <2> HIDE DEF N
  <2>3. CASE Flag(cf, 0)
    <3>1. N = 2 /\ x[1] = cf.op[7] /\ x[2] = cf.op[8]
      BY <2>1, <2>2, <2>3
    <3>2. Masked(cf) = <<cf.op[7], cf.op[8]>>
      BY <1>1, <1>4, <2>3, TemplatesAre
    <3>3. x = <<cf.op[7], cf.op[8]>>
      BY <1>6, <3>1, Spelled
    <3> QED BY <1>2, <1>7, <1>10, <3>2, <3>3
  <2>4. CASE ~ Flag(cf, 0)
    <3>1. N = 1 /\ x[1] = cf.op[7]
      BY <2>1, <2>2, <2>4
    <3>2. Masked(cf) = <<cf.op[7]>>
      BY <1>1, <1>4, <2>4, TemplatesAre
    <3>3. x = <<cf.op[7]>>
      BY <1>6, <3>1, Spelled
    <3> QED BY <1>2, <1>7, <1>10, <3>2, <3>3
  <2> QED BY <2>3, <2>4
<1>11. CASE it \notin m.zmask
  <2>1. N = 1 + (IF Flag(cf, 1) THEN 3 ELSE 0) + (IF Flag(cf, 0) THEN 1 ELSE 0)
    BY <1>11 DEF Steps
  <2>2. \A n \in 1 .. N : x[n] = cf.op[IF n - 1 = 0 THEN 3
                                       ELSE IF Flag(cf, 1) /\ n - 1 <= 3 THEN 3 + (n - 1) ELSE 2]
    BY <1>9, <1>11 DEF StepReg
  <2> HIDE DEF N
  <2>3. CASE Flag(cf, 0) /\ Flag(cf, 1)
    <3>1. N = 5 /\ x[1] = cf.op[3] /\ x[2] = cf.op[4] /\ x[3] = cf.op[5] /\ x[4] = cf.op[6]
          /\ x[5] = cf.op[2]
      BY <2>1, <2>2, <2>3
    <3>2. Unmasked(cf) = <<cf.op[3], cf.op[4], cf.op[5], cf.op[6], cf.op[2]>>
      BY <1>1, <1>4, <2>3, TemplatesAre
    <3>3. x = <<cf.op[3], cf.op[4], cf.op[5], cf.op[6], cf.op[2]>>
      BY <1>6, <3>1, Spelled
    <3> QED BY <1>2, <1>7, <1>11, <3>2, <3>3
  <2>4. CASE ~ Flag(cf, 0) /\ Flag(cf, 1)
    <3>1. N = 4 /\ x[1] = cf.op[3] /\ x[2] = cf.op[4] /\ x[3] = cf.op[5] /\ x[4] = cf.op[6]
      BY <2>1, <2>2, <2>4
    <3>2. Unmasked(cf) = <<cf.op[3], cf.op[4], cf.op[5], cf.op[6]>>
      BY <1>1, <1>4, <2>4, TemplatesAre
    <3>3. x = <<cf.op[3], cf.op[4], cf.op[5], cf.op[6]>>
      BY <1>6, <3>1, Spelled
    <3> QED BY <1>2, <1>7, <1>11, <3>2, <3>3
  <2>5. CASE Flag(cf, 0) /\ ~ Flag(cf, 1)
    <3>1. N = 2 /\ x[1] = cf.op[3] /\ x[2] = cf.op[2]
      BY <2>1, <2>2, <2>5
    <3>2. Unmasked(cf) = <<cf.op[3], cf.op[2]>>
      BY <1>1, <1>4, <2>5, TemplatesAre
    <3>3. x = <<cf.op[3], cf.op[2]>>
      BY <1>6, <3>1, Spelled
    <3> QED BY <1>2, <1>7, <1>11, <3>2, <3>3
  <2>6. CASE ~ Flag(cf, 0) /\ ~ Flag(cf, 1)
    <3>1. N = 1 /\ x[1] = cf.op[3]
      BY <2>1, <2>2, <2>6
    <3>2. Unmasked(cf) = <<cf.op[3]>>
      BY <1>1, <1>4, <2>6, TemplatesAre
    <3>3. x = <<cf.op[3]>>
      BY <1>6, <3>1, Spelled
    <3> QED BY <1>2, <1>7, <1>11, <3>2, <3>3
  <2> QED BY <2>3, <2>4, <2>5, <2>6
<1> QED BY <1>10, <1>11

\* And an iteration of a type 1 MOP is a turn of its outer loop.
LEMMA IterationOfType1 ==
  ASSUME NEW m \in MopState, m.type = 1, Accepted(m), NEW it \in Nat, it < Iters(m)
  PROVE  RestOfIteration(m, it, 0) = Outer(m.cfg, it + 1)
<1> DEFINE cf == m.cfg  L == InnerLen(cf)  s == StepParts(m, it, 0)
<1>1. cf \in MopCfg /\ L \in Nat
  BY MopSizes, FrontendAssumption
<1>2. /\ cf.op[2] \in FifoInst /\ cf.op[3] \in FifoInst /\ cf.op[4] \in FifoInst
      /\ cf.op[5] \in FifoInst /\ cf.op[6] \in FifoInst /\ cf.op[7] \in FifoInst
      /\ cf.op[8] \in FifoInst
      /\ cf.loop[0] \in Nat /\ cf.loop[1] \in Nat
  BY <1>1, OpsTyped
<1>3. L >= 1
  BY <1>2 DEF Accepted, InnerLen
<1>4. Steps(m, it) = L + 3 /\ Iters(m) = cf.loop[0]
  BY DEF Steps, Iters
<1>5. /\ RestOfIteration(m, it, 0) = FlattenSeq(s) /\ Parts(FifoInst, s) /\ Len(s) = L + 3
  <2>1. 0 \in Nat /\ 0 <= Steps(m, it) /\ Steps(m, it) - 0 = L + 3
    BY <1>1, <1>4
  <2> QED BY <2>1, StepPartsAre
<1>6. \A n \in 1 .. L + 3 : s[n] = Emits(m, it, n - 1)
  <2>1. s = [n \in 1 .. Steps(m, it) - 0 |-> Emits(m, it, 0 + n - 1)]
    BY DEF StepParts
  <2> HIDE DEF s, L
  <2>2. Steps(m, it) - 0 = L + 3
    BY <1>1, <1>4
  <2>3. s = [n \in 1 .. L + 3 |-> Emits(m, it, 0 + n - 1)]
    BY <2>1, <2>2
  <2>4. ASSUME NEW n \in 1 .. L + 3 PROVE s[n] = Emits(m, it, n - 1)
    <3>1. 0 + n - 1 = n - 1
      BY <1>1
    <3>2. s[n] = Emits(m, it, 0 + n - 1)
      BY <2>3
    <3> QED BY <3>1, <3>2
  <2> QED BY <2>4
<1> HIDE DEF s
<1>7. \A k : StepReg(m, it, k)
             = CASE k = 0        -> 2
                 [] k \in 1 .. L - 1 -> IF k % 2 = 0 /\ ~IsNop(cf.op[6]) THEN 6 ELSE 5
                 [] k = L /\ L > 0 -> IF it + 1 < cf.loop[0] THEN 8 ELSE 7
                 [] k = L + 1 /\ k > 0 -> 3
                 [] OTHER           -> 4
  BY DEF StepReg
<1>8. \A k : Skipped(m, it, k) <=> \/ k = 0 /\ IsNop(cf.op[2])
                                   \/ k = L + 1 /\ IsNop(cf.op[3])
                                   \/ k = L + 2 /\ (IsNop(cf.op[3]) \/ IsNop(cf.op[4]))
  BY DEF Skipped
<1> HIDE DEF L
<1>9. s[1] = Unless(Nop(cf.op[2]), cf.op[2])
  <2>1. s[1] = Emits(m, it, 0)
    <3>1. 1 \in 1 .. L + 3 /\ 1 - 1 = 0
      BY <1>1
    <3> QED BY <1>6, <3>1
  <2>2. StepReg(m, it, 0) = 2
    BY <1>7
  <2>3. Skipped(m, it, 0) <=> IsNop(cf.op[2])
    BY <1>1, <1>8
  <2> QED BY <2>1, <2>2, <2>3 DEF Emits, MopStepInst, Unless, Nop, IsNop
<1>10. s[L + 2] = Unless(Nop(cf.op[3]), cf.op[3])
  <2>1. s[L + 2] = Emits(m, it, L + 1)
    <3> DEFINE n == L + 2
    <3>1. n \in 1 .. L + 3 /\ n - 1 = L + 1
      BY <1>1
    <3> HIDE DEF n
    <3>2. s[n] = Emits(m, it, L + 1)
      BY <1>6, <3>1
    <3> QED BY <3>2 DEF n
  <2>2. StepReg(m, it, L + 1) = 3
    <3>1. L + 1 # 0 /\ L + 1 \notin 1 .. L - 1 /\ L + 1 # L /\ L + 1 > 0
      BY <1>1
    <3> QED BY <1>7, <3>1
  <2>3. Skipped(m, it, L + 1) <=> IsNop(cf.op[3])
    BY <1>1, <1>8
  <2> QED BY <2>1, <2>2, <2>3 DEF Emits, MopStepInst, Unless, Nop, IsNop
<1>11. s[L + 3] = Unless(Nop(cf.op[3]) \/ Nop(cf.op[4]), cf.op[4])
  <2>1. s[L + 3] = Emits(m, it, L + 2)
    <3> DEFINE n == L + 3
    <3>1. n \in 1 .. L + 3 /\ n - 1 = L + 2
      BY <1>1
    <3> HIDE DEF n
    <3>2. s[n] = Emits(m, it, L + 2)
      BY <1>6, <3>1
    <3> QED BY <3>2 DEF n
  <2>2. StepReg(m, it, L + 2) = 4
    <3>1. L + 2 # 0 /\ L + 2 \notin 1 .. L - 1 /\ L + 2 # L /\ L + 2 # L + 1
      BY <1>1
    <3> QED BY <1>7, <3>1
  <2>3. Skipped(m, it, L + 2) <=> IsNop(cf.op[3]) \/ IsNop(cf.op[4])
    BY <1>1, <1>8
  <2> QED BY <2>1, <2>2, <2>3 DEF Emits, MopStepInst, Unless, Nop, IsNop
<1> DEFINE x == Inner(cf, it + 1)
<1>12. \A k \in 1 .. L : x[k] = IF k = L THEN (IF it + 1 = cf.loop[0] THEN cf.op[7] ELSE cf.op[8])
                                ELSE IF Nop(cf.op[6]) \/ k % 2 = 1 THEN cf.op[5] ELSE cf.op[6]
  BY DEF Inner, L
<1>13. x \in Seq(FifoInst) /\ Len(x) = L
  <2>1. \A k \in 1 .. L : x[k] \in FifoInst
    BY <1>2, <1>12
  <2>2. x = [k \in 1 .. L |-> x[k]]
    BY DEF Inner, L
  <2> HIDE DEF x
  <2> QED BY <1>1, <2>1, <2>2
<1> HIDE DEF x
<1>14. ASSUME NEW k \in 1 .. L PROVE s[k + 1] = <<x[k]>>
  <2>1. s[k + 1] = Emits(m, it, k)
    <3>1. k + 1 \in 1 .. L + 3 /\ k + 1 - 1 = k
      BY <1>1
    <3> QED BY <1>6, <3>1
  <2>2. k \in Nat /\ k # 0 /\ k # L + 1 /\ k # L + 2
    BY <1>1
  <2>3. ~ Skipped(m, it, k)
    BY <1>8, <2>2
  <2>4. cf.op[StepReg(m, it, k)] = x[k]
    <3>1. CASE k = L
      <4>1. StepReg(m, it, k) = IF it + 1 < cf.loop[0] THEN 8 ELSE 7
        <5>1. k \notin 1 .. L - 1 /\ L > 0
          BY <1>1, <1>3, <3>1
        <5> QED BY <1>7, <2>2, <3>1, <5>1
      <4>2. it + 1 < cf.loop[0] <=> it + 1 # cf.loop[0]
        BY <1>2, <1>4
      <4> QED BY <1>12, <3>1, <4>1, <4>2
    <3>2. CASE k # L
      <4>1. k \in 1 .. L - 1
        BY <1>1, <3>2
      <4>2. StepReg(m, it, k) = IF k % 2 = 0 /\ ~IsNop(cf.op[6]) THEN 6 ELSE 5
        BY <1>7, <2>2, <4>1
      <4>3. k % 2 = 0 <=> k % 2 # 1
        BY <2>2
      <4> QED BY <1>12, <3>2, <4>2, <4>3 DEF Nop, IsNop
    <3> QED BY <3>1, <3>2
  <2> QED BY <2>1, <2>3, <2>4 DEF Emits, MopStepInst
\* The parts in order: the start, the inner loop, the two ends.
<1> DEFINE t == [n \in 1 .. L |-> s[n + 1]]
           s1 == [n \in 1 .. L + 1 |-> s[n]]
           s2 == [n \in 1 .. L + 2 |-> s[n]]
<1>15. \A n \in 1 .. L + 3 : s[n] \in Seq(FifoInst)
  BY <1>5 DEF Parts
<1>16. Parts(FifoInst, t) /\ Len(t) = L /\ \A n \in 1 .. L : t[n] = s[n + 1]
  <2>1. \A n \in 1 .. L : s[n + 1] \in Seq(FifoInst)
    <3>1. \A n \in 1 .. L : n + 1 \in 1 .. L + 3
      BY <1>1
    <3> QED BY <1>15, <3>1
  <2> QED BY <1>1, <2>1 DEF Parts
<1>17. Parts(FifoInst, s1) /\ Len(s1) = L + 1 /\ \A n \in 1 .. L + 1 : s1[n] = s[n]
  <2>1. \A n \in 1 .. L + 1 : s[n] \in Seq(FifoInst)
    <3>1. \A n \in 1 .. L + 1 : n \in 1 .. L + 3
      BY <1>1
    <3> QED BY <1>15, <3>1
  <2>2. L + 1 \in Nat
    BY <1>1
  <2> QED BY <2>1, <2>2 DEF Parts
<1>18. Parts(FifoInst, s2) /\ Len(s2) = L + 2 /\ \A n \in 1 .. L + 2 : s2[n] = s[n]
  <2>1. \A n \in 1 .. L + 2 : s[n] \in Seq(FifoInst)
    <3>1. \A n \in 1 .. L + 2 : n \in 1 .. L + 3
      BY <1>1
    <3> QED BY <1>15, <3>1
  <2>2. L + 2 \in Nat
    BY <1>1
  <2> QED BY <2>1, <2>2 DEF Parts
<1> HIDE DEF t, s1, s2
<1>19. FlattenSeq(t) = x
  <2>1. \A n \in 1 .. Len(t) : t[n] = <<x[n]>>
    BY <1>14, <1>16
  <2> QED BY <1>13, <1>16, <2>1, FlattenOnes
<1>20. FlattenSeq(s1) = s[1] \o x
  <2>1. Len(s1) = Len(t) + 1
    BY <1>16, <1>17
  <2>2. \A n \in 1 .. Len(t) : t[n] = s1[n + 1]
    <3>1. \A n \in 1 .. L : n + 1 \in 1 .. L + 1
      BY <1>1
    <3> QED BY <1>16, <1>17, <3>1
  <2>3. s1[1] = s[1]
    <3>1. 1 \in 1 .. L + 1
      BY <1>1
    <3> QED BY <1>17, <3>1
  <2>4. FlattenSeq(s1) = s1[1] \o FlattenSeq(t)
    BY <1>16, <1>17, <2>1, <2>2, FlattenFirst
  <2> QED BY <1>19, <2>3, <2>4
<1>21. FlattenSeq(s2) = FlattenSeq(s1) \o s[L + 2]
  <2>1. Len(s2) = Len(s1) + 1 /\ L + 2 \in 1 .. L + 2
    BY <1>1, <1>17, <1>18
  <2>2. \A n \in 1 .. Len(s1) : s2[n] = s1[n]
    <3>1. \A n \in 1 .. L + 1 : n \in 1 .. L + 2
      BY <1>1
    <3> QED BY <1>17, <1>18, <3>1
  <2>3. FlattenSeq(s2) = FlattenSeq(s1) \o s2[Len(s2)]
    BY <1>17, <1>18, <2>1, <2>2, FlattenLast DEF Parts
  <2> QED BY <1>18, <2>1, <2>3
<1>22. FlattenSeq(s) = FlattenSeq(s2) \o s[L + 3]
  <2>1. Len(s) = Len(s2) + 1
    BY <1>1, <1>5, <1>18
  <2>2. \A n \in 1 .. Len(s2) : s[n] = s2[n]
    BY <1>18
  <2>3. FlattenSeq(s) = FlattenSeq(s2) \o s[Len(s)]
    BY <1>5, <1>18, <2>1, <2>2, FlattenLast DEF Parts
  <2> QED BY <1>5, <2>3
<1>23. RestOfIteration(m, it, 0)
       = ((Unless(Nop(cf.op[2]), cf.op[2]) \o x) \o Unless(Nop(cf.op[3]), cf.op[3]))
         \o Unless(Nop(cf.op[3]) \/ Nop(cf.op[4]), cf.op[4])
  BY <1>5, <1>9, <1>10, <1>11, <1>20, <1>21, <1>22
<1> QED BY <1>23 DEF Outer, x

\* The state in which mop_ingest leaves the MOP Expander.
Ingested(cf, hi, i) ==
  [busy |-> TRUE, type |-> i.type, count |-> i.count, zmask |-> i.zlo \cup hi, cfg |-> cf,
   iter |-> 0, step |-> 0]

Ingestible(cf, hi, i) ==
  cf \in MopCfg /\ hi \in SUBSET (ZBits .. 2*ZBits - 1) /\ i \in MopInst

LEMMA IngestedIs ==
  ASSUME NEW cf, NEW hi, NEW i, Ingestible(cf, hi, i)
  PROVE  /\ Ingested(cf, hi, i) \in MopState
         /\ Ingested(cf, hi, i).busy /\ Ingested(cf, hi, i).type = i.type
         /\ Ingested(cf, hi, i).count = i.count /\ Ingested(cf, hi, i).zmask = i.zlo \cup hi
         /\ Ingested(cf, hi, i).cfg = cf
         /\ Ingested(cf, hi, i).iter = 0 /\ Ingested(cf, hi, i).step = 0
         /\ i.type \in {0, 1} /\ i.count \in Nat
<1>0. cf \in MopCfg /\ hi \in SUBSET (ZBits .. 2*ZBits - 1) /\ i \in MopInst
  BY DEF Ingestible
<1>1. i.type \in {0, 1} /\ i.count \in 0 .. 2*ZBits - 1 /\ i.zlo \subseteq 0 .. ZBits - 1
  BY <1>0 DEF MopInst
<1>2. i.zlo \cup hi \subseteq 0 .. 2*ZBits - 1
  <2>1. 0 .. ZBits - 1 \subseteq 0 .. 2*ZBits - 1 /\ ZBits .. 2*ZBits - 1 \subseteq 0 .. 2*ZBits - 1
    BY FrontendAssumption
  <2> QED BY <1>0, <1>1, <2>1
<1>3. i.count \in Nat
  BY <1>1, FrontendAssumption
<1> QED BY <1>0, <1>1, <1>2, <1>3 DEF Ingested, MopState

\* A MOP just ingested has its whole expansion left.
LEMMA IngestedExpands ==
  ASSUME NEW cf, NEW hi, NEW i, Ingestible(cf, hi, i), Accepted(Ingested(cf, hi, i))
  PROVE  /\ InProgress(Ingested(cf, hi, i))
         /\ RestOfMop(Ingested(cf, hi, i)) = Expansion(cf, hi, i)
         /\ Expansion(cf, hi, i) \in Seq(FifoInst)
<1> DEFINE m == Ingested(cf, hi, i)
<1>1. /\ m \in MopState /\ m.type = i.type /\ m.count = i.count /\ m.zmask = i.zlo \cup hi
      /\ m.cfg = cf /\ m.iter = 0 /\ m.step = 0 /\ Accepted(m)
      /\ i.type \in {0, 1} /\ i.count \in Nat
  BY IngestedIs
<1> HIDE DEF m
<1>2. /\ Iters(m) \in Nat /\ \A it : Steps(m, it) \in Nat
  BY <1>1, MopSizes, FrontendAssumption
<1>3. cf.loop[0] \in Nat
  BY OpsTyped DEF Ingestible
<1>4. Iters(m) >= 1
  BY <1>1, <1>3 DEF Iters, Accepted
<1>5. InProgress(m)
  BY <1>1, <1>2, <1>4 DEF InProgress
<1>6. MopParts(m) = [n \in 1 .. Iters(m) |-> RestOfIteration(m, n - 1, 0)]
  <2>1. Iters(m) - m.iter = Iters(m)
    BY <1>1, <1>2
  <2>2. ASSUME NEW n \in 1 .. Iters(m) PROVE Part(m, n) = RestOfIteration(m, n - 1, 0)
    <3>1. m.iter + n - 1 = n - 1
      BY <1>1
    <3>2. (IF n = 1 THEN m.step ELSE 0) = 0
      BY <1>1
    <3> QED BY <3>1, <3>2 DEF Part
  <2> QED BY <2>1, <2>2 DEF MopParts
<1>7. RestOfMop(m) = FlattenSeq(MopParts(m)) /\ RestOfMop(m) \in Seq(FifoInst)
  BY <1>1, <1>5, MopPartsAre
<1>8. FlattenSeq(MopParts(m)) = Expansion(cf, hi, i)
  <2>1. CASE i.type = 0
    <3>1. Iters(m) = i.count + 1
      BY <1>1, <2>1 DEF Iters
    <3>2. ASSUME NEW n \in 1 .. i.count + 1
          PROVE  RestOfIteration(m, n - 1, 0)
                 = IF n - 1 \in i.zlo \cup hi THEN Masked(cf) ELSE Unmasked(cf)
      <4> DEFINE it == n - 1
      <4> HIDE DEF it
      <4>1. RestOfIteration(m, it, 0) = IF it \in m.zmask THEN Masked(m.cfg) ELSE Unmasked(m.cfg)
        BY <1>1, <2>1, IterationOfType0
      <4> QED BY <1>1, <4>1 DEF it
    <3>3. MopParts(m) = [n \in 1 .. i.count + 1 |->
                           IF n - 1 \in i.zlo \cup hi THEN Masked(cf) ELSE Unmasked(cf)]
      BY <1>6, <3>1, <3>2
    <3>4. Expansion(cf, hi, i) = Type0(cf, i.zlo \cup hi, i.count)
      BY <2>1 DEF Expansion
    <3> QED BY <3>3, <3>4, Type0Is
  <2>2. CASE i.type = 1
    <3>1. Iters(m) = cf.loop[0]
      BY <1>1, <2>2 DEF Iters
    <3>2. ASSUME NEW n \in 1 .. cf.loop[0] PROVE RestOfIteration(m, n - 1, 0) = Outer(cf, n)
      <4> DEFINE it == n - 1
      <4>1. it \in Nat /\ it < Iters(m) /\ it + 1 = n
        BY <1>3, <3>1
      <4> HIDE DEF it
      <4>2. RestOfIteration(m, it, 0) = Outer(m.cfg, it + 1)
        BY <1>1, <2>2, <4>1, IterationOfType1
      <4> QED BY <1>1, <4>1, <4>2 DEF it
    <3>3. MopParts(m) = [n \in 1 .. cf.loop[0] |-> Outer(cf, n)]
      BY <1>6, <3>1, <3>2
    <3>4. Expansion(cf, hi, i) = Type1(cf)
      BY <2>2 DEF Expansion
    <3> QED BY <3>3, <3>4, Type1Is
  <2> QED BY <1>1, <2>1, <2>2
<1> QED BY <1>5, <1>7, <1>8 DEF m

-----------------------------------------------------------------------------
(* The whole pipe: what is left of the MOP behind the Replay Expander.     *)

\* Every MOP being expanded is within its bounds.
MopProgress == \A p \in Pipes : mop[p].busy => InProgress(mop[p])

\* What is left of the MOP in a pipe.
Waiting(p) == IF mop[p].busy THEN RestOfMop(mop[p]) ELSE <<>>

LEMMA WaitingType ==
  ASSUME Bounded, MopProgress, NEW p \in Pipes
  PROVE  Waiting(p) \in Seq(FifoInst) /\ Drained(p) = Through(AtExpander(p), Waiting(p))
<1>1. mop[p] \in MopState
  BY DEF Bounded, TypeOK
<1>2. Waiting(p) \in Seq(FifoInst)
  BY <1>1, MopPartsAre DEF Waiting, MopProgress
<1> QED BY <1>2 DEF Waiting, Drained

\* A single instruction through the Replay Expander.
LEMMA ThroughOne ==
  ASSUME NEW r, NEW i \in FifoInst
  PROVE  Through(r, <<i>>) = Replayed(r, i)
<1>1. <<>> \in Seq(FifoInst) /\ <<i>> \o <<>> = <<i>>
  OBVIOUS
<1>2. Through(r, <<i>> \o <<>>) = Through(Replayed(r, i), <<>>)
  BY <1>1, ThroughFirst
<1> QED BY <1>1, <1>2, ThroughNone

\* A pipe with the same expanders and the same MOP has the same to issue.
LEMMA DrainedSame ==
  ASSUME NEW q \in Pipes, AtExpander(q)' = AtExpander(q), mop'[q] = mop[q]
  PROVE  Drained(q)' = Drained(q)
<1> DEFINE w == IF mop[q].busy THEN RestOfMop(mop[q]) ELSE <<>>
<1>1. w' = w
  BY DEF RestOfMop, RestOfIteration, Emits, Iters, Steps, MopStepInst, StepReg, Skipped, Flag,
         InnerLen, IsNop
<1> QED BY <1>1 DEF Drained

LEMMA StreamFed ==
  ASSUME NEW p \in Pipes, NEW s, Drained(p)' = Through(Drained(p), s),
         \A q \in Pipes \ {p} : Drained(q)' = Drained(q)
  PROVE  Stream!Feed(p, s)
<1>1. [q \in Pipes |-> Drained(q)]' = [q \in Pipes |-> Drained(q)']
  OBVIOUS
<1>2. [q \in Pipes |-> Drained(q)'] = [[q \in Pipes |-> Drained(q)] EXCEPT ![p] = Through(@, s)]
  <2> DEFINE x == Through(Drained(p), s)
  <2>1. [[q \in Pipes |-> Drained(q)] EXCEPT ![p] = Through(@, s)]
        = [[q \in Pipes |-> Drained(q)] EXCEPT ![p] = x]
    OBVIOUS
  <2> HIDE DEF x
  <2>2. Drained(p)' = x
    BY DEF x
  <2>3. [q \in Pipes |-> Drained(q)'] = [[q \in Pipes |-> Drained(q)] EXCEPT ![p] = x]
    BY <2>2
  <2> QED BY <2>1, <2>3
<1> QED BY <1>1, <1>2, SameThrough DEF Stream!Feed

LEMMA StreamKept ==
  ASSUME \A q \in Pipes : Drained(q)' = Drained(q)
  PROVE  [q \in Pipes |-> Drained(q)]' = [q \in Pipes |-> Drained(q)]
OBVIOUS

\* With no MOP in progress nothing waits behind the Replay Expander.
LEMMA NoMop ==
  ASSUME NEW p \in Pipes, ~ mop[p].busy
  PROVE  Drained(p) = AtExpander(p)
BY ThroughNone DEF Drained

\* A single instruction pushed to an expander that is idle.
LEMMA FedOne ==
  ASSUME Bounded, NEW p \in Pipes, NEW i \in FifoInst, InstFifoUsed(p) < FifoSize - 1,
         ReplayExpander(p, i), error = "none", replay_play_left[p] = 0, ~ mop[p].busy,
         UNCHANGED <<inst_rd_ptr, mop>>, expanding' = p
  PROVE  Stream!Feed(p, <<i>>)
<1>1. /\ AtExpander(p)' = Replayed(AtExpander(p), i)
      /\ \A q \in Pipes \ {p} : AtExpander(q)' = AtExpander(q)
  BY ExpanderFed
<1>2. \A q \in Pipes \ {p} : Drained(q)' = Drained(q)
  BY <1>1, DrainedSame
<1>3. Drained(p) = AtExpander(p)
  BY NoMop
<1>4. Drained(p)' = AtExpander(p)'
  <2>1. ~ mop'[p].busy
    OBVIOUS
  <2> QED BY <2>1, ThroughNone DEF Drained
<1>5. Drained(p)' = Through(Drained(p), <<i>>)
  BY <1>1, <1>3, <1>4, ThroughOne
<1> QED BY <1>2, <1>5, StreamFed

LEMMA CanPushIdle ==
  ASSUME Bounded, NEW p \in Pipes, NEW b \in BOOLEAN, CanPushInst(p, b)
  PROVE  ~ mop[p].busy /\ replay_play_left[p] = 0
<1>1. replay_play_left[p] \in 0 .. ReplaySize /\ ~ (replay_play_left[p] > 0) /\ ~ mop[p].busy
  BY DEF Bounded, TypeOK, CanPushInst, TensixExpanding
<1> QED BY <1>1, FrontendAssumption

\* When the Replay Expander and the FIFOs of all pipes stay as they are.
LEMMA ExpandersSame ==
  ASSUME UNCHANGED <<inst, inst_wr_ptr, inst_rd_ptr, recordVars, replay_execute_while_loading,
                     playVars, error>>, error = "none"
  PROVE  \A q \in Pipes : AtExpander(q)' = AtExpander(q)
<1>1. \A q \in Pipes : Ring(q)' = Ring(q)
  BY RingSame
<1>2. \A q \in Pipes : NotBroken(q) /\ NotBroken(q)'
  BY DEF NotBroken
<1> QED BY <1>1, <1>2, AtExpanderSame DEF recordVars, playVars

LEMMA IngestStream ==
  ASSUME Bounded, NEW p \in Pipes, NEW i \in MopInst, MopIngest(p, i), ~ mop[p].busy,
         error = "none", UNCHANGED inst_rd_ptr
  PROVE  /\ Stream!Feed(p, Stream!Expansion(mop_cfg[p], mop_zmask_hi16[p], i))
         /\ InProgress(mop[p])'
         /\ \A q \in Pipes \ {p} : mop'[q] = mop[q]
<1> DEFINE cf == mop_cfg[p]  hi == mop_zmask_hi16[p]  m == Ingested(cf, hi, i)
<1>1. /\ cf \in MopCfg /\ hi \in SUBSET (ZBits .. 2*ZBits - 1)
      /\ mop \in [Pipes -> MopState] /\ Ingestible(cf, hi, i)
  BY DEF Bounded, TypeOK, Ingestible
<1>2. mop' = [mop EXCEPT ![p] = m]
  BY DEF MopIngest, Ingested
<1>3. mop'[p] = m /\ \A q \in Pipes \ {p} : mop'[q] = mop[q]
  BY <1>1, <1>2
<1> HIDE DEF cf, hi
<1>4. Accepted(m)
  <2>1. m.type = i.type /\ m.cfg = cf
    BY <1>1, IngestedIs
  <2>2. MopAccepted(p, i)
    BY DEF MopIngest
  <2> HIDE DEF m
  <2> QED BY <2>1, <2>2 DEF Accepted, MopAccepted, cf
<1>5. /\ InProgress(m) /\ RestOfMop(m) = Expansion(cf, hi, i) /\ m.busy
  BY <1>1, <1>4, IngestedExpands, IngestedIs
<1>6. \A q \in Pipes : AtExpander(q)' = AtExpander(q)
  BY ExpandersSame DEF MopIngest, fifoVars
<1> HIDE DEF m
<1>7. Drained(p)' = Through(Drained(p), Expansion(cf, hi, i))
  <2>1. Drained(p) = AtExpander(p)
    BY NoMop
  <2>2. (IF mop[p].busy THEN RestOfMop(mop[p]) ELSE <<>>)' = RestOfMop(m)
    <3>1. (IF mop[p].busy THEN RestOfMop(mop[p]) ELSE <<>>)' = RestOfMop(mop'[p])
      BY <1>3, <1>5 DEF RestOfMop, RestOfIteration, Emits, Iters, Steps, MopStepInst, StepReg,
                        Skipped, Flag, InnerLen, IsNop
    <3> QED BY <1>3, <3>1
  <2> QED BY <1>5, <1>6, <2>1, <2>2 DEF Drained
<1>8. \A q \in Pipes \ {p} : Drained(q)' = Drained(q)
  BY <1>3, <1>6, DrainedSame
<1>9. Stream!Feed(p, Expansion(cf, hi, i))
  BY <1>7, <1>8, StreamFed
<1>10. InProgress(mop[p])'
  <2>1. InProgress(mop'[p])
    BY <1>3, <1>5
  <2> QED BY <2>1 DEF InProgress, Iters, Steps, Flag, InnerLen, IsNop
<1> QED BY <1>3, <1>9, <1>10, SameExpansion DEF cf, hi

-----------------------------------------------------------------------------
(* The operations, one by one: a step of TensixStream or a stutter, after  *)
(* which every MOP in progress is within its bounds.                       *)

\* Nothing of the mapping moves.
Stutters == UNCHANGED <<[q \in Pipes |-> Drained(q)], mop_zmask_hi16, mop_cfg>>

LEMMA ProgressKept ==
  ASSUME MopProgress, UNCHANGED mop
  PROVE  MopProgress'
BY DEF MopProgress, InProgress, Iters, Steps, Flag, InnerLen, IsNop

LEMMA ProgressOfOne ==
  ASSUME MopProgress, NEW p \in Pipes, mop'[p].busy => InProgress(mop[p])',
         \A q \in Pipes \ {p} : mop'[q] = mop[q]
  PROVE  MopProgress'
<1> SUFFICES ASSUME NEW q \in Pipes, mop'[q].busy PROVE InProgress(mop[q])'
  BY DEF MopProgress
<1>1. CASE q = p
  BY <1>1
<1>2. CASE q # p
  <2>1. mop'[q] = mop[q] /\ InProgress(mop[q])
    BY <1>2 DEF MopProgress
  <2> QED BY <2>1 DEF InProgress, Iters, Steps, Flag, InnerLen, IsNop
<1> QED BY <1>1, <1>2

LEMMA PushStream ==
  ASSUME Bounded, MopProgress, NEW p \in Pipes, NEW i \in Pushed, Push(p, i)
  PROVE  Stream!Push(p, i) /\ MopProgress'
<1>1. i \in Inst /\ error = "none" /\ expanding' = p /\ UNCHANGED <<inst_rd_ptr, mop_cfg>>
      /\ CanPushInst(p, FALSE)
  BY FrontendAssumption DEF Push, Quiet
<1>2. ~ mop[p].busy /\ replay_play_left[p] = 0
  BY <1>1, CanPushIdle
<1>3. InstFifoUsed(p) < FifoSize - 1
  BY <1>1, CanPushHasRoom DEF Bounded
<1>4. CASE i.opcode = "MOP" /\ MopIngest(p, i)
  <2>1. i \in MopInst
    BY <1>1, <1>4 DEF Inst, FifoInst, PlainInst, OpInst, NOP, Zero, ReplayInst, MopCfgInst
  <2>2. /\ Stream!Feed(p, Stream!Expansion(mop_cfg[p], mop_zmask_hi16[p], i))
        /\ InProgress(mop[p])'
        /\ \A q \in Pipes \ {p} : mop'[q] = mop[q]
    BY <1>1, <1>2, <1>4, <2>1, IngestStream
  <2>3. UNCHANGED mop_zmask_hi16
    BY <1>4 DEF MopIngest
  <2>4. MopProgress'
    BY <2>2, ProgressOfOne
  <2> QED BY <1>1, <1>4, <2>2, <2>3, <2>4 DEF Stream!Push
<1>5. CASE i.opcode = "MOP_CFG" /\ MopCfgExec(p, i)
  <2>1. /\ mop_zmask_hi16' = [mop_zmask_hi16 EXCEPT ![p] = i.hi]
        /\ UNCHANGED <<fifoVars, error, recordVars, replay_execute_while_loading, playVars, mop>>
    BY <1>5 DEF MopCfgExec
  <2>2. \A q \in Pipes : AtExpander(q)' = AtExpander(q)
    BY <1>1, <2>1, ExpandersSame DEF fifoVars
  <2>3. \A q \in Pipes : Drained(q)' = Drained(q)
    BY <2>1, <2>2, DrainedSame
  <2>4. [q \in Pipes |-> Drained(q)]' = [q \in Pipes |-> Drained(q)]
    BY <2>3, StreamKept
  <2>5. MopProgress'
    BY <2>1, ProgressKept
  <2> QED BY <1>1, <1>5, <2>1, <2>4, <2>5 DEF Stream!Push
<1>6. CASE /\ i.opcode \notin {"MOP", "MOP_CFG"} /\ ReplayExpander(p, i)
           /\ UNCHANGED <<mop, mop_zmask_hi16>>
  <2>1. i \in FifoInst
    BY <1>1, <1>6 DEF Inst, MopInst, MopCfgInst
  <2>2. Stream!Feed(p, <<i>>)
    BY <1>1, <1>2, <1>3, <1>6, <2>1, FedOne
  <2>3. MopProgress'
    BY <1>6, ProgressKept
  <2> QED BY <1>1, <1>6, <2>2, <2>3 DEF Stream!Push
<1> QED BY <1>4, <1>5, <1>6 DEF Push

LEMMA PushBypassStream ==
  ASSUME Bounded, MopProgress, NEW p \in Pipes, NEW i \in Bypassed, PushBypass(p, i)
  PROVE  Stream!PushBypass(p, i) /\ MopProgress'
<1>1. i \in FifoInst /\ error = "none" /\ expanding' = p /\ UNCHANGED <<inst_rd_ptr, cfgVars, mop>>
      /\ CanPushInst(p, TRUE) /\ ReplayExpander(p, i)
  BY FrontendAssumption DEF PushBypass, Quiet
<1>2. ~ mop[p].busy /\ replay_play_left[p] = 0
  BY <1>1, CanPushIdle
<1>3. InstFifoUsed(p) < FifoSize - 1
  BY <1>1, CanPushHasRoom DEF Bounded
<1>4. Stream!Feed(p, <<i>>)
  BY <1>1, <1>2, <1>3, FedOne
<1>5. MopProgress'
  BY <1>1, ProgressKept
<1> QED BY <1>1, <1>4, <1>5 DEF Stream!PushBypass, cfgVars

LEMMA WriteCfgStream ==
  ASSUME MopProgress, NEW p \in Pipes,
         \/ \E k \in 0 .. 1 : \E n \in LoopWrites[k] : WriteLoopCfg(p, k, n)
         \/ \E k \in OpRegs : \E i \in OpWrites[k] : WriteOpCfg(p, k, i)
  PROVE  Stream!WriteCfg(p) /\ MopProgress'
<1>1. /\ error = "none"
      /\ UNCHANGED <<fifoVars, inst_rd_ptr, mop_zmask_hi16, recordVars,
                     replay_execute_while_loading, playVars, mop, error>>
  BY DEF WriteLoopCfg, WriteOpCfg, Quiet
<1>2. \A q \in Pipes : AtExpander(q)' = AtExpander(q)
  BY <1>1, ExpandersSame DEF fifoVars
<1>3. \A q \in Pipes : Drained(q)' = Drained(q)
  BY <1>1, <1>2, DrainedSame
<1>4. [q \in Pipes |-> Drained(q)]' = [q \in Pipes |-> Drained(q)]
  BY <1>3, StreamKept
<1>5. \/ \E k \in 0 .. 1 : \E n \in LoopWrites[k] : mop_cfg' = [mop_cfg EXCEPT ![p].loop[k] = n]
      \/ \E k \in 2 .. 8 : \E i \in OpWrites[k] : mop_cfg' = [mop_cfg EXCEPT ![p].op[k] = i]
  BY DEF WriteLoopCfg, WriteOpCfg, OpRegs
<1>6. MopProgress'
  BY <1>1, ProgressKept
<1> QED BY <1>1, <1>4, <1>5, <1>6 DEF Stream!WriteCfg

\* Issuing commutes with all that is still to go through the expanders.
LEMMA IssueStream ==
  ASSUME Bounded, MopProgress, NEW p \in Pipes, Issue(p)
  PROVE  Stream!Issue(p) /\ MopProgress'
<1> DEFINE r == AtExpander(p)  w == Waiting(p)
<1>1. /\ r.out # <<>> /\ r' = Issued(r)
      /\ \A q \in Pipes \ {p} : AtExpander(q)' = AtExpander(q)
  BY IssueDrops
<1>2. UNCHANGED <<mop, mop_zmask_hi16, mop_cfg>>
  BY DEF Issue, cfgVars
<1>3. r \in ReplayState /\ w \in Seq(FifoInst) /\ Drained(p) = Through(r, w)
  BY AtExpanderType, WaitingType
<1>4. Drained(p)' = Through(r', w)
  <2>1. w' = w
    BY <1>2 DEF Waiting, RestOfMop, RestOfIteration, Emits, Iters, Steps, MopStepInst, StepReg,
                Skipped, Flag, InnerLen, IsNop
  <2>2. Drained(p)' = Through(r', w')
    BY DEF Drained, Waiting
  <2> QED BY <2>1, <2>2
<1> HIDE DEF r, w
<1>5. Through(r, w).out # <<>> /\ Through(Issued(r), w) = Issued(Through(r, w))
  BY <1>1, <1>3, ThroughIssued
<1>6. Drained(p).out # <<>> /\ Drained(p)' = [Drained(p) EXCEPT !.out = Tail(@)]
  BY <1>1, <1>3, <1>4, <1>5 DEF Issued
<1>7. \A q \in Pipes \ {p} : Drained(q)' = Drained(q)
  BY <1>1, <1>2, DrainedSame
<1> DEFINE s == [q \in Pipes |-> Drained(q)]
<1>8. s[p].out # <<>>
  BY <1>6
<1>9. s' = [s EXCEPT ![p].out = Tail(@)]
  <2> DEFINE x == [Drained(p) EXCEPT !.out = Tail(@)]
  <2>1. [s EXCEPT ![p].out = Tail(@)] = [s EXCEPT ![p] = x]
    OBVIOUS
  <2>2. Drained(p)' = x
    BY <1>6
  <2> HIDE DEF x
  <2>3. [q \in Pipes |-> Drained(q)'] = [s EXCEPT ![p] = x]
    BY <1>7, <2>2
  <2> QED BY <2>1, <2>3
<1>10. MopProgress'
  BY <1>2, ProgressKept
<1> QED BY <1>2, <1>8, <1>9, <1>10 DEF Stream!Issue

\* A pipe of which nothing is lost.
LEMMA NothingLost ==
  ASSUME \A q \in Pipes : Drained(q)' = Drained(q), UNCHANGED cfgVars
  PROVE  Stutters
BY StreamKept DEF Stutters, cfgVars

LEMMA EmitReplayStutters ==
  ASSUME Bounded, MopProgress, NEW p \in Pipes, EmitReplay(p)
  PROVE  Stutters /\ MopProgress'
<1>1. \A q \in Pipes : AtExpander(q)' = AtExpander(q)
  BY EmitReplaySame
<1>2. UNCHANGED <<cfgVars, mop>>
  BY DEF EmitReplay
<1> QED BY <1>1, <1>2, DrainedSame, NothingLost, ProgressKept

\* An instruction that moves from the MOP Expander to the Replay Expander.
LEMMA EmitMopStutters ==
  ASSUME Bounded, MopProgress, NEW p \in Pipes, EmitMop(p)
  PROVE  Stutters /\ MopProgress'
<1> DEFINE m == mop[p]  r == AtExpander(p)
<1>1. PICK q \in StepsLeft(m) :
        /\ IsNextStep(m, q)
        /\ mop' = [mop EXCEPT ![p].iter = q[1], ![p].step = q[2] + 1]
        /\ ReplayExpander(p, MopStepInst(m, q[1], q[2]))
  BY DEF EmitMop
<1>2. /\ InstFifoUsed(p) < FifoSize - 1 /\ error = "none" /\ expanding' = p
      /\ replay_play_left[p] = 0 /\ m.busy
      /\ UNCHANGED <<inst_rd_ptr, cfgVars>>
  BY DEF EmitMop, HasRoom
<1>3. m \in MopState /\ InProgress(m) /\ mop \in [Pipes -> MopState]
  BY <1>2 DEF Bounded, TypeOK, MopProgress
<1> DEFINE i == MopStepInst(m, q[1], q[2])  n == Advanced(m, q[1], q[2])
<1>4. i \in FifoInst /\ q[1] \in Nat /\ q[2] \in Nat
  BY <1>3, StepEmits
<1>5. mop'[p] = n /\ \A x \in Pipes \ {p} : mop'[x] = mop[x]
  <2>1. mop' = [mop EXCEPT ![p] = [m EXCEPT !.iter = q[1], !.step = q[2] + 1]]
    BY <1>1, <1>3
  <2> DEFINE y == [m EXCEPT !.iter = q[1], !.step = q[2] + 1]
  <2> HIDE DEF y
  <2>2. mop' = [mop EXCEPT ![p] = y]
    BY <2>1 DEF y
  <2>3. mop'[p] = y /\ \A x \in Pipes \ {p} : mop'[x] = mop[x]
    BY <1>3, <2>2
  <2> QED BY <2>3 DEF Advanced, y
<1>6. InProgress(n) /\ RestOfMop(m) = <<i>> \o RestOfMop(n)
  BY <1>1, <1>3, MopNext
<1>7. n \in MopState /\ n.busy
  BY <1>2, <1>3, <1>4, AdvancedIs
<1> HIDE DEF i, n, m, r
<1>8. RestOfMop(n) \in Seq(FifoInst)
  BY <1>6, <1>7, MopPartsAre
<1>9. r' = Replayed(r, i) /\ \A x \in Pipes \ {p} : AtExpander(x)' = AtExpander(x)
  BY <1>1, <1>2, <1>4, ExpanderFed DEF r, i
<1>10. Drained(p) = Through(r, <<i>> \o RestOfMop(n))
  BY <1>2, <1>6 DEF Drained, r, m
<1>11. Drained(p)' = Through(r', RestOfMop(n))
  <2>1. (IF mop[p].busy THEN RestOfMop(mop[p]) ELSE <<>>)' = RestOfMop(mop'[p])
    BY <1>5, <1>7 DEF RestOfMop, RestOfIteration, Emits, Iters, Steps, MopStepInst, StepReg,
                      Skipped, Flag, InnerLen, IsNop
  <2> QED BY <1>5, <2>1 DEF Drained, r
<1>12. Drained(p)' = Drained(p)
  BY <1>4, <1>8, <1>9, <1>10, <1>11, ThroughFirst
<1>13. \A x \in Pipes : Drained(x)' = Drained(x)
  BY <1>5, <1>9, <1>12, DrainedSame
<1>14. Stutters
  BY <1>2, <1>13, NothingLost
<1>15. InProgress(mop[p])'
  <2>1. InProgress(mop'[p])
    BY <1>5, <1>6
  <2> QED BY <2>1 DEF InProgress, Iters, Steps, Flag, InnerLen, IsNop
<1>16. MopProgress'
  BY <1>5, <1>15, ProgressOfOne
<1> QED BY <1>14, <1>16

\* The loop ends a MOP only when none of its steps is left.
LEMMA FinishStepStutters ==
  ASSUME Bounded, MopProgress, NEW p \in Pipes, FinishStep(p)
  PROVE  Stutters /\ MopProgress'
<1>1. /\ error = "none"
      /\ UNCHANGED <<inst, inst_wr_ptr, inst_rd_ptr, cfgVars, recordVars,
                     replay_execute_while_loading, playVars, error>>
  BY DEF FinishStep, fifoVars
<1>2. \A q \in Pipes : AtExpander(q)' = AtExpander(q)
  BY <1>1, ExpandersSame
<1>3. CASE HasRoom(p) /\ mop[p].busy
  <2>1. StepsLeft(mop[p]) = {} /\ mop \in [Pipes -> MopState] /\ InProgress(mop[p])
    BY <1>3 DEF FinishStep, Bounded, TypeOK, MopProgress
  <2>2. mop' = [mop EXCEPT ![p].busy = FALSE, ![p].iter = Iters(mop[p]), ![p].step = 0]
    BY <1>3 DEF FinishStep
  <2>3. ~ mop'[p].busy /\ \A q \in Pipes \ {p} : mop'[q] = mop[q]
    <3> DEFINE y == [mop[p] EXCEPT !.busy = FALSE, !.iter = Iters(mop[p]), !.step = 0]
    <3>1. mop' = [mop EXCEPT ![p] = y]
      BY <2>1, <2>2
    <3>2. ~ y.busy
      BY <2>1 DEF MopState
    <3> HIDE DEF y
    <3> QED BY <2>1, <3>1, <3>2
  <2>4. RestOfMop(mop[p]) = <<>>
    BY <2>1, MopEmpty
  <2>5. Drained(p) = Through(AtExpander(p), <<>>)
    BY <1>3, <2>4 DEF Drained
  <2>6. Drained(p)' = Through(AtExpander(p)', <<>>)
    BY <2>3 DEF Drained
  <2>7. \A q \in Pipes : Drained(q)' = Drained(q)
    BY <1>2, <2>3, <2>5, <2>6, DrainedSame
  <2>8. MopProgress'
    BY <2>3, ProgressOfOne
  <2> QED BY <1>1, <2>7, <2>8, NothingLost
<1>4. CASE ~ (HasRoom(p) /\ mop[p].busy)
  <2>1. UNCHANGED mop
    BY <1>4 DEF FinishStep
  <2> QED BY <1>1, <1>2, <2>1, DrainedSame, NothingLost, ProgressKept
<1> QED BY <1>3, <1>4

\* The other steps of the clock loop, and no step at all.
LEMMA OtherStutters ==
  ASSUME MopProgress,
         \/ \E p \in Pipes : FrontendStep(p)
         \/ GoIdle \/ WakeTile \/ Ended \/ UNCHANGED vars
  PROVE  Stutters /\ MopProgress'
<1>1. CASE (\E p \in Pipes : FrontendStep(p)) \/ GoIdle \/ WakeTile
  <2>1. /\ error = "none"
        /\ UNCHANGED <<inst, inst_wr_ptr, inst_rd_ptr, cfgVars, recordVars,
                       replay_execute_while_loading, playVars, error, mop>>
    BY <1>1 DEF FrontendStep, GoIdle, WakeTile, Quiet, fifoVars
  <2>2. \A q \in Pipes : AtExpander(q)' = AtExpander(q)
    BY <2>1, ExpandersSame
  <2> QED BY <2>1, <2>2, DrainedSame, NothingLost, ProgressKept
<1>2. CASE Ended \/ UNCHANGED vars
  <2>1. UNCHANGED vars
    BY <1>2 DEF Ended
  <2>2. UNCHANGED mop /\ UNCHANGED cfgVars
    BY <2>1 DEF vars, cfgVars
  <2>3. ASSUME NEW q \in Pipes PROVE AtExpander(q)' = AtExpander(q)
    BY <2>1 DEF vars, AtExpander, Ring, InstFifoUsed, Playing, NoNops
  <2> QED BY <2>2, <2>3, DrainedSame, NothingLost, ProgressKept
<1> QED BY <1>1, <1>2

LEMMA InitStream ==
  ASSUME Init
  PROVE  Stream!Init /\ MopProgress
<1>1. ASSUME NEW p \in Pipes PROVE Drained(p) = Stream!StreamInit
  <2>1. /\ inst_rd_ptr[p] = 0 /\ inst_wr_ptr[p] = 0 /\ ~ mop[p].busy /\ replay_play_left[p] = 0
        /\ replay_buf[p] = [k \in 0 .. ReplaySize - 1 |-> Zero]
        /\ replay_index[p] = 0 /\ replay_left[p] = 0 /\ replay_execute_while_loading[p] = FALSE
        /\ error = "none"
    BY DEF Init, IdleMop
  <2>2. InstFifoUsed(p) = 0
    <3>1. 0 + FifoSize - 0 = FifoSize /\ FifoSize % FifoSize = 0
      BY FrontendAssumption
    <3> QED BY <2>1, <3>1 DEF InstFifoUsed
  <2>3. Ring(p) = <<>>
    BY <2>2 DEF Ring
  <2>4. AtExpander(p).out = <<>>
    BY <2>1, <2>3, NonePlaying, InitBounded DEF Bounded
  <2>5. (error = "nested REPLAY" /\ expanding = p) = FALSE
    BY <2>1
  <2>6. Ring(p) \o NoNops(Playing(p)) = <<>>
    BY <2>4 DEF AtExpander
  <2>7. AtExpander(p) = Stream!StreamInit
    BY <2>1, <2>5, <2>6 DEF AtExpander, Stream!StreamInit
  <2> QED BY <2>1, <2>7, NoMop
<1>2. [p \in Pipes |-> Drained(p)] = [p \in Pipes |-> Stream!StreamInit]
  BY <1>1
<1>3. MopProgress
  BY DEF Init, IdleMop, MopProgress
<1> QED BY <1>2, <1>3 DEF Init, Stream!Init

LEMMA NextStream ==
  ASSUME Bounded, MopProgress, [Next]_vars
  PROVE  (Stream!Next \/ Stutters) /\ MopProgress'
<1>1. ASSUME NEW p \in Pipes, NEW i \in Pushed, Push(p, i) PROVE Stream!Next /\ MopProgress'
  BY <1>1, PushStream DEF Stream!Next
<1>2. ASSUME NEW p \in Pipes, NEW i \in Bypassed, PushBypass(p, i) PROVE Stream!Next /\ MopProgress'
  BY <1>2, PushBypassStream DEF Stream!Next
<1>3. ASSUME NEW p \in Pipes,
             \/ \E k \in 0 .. 1 : \E n \in LoopWrites[k] : WriteLoopCfg(p, k, n)
             \/ \E k \in OpRegs : \E i \in OpWrites[k] : WriteOpCfg(p, k, i)
      PROVE  Stream!Next /\ MopProgress'
  BY <1>3, WriteCfgStream DEF Stream!Next
<1>4. ASSUME NEW p \in Pipes, Issue(p) PROVE Stream!Next /\ MopProgress'
  BY <1>4, IssueStream DEF Stream!Next
<1>5. ASSUME NEW p \in Pipes, EmitReplay(p) \/ EmitMop(p) \/ FinishStep(p)
      PROVE  Stutters /\ MopProgress'
  BY <1>5, EmitReplayStutters, EmitMopStutters, FinishStepStutters
<1>6. ASSUME \/ \E p \in Pipes : FrontendStep(p)
             \/ GoIdle \/ WakeTile \/ Ended \/ UNCHANGED vars
      PROVE  Stutters /\ MopProgress'
  BY <1>6, OtherStutters
<1> QED BY <1>1, <1>2, <1>3, <1>4, <1>5, <1>6 DEF Next

\* The front end is the unbounded queue that TensixStream describes: neither
\* the expanders' loops, nor the FIFO's limits, nor what is written to the
\* configuration while a MOP expands, changes what a pipe issues or its order.
THEOREM FrontendImplementsStream == Spec => StreamSpec
<1> DEFINE Inv == Bounded /\ MopProgress
<1>1. Init => Inv /\ Stream!Init
  BY InitBounded, InitStream
<1>2. Inv /\ [Next]_vars => Inv' /\ [Stream!Next]_Stream!vars
  BY NextKeepsBounded, NextStream DEF Stutters, Stream!vars
<1> QED BY <1>1, <1>2, PTL DEF Spec, StreamSpec, Stream!Spec
=============================================================================
