------------------------------- MODULE TileClock -------------------------------
(***************************************************************************)
(* The clock of one chip (src/libttsim.cpp) and the masks of RISC-V cores  *)
(* and tiles it works from: which cores are out of reset, which of them it *)
(* steps, and which Tensix tiles it visits.                                *)
(*                                                                         *)
(* The simulator is single threaded, but a clock is a long loop whose body *)
(* changes what the loop goes by: a core's store can put any core into     *)
(* reset or take it out, wake a tile, or stop the core.  Each core's step  *)
(* is a step here; `at' says where in clock_current_chip the loop is.      *)
(***************************************************************************)
EXTENDS Integers, FiniteSets, FiniteSetsExt

CONSTANTS
  NumTiles,     \* NUM_T_TILES
  NumCores,     \* RV32_CORES_PER_T_TILE
  NumECores,    \* RISC-V cores of the Ethernet tiles
  PauseClocks,  \* PAUSE_CLOCKS
  BusySteps,    \* ETH_BUSY_STEPS
  MaxWork       \* Tensix instructions a tile can hold, expanded or not

ASSUME ClockAssumption ==
  /\ NumTiles \in Nat /\ NumCores \in Nat /\ NumECores \in Nat
  /\ PauseClocks \in Nat \ {0} /\ BusySteps \in Nat \ {0} /\ MaxWork \in Nat

Tiles  == 0 .. NumTiles - 1
Cores  == 0 .. NumCores - 1
ECores == 0 .. NumECores - 1

VARIABLES
  g_clock,              \* modulo PauseClocks, all that is made of it here
  rv32_cores_active,    \* rv32_cores_active[t]: cores of tile t to be stepped
  rv32_cores_parked,    \* cores that only a reset can get going again
  rv32_cores_paused,    \* cores that sit out until the clock resumes them
  soft_reset_0,         \* soft_reset_0[t]: the cores whose bit is set
  t_tiles_busy,         \* the tiles the clock loop visits
  t_tile_cores_paused,  \* some tile may have a paused core
  e_cores_active,       \* the chip's rv32_cores_active: cores of E tiles
  work,                 \* work[t]: Tensix instructions expanding or in a FIFO
  at,                   \* "host", or where in clock_current_chip we are
  tile_id,              \* the tile being visited
  rv32_mask,            \* the cores (E cores) the loop has still to step
  steps                 \* steps the E core being stepped has left

coreVars == <<rv32_cores_active, rv32_cores_parked, rv32_cores_paused, soft_reset_0>>
loopVars == <<at, tile_id, rv32_mask, steps>>
vars == <<g_clock, rv32_cores_active, rv32_cores_parked, rv32_cores_paused,
          soft_reset_0, t_tiles_busy, t_tile_cores_paused, e_cores_active, work,
          at, tile_id, rv32_mask, steps>>

TypeOK ==
  /\ g_clock \in 0 .. PauseClocks - 1
  /\ rv32_cores_active \in [Tiles -> SUBSET Cores]
  /\ rv32_cores_parked \in [Tiles -> SUBSET Cores]
  /\ rv32_cores_paused \in [Tiles -> SUBSET Cores]
  /\ soft_reset_0 \in [Tiles -> SUBSET Cores]
  /\ t_tiles_busy \subseteq Tiles
  /\ t_tile_cores_paused \in BOOLEAN
  /\ e_cores_active \subseteq ECores
  /\ work \in [Tiles -> 0 .. MaxWork]
  /\ at \in {"host", "next tile", "cores", "pipes", "E cores", "E steps"}
  /\ tile_id \in 0 .. NumTiles
  /\ rv32_mask \subseteq Cores \cup ECores
  /\ steps \in 0 .. BusySteps

-----------------------------------------------------------------------------
(* What a write to a reset register does.                                  *)

\* ttsim_rv32_get_core_active
CoreActive(t, c) ==
  c \in rv32_cores_active[t] \cup rv32_cores_parked[t] \cup rv32_cores_paused[t]

\* SOFT_RESET_0 of T tile t: a core whose bit is clear, and which was not out
\* of reset, starts, and makes the tile busy.
WriteSoftReset(t, data) ==
  LET starts == {c \in Cores \ data : ~CoreActive(t, c)} IN
  /\ rv32_cores_active' = [rv32_cores_active EXCEPT ![t] = (@ \ data) \cup starts]
  /\ rv32_cores_parked' = [rv32_cores_parked EXCEPT ![t] = @ \ data]
  /\ rv32_cores_paused' = [rv32_cores_paused EXCEPT ![t] = @ \ data]
  /\ soft_reset_0' = [soft_reset_0 EXCEPT ![t] = data]
  /\ t_tiles_busy' = IF starts = {} THEN t_tiles_busy ELSE t_tiles_busy \cup {t}
  /\ UNCHANGED <<t_tile_cores_paused, e_cores_active, work>>

\* The reset register of an E tile, or its launch flag: its core starts
\* (once its reset PC is programmed) or stops.
WriteEReset(c, on) ==
  /\ e_cores_active' = IF on THEN e_cores_active \cup {c} ELSE e_cores_active \ {c}
  /\ UNCHANGED <<coreVars, t_tiles_busy, t_tile_cores_paused, work>>

\* Any agent can reach both: the host through a BAR, every core by a store or
\* through the NoC.
WriteReset ==
  \/ \E t \in Tiles, data \in SUBSET Cores : WriteSoftReset(t, data)
  \/ \E c \in ECores, on \in BOOLEAN : WriteEReset(c, on)

-----------------------------------------------------------------------------
(* What else the instruction a core of a T tile executes can do here.      *)

\* Mutant of Pause: without the flag.
PauseUnflagged(t, c) ==
  /\ IF c \in rv32_cores_active[t]
     THEN /\ rv32_cores_active' = [rv32_cores_active EXCEPT ![t] = @ \ {c}]
          /\ rv32_cores_paused' = [rv32_cores_paused EXCEPT ![t] = @ \cup {c}]
     ELSE UNCHANGED <<rv32_cores_active, rv32_cores_paused>>
  /\ UNCHANGED <<rv32_cores_parked, soft_reset_0, t_tiles_busy, t_tile_cores_paused,
                 e_cores_active, work>>

\* PAUSE: unless the core was put into reset earlier in this clock.
Pause(t, c) ==
  /\ IF c \in rv32_cores_active[t]
     THEN /\ rv32_cores_active' = [rv32_cores_active EXCEPT ![t] = @ \ {c}]
          /\ rv32_cores_paused' = [rv32_cores_paused EXCEPT ![t] = @ \cup {c}]
          /\ t_tile_cores_paused' = TRUE
     ELSE UNCHANGED <<rv32_cores_active, rv32_cores_paused, t_tile_cores_paused>>
  /\ UNCHANGED <<rv32_cores_parked, soft_reset_0, t_tiles_busy, e_cores_active, work>>

\* Mutant of Park: also a core that was put into reset.
ParkAnyway(t, c) ==
  /\ rv32_cores_active' = [rv32_cores_active EXCEPT ![t] = @ \ {c}]
  /\ rv32_cores_parked' = [rv32_cores_parked EXCEPT ![t] = @ \cup {c}]
  /\ UNCHANGED <<rv32_cores_paused, soft_reset_0, t_tiles_busy, t_tile_cores_paused,
                 e_cores_active, work>>

\* A read of the PC buffer that nothing will ever answer.
Park(t, c) ==
  /\ IF c \in rv32_cores_active[t]
     THEN /\ rv32_cores_active' = [rv32_cores_active EXCEPT ![t] = @ \ {c}]
          /\ rv32_cores_parked' = [rv32_cores_parked EXCEPT ![t] = @ \cup {c}]
     ELSE UNCHANGED <<rv32_cores_active, rv32_cores_parked>>
  /\ UNCHANGED <<rv32_cores_paused, soft_reset_0, t_tiles_busy, t_tile_cores_paused,
                 e_cores_active, work>>

\* A push to a Tensix pipe of its own tile, which a MOP or REPLAY turns into
\* several instructions; it waits while there is no room.
PushInst(t) ==
  /\ \E n \in 1 .. MaxWork - work[t] : work' = [work EXCEPT ![t] = @ + n]
  /\ t_tiles_busy' = t_tiles_busy \cup {t}
  /\ UNCHANGED <<coreVars, t_tile_cores_paused, e_cores_active>>

\* An instruction that does none of this, or that stalls and will be retried.
OtherInst ==
  UNCHANGED <<coreVars, t_tiles_busy, t_tile_cores_paused, e_cores_active, work>>

Rv32Step(t, c) == Pause(t, c) \/ Park(t, c) \/ PushInst(t) \/ WriteReset \/ OtherInst

-----------------------------------------------------------------------------
(* clock_current_chip                                                      *)

Goto(where, mask) == at' = where /\ rv32_mask' = mask

\* next_busy_t_tile, from tile n on: NumTiles if none is busy.
NextBusyTile(n) == Min({t \in t_tiles_busy : t >= n} \cup {NumTiles})

\* Between clocks the host writes a reset register.
HostWrite ==
  /\ at = "host"
  /\ WriteReset
  /\ UNCHANGED <<g_clock, loopVars>>

\* Mutant of StartClock: the tiles of the resumed cores stay idle.
StartClockIdle ==
  /\ at = "host"
  /\ IF t_tile_cores_paused /\ g_clock = 0
     THEN /\ rv32_cores_active' =
               [t \in Tiles |-> rv32_cores_active[t] \cup rv32_cores_paused[t]]
          /\ rv32_cores_paused' = [t \in Tiles |-> {}]
          /\ t_tile_cores_paused' = FALSE
     ELSE UNCHANGED <<rv32_cores_active, rv32_cores_paused, t_tile_cores_paused>>
  /\ Goto("next tile", {}) /\ tile_id' = 0
  /\ UNCHANGED <<g_clock, rv32_cores_parked, soft_reset_0, t_tiles_busy, e_cores_active,
                 work, steps>>

\* A clock begins: at a multiple of PAUSE_CLOCKS it resumes paused cores.
StartClock ==
  /\ at = "host"
  /\ IF t_tile_cores_paused /\ g_clock = 0
     THEN LET woken == {t \in Tiles : rv32_cores_paused[t] # {}} IN
          /\ rv32_cores_active' =
               [t \in Tiles |-> rv32_cores_active[t] \cup rv32_cores_paused[t]]
          /\ rv32_cores_paused' = [t \in Tiles |-> {}]
          /\ t_tiles_busy' = t_tiles_busy \cup woken
          /\ t_tile_cores_paused' = FALSE
     ELSE UNCHANGED <<rv32_cores_active, rv32_cores_paused, t_tiles_busy, t_tile_cores_paused>>
  /\ Goto("next tile", {}) /\ tile_id' = 0
  /\ UNCHANGED <<g_clock, rv32_cores_parked, soft_reset_0, e_cores_active, work, steps>>

\* The mask is read again here for every tile.
VisitTile ==
  /\ at = "next tile"
  /\ LET t == NextBusyTile(tile_id) IN
     /\ tile_id' = t
     /\ IF t < NumTiles THEN Goto("cores", rv32_cores_active[t])
                        ELSE Goto("E cores", e_cores_active)
  /\ UNCHANGED <<g_clock, coreVars, t_tiles_busy, t_tile_cores_paused, e_cores_active,
                 work, steps>>

\* The lowest core left of the tile's mask as it was when this pass began.
StepCore ==
  /\ at = "cores" /\ rv32_mask # {}
  /\ LET c == Min(rv32_mask) IN
     /\ Rv32Step(tile_id, c)
     /\ rv32_mask' = rv32_mask \ {c}
  /\ UNCHANGED <<g_clock, at, tile_id, steps>>

CoresStepped ==
  /\ at = "cores" /\ rv32_mask = {}
  /\ Goto("pipes", {})
  /\ UNCHANGED <<g_clock, coreVars, t_tiles_busy, t_tile_cores_paused, e_cores_active,
                 work, tile_id, steps>>

\* Mutant of PipesExecute: another pass also when nothing executed.
PipesPassAgain ==
  /\ at = "pipes"
  /\ \E n \in 0 .. work[tile_id] : work' = [work EXCEPT ![tile_id] = @ - n]
  /\ Goto("cores", rv32_cores_active[tile_id])
  /\ UNCHANGED <<g_clock, coreVars, t_tiles_busy, t_tile_cores_paused, e_cores_active,
                 tile_id, steps>>

\* Some pipe executes an instruction: the tile gets another pass.
PipesExecute ==
  /\ at = "pipes"
  /\ \E n \in 1 .. work[tile_id] : work' = [work EXCEPT ![tile_id] = @ - n]
  /\ Goto("cores", rv32_cores_active[tile_id])
  /\ UNCHANGED <<g_clock, coreVars, t_tiles_busy, t_tile_cores_paused, e_cores_active,
                 tile_id, steps>>

\* Mutant of PipesStall: only the cores of the tile are looked at.
PipesForgetWork ==
  /\ at = "pipes"
  /\ \E n \in 0 .. work[tile_id] : work' = [work EXCEPT ![tile_id] = n]
  /\ t_tiles_busy' = IF rv32_cores_active[tile_id] = {}
                     THEN t_tiles_busy \ {tile_id} ELSE t_tiles_busy
  /\ Goto("next tile", {}) /\ tile_id' = tile_id + 1
  /\ UNCHANGED <<g_clock, coreVars, t_tile_cores_paused, e_cores_active, steps>>

\* None does: there is none, or what there is waits at the Wait Gate, though
\* NOPs may have come out of the expanders.  The tile is left, and forgotten
\* if nothing of it is active.
PipesStall ==
  /\ at = "pipes"
  /\ \E n \in 0 .. work[tile_id] : work' = [work EXCEPT ![tile_id] = n]
  /\ t_tiles_busy' = IF rv32_cores_active[tile_id] = {} /\ work'[tile_id] = 0
                     THEN t_tiles_busy \ {tile_id} ELSE t_tiles_busy
  /\ Goto("next tile", {}) /\ tile_id' = tile_id + 1
  /\ UNCHANGED <<g_clock, coreVars, t_tile_cores_paused, e_cores_active, steps>>

\* An E core takes one step per clock, or several if it was busy lately.
StartECore ==
  /\ at = "E cores" /\ rv32_mask # {}
  /\ steps' \in {1, BusySteps}
  /\ Goto("E steps", rv32_mask)
  /\ UNCHANGED <<g_clock, coreVars, t_tiles_busy, t_tile_cores_paused, e_cores_active,
                 work, tile_id>>

\* Mutant of StepECore: one step too many.
StepECoreOnceMore ==
  /\ at = "E steps" /\ steps >= 0 /\ Min(rv32_mask) \in e_cores_active
  /\ WriteReset \/ OtherInst
  /\ steps' = steps - 1
  /\ UNCHANGED <<g_clock, at, tile_id, rv32_mask>>

\* Unlike a T core it is checked to be active still, before every step.
StepECore ==
  /\ at = "E steps" /\ steps > 0 /\ Min(rv32_mask) \in e_cores_active
  /\ WriteReset \/ OtherInst
  /\ steps' = steps - 1
  /\ UNCHANGED <<g_clock, at, tile_id, rv32_mask>>

ECoreStepped ==
  /\ at = "E steps"
  /\ steps = 0 \/ Min(rv32_mask) \notin e_cores_active
  /\ Goto("E cores", rv32_mask \ {Min(rv32_mask)}) /\ steps' = 0
  /\ UNCHANGED <<g_clock, coreVars, t_tiles_busy, t_tile_cores_paused, e_cores_active,
                 work, tile_id>>

EndClock ==
  /\ at = "E cores" /\ rv32_mask = {}
  /\ g_clock' = (g_clock + 1) % PauseClocks
  /\ Goto("host", {}) /\ tile_id' = 0
  /\ UNCHANGED <<coreVars, t_tiles_busy, t_tile_cores_paused, e_cores_active, work, steps>>

Init ==
  /\ g_clock = 0
  /\ rv32_cores_active = [t \in Tiles |-> {}]
  /\ rv32_cores_parked = [t \in Tiles |-> {}]
  /\ rv32_cores_paused = [t \in Tiles |-> {}]
  /\ soft_reset_0 = [t \in Tiles |-> Cores]
  /\ t_tiles_busy = {}
  /\ t_tile_cores_paused = FALSE
  /\ e_cores_active \in SUBSET ECores
  /\ work = [t \in Tiles |-> 0]
  /\ at = "host" /\ tile_id = 0 /\ rv32_mask = {} /\ steps = 0

ClockStep ==
  \/ StartClock \/ VisitTile \/ StepCore \/ CoresStepped \/ PipesExecute \/ PipesStall
  \/ StartECore \/ StepECore \/ ECoreStepped \/ EndClock

Next == HostWrite \/ ClockStep

Spec == Init /\ [][Next]_vars

\* The host keeps calling libttsim_clock, and the call runs.
FairSpec == Spec /\ WF_vars(ClockStep)

-----------------------------------------------------------------------------
(* Properties.                                                             *)

\* Every core out of reset is in exactly one of the three masks, also when a
\* core that was put into reset earlier in the pass takes its last step.
OneMaskPerCore ==
  \A t \in Tiles :
    /\ rv32_cores_active[t] \cup rv32_cores_parked[t] \cup rv32_cores_paused[t]
         = Cores \ soft_reset_0[t]
    /\ rv32_cores_active[t] \cap rv32_cores_parked[t] = {}
    /\ rv32_cores_active[t] \cap rv32_cores_paused[t] = {}
    /\ rv32_cores_parked[t] \cap rv32_cores_paused[t] = {}

\* The comment at t_tiles_busy: it has the tiles that may have a core or a
\* Tensix pipe active.  The clock loop would never serve a tile missing there.
BusyCoversActive ==
  \A t \in Tiles : (rv32_cores_active[t] # {} \/ work[t] > 0) => t \in t_tiles_busy

\* No paused core is forgotten: the flag is only cleared when none is left.
FlagCoversPaused ==
  (\E t \in Tiles : rv32_cores_paused[t] # {}) => t_tile_cores_paused

\* The four states of a core, as the masks give them.
CoreState(t, c) ==
  CASE c \in rv32_cores_active[t] -> "running"
    [] c \in rv32_cores_parked[t] -> "parked"
    [] c \in rv32_cores_paused[t] -> "paused"
    [] OTHER                      -> "reset"

StateOfCores == [t \in Tiles |-> [c \in Cores |-> CoreState(t, c)]]

States == INSTANCE CoreStates WITH state <- StateOfCores

\* The masks implement the four states: no interleaving of resets, releases,
\* PAUSE, parking and resuming, and no step of a core that the pass lists
\* though it was reset meanwhile, makes any other transition.
CoresKeepStates == States!Spec

\* Programs do not push Tensix instructions for ever without a pass in which
\* none executes: the loop over one tile only ends with such a pass.
PassesEnd == <>[][\A t \in Tiles : work'[t] <= work[t]]_work

\* libttsim_clock returns, ...
ClockReturns == PassesEnd => []<>(at = "host")

\* ... every paused core resumes (or is put into reset), ...
PausedResume ==
  PassesEnd => \A t \in Tiles, c \in Cores :
                 (c \in rv32_cores_paused[t]) ~> (c \notin rv32_cores_paused[t])

\* ... and no active core is passed over for ever, whatever the masks and the
\* busy bits go through meanwhile.
ActiveStepped ==
  PassesEnd => \A t \in Tiles, c \in Cores :
                 []<>(\/ c \notin rv32_cores_active[t]
                      \/ at = "cores" /\ tile_id = t /\ c \in rv32_mask)
=============================================================================
