--------------------------- MODULE TileClockProofs ---------------------------
(***************************************************************************)
(* Theorems about TileClock, for any number of tiles and cores.            *)
(***************************************************************************)
EXTENDS TileClock, WellFoundedInduction, TLAPS

\* A set of naturals that is not empty has a smallest element, and Min is it.
LEMMA MinOfNaturals ==
  ASSUME NEW S \in SUBSET Nat, S # {}
  PROVE  Min(S) \in S
<1> DEFINE R == OpToRel(<, Nat)
<1>1. PICK x \in S : \A y \in S : ~(<<y, x>> \in R)
  <2>1. IsWellFoundedOn(R, Nat)
    BY NatLessThanWellFounded
  <2> HIDE DEF R
  <2> QED BY <2>1, WFMin
<1>2. \A y \in S : ~(y < x)
  BY <1>1 DEF OpToRel
<1>3. \A y \in S : x =< y
  BY <1>2
<1> QED BY <1>3 DEF Min

\* Facts about the constants that most steps need.
LEMMA Bounds ==
  /\ PauseClocks \in Nat /\ PauseClocks > 0 /\ BusySteps \in Nat
  /\ 0 \in 0 .. PauseClocks - 1 /\ 0 \in 0 .. NumTiles
  /\ 0 \in 0 .. BusySteps /\ 1 \in 0 .. BusySteps /\ BusySteps \in 0 .. BusySteps
  /\ 0 \in 0 .. MaxWork
  /\ \A t \in Tiles : t \in 0 .. NumTiles /\ t + 1 \in 0 .. NumTiles
  /\ \A n \in 0 .. NumTiles : n < NumTiles => n \in Tiles
<1>1. /\ NumTiles \in Nat /\ PauseClocks \in Nat /\ PauseClocks # 0
      /\ BusySteps \in Nat /\ BusySteps # 0 /\ MaxWork \in Nat
  BY ClockAssumption
<1>2. Tiles = 0 .. NumTiles - 1
  BY DEF Tiles
<1> QED BY <1>1, <1>2

\* The clock loop visits a tile of the chip or ends.
LEMMA NextBusyTileIsTile ==
  ASSUME TypeOK, NEW n \in 0 .. NumTiles
  PROVE  NextBusyTile(n) \in 0 .. NumTiles
<1>1. {t \in t_tiles_busy : t >= n} \cup {NumTiles} \in SUBSET (0 .. NumTiles)
  <2>1. t_tiles_busy \subseteq Tiles
    BY DEF TypeOK
  <2>2. NumTiles \in 0 .. NumTiles
    BY ClockAssumption
  <2> QED BY <2>1, <2>2, Bounds
<1>2. {t \in t_tiles_busy : t >= n} \cup {NumTiles} \in SUBSET Nat
  BY <1>1
<1>3. NextBusyTile(n) \in {t \in t_tiles_busy : t >= n} \cup {NumTiles}
  BY <1>2, MinOfNaturals DEF NextBusyTile
<1> QED BY <1>1, <1>3

-----------------------------------------------------------------------------
(* The inductive invariant.  While a tile is visited tile_id names one, so *)
(* that what is said of every tile holds of the tile the loop changes.     *)

Visiting == at \in {"cores", "pipes"} => tile_id \in Tiles

ClockInv ==
  TypeOK /\ Visiting /\ OneMaskPerCore /\ BusyCoversActive /\ FlagCoversPaused

\* What a step of a core, or of the host, may change keeps the invariant's
\* parts: this is the same wherever in the loop it is made.
MaskInv ==
  /\ rv32_cores_active \in [Tiles -> SUBSET Cores]
  /\ rv32_cores_parked \in [Tiles -> SUBSET Cores]
  /\ rv32_cores_paused \in [Tiles -> SUBSET Cores]
  /\ soft_reset_0 \in [Tiles -> SUBSET Cores]
  /\ t_tiles_busy \subseteq Tiles
  /\ t_tile_cores_paused \in BOOLEAN
  /\ e_cores_active \subseteq ECores
  /\ work \in [Tiles -> 0 .. MaxWork]
  /\ OneMaskPerCore /\ BusyCoversActive /\ FlagCoversPaused

LEMMA WriteSoftResetKeeps ==
  ASSUME MaskInv, NEW t \in Tiles, NEW data \in SUBSET Cores, WriteSoftReset(t, data)
  PROVE  MaskInv'
<1> DEFINE starts == {c \in Cores \ data : ~CoreActive(t, c)}
<1>1. starts \subseteq Cores \ data
  OBVIOUS
<1>2. starts \cap (rv32_cores_active[t] \cup rv32_cores_parked[t] \cup rv32_cores_paused[t]) = {}
  BY DEF CoreActive
<1>3. \A c \in Cores \ data :
        c \in starts \cup rv32_cores_active[t] \cup rv32_cores_parked[t] \cup rv32_cores_paused[t]
  BY DEF CoreActive
<1>4. /\ rv32_cores_active' = [rv32_cores_active EXCEPT ![t] = (@ \ data) \cup starts]
      /\ rv32_cores_parked' = [rv32_cores_parked EXCEPT ![t] = @ \ data]
      /\ rv32_cores_paused' = [rv32_cores_paused EXCEPT ![t] = @ \ data]
      /\ soft_reset_0' = [soft_reset_0 EXCEPT ![t] = data]
      /\ t_tiles_busy' = IF starts = {} THEN t_tiles_busy ELSE t_tiles_busy \cup {t}
      /\ UNCHANGED <<t_tile_cores_paused, e_cores_active, work>>
  BY DEF WriteSoftReset
<1> HIDE DEF starts
<1>5. /\ rv32_cores_active' \in [Tiles -> SUBSET Cores]
      /\ rv32_cores_parked' \in [Tiles -> SUBSET Cores]
      /\ rv32_cores_paused' \in [Tiles -> SUBSET Cores]
      /\ soft_reset_0' \in [Tiles -> SUBSET Cores]
      /\ t_tiles_busy' \subseteq Tiles
      /\ t_tile_cores_paused' \in BOOLEAN
      /\ e_cores_active' \subseteq ECores
      /\ work' \in [Tiles -> 0 .. MaxWork]
  BY <1>1, <1>4 DEF MaskInv
<1>6. OneMaskPerCore'
  <2> SUFFICES ASSUME NEW u \in Tiles
               PROVE  /\ rv32_cores_active'[u] \cup rv32_cores_parked'[u]
                           \cup rv32_cores_paused'[u] = Cores \ soft_reset_0'[u]
                      /\ rv32_cores_active'[u] \cap rv32_cores_parked'[u] = {}
                      /\ rv32_cores_active'[u] \cap rv32_cores_paused'[u] = {}
                      /\ rv32_cores_parked'[u] \cap rv32_cores_paused'[u] = {}
    BY DEF OneMaskPerCore
  <2>1. CASE u # t
    BY <1>4, <2>1 DEF MaskInv, OneMaskPerCore
  <2>2. CASE u = t
    <3>1. /\ rv32_cores_active'[t] = (rv32_cores_active[t] \ data) \cup starts
          /\ rv32_cores_parked'[t] = rv32_cores_parked[t] \ data
          /\ rv32_cores_paused'[t] = rv32_cores_paused[t] \ data
          /\ soft_reset_0'[t] = data
      BY <1>4 DEF MaskInv
    <3>2. /\ rv32_cores_active[t] \subseteq Cores /\ rv32_cores_parked[t] \subseteq Cores
          /\ rv32_cores_paused[t] \subseteq Cores
          /\ rv32_cores_active[t] \cap rv32_cores_parked[t] = {}
          /\ rv32_cores_active[t] \cap rv32_cores_paused[t] = {}
          /\ rv32_cores_parked[t] \cap rv32_cores_paused[t] = {}
      BY DEF MaskInv, OneMaskPerCore
    <3> QED BY <1>1, <1>2, <1>3, <2>2, <3>1, <3>2
  <2> QED BY <2>1, <2>2
<1>7. BusyCoversActive'
  BY <1>4 DEF MaskInv, BusyCoversActive
<1>8. FlagCoversPaused'
  BY <1>4 DEF MaskInv, FlagCoversPaused
<1> QED BY <1>5, <1>6, <1>7, <1>8 DEF MaskInv

LEMMA WriteResetKeeps ==
  ASSUME MaskInv, WriteReset
  PROVE  MaskInv'
<1>1. ASSUME NEW c \in ECores, NEW on \in BOOLEAN, WriteEReset(c, on) PROVE MaskInv'
  BY <1>1 DEF WriteEReset, coreVars, MaskInv, OneMaskPerCore, BusyCoversActive,
              FlagCoversPaused
<1> QED BY <1>1, WriteSoftResetKeeps DEF WriteReset

LEMMA PauseKeeps ==
  ASSUME MaskInv, NEW t \in Tiles, NEW c, Pause(t, c)
  PROVE  MaskInv'
<1>1. CASE c \notin rv32_cores_active[t]
  BY <1>1 DEF Pause, MaskInv, OneMaskPerCore, BusyCoversActive, FlagCoversPaused
<1>2. CASE c \in rv32_cores_active[t]
  <2>1. /\ rv32_cores_active' = [rv32_cores_active EXCEPT ![t] = @ \ {c}]
        /\ rv32_cores_paused' = [rv32_cores_paused EXCEPT ![t] = @ \cup {c}]
        /\ t_tile_cores_paused' = TRUE
        /\ UNCHANGED <<rv32_cores_parked, soft_reset_0, t_tiles_busy, e_cores_active, work>>
    BY <1>2 DEF Pause
  <2>2. OneMaskPerCore'
    BY <1>2, <2>1 DEF MaskInv, OneMaskPerCore
  <2>3. BusyCoversActive' /\ FlagCoversPaused'
    BY <2>1 DEF MaskInv, BusyCoversActive, FlagCoversPaused
  <2>4. c \in Cores
    BY <1>2 DEF MaskInv
  <2> QED BY <2>1, <2>2, <2>3, <2>4 DEF MaskInv
<1> QED BY <1>1, <1>2

LEMMA ParkKeeps ==
  ASSUME MaskInv, NEW t \in Tiles, NEW c, Park(t, c)
  PROVE  MaskInv'
BY DEF Park, MaskInv, OneMaskPerCore, BusyCoversActive, FlagCoversPaused

LEMMA PushInstKeeps ==
  ASSUME MaskInv, NEW t \in Tiles, PushInst(t)
  PROVE  MaskInv'
<1>1. PICK n \in 1 .. MaxWork - work[t] : work' = [work EXCEPT ![t] = @ + n]
  BY DEF PushInst
<1>2. work[t] \in 0 .. MaxWork /\ work[t] + n \in 0 .. MaxWork
  BY ClockAssumption DEF MaskInv
<1>3. work' \in [Tiles -> 0 .. MaxWork]
  BY <1>1, <1>2 DEF MaskInv
<1>4. BusyCoversActive'
  BY <1>1 DEF PushInst, coreVars, MaskInv, BusyCoversActive
<1> QED BY <1>3, <1>4 DEF PushInst, coreVars, MaskInv, OneMaskPerCore, FlagCoversPaused

LEMMA OtherInstKeeps ==
  ASSUME MaskInv, OtherInst
  PROVE  MaskInv'
BY DEF OtherInst, coreVars, MaskInv, OneMaskPerCore, BusyCoversActive, FlagCoversPaused

LEMMA Rv32StepKeeps ==
  ASSUME MaskInv, NEW t \in Tiles, NEW c, Rv32Step(t, c)
  PROVE  MaskInv'
BY PauseKeeps, ParkKeeps, PushInstKeeps, WriteResetKeeps, OtherInstKeeps DEF Rv32Step

\* The resumption of the paused cores loses none and wakes their tiles.
LEMMA StartClockKeeps ==
  ASSUME MaskInv, StartClock
  PROVE  MaskInv'
<1>1. CASE ~(t_tile_cores_paused /\ g_clock = 0)
  BY <1>1 DEF StartClock, MaskInv, OneMaskPerCore, BusyCoversActive, FlagCoversPaused
<1>2. CASE t_tile_cores_paused /\ g_clock = 0
  <2>1. /\ rv32_cores_active' =
             [t \in Tiles |-> rv32_cores_active[t] \cup rv32_cores_paused[t]]
        /\ rv32_cores_paused' = [t \in Tiles |-> {}]
        /\ t_tiles_busy' = t_tiles_busy \cup {t \in Tiles : rv32_cores_paused[t] # {}}
        /\ t_tile_cores_paused' = FALSE
        /\ UNCHANGED <<rv32_cores_parked, soft_reset_0, e_cores_active, work>>
    BY <1>2 DEF StartClock
  <2>2. OneMaskPerCore'
    BY <2>1 DEF MaskInv, OneMaskPerCore
  <2>3. BusyCoversActive'
    BY <2>1 DEF MaskInv, BusyCoversActive
  <2>4. FlagCoversPaused'
    BY <2>1 DEF FlagCoversPaused
  <2> QED BY <2>1, <2>2, <2>3, <2>4 DEF MaskInv
<1> QED BY <1>1, <1>2

-----------------------------------------------------------------------------
LEMMA InitClockInv == Init => ClockInv
<1> SUFFICES ASSUME Init PROVE ClockInv
  OBVIOUS
<1>1. TypeOK
  BY Bounds DEF Init, TypeOK
<1> QED BY <1>1 DEF Init, ClockInv, Visiting, OneMaskPerCore, BusyCoversActive, FlagCoversPaused

LEMMA NextKeepsClockInv ==
  ASSUME ClockInv, [Next]_vars
  PROVE  ClockInv'
<1>0. MaskInv
  BY DEF ClockInv, TypeOK, MaskInv
<1>a. SUFFICES MaskInv' /\ g_clock' \in 0 .. PauseClocks - 1 /\ tile_id' \in 0 .. NumTiles
               /\ at' \in {"host", "next tile", "cores", "pipes", "E cores", "E steps"}
               /\ rv32_mask' \subseteq Cores \cup ECores /\ steps' \in 0 .. BusySteps /\ Visiting'
  BY DEF ClockInv, TypeOK, MaskInv
<1> USE DEF loopVars, Goto, Visiting
<1>b. /\ g_clock \in 0 .. PauseClocks - 1 /\ tile_id \in 0 .. NumTiles
      /\ at \in {"host", "next tile", "cores", "pipes", "E cores", "E steps"}
      /\ rv32_mask \subseteq Cores \cup ECores /\ steps \in 0 .. BusySteps /\ Visiting
  BY DEF ClockInv, TypeOK
<1>c. ASSUME UNCHANGED <<coreVars, t_tiles_busy, t_tile_cores_paused, e_cores_active, work>>
      PROVE  MaskInv'
  BY <1>0, <1>c, OtherInstKeeps DEF OtherInst
<1>1. CASE HostWrite
  BY <1>0, <1>b, <1>1, WriteResetKeeps DEF HostWrite
<1>2. CASE StartClock
  BY <1>0, <1>b, <1>2, StartClockKeeps, Bounds DEF StartClock
<1>3. CASE VisitTile
  <2>1. NextBusyTile(tile_id) \in 0 .. NumTiles
    BY <1>b, NextBusyTileIsTile DEF ClockInv
  <2>2. NextBusyTile(tile_id) < NumTiles => NextBusyTile(tile_id) \in Tiles
    BY <2>1, ClockAssumption DEF Tiles
  <2>3. \A t \in Tiles : rv32_cores_active[t] \subseteq Cores
    BY <1>0 DEF MaskInv
  <2>4. e_cores_active \subseteq ECores
    BY <1>0 DEF MaskInv
  <2> QED BY <1>b, <1>c, <1>3, <2>1, <2>2, <2>3, <2>4 DEF VisitTile
<1>4. CASE StepCore
  BY <1>0, <1>b, <1>4, Rv32StepKeeps DEF StepCore
<1>5. CASE CoresStepped
  BY <1>b, <1>c, <1>5 DEF CoresStepped
<1>6. CASE PipesExecute
  <2>1. tile_id \in Tiles
    BY <1>b, <1>6 DEF PipesExecute
  <2>2. PICK n \in 1 .. work[tile_id] : work' = [work EXCEPT ![tile_id] = @ - n]
    BY <1>6 DEF PipesExecute
  <2>3. work[tile_id] \in 0 .. MaxWork /\ work[tile_id] - n \in 0 .. MaxWork
        /\ work[tile_id] > 0
    BY <1>0, <2>1, ClockAssumption DEF MaskInv
  <2>4. work' \in [Tiles -> 0 .. MaxWork]
    BY <1>0, <2>2, <2>3 DEF MaskInv
  <2>5. BusyCoversActive'
    BY <1>0, <1>6, <2>1, <2>2, <2>3 DEF PipesExecute, coreVars, MaskInv, BusyCoversActive
  <2>6. MaskInv'
    BY <1>0, <1>6, <2>4, <2>5
       DEF PipesExecute, coreVars, MaskInv, OneMaskPerCore, FlagCoversPaused
  <2>7. rv32_cores_active[tile_id] \subseteq Cores
    BY <1>0, <2>1 DEF MaskInv
  <2> QED BY <1>b, <1>6, <2>6, <2>7 DEF PipesExecute
<1>7. CASE PipesStall
  <2>1. tile_id \in Tiles
    BY <1>b, <1>7 DEF PipesStall
  <2>2. PICK n \in 0 .. work[tile_id] : work' = [work EXCEPT ![tile_id] = n]
    BY <1>7 DEF PipesStall
  <2>3. work[tile_id] \in 0 .. MaxWork /\ n \in 0 .. MaxWork /\ (n > 0 => work[tile_id] > 0)
    BY <1>0, <2>1, ClockAssumption DEF MaskInv
  <2>4. work' \in [Tiles -> 0 .. MaxWork]
    BY <1>0, <2>2, <2>3 DEF MaskInv
  <2>5. BusyCoversActive'
    <3> SUFFICES ASSUME NEW t \in Tiles, rv32_cores_active'[t] # {} \/ work'[t] > 0
                 PROVE  t \in t_tiles_busy'
      BY DEF BusyCoversActive
    <3>1. rv32_cores_active' = rv32_cores_active
      BY <1>7 DEF PipesStall, coreVars
    <3>2. t \in t_tiles_busy
      BY <1>0, <2>1, <2>2, <2>3, <3>1 DEF MaskInv, BusyCoversActive
    <3>3. CASE t # tile_id
      BY <1>7, <3>2, <3>3 DEF PipesStall
    <3>4. CASE t = tile_id
      <4>1. work'[tile_id] > 0 => work'[tile_id] # 0
        BY <2>1, <2>4
      <4>2. ~(rv32_cores_active[tile_id] = {} /\ work'[tile_id] = 0)
        BY <3>1, <3>4, <4>1
      <4>3. t_tiles_busy' = t_tiles_busy
        BY <1>7, <4>2 DEF PipesStall
      <4> QED BY <3>2, <4>3
    <3> QED BY <3>3, <3>4
  <2>6. MaskInv'
    BY <1>0, <1>7, <2>4, <2>5
       DEF PipesStall, coreVars, MaskInv, OneMaskPerCore, FlagCoversPaused
  <2>7. tile_id + 1 \in 0 .. NumTiles
    BY <2>1, Bounds
  <2> QED BY <1>b, <1>7, <2>6, <2>7 DEF PipesStall
<1>8. CASE StartECore
  BY <1>b, <1>c, <1>8, Bounds DEF StartECore
<1>9. CASE StepECore
  <2>1. steps - 1 \in 0 .. BusySteps
    <3>1. steps > 0 /\ steps \in 0 .. BusySteps
      BY <1>b, <1>9 DEF StepECore
    <3> QED BY <3>1, Bounds
  <2>2. MaskInv'
    BY <1>0, <1>9, WriteResetKeeps, OtherInstKeeps DEF StepECore
  <2> QED BY <1>b, <1>9, <2>1, <2>2 DEF StepECore
<1>10. CASE ECoreStepped
  BY <1>b, <1>c, <1>10, Bounds DEF ECoreStepped
<1>11. CASE EndClock
  <2>1. (g_clock + 1) % PauseClocks \in 0 .. PauseClocks - 1
    <3>1. PauseClocks \in Nat /\ PauseClocks > 0
      BY Bounds
    <3>2. g_clock \in 0 .. PauseClocks - 1
      BY <1>b
    <3> HIDE DEF loopVars, Goto, Visiting
    <3> QED BY <3>1, <3>2
  <2> QED BY <1>b, <1>c, <1>11, <2>1, Bounds DEF EndClock
<1>12. CASE UNCHANGED vars
  BY <1>b, <1>c, <1>12 DEF vars, coreVars
<1> QED BY <1>1, <1>2, <1>3, <1>4, <1>5, <1>6, <1>7, <1>8, <1>9, <1>10, <1>11, <1>12
        DEF Next, ClockStep

\* Every variable keeps its type, and the three parts below hold always.
THEOREM ClockInvariant == Spec => []ClockInv
<1>1. Init => ClockInv
  BY InitClockInv
<1>2. ClockInv /\ [Next]_vars => ClockInv'
  BY NextKeepsClockInv
<1> QED BY <1>1, <1>2, PTL DEF Spec

\* The clock loop visits tiles of the chip only, and no core that a tile does
\* not have gets into a mask.
THEOREM ClockTypes == Spec => []TypeOK
<1>1. ClockInv => TypeOK
  BY DEF ClockInv
<1> QED BY <1>1, ClockInvariant, PTL

\* Every core out of reset is in exactly one of the three masks of its tile,
\* for any order of resets, releases, PAUSEs and parking.
THEOREM MasksPartition == Spec => []OneMaskPerCore
<1>1. ClockInv => OneMaskPerCore
  BY DEF ClockInv
<1> QED BY <1>1, ClockInvariant, PTL

\* No tile with something to do is missing from the clock loop's mask.
THEOREM BusyTiles == Spec => []BusyCoversActive
<1>1. ClockInv => BusyCoversActive
  BY DEF ClockInv
<1> QED BY <1>1, ClockInvariant, PTL

\* A chip with a paused core has the flag that makes the clock resume it.
THEOREM PausedFlagged == Spec => []FlagCoversPaused
<1>1. ClockInv => FlagCoversPaused
  BY DEF ClockInv
<1> QED BY <1>1, ClockInvariant, PTL

-----------------------------------------------------------------------------
(* The refinement: what every step is in CoreStates.                       *)

StateStep == [States!Next]_StateOfCores

LEMMA StateOf ==
  ASSUME NEW t \in Tiles, NEW c \in Cores
  PROVE  StateOfCores[t][c] = CoreState(t, c)
BY DEF StateOfCores

\* A write to the reset register moves the cores of one tile at once.
LEMMA WriteSoftResetStep ==
  ASSUME ClockInv, NEW t \in Tiles, NEW data \in SUBSET Cores, WriteSoftReset(t, data)
  PROVE  StateStep
<1> DEFINE starts == {c \in Cores \ data : ~CoreActive(t, c)}
<1>1. /\ rv32_cores_active' = [rv32_cores_active EXCEPT ![t] = (@ \ data) \cup starts]
      /\ rv32_cores_parked' = [rv32_cores_parked EXCEPT ![t] = @ \ data]
      /\ rv32_cores_paused' = [rv32_cores_paused EXCEPT ![t] = @ \ data]
  BY DEF WriteSoftReset
<1>2. /\ rv32_cores_active \in [Tiles -> SUBSET Cores]
      /\ rv32_cores_parked \in [Tiles -> SUBSET Cores]
      /\ rv32_cores_paused \in [Tiles -> SUBSET Cores]
  BY DEF ClockInv, TypeOK
<1>3. \A c \in Cores :
        c \in starts <=> c \notin data /\ c \notin rv32_cores_active[t]
                          /\ c \notin rv32_cores_parked[t] /\ c \notin rv32_cores_paused[t]
  BY DEF CoreActive
<1> HIDE DEF starts
<1>4. ASSUME NEW c \in Cores
      PROVE  CoreState(t, c)' = CASE c \in data -> "reset"
                                  [] c \notin data /\ CoreState(t, c) = "reset" -> "running"
                                  [] OTHER -> CoreState(t, c)
  <2>1. /\ rv32_cores_active'[t] = (rv32_cores_active[t] \ data) \cup starts
        /\ rv32_cores_parked'[t] = rv32_cores_parked[t] \ data
        /\ rv32_cores_paused'[t] = rv32_cores_paused[t] \ data
    BY <1>1, <1>2
  <2> QED BY <1>3, <2>1 DEF CoreState
<1>5. ASSUME NEW u \in Tiles, u # t, NEW c \in Cores
      PROVE  CoreState(u, c)' = CoreState(u, c)
  BY <1>1, <1>2, <1>5 DEF CoreState
<1>6. StateOfCores' =
        [StateOfCores EXCEPT ![t] =
           [c \in Cores |-> CASE c \in data -> "reset"
                              [] c \notin data /\ StateOfCores[t][c] = "reset" -> "running"
                              [] OTHER -> StateOfCores[t][c]]]
  <2> DEFINE held == [c \in Cores |-> CASE c \in data -> "reset"
                                        [] c \notin data /\ StateOfCores[t][c] = "reset" -> "running"
                                        [] OTHER -> StateOfCores[t][c]]
  <2>1. StateOfCores'[t] = held
    BY <1>4, StateOf DEF StateOfCores
  <2>2. \A u \in Tiles : u # t => StateOfCores'[u] = StateOfCores[u]
    BY <1>5, StateOf DEF StateOfCores
  <2> HIDE DEF held
  <2>3. StateOfCores' = [StateOfCores EXCEPT ![t] = held]
    BY <2>1, <2>2 DEF StateOfCores
  <2> QED BY <2>3 DEF held
<1>7. States!SetHeld(t, data)
  BY <1>6 DEF States!SetHeld
<1> QED BY <1>7 DEF StateStep, States!Next

\* Nothing but the three masks matters to the states.
LEMMA SameMasks ==
  ASSUME UNCHANGED <<rv32_cores_active, rv32_cores_parked, rv32_cores_paused>>
  PROVE  UNCHANGED StateOfCores
BY DEF StateOfCores, CoreState

LEMMA PauseStep ==
  ASSUME ClockInv, NEW t \in Tiles, NEW c, Pause(t, c)
  PROVE  StateStep
<1>1. CASE c \notin rv32_cores_active[t]
  BY <1>1, SameMasks DEF Pause, StateStep
<1>2. CASE c \in rv32_cores_active[t]
  <2>1. /\ rv32_cores_active' = [rv32_cores_active EXCEPT ![t] = @ \ {c}]
        /\ rv32_cores_paused' = [rv32_cores_paused EXCEPT ![t] = @ \cup {c}]
        /\ rv32_cores_parked' = rv32_cores_parked
    BY <1>2 DEF Pause
  <2>2. /\ rv32_cores_active \in [Tiles -> SUBSET Cores]
        /\ rv32_cores_parked \in [Tiles -> SUBSET Cores]
        /\ rv32_cores_paused \in [Tiles -> SUBSET Cores]
        /\ rv32_cores_active[t] \cap rv32_cores_parked[t] = {}
    BY DEF ClockInv, TypeOK, OneMaskPerCore
  <2>3. c \in Cores
    BY <1>2, <2>2
  <2>4. CoreState(t, c) = "running" /\ CoreState(t, c)' = "paused"
    <3>1. c \notin rv32_cores_active'[t] /\ c \in rv32_cores_paused'[t]
      BY <2>1, <2>2
    <3>2. c \notin rv32_cores_parked'[t]
      BY <1>2, <2>1, <2>2
    <3>3. c \notin rv32_cores_parked[t] /\ c \notin rv32_cores_paused[t]
      BY <1>2 DEF ClockInv, OneMaskPerCore
    <3>4. CoreState(t, c) = "running"
      BY <1>2, <3>3 DEF CoreState
    <3>5. CoreState(t, c)' = "paused"
      BY <3>1, <3>2 DEF CoreState
    <3> QED BY <3>4, <3>5
  <2>5. ASSUME NEW u \in Tiles, NEW d \in Cores, u # t \/ d # c
        PROVE  CoreState(u, d)' = CoreState(u, d)
    BY <2>1, <2>2, <2>5 DEF CoreState
  <2>6. StateOfCores' = [StateOfCores EXCEPT ![t][c] = "paused"]
    BY <2>3, <2>4, <2>5 DEF StateOfCores
  <2>7. StateOfCores[t][c] = "running"
    BY <2>3, <2>4, StateOf
  <2>8. States!Stop(t, c, "paused")
    BY <2>6, <2>7 DEF States!Stop
  <2> QED BY <2>3, <2>8 DEF StateStep, States!Next
<1> QED BY <1>1, <1>2

LEMMA ParkStep ==
  ASSUME ClockInv, NEW t \in Tiles, NEW c, Park(t, c)
  PROVE  StateStep
<1>1. CASE c \notin rv32_cores_active[t]
  BY <1>1, SameMasks DEF Park, StateStep
<1>2. CASE c \in rv32_cores_active[t]
  <2>1. /\ rv32_cores_active' = [rv32_cores_active EXCEPT ![t] = @ \ {c}]
        /\ rv32_cores_parked' = [rv32_cores_parked EXCEPT ![t] = @ \cup {c}]
        /\ rv32_cores_paused' = rv32_cores_paused
    BY <1>2 DEF Park
  <2>2. /\ rv32_cores_active \in [Tiles -> SUBSET Cores]
        /\ rv32_cores_parked \in [Tiles -> SUBSET Cores]
        /\ rv32_cores_paused \in [Tiles -> SUBSET Cores]
    BY DEF ClockInv, TypeOK
  <2>3. c \in Cores
    BY <1>2, <2>2
  <2>4. CoreState(t, c) = "running" /\ CoreState(t, c)' = "parked"
    <3>1. c \notin rv32_cores_active'[t] /\ c \in rv32_cores_parked'[t]
      BY <2>1, <2>2
    <3>2. c \notin rv32_cores_parked[t] /\ c \notin rv32_cores_paused[t]
      BY <1>2 DEF ClockInv, OneMaskPerCore
    <3>3. c \notin rv32_cores_paused'[t]
      BY <2>1, <3>2
    <3>4. CoreState(t, c) = "running"
      BY <1>2, <3>2 DEF CoreState
    <3>5. CoreState(t, c)' = "parked"
      BY <3>1, <3>3 DEF CoreState
    <3> QED BY <3>4, <3>5
  <2>5. ASSUME NEW u \in Tiles, NEW d \in Cores, u # t \/ d # c
        PROVE  CoreState(u, d)' = CoreState(u, d)
    BY <2>1, <2>2, <2>5 DEF CoreState
  <2>6. StateOfCores' = [StateOfCores EXCEPT ![t][c] = "parked"]
    BY <2>3, <2>4, <2>5 DEF StateOfCores
  <2>7. StateOfCores[t][c] = "running"
    BY <2>3, <2>4, StateOf
  <2>8. States!Stop(t, c, "parked")
    BY <2>6, <2>7 DEF States!Stop
  <2> QED BY <2>3, <2>8 DEF StateStep, States!Next
<1> QED BY <1>1, <1>2

LEMMA StartClockStep ==
  ASSUME ClockInv, StartClock
  PROVE  StateStep
<1>1. CASE ~(t_tile_cores_paused /\ g_clock = 0)
  BY <1>1, SameMasks DEF StartClock, StateStep
<1>2. CASE t_tile_cores_paused /\ g_clock = 0
  <2>1. /\ rv32_cores_active' =
             [t \in Tiles |-> rv32_cores_active[t] \cup rv32_cores_paused[t]]
        /\ rv32_cores_paused' = [t \in Tiles |-> {}]
        /\ rv32_cores_parked' = rv32_cores_parked
    BY <1>2 DEF StartClock
  <2>2. \A t \in Tiles : rv32_cores_parked[t] \cap rv32_cores_paused[t] = {}
    BY DEF ClockInv, OneMaskPerCore
  <2>3. ASSUME NEW t \in Tiles, NEW c \in Cores
        PROVE  CoreState(t, c)' = IF CoreState(t, c) = "paused" THEN "running"
                                  ELSE CoreState(t, c)
    BY <2>1, <2>2 DEF CoreState
  <2>4. StateOfCores' =
          [t \in Tiles |->
             [c \in Cores |-> IF StateOfCores[t][c] = "paused" THEN "running"
                              ELSE StateOfCores[t][c]]]
    BY <2>3, StateOf DEF StateOfCores
  <2>5. States!ResumeAll
    BY <2>4 DEF States!ResumeAll
  <2> QED BY <2>5 DEF StateStep, States!Next
<1> QED BY <1>1, <1>2

LEMMA WriteResetStep ==
  ASSUME ClockInv, WriteReset
  PROVE  StateStep
<1>1. ASSUME NEW c \in ECores, NEW on \in BOOLEAN, WriteEReset(c, on) PROVE StateStep
  BY <1>1, SameMasks DEF WriteEReset, coreVars, StateStep
<1> QED BY <1>1, WriteSoftResetStep DEF WriteReset

LEMMA NextIsStateStep ==
  ASSUME ClockInv, [Next]_vars
  PROVE  StateStep
<1>1. CASE HostWrite
  BY <1>1, WriteResetStep DEF HostWrite
<1>2. CASE StartClock
  BY <1>2, StartClockStep
<1>3. CASE StepCore
  <2>1. tile_id \in Tiles /\ Rv32Step(tile_id, Min(rv32_mask))
    BY <1>3 DEF StepCore, ClockInv, Visiting
  <2>2. CASE PushInst(tile_id) \/ OtherInst
    BY <2>2, SameMasks DEF PushInst, OtherInst, coreVars, StateStep
  <2> QED BY <2>1, <2>2, PauseStep, ParkStep, WriteResetStep DEF Rv32Step
<1>4. CASE StepECore
  <2>1. CASE WriteReset
    BY <2>1, WriteResetStep
  <2>2. CASE OtherInst
    BY <2>2, SameMasks DEF OtherInst, coreVars, StateStep
  <2> QED BY <1>4, <2>1, <2>2 DEF StepECore
<1>5. CASE \/ VisitTile \/ CoresStepped \/ PipesExecute \/ PipesStall
           \/ StartECore \/ ECoreStepped \/ EndClock \/ UNCHANGED vars
  <2>1. UNCHANGED <<rv32_cores_active, rv32_cores_parked, rv32_cores_paused>>
    BY <1>5 DEF VisitTile, CoresStepped, PipesExecute, PipesStall, StartECore,
                ECoreStepped, EndClock, vars, coreVars
  <2> QED BY <2>1, SameMasks DEF StateStep
<1> QED BY <1>1, <1>2, <1>3, <1>4, <1>5 DEF Next, ClockStep

\* The masks of the clock loop implement the four states of a core.
THEOREM MasksImplementStates == Spec => CoresKeepStates
<1>1. Init => States!Init
  BY DEF Init, States!Init, StateOfCores, CoreState
<1>2. ClockInv /\ [Next]_vars => [States!Next]_StateOfCores
  BY NextIsStateStep DEF StateStep
<1>3. Spec => []ClockInv
  BY ClockInvariant
<1> QED BY <1>1, <1>2, <1>3, PTL DEF Spec, CoresKeepStates, States!Spec
=============================================================================
