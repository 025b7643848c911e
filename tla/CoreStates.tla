------------------------------ MODULE CoreStates ------------------------------
(***************************************************************************)
(* What the masks of TileClock promise: every RISC-V core of a T tile is   *)
(* always in exactly one of four states, only a write to its tile's soft   *)
(* reset register takes it into or out of reset, a parked core leaves that *)
(* state by a reset alone, and all paused cores resume together.           *)
(***************************************************************************)
CONSTANTS Tiles, Cores

VARIABLE state    \* state[t][c]

States == {"reset", "running", "parked", "paused"}

Init == state = [t \in Tiles |-> [c \in Cores |-> "reset"]]

\* A write that holds the cores of `held' in reset and no others.
SetHeld(t, held) ==
  state' = [state EXCEPT ![t] =
              [c \in Cores |-> CASE c \in held -> "reset"
                                 [] c \notin held /\ @[c] = "reset" -> "running"
                                 [] OTHER -> @[c]]]

Stop(t, c, s) ==
  /\ state[t][c] = "running"
  /\ state' = [state EXCEPT ![t][c] = s]

ResumeAll ==
  state' = [t \in Tiles |->
              [c \in Cores |-> IF state[t][c] = "paused" THEN "running" ELSE state[t][c]]]

Next ==
  \/ \E t \in Tiles : \E held \in SUBSET Cores : SetHeld(t, held)
  \/ \E t \in Tiles, c \in Cores : Stop(t, c, "parked") \/ Stop(t, c, "paused")
  \/ ResumeAll

Spec == Init /\ [][Next]_state
=============================================================================
