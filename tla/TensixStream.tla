----------------------------- MODULE TensixStream -----------------------------
(***************************************************************************)
(* What the front end of TensixFrontend promises the threads that push to  *)
(* it: the instructions of a pipe issue in program order, each MOP and     *)
(* REPLAY replaced by its expansion under the configuration and the replay *)
(* buffer at the time of the push, however long the expansion takes and    *)
(* whatever is written to the configuration meanwhile.  Here a push        *)
(* expands at once, into an unbounded queue.                               *)
(***************************************************************************)
EXTENDS TensixExpansion

CONSTANTS Pipes, ReplaySize, Pushed, Bypassed, LoopWrites, OpWrites, InitMopCfg, ZeroInst

VARIABLES
  stream,    \* stream[p]: the state of pipe p (see StreamInit)
  zmask_hi,  \* zmask_hi[p]: the high half of the zero mask
  cfg        \* cfg[p]: the MOP configuration registers

vars == <<stream, zmask_hi, cfg>>

\* `out' holds the instructions pushed and not yet issued; buf, index, left
\* and exec are the replay buffer and the recording in progress; broken says
\* that a nested REPLAY was pushed, after which nothing counts.
StreamInit == [out |-> <<>>, buf |-> [k \in 0 .. ReplaySize - 1 |-> ZeroInst],
               index |-> 0, left |-> 0, exec |-> FALSE, broken |-> FALSE]

Feed(p, s) == stream' = [stream EXCEPT ![p] = Through(@, s)]

Push(p, i) ==
  /\ UNCHANGED cfg
  /\ CASE i.opcode = "MOP"     -> UNCHANGED zmask_hi /\ Feed(p, Expansion(cfg[p], zmask_hi[p], i))
       [] i.opcode = "MOP_CFG" -> /\ zmask_hi' = [zmask_hi EXCEPT ![p] = i.hi]
                                  /\ UNCHANGED stream
       [] OTHER                -> UNCHANGED zmask_hi /\ Feed(p, <<i>>)

PushBypass(p, i) == UNCHANGED <<zmask_hi, cfg>> /\ Feed(p, <<i>>)

WriteCfg(p) ==
  /\ \/ \E k \in 0 .. 1 : \E n \in LoopWrites[k] : cfg' = [cfg EXCEPT ![p].loop[k] = n]
     \/ \E k \in 2 .. 8 : \E i \in OpWrites[k] : cfg' = [cfg EXCEPT ![p].op[k] = i]
  /\ UNCHANGED <<stream, zmask_hi>>

Issue(p) ==
  /\ stream[p].out # <<>>
  /\ stream' = [stream EXCEPT ![p].out = Tail(@)]
  /\ UNCHANGED <<zmask_hi, cfg>>

Init ==
  /\ stream = [p \in Pipes |-> StreamInit]
  /\ zmask_hi = [p \in Pipes |-> {}]
  /\ cfg \in [Pipes -> InitMopCfg]

Next ==
  \E p \in Pipes :
    \/ \E i \in Pushed : Push(p, i)
    \/ \E i \in Bypassed : PushBypass(p, i)
    \/ WriteCfg(p)
    \/ Issue(p)

Spec == Init /\ [][Next]_vars
=============================================================================
