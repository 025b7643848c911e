-------------------------- MODULE MCTensixFrontend --------------------------
(***************************************************************************)
(* TensixFrontend and its refinement of TensixStream, for TLC.             *)
(***************************************************************************)
EXTENDS TensixRefinement

CONSTANTS p0, p1, a, b, c, d

Op(id) == [opcode |-> "OP", id |-> id]
MopOf(type, zlo, count) == [opcode |-> "MOP", type |-> type, zlo |-> zlo, count |-> count]
Load(start, len, exec) ==
  [opcode |-> "REPLAY", load |-> TRUE, exec |-> exec, start |-> start, len |-> len]
Play(start, len) ==
  [opcode |-> "REPLAY", load |-> FALSE, exec |-> FALSE, start |-> start, len |-> len]

Limit1 == [p \in Pipes |-> 1]
Limit2 == [p \in Pipes |-> 2]
NoneBypassed == {}
NoLoopWrites == [k \in 0 .. 1 |-> {}]
NoWrites == [k \in OpRegs |-> {}]

\* The registers of a MOP configuration under their type 1 names.
LoopCfg(n, m, start, end0, end1, op, op1, last0, last1) ==
  [loop |-> [k \in 0 .. 1 |-> IF k = 0 THEN n ELSE m],
   op |-> [k \in OpRegs |-> <<start, end0, end1, op, op1, last0, last1>>[k - 1]]]

\* One pipe. Replays: load with and without executing, play; MOPs of both
\* types, one of which plays a replay before another instruction, while the
\* inner loop (the flags of a type 0 MOP) is rewritten.
ReplayCfg == {LoopCfg(1, 1, NOP, Op(b), NOP, Op(c), NOP, Play(0, 2), Op(b))}
ReplayPushed == {NOP, Load(0, 2, TRUE), Load(1, 1, FALSE), Play(0, 2), MopOf(1, {}, 0), MopOf(0, {0}, 1),
                 [opcode |-> "MOP_CFG", hi |-> {1}]}
ReplayLoopWrites == [NoLoopWrites EXCEPT ![1] = {0}]
ReplayBypassed == {Op(b), Play(0, 1)}

\* Two pipes at work at once, with a MOP that is longer than their FIFOs and
\* a configuration that is rewritten while it expands: a double loop with two
\* inner instructions, the first of two ends a NOP.
PairCfg == {LoopCfg(2, 1, NOP, NOP, Op(c), Op(a), Op(d), Op(a), Op(b))}
PairPushed == {Op(a), MopOf(1, {}, 0)}
PairOpWrites == [NoWrites EXCEPT ![6] = {NOP}]
=============================================================================
