--------------------------- MODULE TensixRefinement ---------------------------
(***************************************************************************)
(* TensixFrontend implements TensixStream: what a pipe still has to issue  *)
(* is its FIFO, then what is left of the replay being played, then what is *)
(* left of the MOP, sent through the Replay Expander.                      *)
(***************************************************************************)
EXTENDS TensixFrontend, TensixExpansion

Ring(p) == [n \in 1 .. InstFifoUsed(p) |-> inst[p][(inst_rd_ptr[p] + n - 1) % FifoSize]]

Playing(p) == [n \in 1 .. replay_play_left[p] |-> replay_buf[p][replay_play_index[p] + n - 1]]

\* What is left of iteration `it' of a MOP from step `from' on, and of the MOP.
Emits(m, it, k) == IF Skipped(m, it, k) THEN <<>> ELSE <<MopStepInst(m, it, k)>>
RestOfIteration(m, it, from) ==
  FlattenSeq([n \in 1 .. Steps(m, it) - from |-> Emits(m, it, from + n - 1)])
RestOfMop(m) ==
  FlattenSeq([n \in 1 .. Iters(m) - m.iter |->
                RestOfIteration(m, m.iter + n - 1, IF n = 1 THEN m.step ELSE 0)])

\* What a pipe has let through its expanders, in the state of Replayed.
AtExpander(p) ==
  [buf |-> replay_buf[p], index |-> replay_index[p], left |-> replay_left[p],
   exec |-> replay_execute_while_loading[p],
   out |-> Ring(p) \o NoNops(Playing(p)),
   broken |-> error = "nested REPLAY" /\ expanding = p]

\* The pipe once all that is being expanded has gone through its expanders.
Drained(p) == Through(AtExpander(p), IF mop[p].busy THEN RestOfMop(mop[p]) ELSE <<>>)

Stream == INSTANCE TensixStream WITH
  stream   <- [p \in Pipes |-> Drained(p)],
  zmask_hi <- mop_zmask_hi16,
  cfg      <- mop_cfg,
  ZeroInst <- Zero

\* The front end implements the stream: back-pressure, the two expanders and
\* the interleaving with configuration writes change neither which
\* instructions a pipe issues nor their order.
StreamSpec == Stream!Spec
=============================================================================
