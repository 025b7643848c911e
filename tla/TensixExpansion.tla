--------------------------- MODULE TensixExpansion ---------------------------
(***************************************************************************)
(* What a MOP and a REPLAY stand for, as functions of the configuration    *)
(* and of the replay buffer: the reference that the step-by-step expanders *)
(* of TensixFrontend are compared with.                                    *)
(***************************************************************************)
EXTENDS Integers, SequencesExt

Nop(i) == i.opcode = "NOP"
Unless(c, i) == IF c THEN <<>> ELSE <<i>>
Only(c, i) == IF c THEN <<i>> ELSE <<>>

\* A type 0 MOP: one of two templates per iteration, by the zero mask.
Type0(c, zmask, count) ==
  LET extra == c.loop[1] \in {1, 3}
      more  == c.loop[1] \in {2, 3}
      unmasked == <<c.op[3]>> \o (IF more THEN <<c.op[4], c.op[5], c.op[6]>> ELSE <<>>)
                              \o Only(extra, c.op[2])
      masked == <<c.op[7]>> \o Only(extra, c.op[8])
  IN FlattenSeq([n \in 1 .. count + 1 |-> IF n - 1 \in zmask THEN masked ELSE unmasked])

\* A type 1 MOP: a double loop.  The last instruction of an inner loop is
\* replaced, by one register in the last outer iteration and by another in
\* the others; a second inner instruction alternates with the first.
Type1(c) ==
  LET one  == Nop(c.op[6])
      len  == IF one THEN c.loop[1] ELSE 2 * c.loop[1]
      inner(n) == [k \in 1 .. len |->
        IF k = len THEN (IF n = c.loop[0] THEN c.op[7] ELSE c.op[8])
        ELSE IF one \/ k % 2 = 1 THEN c.op[5] ELSE c.op[6]]
      outer(n) == Unless(Nop(c.op[2]), c.op[2])
                  \o inner(n)
                  \o Unless(Nop(c.op[3]), c.op[3])
                  \o Unless(Nop(c.op[3]) \/ Nop(c.op[4]), c.op[4])
  IN FlattenSeq([n \in 1 .. c.loop[0] |-> outer(n)])

Expansion(c, hi, i) ==
  IF i.type = 0 THEN Type0(c, i.zlo \cup hi, i.count) ELSE Type1(c)

\* An instruction at the Replay Expander, in state r; r.out is what it has
\* let through and is yet to issue, from which NOPs are dropped.
Let(out, i) == out \o Unless(Nop(i), i)
NoNops(s) == FlattenSeq([n \in 1 .. Len(s) |-> Unless(Nop(s[n]), s[n])])

Replayed(r, i) ==
  IF r.broken THEN r
  ELSE IF r.left > 0
  THEN IF i.opcode = "REPLAY" THEN [r EXCEPT !.broken = TRUE]
       ELSE [r EXCEPT !.buf[r.index] = i, !.index = @ + 1, !.left = @ - 1,
                      !.out = IF r.exec THEN Let(@, i) ELSE @]
  ELSE IF i.opcode # "REPLAY" THEN [r EXCEPT !.out = Let(@, i)]
  ELSE IF i.load THEN [r EXCEPT !.index = i.start, !.left = i.len, !.exec = i.exec]
  ELSE [r EXCEPT !.out = @ \o NoNops([n \in 1 .. i.len |-> r.buf[i.start + n - 1]])]

\* A whole sequence.  (Binding every intermediate value makes TLC compute it
\* only once.)
Through(r0, s0) ==
  LET run(s) ==
        LET after[n \in 0 .. Len(s)] ==
              IF n = 0 THEN r0
              ELSE CHOOSE r \in {Replayed(before, s[n]) : before \in {after[n - 1]}} : TRUE
        IN after[Len(s)]
  IN CHOOSE r \in {run(s) : s \in {s0}} : TRUE
=============================================================================
