------------------------------- MODULE ArcTile -------------------------------
(* The ARC tile as the host sees it (src/src/tile.cpp): its shared memory       *)
(* (CSM), the reset unit's scratch and control registers, and the two ways a    *)
(* host sends it a message.  Wormhole: the code goes to scratch 5, the answer   *)
(* comes back in scratch 3.  Blackhole: request and response rings in CSM,      *)
(* whose pointers run modulo twice the ring's size.  One word stands for one    *)
(* 32-byte entry or one register.                                               *)
(*                                                                              *)
(* A tile is a record [csm, scratch, misc]; the operators return [a, ok]: the   *)
(* tile after the access and whether the simulator goes on.                     *)
EXTENDS Integers, Sequences, SequencesExt

CONSTANTS
  NumQueues,    \* ARC_MSG_NUM_QUEUES
  NumEntries,   \* ARC_MSG_QUEUE_NUM_ENTRIES
  Harvested,    \* [chip -> the harvesting mask the ARC reports for it]
  Wrap          \* 2^32: the pointers are unsigned words

ASSUME ArcAssumption == NumQueues \in Nat /\ NumEntries \in Nat \ {0}

(* CSM, in words: per queue a header (the request write and read pointers, the  *)
(* response write and read pointers), the request slots, the response slots.    *)
ReqWr == 0
ReqRd == 1
ResWr == 2
ResRd == 3
Header == 4
Stride == Header + 2 * NumEntries
Queue(q) == q * Stride
ReqSlot(q, k) == Queue(q) + Header + (k % NumEntries)
ResSlot(q, k) == Queue(q) + Header + NumEntries + (k % NumEntries)
CsmSize == NumQueues * Stride
Ring == 2 * NumEntries

(* The addresses of the ARC tile's peripherals: the scratch registers, the      *)
(* control register with the message interrupt, the message FIFO.               *)
Apb == CsmSize
Scratch(i) == Apb + i
MiscCntl == Apb + 8
MsiFifo == Apb + 9
Irq0 == 1
Scratches == 0..7

(* The messages that have an answer; every other known code answers nothing.    *)
NOP == 17
GET_HARVESTING == 87
DRAM_TRAINED == 88
AICLK == 52
Codes(wormhole) == {NOP, GET_HARVESTING, DRAM_TRAINED} \cup (IF wormhole THEN {AICLK} ELSE {})
AICLK_MHZ == 1000

(* The word a message leaves in the response, given what the word held.         *)
Answer(chip, code, held) ==
  CASE code = GET_HARVESTING -> Harvested[chip]
    [] code = DRAM_TRAINED -> 1
    [] code = AICLK -> AICLK_MHZ
    [] OTHER -> held

Occupied(csm, q) == ((csm[Queue(q) + ReqWr] - csm[Queue(q) + ReqRd]) % Wrap) % Ring

(* A mutant: the response keeps what its slot held before.                      *)
ServeOneOver(csm, chip, q) ==
  LET rd == csm[Queue(q) + ReqRd]
      wr == csm[Queue(q) + ResWr]
  IN [csm EXCEPT ![ResSlot(q, wr)] = Answer(chip, csm[ReqSlot(q, rd)], csm[ResSlot(q, wr)]),
                 ![Queue(q) + ResWr] = (wr + 1) % Ring,
                 ![Queue(q) + ReqRd] = (rd + 1) % Ring]

(* One request: the response slot is written whole, from a cleared buffer.      *)
ServeOne(csm, chip, q) ==
  LET rd == csm[Queue(q) + ReqRd]
      wr == csm[Queue(q) + ResWr]
  IN [csm EXCEPT ![ResSlot(q, wr)] = Answer(chip, csm[ReqSlot(q, rd)], 0),
                 ![Queue(q) + ResWr] = (wr + 1) % Ring,
                 ![Queue(q) + ReqRd] = (rd + 1) % Ring]

(* One queue, drained: as many requests as the pointers stood apart at first.   *)
(* More requests than entries, or a code without a handler, end the run.        *)
Drain(a, chip, q) ==
  LET n == Occupied(a.csm, q)
      asked == {a.csm[ReqSlot(q, a.csm[Queue(q) + ReqRd] + k)] : k \in 0..(n - 1)}
  IN IF n > NumEntries \/ ~(asked \subseteq Codes(FALSE)) THEN [a |-> a, ok |-> FALSE]
     ELSE [a |-> [a EXCEPT !.csm = FoldLeft(LAMBDA csm, i : ServeOne(csm, chip, q), @,
                                            [i \in 1..n |-> i])],
           ok |-> TRUE]

(* Whichever queue the message is in, all of them are drained.                  *)
ProcessQueues(a, chip) ==
  FoldLeft(LAMBDA r, q : IF r.ok THEN Drain(r.a, chip, q) ELSE r,
           [a |-> a, ok |-> TRUE], [i \in 1..NumQueues |-> i - 1])

(* Wormhole: the code in scratch 5 is answered in scratch 3, and scratch 5      *)
(* shows the exit code, zero, with the message's code.                          *)
ProcessScratch(a, chip) ==
  IF a.scratch[5] \notin Codes(TRUE) THEN [a |-> a, ok |-> FALSE]
  ELSE [a |-> [a EXCEPT !.scratch[3] = Answer(chip, a.scratch[5], @)], ok |-> TRUE]

Message(a, wormhole, chip) ==
  IF wormhole THEN ProcessScratch(a, chip) ELSE ProcessQueues(a, chip)

(* The interrupt bit of the control register is gone when the write returns.    *)
Acknowledged(r) == [r EXCEPT !.a.misc = 0]

ArcWrite(a, wormhole, chip, addr, v) ==
  CASE addr \in 0..(CsmSize - 1) -> [a |-> [a EXCEPT !.csm[addr] = v], ok |-> TRUE]
    [] addr \in {Scratch(i) : i \in Scratches} ->
         [a |-> [a EXCEPT !.scratch[addr - Apb] = v], ok |-> ~(wormhole /\ addr = Scratch(1))]
    [] addr = MiscCntl /\ v = Irq0 ->
         Acknowledged(Message([a EXCEPT !.misc = v], wormhole, chip))
    [] addr = MiscCntl /\ v # Irq0 -> [a |-> [a EXCEPT !.misc = v], ok |-> TRUE]
    [] addr = MsiFifo /\ ~wormhole -> ProcessQueues(a, chip)
    [] OTHER -> [a |-> a, ok |-> FALSE]

ArcReadable(wormhole, addr) ==
  /\ addr \in 0..MiscCntl
  /\ ~(wormhole /\ addr = Scratch(1))

ArcRead(a, addr) ==
  CASE addr < Apb -> a.csm[addr]
    [] addr = MiscCntl -> a.misc
    [] OTHER -> a.scratch[addr - Apb]

ArcInit == [csm |-> [w \in 0..(CsmSize - 1) |-> 0], scratch |-> [i \in Scratches |-> 0], misc |-> 0]

ArcType ==
  [csm : [0..(CsmSize - 1) -> Nat], scratch : [Scratches -> Nat], misc : Nat]
=============================================================================
