------------------------------ MODULE TensixSync ------------------------------
(***************************************************************************)
(* The Tensix instructions with which threads wait for one another         *)
(* (src/tensix.cpp): mutexes, semaphores, and the waits that the Wait Gate *)
(* keeps; and the RISC-V cores' side of the semaphores and their mailboxes *)
(* (src/tile.cpp).                                                         *)
(*                                                                         *)
(* The clock loop (src/libttsim.cpp) lets the cores of a tile take a step  *)
(* each, then tries the next instruction of every thread once, in the      *)
(* order of the threads, and starts over.  An instruction that has to wait *)
(* is tried again in the next pass.                                        *)
(***************************************************************************)
EXTENDS Integers, Sequences

CONSTANTS
  NumPipes,    \* TENSIX_INST_PIPES
  Mutexes,
  Sems,
  SemLimit,    \* the most a semaphore counts to (15 in the code)
  Kernels,     \* what software may be running; for a kernel k
  Program,     \* Program[k][p]: what thread p executes ...
  LoopStart,   \* ... once, and from LoopStart[k][p] on over and over
  CorePosts,   \* CorePosts[k]: <<p, s>> if thread p's TRISC posts semaphore s
  CoreGets,    \* CoreGets[k]: <<p, s>> if it polls s, and gets it when it can
  Mail         \* Mail[k][c]: the loads and stores of mailboxes core c repeats

Pipes == 0 .. NumPipes - 1
Cores == 0 .. NumPipes    \* BRISC, then the TRISC of each pipe

\* The bits of a block mask: "sync" is B1, which holds the instructions of
\* this module; the others hold what the units execute.
Units  == {"sync", "unpack", "math", "pack"}
Blocks == SUBSET Units

Inst ==
  [op: {"ATGETM", "ATRELM"}, mutex: Mutexes]
  \cup [op: {"SEMPOST", "SEMGET"}, sem: Sems]
  \cup [op: {"SEMINIT"}, sem: Sems, value: 0 .. SemLimit, max: 0 .. SemLimit]
  \cup [op: {"SEMWAIT"}, sems: SUBSET Sems, cond: {"max", "zero"}, block: Blocks \ {{}}]
  \cup [op: {"STALLWAIT"}, block: Blocks \ {{}}]
  \cup [op: {"OTHER"}, unit: Units \ {"sync"}]

\* A store to reader `of', or a load from writer `of'.
Letter == [op: {"store"}, of: Cores, data: Nat] \cup [op: {"load"}, of: Cores]

ASSUME SyncAssumption ==
  /\ NumPipes \in Nat \ {0} /\ SemLimit \in Nat
  /\ \A k \in Kernels : \A p \in Pipes : /\ Program[k][p] \in Seq(Inst)
                                          /\ LoopStart[k][p] \in 1 .. Len(Program[k][p])
  /\ \A k \in Kernels : /\ CorePosts[k] \subseteq Pipes \X Sems
                          /\ CoreGets[k] \subseteq Pipes \X Sems
                          /\ \A c \in Cores : Mail[k][c] \in Seq(Letter)

VARIABLES
  kernel,      \* the kernel that runs
  wormhole,    \* the architecture is Wormhole (else Blackhole)
  mutex,       \* mutex[m]: 1 + the thread that has it, or 0
  sem, sem_max,
  wait_block,  \* wait_block[p]: the block mask of the latched wait, {} if none
  wait_sems, wait_sem_cond,
  pc,          \* pc[p]: the instruction of Code(p) that is next
  in_fifo,     \* in_fifo[p]: it is in the instruction FIFO
  saw,         \* saw[p]: the semaphores thread p's TRISC read and found nonzero
  mailbox,     \* mailbox[w][r]: <<>>, or what core w wrote to core r
  mail_pc,     \* mail_pc[c]: the element of Mail[kernel][c] that is next
  turn,        \* the thread whose instruction is tried next, or NumPipes: the cores
  error        \* the TTSIM_VERIFY that ended the simulation, or none

Code(p) == Program[kernel][p]

setup == <<kernel, wormhole>>
mails == <<mailbox, mail_pc>>
waits == <<wait_block, wait_sems, wait_sem_cond>>
syncs == <<mutex, sem, sem_max, wait_block, wait_sems, wait_sem_cond, pc, in_fifo,
           saw, turn, error>>
vars  == <<setup, mails, syncs>>

TypeOK ==
  /\ kernel \in Kernels /\ wormhole \in BOOLEAN
  /\ mutex \in [Mutexes -> 0 .. NumPipes]
  /\ sem \in [Sems -> 0 .. SemLimit]
  /\ sem_max \in [Sems -> 0 .. SemLimit]
  /\ wait_block \in [Pipes -> Blocks]
  /\ wait_sems \in [Pipes -> SUBSET Sems]
  /\ wait_sem_cond \in [Pipes -> {"max", "zero"}]
  /\ pc \in [Pipes -> Nat] /\ \A p \in Pipes : pc[p] \in 1 .. Len(Code(p))
  /\ in_fifo \in [Pipes -> BOOLEAN]
  /\ saw \in [Pipes -> SUBSET Sems]
  /\ mailbox \in [Cores -> [Cores -> Seq(Nat)]]
  /\ mail_pc \in [Cores -> Nat]
  /\ turn \in 0 .. NumPipes
  /\ error \in {"none", "mutex already acquired", "mutex not acquired",
                "semaphore at its maximum", "semaphore underflow", "semaphore overflow",
                "semaphore after SEMWAIT", "bad SEMINIT", "latched wait replaced"}

-----------------------------------------------------------------------------
(* The Wait Gate.                                                          *)

\* block_mask_holds
Holds(block, i) ==
  \/ block = Units
  \/ i.op = "STALLWAIT"
  \/ i.op = "SEMWAIT" /\ ~wormhole
  \/ (IF i.op = "OTHER" THEN i.unit ELSE "sync") \in block

\* What is left of thread p's latched wait when i reaches the Wait Gate.
Latched(p, i) == IF Holds(wait_block[p], i) THEN {} ELSE wait_block[p]

\* SEMINIT, SEMPOST and SEMGET must not change what the thread's own latched
\* SEMWAIT waits for, which hardware goes on evaluating.
UnderOwnWait(p, i) == Latched(p, i) # {} /\ i.sem \in wait_sems[p]

-----------------------------------------------------------------------------
(* tensix_execute_inst.  Executes(p, i) ends with the instruction executed *)
(* and Stalls(p, i) with it still in the FIFO; both have passed the gate.  *)

NextPc(p) == IF pc[p] = Len(Code(p)) THEN LoopStart[kernel][p] ELSE pc[p] + 1

Leaves(p) ==
  /\ pc' = [pc EXCEPT ![p] = NextPc(p)]
  /\ in_fifo' = [in_fifo EXCEPT ![p] = FALSE]
  /\ UNCHANGED error

Passes(p, i) ==
  wait_block' = [wait_block EXCEPT ![p] = Latched(p, i)] /\ UNCHANGED <<wait_sems, wait_sem_cond>>

Stalls(p, i) ==
  Passes(p, i) /\ UNCHANGED <<mutex, sem, sem_max, pc, in_fifo, error>>

Fails(e) == error' = e /\ UNCHANGED <<mutex, sem, sem_max, waits, pc, in_fifo>>

ATGETM(p, i) ==
  CASE mutex[i.mutex] = p + 1 -> Fails("mutex already acquired")
    [] mutex[i.mutex] \notin {0, p + 1} -> Stalls(p, i)
    [] mutex[i.mutex] = 0 -> /\ mutex' = [mutex EXCEPT ![i.mutex] = p + 1]
                             /\ Passes(p, i) /\ Leaves(p) /\ UNCHANGED <<sem, sem_max>>

ATRELM(p, i) ==
  IF mutex[i.mutex] = p + 1
  THEN /\ mutex' = [mutex EXCEPT ![i.mutex] = 0]
       /\ Passes(p, i) /\ Leaves(p) /\ UNCHANGED <<sem, sem_max>>
  ELSE Fails("mutex not acquired")

SEMINIT(p, i) ==
  IF UnderOwnWait(p, i) THEN Fails("semaphore after SEMWAIT")
  ELSE IF i.value > i.max THEN Fails("bad SEMINIT")
  ELSE /\ sem' = [sem EXCEPT ![i.sem] = i.value]
       /\ sem_max' = [sem_max EXCEPT ![i.sem] = i.max]
       /\ Passes(p, i) /\ Leaves(p) /\ UNCHANGED mutex

SEMPOST(p, i) ==
  IF UnderOwnWait(p, i) THEN Fails("semaphore after SEMWAIT")
  ELSE IF sem[i.sem] >= sem_max[i.sem] THEN Fails("semaphore at its maximum")
  ELSE /\ sem' = [sem EXCEPT ![i.sem] = @ + 1]
       /\ Passes(p, i) /\ Leaves(p) /\ UNCHANGED <<mutex, sem_max>>

\* Mutant of SEMGET: it only checks.
SEMGET_KeepsCount(p, i) ==
  IF UnderOwnWait(p, i) THEN Fails("semaphore after SEMWAIT")
  ELSE IF sem[i.sem] = 0 THEN Fails("semaphore underflow")
  ELSE Passes(p, i) /\ Leaves(p) /\ UNCHANGED <<mutex, sem, sem_max>>

SEMGET(p, i) ==
  IF UnderOwnWait(p, i) THEN Fails("semaphore after SEMWAIT")
  ELSE IF sem[i.sem] = 0 THEN Fails("semaphore underflow")
  ELSE /\ sem' = [sem EXCEPT ![i.sem] = @ - 1]
       /\ Passes(p, i) /\ Leaves(p) /\ UNCHANGED <<mutex, sem_max>>

\* Mutants of MustWait: one too many at the maximum; no wait while zero.
MustWaitAboveMax(i) ==
  \E s \in i.sems : IF i.cond = "max" THEN sem[s] > sem_max[s] ELSE sem[s] = 0
MustWaitAtMaxOnly(i) ==
  \E s \in i.sems : i.cond = "max" /\ sem[s] >= sem_max[s]

MustWait(i) ==
  \E s \in i.sems : IF i.cond = "max" THEN sem[s] >= sem_max[s] ELSE sem[s] = 0

\* An identical latched wait may be replaced; Blackhole's gate holds every
\* SEMWAIT until the one before is gone.
SEMWAIT(p, i) ==
  LET same == wait_block[p] = i.block /\ wait_sems[p] = i.sems /\ wait_sem_cond[p] = i.cond IN
  IF wormhole /\ Latched(p, i) # {} /\ ~same THEN Fails("latched wait replaced")
  ELSE IF MustWait(i) THEN Stalls(p, i)
  ELSE /\ wait_block' = [wait_block EXCEPT ![p] = i.block]
       /\ wait_sems' = [wait_sems EXCEPT ![p] = i.sems]
       /\ wait_sem_cond' = IF wormhole THEN [wait_sem_cond EXCEPT ![p] = i.cond] ELSE wait_sem_cond
       /\ Leaves(p) /\ UNCHANGED <<mutex, sem, sem_max>>

\* It may wait for the Src banks (see SrcBanks).
STALLWAIT(p, i) ==
  \/ Stalls(p, i)
  \/ /\ wait_block' = [wait_block EXCEPT ![p] = i.block]
     /\ wait_sems' = [wait_sems EXCEPT ![p] = {}]
     /\ Leaves(p) /\ UNCHANGED <<mutex, sem, sem_max, wait_sem_cond>>

UnitInst(p, i) == Passes(p, i) /\ Leaves(p) /\ UNCHANGED <<mutex, sem, sem_max>>

Execute(p, i) ==
  \/ i.op = "ATGETM" /\ ATGETM(p, i)
  \/ i.op = "ATRELM" /\ ATRELM(p, i)
  \/ i.op = "SEMINIT" /\ SEMINIT(p, i)
  \/ i.op = "SEMPOST" /\ SEMPOST(p, i)
  \/ i.op = "SEMGET" /\ SEMGET(p, i)
  \/ i.op = "SEMWAIT" /\ SEMWAIT(p, i)
  \/ i.op = "STALLWAIT" /\ STALLWAIT(p, i)
  \/ i.op = "OTHER" /\ UnitInst(p, i)

-----------------------------------------------------------------------------
(* The clock loop.                                                         *)

\* Mutant of After: a pass ends with the first instruction that executes.
AfterFirst(p) == IF pc'[p] # pc[p] THEN NumPipes ELSE p + 1

\* The pipes are tried in their order; then it is the cores' turn again.
After(p) == p + 1

TryPipe(p) ==
  /\ turn = p /\ error = "none"
  /\ IF in_fifo[p] THEN Execute(p, Code(p)[pc[p]])
     ELSE UNCHANGED <<mutex, sem, sem_max, waits, pc, in_fifo, error>>
  /\ turn' = After(p)
  /\ UNCHANGED saw

CoresDone ==
  /\ turn = NumPipes /\ error = "none"
  /\ turn' = 0
  /\ UNCHANGED <<mutex, sem, sem_max, waits, pc, in_fifo, saw, error>>

-----------------------------------------------------------------------------
(* The TRISCs, in any order and as fast as they like.                      *)

CoresTurn == turn = NumPipes /\ error = "none" /\ UNCHANGED turn

PushInst(p) ==
  /\ CoresTurn
  /\ ~in_fifo[p]
  /\ in_fifo' = [in_fifo EXCEPT ![p] = TRUE]
  /\ UNCHANGED <<mutex, sem, sem_max, waits, pc, saw, error>>

\* A read of TENSIX_SYNC by a thread with nothing in its FIFO; on Wormhole
\* it forgets a STALLWAIT that is still latched.
TensixSyncRead(p) ==
  /\ CoresTurn
  /\ ~in_fifo[p]
  /\ wait_block' = IF wormhole /\ wait_sems[p] = {} THEN [wait_block EXCEPT ![p] = {}]
                   ELSE wait_block
  /\ UNCHANGED <<mutex, sem, sem_max, wait_sems, wait_sem_cond, pc, in_fifo, saw, error>>

SemaphoreRead(p, s) ==
  /\ CoresTurn
  /\ <<p, s>> \in CoreGets[kernel]
  /\ saw' = [saw EXCEPT ![p] = IF sem[s] > 0 THEN @ \cup {s} ELSE @]
  /\ UNCHANGED <<mutex, sem, sem_max, waits, pc, in_fifo, error>>

\* A write of 1, by a core that has seen the semaphore to be nonzero.
SemaphoreGet(p, s) ==
  /\ CoresTurn
  /\ s \in saw[p]
  /\ saw' = [saw EXCEPT ![p] = @ \ {s}]
  /\ IF sem[s] = 0 THEN error' = "semaphore underflow" /\ UNCHANGED sem
     ELSE sem' = [sem EXCEPT ![s] = @ - 1] /\ UNCHANGED error
  /\ UNCHANGED <<mutex, sem_max, waits, pc, in_fifo>>

\* A write of 0, which does not look at sem_max.
SemaphorePost(p, s) ==
  /\ CoresTurn
  /\ <<p, s>> \in CorePosts[kernel]
  /\ IF sem[s] = SemLimit THEN error' = "semaphore overflow" /\ UNCHANGED sem
     ELSE sem' = [sem EXCEPT ![s] = @ + 1] /\ UNCHANGED error
  /\ UNCHANGED <<mutex, sem_max, waits, pc, in_fifo, saw>>

-----------------------------------------------------------------------------
(* The mailboxes: one message per writer and reader.  A load waits for one *)
(* and a store for the one before to be read; the core retries them.       *)

Letters(c) == Mail[kernel][c]
Handling(c, op) ==
  /\ turn = NumPipes /\ error = "none"
  /\ mail_pc[c] \in 1 .. Len(Letters(c))
  /\ Letters(c)[mail_pc[c]].op = op
  /\ mail_pc' = [mail_pc EXCEPT ![c] = IF @ = Len(Letters(c)) THEN 1 ELSE @ + 1]

\* Mutant of Slot: one slot for the two ways between two cores.
SlotOfTwo(w, r) == IF w < r THEN <<w, r>> ELSE <<r, w>>
Slot(w, r) == <<w, r>>

MailboxRead(c) ==
  /\ Handling(c, "load")
  /\ LET slot == Slot(Letters(c)[mail_pc[c]].of, c) IN
     /\ mailbox[slot[1]][slot[2]] # <<>>
     /\ mailbox' = [mailbox EXCEPT ![slot[1]][slot[2]] = <<>>]

MailboxWrite(c) ==
  /\ Handling(c, "store")
  /\ LET slot == Slot(c, Letters(c)[mail_pc[c]].of) IN
     /\ mailbox[slot[1]][slot[2]] = <<>>
     /\ mailbox' = [mailbox EXCEPT ![slot[1]][slot[2]] = <<Letters(c)[mail_pc[c]].data>>]

\* A failed TTSIM_VERIFY ends the process.
Ended == error # "none" /\ UNCHANGED vars

-----------------------------------------------------------------------------
Init ==
  /\ kernel \in Kernels /\ wormhole \in BOOLEAN
  /\ mutex = [m \in Mutexes |-> 0]
  /\ sem = [s \in Sems |-> 0]
  /\ sem_max = [s \in Sems |-> SemLimit]
  /\ wait_block = [p \in Pipes |-> {}]
  /\ wait_sems = [p \in Pipes |-> {}]
  /\ wait_sem_cond = [p \in Pipes |-> "zero"]
  /\ pc = [p \in Pipes |-> 1]
  /\ in_fifo = [p \in Pipes |-> FALSE]
  /\ saw = [p \in Pipes |-> {}]
  /\ mailbox = [w \in Cores |-> [r \in Cores |-> <<>>]]
  /\ mail_pc = [c \in Cores |-> 1]
  /\ turn = NumPipes
  /\ error = "none"

Sync ==
  \/ \E p \in Pipes :
       \/ TryPipe(p) \/ PushInst(p) \/ TensixSyncRead(p)
       \/ \E s \in Sems : SemaphoreRead(p, s) \/ SemaphoreGet(p, s) \/ SemaphorePost(p, s)
  \/ CoresDone

Exchange == \E c \in Cores : MailboxRead(c) \/ MailboxWrite(c)

Next ==
  \/ Sync /\ UNCHANGED <<setup, mails>>
  \/ Exchange /\ UNCHANGED <<setup, syncs>>
  \/ Ended

Spec == Init /\ [][Next]_vars

\* The clock runs, and every TRISC goes on pushing and polling.
Fairness ==
  /\ WF_vars((CoresDone \/ \E p \in Pipes : TryPipe(p)) /\ UNCHANGED <<setup, mails>>)
  /\ \A p \in Pipes : SF_vars(PushInst(p) /\ UNCHANGED <<setup, mails>>)
  /\ \A p \in Pipes : \A s \in {t \in Sems : \E k \in Kernels : <<p, t>> \in CoreGets[k]} :
       /\ SF_vars(SemaphoreRead(p, s) /\ UNCHANGED <<setup, mails>>)
       /\ SF_vars(SemaphoreGet(p, s) /\ UNCHANGED <<setup, mails>>)
=============================================================================
