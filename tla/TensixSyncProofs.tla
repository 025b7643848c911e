--------------------------- MODULE TensixSyncProofs ---------------------------
(***************************************************************************)
(* Theorems about TensixSync, for any number of threads, any programs and  *)
(* any mutexes and semaphores: its types, and with the history of who      *)
(* waits that MCTensixSync keeps, the order in which threads get a mutex.  *)
(* And about the pipeline kernel of MCTensixSync, next to any others: it   *)
(* uses its semaphores as it may, and they keep the halves of Dst apart.   *)
(* Last, about the mailboxes: for any programs of the cores, what arrives  *)
(* is what was sent, and the kernel of the messages never stops.           *)
(***************************************************************************)
EXTENDS MCTensixSync, SequenceTheorems, WellFoundedInduction, TLAPS

LEMMA Bounds ==
  /\ NumPipes \in Nat /\ NumPipes > 0 /\ SemLimit \in Nat
  /\ 0 \in 0 .. NumPipes /\ NumPipes \in 0 .. NumPipes
  /\ 0 \in 0 .. SemLimit /\ SemLimit \in 0 .. SemLimit
  /\ \A p \in Pipes : p + 1 \in 0 .. NumPipes
<1>1. NumPipes \in Nat /\ NumPipes # 0 /\ SemLimit \in Nat
  BY SyncAssumption
<1> QED BY <1>1 DEF Pipes

\* Where thread p is in its program, and where it goes next.
LEMMA InProgram ==
  ASSUME kernel \in Kernels, NEW p \in Pipes, pc[p] \in 1 .. Len(Code(p))
  PROVE  Code(p)[pc[p]] \in Inst /\ NextPc(p) \in 1 .. Len(Code(p))
<1>1. Code(p) \in Seq(Inst) /\ LoopStart[kernel][p] \in 1 .. Len(Code(p))
  BY SyncAssumption DEF Code
<1>2. Code(p)[pc[p]] \in Inst
  BY <1>1
<1>3. Len(Code(p)) \in Nat
  BY <1>1
<1>4. NextPc(p) \in 1 .. Len(Code(p))
  BY <1>1, <1>3 DEF NextPc
<1> QED BY <1>2, <1>4

\* The instructions that name a mutex, a semaphore or a block, and their fields.
LEMMA Fields ==
  ASSUME NEW i \in Inst
  PROVE  /\ i.op \in {"ATGETM", "ATRELM"} => i.mutex \in Mutexes
         /\ i.op \in {"SEMPOST", "SEMGET", "SEMINIT"} => i.sem \in Sems
         /\ i.op = "SEMINIT" => i.value \in 0 .. SemLimit /\ i.max \in 0 .. SemLimit
         /\ i.op = "SEMWAIT" => /\ i.sems \in SUBSET Sems /\ i.cond \in {"max", "zero"}
                                /\ i.block \in Blocks
         /\ i.op = "STALLWAIT" => i.block \in Blocks
BY DEF Inst

\* The types an instruction at the head of a FIFO may disturb: those of the
\* state it works on, and those of the thread that executes it.
Shared ==
  /\ mutex \in [Mutexes -> 0 .. NumPipes]
  /\ sem \in [Sems -> 0 .. SemLimit]
  /\ sem_max \in [Sems -> 0 .. SemLimit]
Gate ==
  /\ wait_block \in [Pipes -> Blocks]
  /\ wait_sems \in [Pipes -> SUBSET Sems]
  /\ wait_sem_cond \in [Pipes -> {"max", "zero"}]
Thread ==
  /\ kernel \in Kernels
  /\ \A p \in Pipes : pc[p] \in 1 .. Len(Code(p))
  /\ pc \in [Pipes -> Nat]
  /\ in_fifo \in [Pipes -> BOOLEAN]
  /\ error \in {"none", "mutex already acquired", "mutex not acquired",
                "semaphore at its maximum", "semaphore underflow", "semaphore overflow",
                "semaphore after SEMWAIT", "bad SEMINIT", "latched wait replaced"}

LEMMA LeavesKeeps ==
  ASSUME Thread, UNCHANGED kernel, NEW p \in Pipes, Leaves(p)
  PROVE  Thread'
<1>0. \A q \in Pipes : Code(q)' = Code(q)
  BY DEF Code
<1>1. /\ NextPc(p) \in 1 .. Len(Code(p))
      /\ pc' = [pc EXCEPT ![p] = NextPc(p)]
  BY InProgram DEF Thread, Leaves
<1>2. \A q \in Pipes : pc'[q] = IF q = p THEN NextPc(p) ELSE pc[q]
  BY <1>1 DEF Thread
<1>3. NextPc(p) \in Nat
  BY <1>1
<1>4. pc' \in [Pipes -> Nat]
  BY <1>1, <1>3 DEF Thread
<1>5. in_fifo' \in [Pipes -> BOOLEAN]
  BY DEF Leaves, Thread
<1> QED BY <1>0, <1>1, <1>2, <1>4, <1>5 DEF Thread, Leaves

LEMMA PassesKeeps ==
  ASSUME Gate, NEW p \in Pipes, NEW i, Passes(p, i)
  PROVE  Gate'
<1>1. Latched(p, i) \in Blocks
  BY DEF Latched, Gate, Blocks
<1> QED BY <1>1 DEF Gate, Passes

-----------------------------------------------------------------------------
(* Each instruction keeps the types.                                       *)

Kept == Shared' /\ Gate' /\ Thread'

LEMMA StallsKeeps ==
  ASSUME Shared, Gate, Thread, UNCHANGED kernel, NEW p \in Pipes, NEW i, Stalls(p, i)
  PROVE  Kept
<1>1. Gate'
  BY PassesKeeps DEF Stalls
<1> QED BY <1>1 DEF Stalls, Shared, Thread, Code, Kept

LEMMA FailsKeeps ==
  ASSUME Shared, Gate, Thread, UNCHANGED kernel,
         NEW e \in {"mutex already acquired", "mutex not acquired",
                    "semaphore at its maximum", "semaphore underflow",
                    "semaphore after SEMWAIT", "bad SEMINIT", "latched wait replaced"},
         Fails(e)
  PROVE  Kept
BY DEF Fails, Shared, Gate, Thread, Code, waits, Kept

LEMMA ExecuteKeeps ==
  ASSUME Shared, Gate, Thread, UNCHANGED kernel, NEW p \in Pipes, NEW i \in Inst,
         Execute(p, i)
  PROVE  Kept
<1>1. CASE i.op = "ATGETM" /\ ATGETM(p, i)
  <2>0. p + 1 # 0
    BY Bounds DEF Pipes
  <2>1. CASE mutex[i.mutex] = p + 1
    <3>1. Fails("mutex already acquired")
      BY <1>1, <2>0, <2>1 DEF ATGETM
    <3> QED BY <3>1, FailsKeeps
  <2>2. CASE mutex[i.mutex] \notin {0, p + 1}
    BY <1>1, <2>2, StallsKeeps DEF ATGETM
  <2>3. CASE mutex[i.mutex] = 0
    <3>0. p + 1 \in 0 .. NumPipes /\ p + 1 # 0
      BY Bounds DEF Pipes
    <3>1. /\ mutex' = [mutex EXCEPT ![i.mutex] = p + 1]
          /\ Passes(p, i) /\ Leaves(p) /\ UNCHANGED <<sem, sem_max>>
      BY <1>1, <2>3, <3>0 DEF ATGETM
    <3>2. Shared'
      BY <3>0, <3>1 DEF Shared
    <3> QED BY <3>1, <3>2, PassesKeeps, LeavesKeeps DEF Kept
  <2> QED BY <2>1, <2>2, <2>3
<1>2. CASE i.op = "ATRELM" /\ ATRELM(p, i)
  <2>1. CASE mutex[i.mutex] = p + 1
    <3>1. /\ mutex' = [mutex EXCEPT ![i.mutex] = 0]
          /\ Passes(p, i) /\ Leaves(p) /\ UNCHANGED <<sem, sem_max>>
      BY <1>2, <2>1 DEF ATRELM
    <3>2. Shared'
      BY <3>1, Bounds DEF Shared
    <3> QED BY <3>1, <3>2, PassesKeeps, LeavesKeeps DEF Kept
  <2> QED BY <1>2, <2>1, FailsKeeps DEF ATRELM
<1>3. CASE i.op = "SEMINIT" /\ SEMINIT(p, i)
  <2>1. CASE ~UnderOwnWait(p, i) /\ ~(i.value > i.max)
    <3>1. /\ sem' = [sem EXCEPT ![i.sem] = i.value]
          /\ sem_max' = [sem_max EXCEPT ![i.sem] = i.max]
          /\ Passes(p, i) /\ Leaves(p) /\ UNCHANGED mutex
      BY <1>3, <2>1 DEF SEMINIT
    <3>2. Shared'
      BY <1>3, <3>1, Fields DEF Shared
    <3> QED BY <3>1, <3>2, PassesKeeps, LeavesKeeps DEF Kept
  <2> QED BY <1>3, <2>1, FailsKeeps DEF SEMINIT
<1>4. CASE i.op = "SEMPOST" /\ SEMPOST(p, i)
  <2>1. CASE ~UnderOwnWait(p, i) /\ ~(sem[i.sem] >= sem_max[i.sem])
    <3>1. /\ sem' = [sem EXCEPT ![i.sem] = @ + 1]
          /\ Passes(p, i) /\ Leaves(p) /\ UNCHANGED <<mutex, sem_max>>
      BY <1>4, <2>1 DEF SEMPOST
    <3>2. i.sem \in Sems
      BY <1>4, Fields
    <3>3. sem[i.sem] + 1 \in 0 .. SemLimit
      BY <2>1, <3>2, Bounds DEF Shared
    <3>4. Shared'
      BY <3>1, <3>2, <3>3 DEF Shared
    <3> QED BY <3>1, <3>4, PassesKeeps, LeavesKeeps DEF Kept
  <2> QED BY <1>4, <2>1, FailsKeeps DEF SEMPOST
<1>5. CASE i.op = "SEMGET" /\ SEMGET(p, i)
  <2>1. CASE ~UnderOwnWait(p, i) /\ sem[i.sem] # 0
    <3>1. /\ sem' = [sem EXCEPT ![i.sem] = @ - 1]
          /\ Passes(p, i) /\ Leaves(p) /\ UNCHANGED <<mutex, sem_max>>
      BY <1>5, <2>1 DEF SEMGET
    <3>2. i.sem \in Sems
      BY <1>5, Fields
    <3>3. sem[i.sem] - 1 \in 0 .. SemLimit
      BY <2>1, <3>2, Bounds DEF Shared
    <3>4. Shared'
      BY <3>1, <3>2, <3>3 DEF Shared
    <3> QED BY <3>1, <3>4, PassesKeeps, LeavesKeeps DEF Kept
  <2> QED BY <1>5, <2>1, FailsKeeps DEF SEMGET
<1>6. CASE i.op = "SEMWAIT" /\ SEMWAIT(p, i)
  <2> DEFINE latches ==
        /\ wait_block' = [wait_block EXCEPT ![p] = i.block]
        /\ wait_sems' = [wait_sems EXCEPT ![p] = i.sems]
        /\ wait_sem_cond' = IF wormhole THEN [wait_sem_cond EXCEPT ![p] = i.cond]
                            ELSE wait_sem_cond
        /\ Leaves(p) /\ UNCHANGED <<mutex, sem, sem_max>>
  <2>1. Fails("latched wait replaced") \/ Stalls(p, i) \/ latches
    BY <1>6 DEF SEMWAIT
  <2>2. CASE latches
    <3>1. Gate'
      BY <1>6, <2>2, Fields DEF Gate
    <3>2. Shared'
      BY <2>2 DEF Shared
    <3> QED BY <2>2, <3>1, <3>2, LeavesKeeps DEF Kept
  <2> QED BY <2>1, <2>2, FailsKeeps, StallsKeeps
<1>7. CASE i.op = "STALLWAIT" /\ STALLWAIT(p, i)
  <2>1. CASE Stalls(p, i)
    BY <2>1, StallsKeeps
  <2>2. CASE /\ wait_block' = [wait_block EXCEPT ![p] = i.block]
             /\ wait_sems' = [wait_sems EXCEPT ![p] = {}]
             /\ Leaves(p) /\ UNCHANGED <<mutex, sem, sem_max, wait_sem_cond>>
    <3>1. Gate'
      BY <1>7, <2>2, Fields DEF Gate
    <3>2. Shared'
      BY <2>2 DEF Shared
    <3> QED BY <2>2, <3>1, <3>2, LeavesKeeps DEF Kept
  <2> QED BY <1>7, <2>1, <2>2 DEF STALLWAIT
<1>8. CASE i.op = "OTHER" /\ UnitInst(p, i)
  <2>1. Passes(p, i) /\ Leaves(p) /\ UNCHANGED <<mutex, sem, sem_max>>
    BY <1>8 DEF UnitInst
  <2>2. Shared'
    BY <2>1 DEF Shared
  <2> QED BY <2>1, <2>2, PassesKeeps, LeavesKeeps DEF Kept
<1> QED BY <1>1, <1>2, <1>3, <1>4, <1>5, <1>6, <1>7, <1>8 DEF Execute

-----------------------------------------------------------------------------
LEMMA Parts ==
  TypeOK <=> /\ Shared /\ Gate /\ Thread /\ wormhole \in BOOLEAN
             /\ saw \in [Pipes -> SUBSET Sems] /\ turn \in 0 .. NumPipes
             /\ mailbox \in [Cores -> [Cores -> Seq(Nat)]] /\ mail_pc \in [Cores -> Nat]
BY DEF TypeOK, Shared, Gate, Thread

\* The cores' and the clock loop's own steps.
LEMMA CoresKeep ==
  ASSUME TypeOK, UNCHANGED <<setup, mails>>, NEW p \in Pipes,
         \/ PushInst(p) \/ TensixSyncRead(p)
         \/ \E s \in Sems : SemaphoreRead(p, s) \/ SemaphoreGet(p, s) \/ SemaphorePost(p, s)
  PROVE  TypeOK'
<1>0. /\ TypeOK /\ {} \in Blocks /\ UNCHANGED <<kernel, wormhole, mailbox, mail_pc>>
      /\ \A q \in Pipes : Code(q)' = Code(q)
  BY DEF Blocks, setup, mails, Code
<1>1. CASE PushInst(p)
  BY <1>0, <1>1 DEF PushInst, CoresTurn, TypeOK, waits
<1>2. CASE TensixSyncRead(p)
  <2>1. wait_block' \in [Pipes -> Blocks]
    BY <1>0, <1>2 DEF TensixSyncRead, TypeOK
  <2> QED BY <1>0, <1>2, <2>1 DEF TensixSyncRead, CoresTurn, TypeOK
<1>3. ASSUME NEW s \in Sems, SemaphoreRead(p, s)
      PROVE  TypeOK'
  <2>1. saw' \in [Pipes -> SUBSET Sems]
    BY <1>0, <1>3 DEF SemaphoreRead, TypeOK
  <2> QED BY <1>0, <1>3, <2>1 DEF SemaphoreRead, CoresTurn, TypeOK, waits
<1>4. ASSUME NEW s \in Sems, SemaphoreGet(p, s)
      PROVE  TypeOK'
  <2>1. saw' \in [Pipes -> SUBSET Sems]
    BY <1>0, <1>4 DEF SemaphoreGet, TypeOK
  <2>2. sem[s] \in 0 .. SemLimit /\ (sem[s] # 0 => sem[s] - 1 \in 0 .. SemLimit)
    <3>1. sem[s] \in 0 .. SemLimit /\ SemLimit \in Nat
      BY <1>0, Bounds DEF TypeOK
    <3> QED BY <3>1
  <2>3. sem' \in [Sems -> 0 .. SemLimit]
    BY <1>0, <1>4, <2>2 DEF SemaphoreGet, TypeOK
  <2> QED BY <1>0, <1>4, <2>1, <2>3 DEF SemaphoreGet, CoresTurn, TypeOK, waits
<1>5. ASSUME NEW s \in Sems, SemaphorePost(p, s)
      PROVE  TypeOK'
  <2>1. sem[s] \in 0 .. SemLimit /\ (sem[s] # SemLimit => sem[s] + 1 \in 0 .. SemLimit)
    <3>1. sem[s] \in 0 .. SemLimit /\ SemLimit \in Nat
      BY <1>0, Bounds DEF TypeOK
    <3> QED BY <3>1
  <2>2. sem' \in [Sems -> 0 .. SemLimit]
    BY <1>0, <1>5, <2>1 DEF SemaphorePost, TypeOK
  <2> QED BY <1>0, <1>5, <2>2 DEF SemaphorePost, CoresTurn, TypeOK, waits
<1> QED BY <1>1, <1>2, <1>3, <1>4, <1>5

LEMMA TryPipeKeeps ==
  ASSUME TypeOK, UNCHANGED <<setup, mails>>, NEW p \in Pipes, TryPipe(p)
  PROVE  TypeOK'
<1>0. /\ UNCHANGED <<kernel, wormhole, mailbox, mail_pc>>
      /\ \A q \in Pipes : Code(q)' = Code(q)
  BY DEF setup, mails, Code
<1>1. saw' \in [Pipes -> SUBSET Sems] /\ turn' \in 0 .. NumPipes
  BY Bounds, Parts DEF TryPipe, After
<1>2. CASE in_fifo[p]
  <2>1. Code(p)[pc[p]] \in Inst
    BY InProgram, Parts DEF Thread
  <2>2. Execute(p, Code(p)[pc[p]])
    BY <1>2 DEF TryPipe
  <2>3. Kept
    BY <1>0, <2>1, <2>2, ExecuteKeeps, Parts
  <2> QED BY <1>0, <1>1, <2>3, Parts DEF Kept, TypeOK, Shared, Gate, Thread
<1>3. CASE ~in_fifo[p]
  BY <1>0, <1>1, <1>3 DEF TryPipe, TypeOK, waits
<1> QED BY <1>2, <1>3

\* A load or a store of a mailbox.
LEMMA MailKeeps ==
  ASSUME TypeOK, UNCHANGED <<setup, syncs>>, NEW c \in Cores, MailboxRead(c) \/ MailboxWrite(c)
  PROVE  TypeOK'
<1>0. /\ UNCHANGED <<kernel, wormhole, mutex, sem, sem_max, wait_block, wait_sems, wait_sem_cond>>
      /\ UNCHANGED <<pc, in_fifo, saw, turn, error>>
      /\ \A q \in Pipes : Code(q)' = Code(q)
  BY DEF setup, syncs, Code
<1>1. /\ Letters(c) \in Seq(Letter) /\ mail_pc[c] \in 1 .. Len(Letters(c))
      /\ mail_pc' = [mail_pc EXCEPT ![c] = IF @ = Len(Letters(c)) THEN 1 ELSE @ + 1]
  BY SyncAssumption DEF TypeOK, Letters, MailboxRead, MailboxWrite, Handling
<1>2. mail_pc' \in [Cores -> Nat]
  <2>1. mail_pc \in [Cores -> Nat]
    BY DEF TypeOK
  <2>2. mail_pc[c] \in Nat
    BY <2>1
  <2>3. (IF mail_pc[c] = Len(Letters(c)) THEN 1 ELSE mail_pc[c] + 1) \in Nat
    BY <2>2
  <2> QED BY <1>1, <2>1, <2>3
<1> DEFINE letter == Letters(c)[mail_pc[c]]
<1>3. letter \in Letter
  BY <1>1
<1>4. letter.of \in Cores /\ (letter.op = "store" => letter.data \in Nat)
  BY <1>3 DEF Letter
<1>5. ASSUME NEW w \in Cores, NEW r \in Cores, NEW m \in Seq(Nat),
             mailbox' = [mailbox EXCEPT ![w][r] = m]
      PROVE  mailbox' \in [Cores -> [Cores -> Seq(Nat)]]
  BY <1>5 DEF TypeOK
<1>6. CASE MailboxRead(c)
  <2>1. mailbox' = [mailbox EXCEPT ![letter.of][c] = <<>>]
    BY <1>6 DEF MailboxRead, Slot
  <2>2. <<>> \in Seq(Nat)
    OBVIOUS
  <2> QED BY <1>0, <1>2, <1>4, <1>5, <2>1, <2>2 DEF TypeOK
<1>7. CASE MailboxWrite(c)
  <2>1. mailbox' = [mailbox EXCEPT ![c][letter.of] = <<letter.data>>] /\ letter.op = "store"
    BY <1>7 DEF MailboxWrite, Slot, Handling
  <2>2. <<letter.data>> \in Seq(Nat)
    BY <1>4, <2>1
  <2> QED BY <1>0, <1>2, <1>4, <1>5, <2>1, <2>2 DEF TypeOK
<1> QED BY <1>6, <1>7

\* Whatever the programs do, with instructions, the PC buffer or mailboxes, no
\* semaphore leaves 0 .. SemLimit and no mutex has an owner that is no thread:
\* the simulation ends first.
THEOREM SyncTypes == Spec => []TypeOK
<1>1. Init => TypeOK
  <2> SUFFICES ASSUME Init PROVE TypeOK
    OBVIOUS
  <2>1. \A p \in Pipes : pc[p] \in 1 .. Len(Code(p))
    <3> SUFFICES ASSUME NEW p \in Pipes PROVE 1 \in 1 .. Len(Code(p))
      BY DEF Init
    <3>1. Code(p) \in Seq(Inst) /\ LoopStart[kernel][p] \in 1 .. Len(Code(p))
      BY SyncAssumption DEF Init, Code
    <3>2. Len(Code(p)) \in Nat
      BY <3>1
    <3> QED BY <3>1, <3>2
  <2>2. mailbox \in [Cores -> [Cores -> Seq(Nat)]] /\ mail_pc \in [Cores -> Nat]
    BY DEF Init
  <2> QED BY <2>1, <2>2, Bounds DEF Init, TypeOK, Blocks
<1>2. TypeOK /\ [Next]_vars => TypeOK'
  <2> SUFFICES ASSUME TypeOK, [Next]_vars PROVE TypeOK'
    OBVIOUS
  <2>1. CASE CoresDone /\ UNCHANGED <<setup, mails>>
    BY <2>1, Bounds DEF CoresDone, TypeOK, waits, setup, mails, Code
  <2>2. CASE Ended \/ UNCHANGED vars
    BY <2>2 DEF Ended, vars, setup, mails, syncs, TypeOK, Code
  <2>3. CASE Sync /\ UNCHANGED <<setup, mails>>
    BY <2>1, <2>3, CoresKeep, TryPipeKeeps DEF Sync
  <2>4. CASE Exchange /\ UNCHANGED <<setup, syncs>>
    BY <2>4, MailKeeps DEF Exchange
  <2> QED BY <2>2, <2>3, <2>4 DEF Next
<1> QED BY <1>1, <1>2, PTL DEF Spec

LEMMA HistoryTypes == MCSpec => []TypeOK
<1>1. MCInit => Init
  BY DEF MCInit
<1>2. [MCNext]_<<vars, history>> => [Next]_vars
  BY DEF MCNext
<1> QED BY <1>1, <1>2, SyncTypes, PTL DEF MCSpec, Spec

-----------------------------------------------------------------------------
(* Who gets the mutex.                                                     *)

\* When thread x is tried, counting from the turn of thread p on; the cores'
\* turn, NumPipes, comes right before that of thread 0.
Rank(p, x) == IF x > p THEN x - p ELSE x - p + NumPipes

\* Whoever overtook p comes no later than the owner, or, if the mutex is free,
\* before whoever is tried next: the free mutex moves towards p.
TurnInv ==
  /\ waiting \subseteq Pipes
  /\ overtaken \in [Pipes -> [Pipes -> {0, 1}]]
  /\ \A p \in Pipes \ waiting, q \in Pipes : overtaken[p][q] = 0
  /\ \A p \in waiting :
       in_fifo[p] /\ Code(p)[pc[p]] = Acquire /\ mutex[m0] # p + 1
  /\ \A p \in waiting, q \in Pipes : overtaken[p][q] = 1 =>
       IF mutex[m0] = 0 THEN Rank(p, q) < Rank(p, turn)
                        ELSE Rank(p, q) <= Rank(p, mutex[m0] - 1)

\* The next turn is one further from p, unless it was p's.
LEMMA NextRank ==
  ASSUME NEW p \in Pipes, NEW x \in Pipes, x # p
  PROVE  Rank(p, x + 1) = Rank(p, x) + 1
BY Bounds DEF Rank, Pipes

\* A thread keeps its instruction.
Keeps(p) == in_fifo'[p] = in_fifo[p] /\ pc'[p] = pc[p]

\* What a try of thread x's instruction may do to the mutex.
LEMMA Tried ==
  ASSUME TypeOK, UNCHANGED kernel, NEW x \in Pipes, TryPipe(x)
  PROVE  /\ turn = x /\ turn' = x + 1
         /\ \A p \in Pipes \ {x} : Keeps(p)
         /\ \/ /\ mutex'[m0] = mutex[m0]
               /\ Asks(x) => mutex[m0] # 0 /\ (mutex[m0] # x + 1 => Keeps(x))
            \/ Asks(x) /\ mutex[m0] = 0 /\ mutex'[m0] = x + 1
            \/ ~Asks(x) /\ mutex[m0] = x + 1 /\ mutex'[m0] = 0
<1> DEFINE i == Code(x)[pc[x]]
<1>0. turn = x /\ turn' = x + 1 /\ error = "none"
  BY DEF TryPipe, After
<1>1. CASE ~in_fifo[x]
  BY <1>0, <1>1 DEF TryPipe, Keeps, Asks
<1>2. CASE in_fifo[x]
  <2>1. /\ Execute(x, i) /\ i \in Inst /\ (Asks(x) <=> i = Acquire)
        /\ pc \in [Pipes -> Nat] /\ in_fifo \in [Pipes -> BOOLEAN]
        /\ mutex \in [Mutexes -> 0 .. NumPipes] /\ m0 \in Mutexes
        /\ x + 1 # 0
    <3>1. Execute(x, i)
      BY <1>0, <1>2 DEF TryPipe
    <3>2. kernel \in Kernels /\ pc[x] \in 1 .. Len(Code(x))
      <4>1. kernel \in Kernels /\ \A p \in Pipes : pc[p] \in 1 .. Len(Code(p))
        BY Zenon DEF TypeOK
      <4> QED BY <4>1, Zenon
    <3>3. i \in Inst
      BY <3>2, InProgram
    <3>4. Asks(x) <=> i = Acquire
      BY <1>0, <1>2 DEF Asks
    <3>5. /\ pc \in [Pipes -> Nat] /\ in_fifo \in [Pipes -> BOOLEAN]
          /\ mutex \in [Mutexes -> 0 .. NumPipes] /\ m0 \in Mutexes
      BY MutexAssumption DEF TypeOK
    <3>6. x + 1 # 0
      BY DEF Pipes
    <3> QED BY <3>1, <3>3, <3>4, <3>5, <3>6
  <2>2. Leaves(x) => \A p \in Pipes \ {x} : Keeps(p)
    BY <2>1 DEF Leaves, Keeps
  <2>3. ASSUME NEW j, Stalls(x, j)
        PROVE  mutex' = mutex /\ \A p \in Pipes : Keeps(p)
    BY <2>3 DEF Stalls, Keeps
  <2>4. ASSUME NEW e, Fails(e)
        PROVE  mutex' = mutex /\ \A p \in Pipes : Keeps(p)
    BY <2>4 DEF Fails, Keeps
  <2>5. CASE i.op = "ATGETM" /\ ATGETM(x, i)
    <3>1. i.mutex \in Mutexes /\ (i = Acquire <=> i.mutex = m0)
      BY <2>1, <2>5, Fields DEF Acquire, Inst
    <3>2. CASE mutex[i.mutex] = x + 1
      <4>1. Fails("mutex already acquired")
        BY <2>1, <2>5, <3>2 DEF ATGETM
      <4> QED BY <1>0, <2>1, <2>4, <3>1, <3>2, <4>1
    <3>3. CASE mutex[i.mutex] \notin {0, x + 1}
      <4>1. Stalls(x, i)
        BY <2>1, <2>5, <3>3 DEF ATGETM
      <4> QED BY <1>0, <2>1, <2>3, <3>1, <3>3, <4>1
    <3>4. CASE mutex[i.mutex] = 0
      <4>1. mutex' = [mutex EXCEPT ![i.mutex] = x + 1] /\ Leaves(x)
        BY <2>1, <2>5, <3>4 DEF ATGETM
      <4>2. CASE i.mutex = m0
        BY <1>0, <2>1, <2>2, <3>1, <3>4, <4>1, <4>2
      <4>3. CASE i.mutex # m0
        BY <1>0, <2>1, <2>2, <3>1, <4>1, <4>3
      <4> QED BY <4>2, <4>3
    <3> QED BY <3>2, <3>3, <3>4
  <2>6. CASE i.op = "ATRELM" /\ ATRELM(x, i)
    <3>1. i.mutex \in Mutexes /\ ~Asks(x)
      BY <2>1, <2>6, Fields DEF Acquire
    <3>2. CASE mutex[i.mutex] = x + 1
      <4>1. mutex' = [mutex EXCEPT ![i.mutex] = 0] /\ Leaves(x)
        BY <2>6, <3>2 DEF ATRELM
      <4> QED BY <1>0, <2>1, <2>2, <3>1, <3>2, <4>1
    <3>3. CASE mutex[i.mutex] # x + 1
      <4>1. Fails("mutex not acquired")
        BY <2>6, <3>3 DEF ATRELM
      <4> QED BY <1>0, <2>4, <3>1, <4>1
    <3> QED BY <3>2, <3>3
  <2>7. CASE i.op \notin {"ATGETM", "ATRELM"}
    <3>1. ~Asks(x)
      BY <2>1, <2>7 DEF Acquire
    <3>2. mutex' = mutex /\ \A p \in Pipes \ {x} : Keeps(p)
      <4>1. CASE i.op = "SEMINIT" /\ SEMINIT(x, i)
        BY <2>2, <2>4, <4>1 DEF SEMINIT
      <4>2. CASE i.op = "SEMPOST" /\ SEMPOST(x, i)
        BY <2>2, <2>4, <4>2 DEF SEMPOST
      <4>3. CASE i.op = "SEMGET" /\ SEMGET(x, i)
        BY <2>2, <2>4, <4>3 DEF SEMGET
      <4>4. CASE i.op = "SEMWAIT" /\ SEMWAIT(x, i)
        BY <2>2, <2>3, <2>4, <4>4 DEF SEMWAIT
      <4>5. CASE i.op = "STALLWAIT" /\ STALLWAIT(x, i)
        BY <2>2, <2>3, <4>5 DEF STALLWAIT
      <4>6. CASE i.op = "OTHER" /\ UnitInst(x, i)
        BY <2>2, <4>6 DEF UnitInst
      <4> QED BY <2>1, <2>7, <4>1, <4>2, <4>3, <4>4, <4>5, <4>6 DEF Execute
    <3> QED BY <1>0, <3>1, <3>2
  <2> QED BY <2>1, <2>5, <2>6, <2>7 DEF Execute
<1> QED BY <1>1, <1>2

\* How the history goes on.
WaitsOn ==
  /\ waiting' = {p \in Pipes : (p \in waiting \/ Asks(p)) /\ mutex'[m0] # p + 1}
  /\ overtaken' = [p \in Pipes |-> [q \in Pipes |->
       IF p \notin waiting' THEN 0
       ELSE IF Got(q) /\ overtaken[p][q] < 2 THEN overtaken[p][q] + 1 ELSE overtaken[p][q]]]

LEMMA TryKeepsTurns ==
  ASSUME TypeOK, TurnInv, UNCHANGED kernel, NEW x \in Pipes, TryPipe(x), WaitsOn
  PROVE  TurnInv'
<1>0. /\ turn = x /\ turn' = x + 1
      /\ \A p \in Pipes \ {x} : Keeps(p)
      /\ \A p \in Pipes : Code(p)' = Code(p)
      /\ mutex[m0] \in 0 .. NumPipes
  BY Tried, MutexAssumption DEF Code, TypeOK
<1>1. \A p \in Pipes : Asks(p) => p = x
  BY <1>0 DEF Asks
<1>2. /\ waiting \subseteq Pipes /\ waiting' \subseteq Pipes
      /\ x \in waiting => Asks(x) /\ mutex[m0] # x + 1
  BY <1>0 DEF TurnInv, Asks, TryPipe, WaitsOn
<1>3. \A p \in Pipes, q \in Pipes : overtaken[p][q] \in {0, 1}
  BY DEF TurnInv
<1>a. \A p \in waiting' : p \in waiting \/ (p = x /\ Asks(x))
  BY <1>1 DEF WaitsOn
\* A thread that goes on waiting has its instruction still.
<1>b. ASSUME NEW p \in waiting', p = x => Keeps(x)
      PROVE  in_fifo'[p] /\ Code(p)'[pc'[p]] = Acquire /\ mutex'[m0] # p + 1
  <2>1. p \in Pipes /\ Keeps(p) /\ mutex'[m0] # p + 1
    BY <1>0, <1>b DEF WaitsOn
  <2>2. in_fifo[p] /\ Code(p)[pc[p]] = Acquire
    BY <1>a DEF TurnInv, Asks
  <2> QED BY <1>0, <2>1, <2>2 DEF Keeps
<1>c. ASSUME \A p \in waiting', q \in Pipes : Got(q) => overtaken[p][q] = 0
      PROVE  /\ overtaken' \in [Pipes -> [Pipes -> {0, 1}]]
             /\ \A p \in Pipes \ waiting', q \in Pipes : overtaken'[p][q] = 0
             /\ \A p \in waiting', q \in Pipes :
                  overtaken'[p][q] = IF Got(q) THEN 1 ELSE overtaken[p][q]
  BY <1>2, <1>3, <1>c DEF WaitsOn
\* Nobody gets the mutex.
<1>4. CASE /\ mutex'[m0] = mutex[m0]
           /\ Asks(x) => mutex[m0] # 0 /\ (mutex[m0] # x + 1 => Keeps(x))
  <2>1. \A q \in Pipes : ~Got(q)
    BY <1>4 DEF Got
  <2>2. \A p \in waiting' : p = x => Keeps(x)
    BY <1>2, <1>4, <1>a DEF WaitsOn
  <2>3. ASSUME NEW p \in waiting', NEW q \in Pipes, overtaken'[p][q] = 1
        PROVE  IF mutex'[m0] = 0 THEN Rank(p, q) < Rank(p, turn')
                                 ELSE Rank(p, q) <= Rank(p, mutex'[m0] - 1)
    <3>1. overtaken[p][q] = 1 /\ p \in waiting
      BY <1>2, <1>a, <1>c, <2>1, <2>3 DEF TurnInv
    <3>2. IF mutex[m0] = 0 THEN Rank(p, q) < Rank(p, x) ELSE Rank(p, q) <= Rank(p, mutex[m0] - 1)
      BY <1>0, <3>1 DEF TurnInv
    <3>3. mutex[m0] = 0 => p # x
      BY <1>2, <1>4, <3>1
    <3>4. mutex[m0] = 0 => Rank(p, x + 1) = Rank(p, x) + 1
      BY <1>2, <3>3, NextRank
    <3>5. Rank(p, x) \in Int /\ Rank(p, q) \in Int
      BY <1>2, Bounds DEF Rank, Pipes
    <3> QED BY <1>0, <1>4, <3>2, <3>4, <3>5
  <2> QED BY <1>2, <1>b, <1>c, <2>1, <2>2, <2>3 DEF TurnInv
\* Thread x gets it: it comes later than those before it, and is new to them.
<1>5. CASE Asks(x) /\ mutex[m0] = 0 /\ mutex'[m0] = x + 1
  <2>1. \A q \in Pipes : Got(q) <=> q = x
    BY <1>5, Bounds DEF Got, Pipes
  <2>2. x \notin waiting' /\ waiting' \subseteq waiting
    BY <1>5, <1>a DEF WaitsOn
  <2>3. ASSUME NEW p \in waiting', NEW q \in Pipes, overtaken[p][q] = 1
        PROVE  Rank(p, q) < Rank(p, x)
    BY <1>0, <1>5, <2>2, <2>3 DEF TurnInv
  <2>4. ASSUME NEW p \in waiting' PROVE overtaken[p][x] = 0
    <3>1. Rank(p, x) \in Int
      BY <1>2, Bounds DEF Rank, Pipes
    <3> QED BY <1>2, <1>3, <2>3, <3>1
  <2>5. ASSUME NEW p \in waiting', NEW q \in Pipes, overtaken'[p][q] = 1
        PROVE  Rank(p, q) <= Rank(p, x)
    <3>1. Rank(p, x) \in Int /\ Rank(p, q) \in Int
      BY <1>2, Bounds DEF Rank, Pipes
    <3> QED BY <1>c, <2>1, <2>3, <2>4, <2>5, <3>1
  <2>6. mutex'[m0] # 0 /\ mutex'[m0] - 1 = x
    BY <1>5, Bounds DEF Pipes
  <2> QED BY <1>2, <1>b, <1>c, <2>1, <2>2, <2>4, <2>5, <2>6 DEF TurnInv
\* Thread x gives it back, and those after it are tried next.
<1>6. CASE ~Asks(x) /\ mutex[m0] = x + 1 /\ mutex'[m0] = 0
  <2>1. \A q \in Pipes : ~Got(q)
    BY <1>6, Bounds DEF Got, Pipes
  <2>2. x \notin waiting' /\ waiting' \subseteq waiting
    BY <1>2, <1>6, <1>a
  <2>3. ASSUME NEW p \in waiting', NEW q \in Pipes, overtaken'[p][q] = 1
        PROVE  Rank(p, q) < Rank(p, turn')
    <3>1. overtaken[p][q] = 1 /\ p \in waiting /\ p \in Pipes /\ p # x
      BY <1>2, <1>c, <2>1, <2>2, <2>3
    <3>2. mutex[m0] # 0 /\ mutex[m0] - 1 = x
      BY <1>6, Bounds DEF Pipes
    <3>3. Rank(p, q) <= Rank(p, x)
      BY <3>1, <3>2 DEF TurnInv
    <3>4. Rank(p, x) \in Int /\ Rank(p, q) \in Int
      BY <3>1, Bounds DEF Rank, Pipes
    <3> QED BY <1>0, <3>1, <3>3, <3>4, NextRank
  <2> QED BY <1>2, <1>6, <1>b, <1>c, <2>1, <2>2, <2>3 DEF TurnInv
<1> QED BY <1>4, <1>5, <1>6, Tried

\* The other steps leave the mutex, and the instructions in the FIFOs, alone.
LEMMA OthersKeepTurns ==
  ASSUME TypeOK, TurnInv, UNCHANGED <<kernel, mutex>>, WaitsOn,
         \A p \in Pipes : ~Asks(p), \A p \in Pipes : in_fifo[p] => Keeps(p),
         turn' = turn \/ (turn = NumPipes /\ turn' = 0)
  PROVE  TurnInv'
<1>1. /\ \A q \in Pipes : ~Got(q)
      /\ \A p \in Pipes : Code(p)' = Code(p)
  BY DEF Got, Code
<1>2. waiting \subseteq Pipes /\ waiting' = waiting
  BY DEF WaitsOn, TurnInv
<1>3. overtaken' = overtaken
  <2>1. \A p \in Pipes, q \in Pipes :
          (IF p \notin waiting' THEN 0 ELSE overtaken[p][q]) = overtaken[p][q]
    BY <1>2 DEF TurnInv
  <2>2. overtaken' = [p \in Pipes |-> [q \in Pipes |-> overtaken[p][q]]]
    BY <1>1, <2>1 DEF WaitsOn
  <2> QED BY <2>2 DEF TurnInv
<1>4. \A p \in Pipes : Rank(p, turn') = Rank(p, turn)
  BY Bounds DEF Rank, Pipes
<1> QED BY <1>1, <1>2, <1>3, <1>4 DEF TurnInv, Keeps

\* However many threads there are and whatever they run, a thread that waits
\* for a mutex is overtaken by another at most once: Blackhole and Wormhole
\* hand it on in the order in which the clock loop tries the threads.
THEOREM TurnsKept == MCSpec => []MutexInTurn
<1>1. MCSpec => []TypeOK
  BY HistoryTypes
<1>2. MCInit => TurnInv
  BY DEF MCInit, TurnInv
<1>3. TypeOK /\ TurnInv /\ [MCNext]_<<vars, history>> => TurnInv'
  <2> SUFFICES ASSUME TypeOK, TurnInv, [MCNext]_<<vars, history>>
               PROVE  TurnInv'
    OBVIOUS
  <2>1. CASE UNCHANGED <<vars, history>>
    BY <2>1 DEF vars, syncs, setup, history, TurnInv, Code
  <2>2. CASE MCNext
    <3>1. WaitsOn /\ Next
      BY <2>2 DEF MCNext, WaitsOn
    <3>2. CASE Ended \/ (Exchange /\ UNCHANGED <<setup, syncs>>)
      <4>1. UNCHANGED <<kernel, mutex, pc, in_fifo, turn>> /\ \A p \in Pipes : ~Asks(p)
        <5>1. \A p \in Pipes : p # NumPipes
          BY Bounds DEF Pipes
        <5> QED BY <3>2, <5>1 DEF Ended, vars, syncs, setup, Exchange, MailboxRead, MailboxWrite, Handling, Asks
      <4> QED BY <3>1, <4>1, OthersKeepTurns DEF Keeps
    <3>3. ASSUME NEW p \in Pipes, TryPipe(p), UNCHANGED <<setup, mails>>
          PROVE  TurnInv'
      BY <3>1, <3>3, TryKeepsTurns DEF setup
    <3>4. ASSUME UNCHANGED <<setup, mails>>,
                 \/ CoresDone
                 \/ \E p \in Pipes :
                      \/ PushInst(p) \/ TensixSyncRead(p)
                      \/ \E s \in Sems : SemaphoreRead(p, s) \/ SemaphoreGet(p, s) \/ SemaphorePost(p, s)
          PROVE  TurnInv'
      <4>1. /\ UNCHANGED <<kernel, mutex>> /\ turn = NumPipes
            /\ turn' = turn \/ (turn = NumPipes /\ turn' = 0)
            /\ UNCHANGED pc
            /\ \A p \in Pipes : in_fifo[p] => in_fifo'[p] = in_fifo[p]
        BY <3>4 DEF setup, CoresDone, PushInst, TensixSyncRead, SemaphoreRead, SemaphoreGet,
                    SemaphorePost, CoresTurn, TypeOK
      <4>2. \A p \in Pipes : ~Asks(p)
        BY <4>1, Bounds DEF Asks, Pipes
      <4> QED BY <3>1, <4>1, <4>2, OthersKeepTurns DEF Keeps
    <3> QED BY <3>1, <3>2, <3>3, <3>4 DEF Next, Sync
  <2> QED BY <2>1, <2>2
<1>4. TurnInv => MutexInTurn
  <2> SUFFICES ASSUME TurnInv, NEW p \in Pipes, NEW q \in Pipes PROVE overtaken[p][q] < 2
    BY DEF MutexInTurn
  <2>1. overtaken[p][q] \in {0, 1}
    BY DEF TurnInv
  <2> QED BY <2>1
<1> QED BY <1>1, <1>2, <1>3, <1>4, PTL DEF MCSpec

-----------------------------------------------------------------------------
(* The pipeline kernel.                                                    *)

\* The pipeline kernel runs.
Piped == kernel = "buffers" /\ "buffers" \in Kernels

Do0 == /\ Code(0)[1] = Start(s0, 1) /\ Code(0)[2] = Wait("max", s0, {"unpack"})
       /\ Code(0)[3] = Do("unpack") /\ Code(0)[4] = Post(s0)
       /\ Len(Code(0)) = 4
Do1 == /\ Code(1)[1] = Start(s1, 2) /\ Code(1)[2] = Wait("zero", s0, {"math", "sync"})
       /\ Code(1)[3] = Wait("max", s1, {"math"}) /\ Code(1)[4] = Do("math")
       /\ Code(1)[5] = Post(s1) /\ Code(1)[6] = Get(s0)
       /\ Len(Code(1)) = 6
Do2 == /\ Code(2)[1] = Start(s2, 1) /\ Code(2)[2] = Wait("zero", s1, {"pack"})
       /\ Code(2)[3] = Do("pack") /\ Code(2)[4] = Get(s1)
       /\ Code(2)[5] = Wait("max", s2, {"sync"}) /\ Code(2)[6] = Post(s2)
       /\ Len(Code(2)) = 6

LEMMA TheThreads ==
  ASSUME Piped
  PROVE  /\ Pipes = {0, 1, 2} /\ NumPipes = 3
         /\ Do0 /\ Do1 /\ Do2
         /\ \A p \in Pipes : LoopStart[kernel][p] = 2
<1>1. NumPipes = 3 /\ Pipes = {0, 1, 2}
  BY BuffersAssumption DEF Piped, Pipes
<1>2. \A p \in Pipes : Code(p) = Buffers[p] /\ LoopStart[kernel][p] = 2
  BY BuffersAssumption DEF Piped, Code
<1>3. /\ Buffers[0] = << Start(s0, 1), Wait("max", s0, {"unpack"}), Do("unpack"), Post(s0) >>
      /\ Buffers[1] = << Start(s1, 2),
                   Wait("zero", s0, {"math", "sync"}), Wait("max", s1, {"math"}),
                   Do("math"), Post(s1), Get(s0) >>
      /\ Buffers[2] = << Start(s2, 1),
                   Wait("zero", s1, {"pack"}), Do("pack"), Get(s1),
                   Wait("max", s2, {"sync"}), Post(s2) >>
  BY <1>1 DEF Buffers
<1>4. Do0
  BY <1>1, <1>2, <1>3 DEF Do0
<1>5. Do1
  BY <1>1, <1>2, <1>3 DEF Do1
<1>6. Do2
  BY <1>1, <1>2, <1>3 DEF Do2
<1> QED BY <1>1, <1>2, <1>4, <1>5, <1>6

\* Nothing is left of a thread's latched wait when its next instruction is tried.
Open == \A p \in Pipes : Latched(p, Code(p)[pc[p]]) = {}

\* What a semaphore counts, and where its threads are.
Counts ==
  /\ sem[s0] \in {0, 1} /\ sem[s1] \in {0, 1, 2} /\ sem[s2] \in {0, 1}
  /\ IF pc[0] = 1 THEN sem[s0] = 0 ELSE sem_max[s0] = 1
  /\ IF pc[1] = 1 THEN sem[s1] = 0 ELSE sem_max[s1] = 2
  /\ IF pc[2] = 1 THEN sem[s2] = 0 ELSE sem_max[s2] = 1
  /\ pc[0] \in {3, 4} => sem[s0] = 0
  /\ pc[1] \in {3, 4, 5, 6} => sem[s0] = 1
  /\ pc[1] \in {4, 5} => sem[s1] # 2
  /\ pc[2] \in {3, 4} => sem[s1] # 0
  /\ pc[2] = 6 => sem[s2] = 0
  /\ saw[0] = {} /\ saw[1] = {}
  /\ saw[2] \subseteq {s2} /\ (saw[2] # {} => sem[s2] = 1)

\* The halves of Dst that math has given away and pack has not given back.
Halves ==
  /\ posted \in {0, 1} /\ got \in {0, 1}
  /\ posted = got <=> sem[s1] # 1

PipeInv == kernel = "buffers" => error = "none" /\ Open /\ Counts /\ Halves

\* Thread p goes on from its instruction n to m, and no TTSIM_VERIFY fails.
Goes(p, n, m) == pc[p] = n /\ pc' = [pc EXCEPT ![p] = m] /\ UNCHANGED error

\* An instruction whose thread has no wait left.
LEMMA Waited ==
  ASSUME NEW p \in Pipes, NEW i, Latched(p, i) = {}, i.op = "SEMWAIT", Execute(p, i)
  PROVE  /\ UNCHANGED <<sem, sem_max>>
         /\ \/ UNCHANGED <<pc, error>> /\ wait_block' = [wait_block EXCEPT ![p] = {}]
            \/ ~MustWait(i) /\ Leaves(p) /\ wait_block' = [wait_block EXCEPT ![p] = i.block]
<1>1. SEMWAIT(p, i)
  BY DEF Execute
<1> QED BY <1>1 DEF SEMWAIT, Stalls, Passes

LEMMA Initialised ==
  ASSUME NEW p \in Pipes, NEW i, Latched(p, i) = {}, i.op = "SEMINIT", i.value = 0, i.max \in Nat,
         Execute(p, i)
  PROVE  /\ sem' = [sem EXCEPT ![i.sem] = 0] /\ sem_max' = [sem_max EXCEPT ![i.sem] = i.max]
         /\ Leaves(p) /\ wait_block' = [wait_block EXCEPT ![p] = {}]
<1>1. SEMINIT(p, i) /\ ~UnderOwnWait(p, i) /\ ~(i.value > i.max)
  BY DEF Execute, UnderOwnWait
<1> QED BY <1>1 DEF SEMINIT, Passes

LEMMA Posted ==
  ASSUME NEW p \in Pipes, NEW i, Latched(p, i) = {}, i.op = "SEMPOST",
         ~(sem[i.sem] >= sem_max[i.sem]), Execute(p, i)
  PROVE  /\ sem' = [sem EXCEPT ![i.sem] = sem[i.sem] + 1] /\ UNCHANGED sem_max
         /\ Leaves(p) /\ wait_block' = [wait_block EXCEPT ![p] = {}]
<1>1. SEMPOST(p, i) /\ ~UnderOwnWait(p, i)
  BY DEF Execute, UnderOwnWait
<1> QED BY <1>1 DEF SEMPOST, Passes

LEMMA Taken ==
  ASSUME NEW p \in Pipes, NEW i, Latched(p, i) = {}, i.op = "SEMGET",
         sem[i.sem] # 0, Execute(p, i)
  PROVE  /\ sem' = [sem EXCEPT ![i.sem] = sem[i.sem] - 1] /\ UNCHANGED sem_max
         /\ Leaves(p) /\ wait_block' = [wait_block EXCEPT ![p] = {}]
<1>1. SEMGET(p, i) /\ ~UnderOwnWait(p, i)
  BY DEF Execute, UnderOwnWait
<1> QED BY <1>1 DEF SEMGET, Passes

LEMMA Worked ==
  ASSUME NEW p \in Pipes, NEW i, Latched(p, i) = {}, i.op = "OTHER", Execute(p, i)
  PROVE  /\ UNCHANGED <<sem, sem_max>>
         /\ Leaves(p) /\ wait_block' = [wait_block EXCEPT ![p] = {}]
<1>1. UnitInst(p, i)
  BY DEF Execute
<1> QED BY <1>1 DEF UnitInst, Passes

\* A wait is followed by an instruction that it holds.
LEMMA StaysOpen ==
  ASSUME TypeOK, Open, UNCHANGED <<kernel, wormhole>>, NEW p \in Pipes,
         \A q \in Pipes \ {p} : pc'[q] = pc[q],
         NEW b, wait_block' = [wait_block EXCEPT ![p] = b],
         b = {} \/ Holds(b, Code(p)[pc'[p]])
  PROVE  Open'
<1>1. /\ \A q \in Pipes : Code(q)' = Code(q)
      /\ \A q \in Pipes : wait_block'[q] = IF q = p THEN b ELSE wait_block[q]
  BY DEF Code, TypeOK
<1>2. ASSUME NEW q \in Pipes \ {p} PROVE Latched(q, Code(q)[pc[q]])' = {}
  <2>1. Latched(q, Code(q)[pc[q]]) = {} /\ pc'[q] = pc[q] /\ wait_block'[q] = wait_block[q]
    BY <1>1 DEF Open
  <2> QED BY <1>1, <2>1 DEF Latched, Holds
<1>3. Latched(p, Code(p)[pc[p]])' = {}
  BY <1>1 DEF Latched, Holds
<1> QED BY <1>2, <1>3 DEF Open

Unmoved == UNCHANGED <<pc, sem, sem_max, error>>
Counted(s, n) == sem' = [sem EXCEPT ![s] = n] /\ UNCHANGED sem_max

LEMMA Thread0 ==
  ASSUME TypeOK, Piped, Open, Counts, UNCHANGED <<kernel, wormhole>>,
         in_fifo[0], Execute(0, Code(0)[pc[0]])
  PROVE  /\ Open'
         /\ \/ Unmoved
            \/ Goes(0, 1, 2) /\ sem' = [sem EXCEPT ![s0] = 0] /\ sem_max' = [sem_max EXCEPT ![s0] = 1]
            \/ Goes(0, 2, 3) /\ sem[s0] # 1 /\ UNCHANGED <<sem, sem_max>>
            \/ Goes(0, 3, 4) /\ UNCHANGED <<sem, sem_max>>
            \/ Goes(0, 4, 2) /\ Counted(s0, sem[s0] + 1)
<1>0. /\ 0 \in Pipes /\ Do0 /\ pc[0] \in {1, 2, 3, 4} /\ pc \in [Pipes -> Nat]
      /\ Latched(0, Code(0)[pc[0]]) = {}
      /\ NextPc(0) = IF pc[0] = 4 THEN 2 ELSE pc[0] + 1
      /\ Leaves(0) => pc' = [pc EXCEPT ![0] = NextPc(0)] /\ UNCHANGED error
                      /\ pc'[0] = NextPc(0) /\ \A q \in Pipes \ {0} : pc'[q] = pc[q]
      /\ {s0, s1, s2} \subseteq Sems
  <2>1. Pipes = {0, 1, 2} /\ Do0 /\ LoopStart[kernel][0] = 2 /\ {s0, s1, s2} \subseteq Sems
    BY TheThreads, BuffersAssumption DEF Piped
  <2>2. pc[0] \in 1 .. 4 /\ pc \in [Pipes -> Nat]
    BY <2>1 DEF TypeOK, Do0
  <2>3. NextPc(0) = IF pc[0] = 4 THEN 2 ELSE pc[0] + 1
    BY <2>1 DEF NextPc, Do0
  <2>4. pc[0] \in {1, 2, 3, 4}
    BY <2>2
  <2> QED BY <2>1, <2>2, <2>3, <2>4 DEF Open, Leaves
<1>1. CASE pc[0] = 1
  <2> DEFINE i == Code(0)[pc[0]]
  <2>1. i.op = "SEMINIT" /\ i.value = 0 /\ i.max = 1 /\ i.sem = s0
    BY <1>0, <1>1 DEF Do0, Start
  <2>2. /\ sem' = [sem EXCEPT ![s0] = 0] /\ sem_max' = [sem_max EXCEPT ![s0] = 1]
        /\ Leaves(0) /\ wait_block' = [wait_block EXCEPT ![0] = {}]
    BY <1>0, <2>1, Initialised
  <2>3. Open'
    BY <1>0, <2>2, StaysOpen
  <2> QED BY <1>0, <1>1, <2>2, <2>3 DEF Goes
<1>2. CASE pc[0] = 2
  <2> DEFINE i == Code(0)[pc[0]]
  <2>1. i.op = "SEMWAIT" /\ i.sems = {s0} /\ i.cond = "max" /\ i.block = {"unpack"}
    BY <1>0, <1>2 DEF Do0, Wait
  <2>2. /\ UNCHANGED <<sem, sem_max>>
        /\ \/ UNCHANGED <<pc, error>> /\ wait_block' = [wait_block EXCEPT ![0] = {}]
           \/ ~MustWait(i) /\ Leaves(0) /\ wait_block' = [wait_block EXCEPT ![0] = {"unpack"}]
    BY <1>0, <2>1, Waited
  <2>3. sem_max[s0] = 1 /\ sem[s0] \in {0, 1}
    BY <1>2 DEF Counts
  <2>4. ~MustWait(i) => sem[s0] # 1
    BY <2>1, <2>3 DEF MustWait
  <2>5. Holds({"unpack"}, Code(0)[3])
    BY <1>0 DEF Holds, Do0, Do, Wait, Post
  <2>6. Open'
    <3>1. CASE UNCHANGED <<pc, error>> /\ wait_block' = [wait_block EXCEPT ![0] = {}]
      <4>1. \A q \in Pipes \ {0} : pc'[q] = pc[q]
        BY <3>1
      <4> QED BY <1>0, <3>1, <4>1, StaysOpen
    <3>2. CASE Leaves(0) /\ wait_block' = [wait_block EXCEPT ![0] = {"unpack"}]
      <4>1. pc'[0] = 3 /\ \A q \in Pipes \ {0} : pc'[q] = pc[q]
        BY <1>0, <1>2, <3>2
      <4>2. Holds({"unpack"}, Code(0)[pc'[0]])
        BY <2>5, <4>1
      <4> QED BY <1>0, <3>2, <4>1, <4>2, StaysOpen
    <3> QED BY <2>2, <3>1, <3>2
  <2> QED BY <1>0, <1>2, <2>2, <2>4, <2>6 DEF Goes, Unmoved
<1>3. CASE pc[0] = 3
  <2> DEFINE i == Code(0)[pc[0]]
  <2>1. i.op = "OTHER"
    BY <1>0, <1>3 DEF Do0, Do
  <2>2. /\ UNCHANGED <<sem, sem_max>>
        /\ Leaves(0) /\ wait_block' = [wait_block EXCEPT ![0] = {}]
    BY <1>0, <2>1, Worked
  <2>3. Open'
    BY <1>0, <2>2, StaysOpen
  <2> QED BY <1>0, <1>3, <2>2, <2>3 DEF Goes
<1>4. CASE pc[0] = 4
  <2> DEFINE i == Code(0)[pc[0]]
  <2>1. i.op = "SEMPOST" /\ i.sem = s0
    BY <1>0, <1>4 DEF Do0, Post
  <2>2. sem[s0] = 0 /\ sem_max[s0] = 1
    BY <1>4 DEF Counts
  <2>3. Counted(s0, sem[s0] + 1) /\ Leaves(0) /\ wait_block' = [wait_block EXCEPT ![0] = {}]
    BY <1>0, <2>1, <2>2, Posted DEF Counted
  <2>4. Open'
    BY <1>0, <2>3, StaysOpen
  <2> QED BY <1>0, <1>4, <2>3, <2>4 DEF Goes
<1> QED BY <1>0, <1>1, <1>2, <1>3, <1>4

LEMMA Thread1 ==
  ASSUME TypeOK, Piped, Open, Counts, UNCHANGED <<kernel, wormhole>>,
         in_fifo[1], Execute(1, Code(1)[pc[1]])
  PROVE  /\ Open'
         /\ \/ Unmoved
            \/ Goes(1, 1, 2) /\ sem' = [sem EXCEPT ![s1] = 0] /\ sem_max' = [sem_max EXCEPT ![s1] = 2]
            \/ Goes(1, 2, 3) /\ sem[s0] # 0 /\ UNCHANGED <<sem, sem_max>>
            \/ Goes(1, 3, 4) /\ sem[s1] # 2 /\ UNCHANGED <<sem, sem_max>>
            \/ Goes(1, 4, 5) /\ UNCHANGED <<sem, sem_max>>
            \/ Goes(1, 5, 6) /\ Counted(s1, sem[s1] + 1)
            \/ Goes(1, 6, 2) /\ Counted(s0, sem[s0] - 1)
<1>0. /\ 1 \in Pipes /\ Do1 /\ pc[1] \in {1, 2, 3, 4, 5, 6} /\ pc \in [Pipes -> Nat]
      /\ Latched(1, Code(1)[pc[1]]) = {}
      /\ NextPc(1) = IF pc[1] = 6 THEN 2 ELSE pc[1] + 1
      /\ Leaves(1) => pc' = [pc EXCEPT ![1] = NextPc(1)] /\ UNCHANGED error
                      /\ pc'[1] = NextPc(1) /\ \A q \in Pipes \ {1} : pc'[q] = pc[q]
      /\ {s0, s1, s2} \subseteq Sems
  <2>1. Pipes = {0, 1, 2} /\ Do1 /\ LoopStart[kernel][1] = 2 /\ {s0, s1, s2} \subseteq Sems
    BY TheThreads, BuffersAssumption DEF Piped
  <2>2. pc[1] \in 1 .. 6 /\ pc \in [Pipes -> Nat]
    BY <2>1 DEF TypeOK, Do1
  <2>3. NextPc(1) = IF pc[1] = 6 THEN 2 ELSE pc[1] + 1
    BY <2>1 DEF NextPc, Do1
  <2>4. pc[1] \in {1, 2, 3, 4, 5, 6}
    BY <2>2
  <2> QED BY <2>1, <2>2, <2>3, <2>4 DEF Open, Leaves
<1>1. CASE pc[1] = 1
  <2> DEFINE i == Code(1)[pc[1]]
  <2>1. i.op = "SEMINIT" /\ i.value = 0 /\ i.max = 2 /\ i.sem = s1
    BY <1>0, <1>1 DEF Do1, Start
  <2>2. /\ sem' = [sem EXCEPT ![s1] = 0] /\ sem_max' = [sem_max EXCEPT ![s1] = 2]
        /\ Leaves(1) /\ wait_block' = [wait_block EXCEPT ![1] = {}]
    BY <1>0, <2>1, Initialised
  <2>3. Open'
    BY <1>0, <2>2, StaysOpen
  <2> QED BY <1>0, <1>1, <2>2, <2>3 DEF Goes
<1>2. CASE pc[1] = 2
  <2> DEFINE i == Code(1)[pc[1]]
  <2>1. i.op = "SEMWAIT" /\ i.sems = {s0} /\ i.cond = "zero" /\ i.block = {"math", "sync"}
    BY <1>0, <1>2 DEF Do1, Wait
  <2>2. /\ UNCHANGED <<sem, sem_max>>
        /\ \/ UNCHANGED <<pc, error>> /\ wait_block' = [wait_block EXCEPT ![1] = {}]
           \/ ~MustWait(i) /\ Leaves(1) /\ wait_block' = [wait_block EXCEPT ![1] = {"math", "sync"}]
    BY <1>0, <2>1, Waited
  <2>3. sem[s0] \in {0, 1}
    BY <1>2 DEF Counts
  <2>4. ~MustWait(i) => sem[s0] # 0
    BY <2>1, <2>3 DEF MustWait
  <2>5. Holds({"math", "sync"}, Code(1)[3])
    BY <1>0 DEF Holds, Do1, Do, Wait, Post
  <2>6. Open'
    <3>1. CASE UNCHANGED <<pc, error>> /\ wait_block' = [wait_block EXCEPT ![1] = {}]
      <4>1. \A q \in Pipes \ {1} : pc'[q] = pc[q]
        BY <3>1
      <4> QED BY <1>0, <3>1, <4>1, StaysOpen
    <3>2. CASE Leaves(1) /\ wait_block' = [wait_block EXCEPT ![1] = {"math", "sync"}]
      <4>1. pc'[1] = 3 /\ \A q \in Pipes \ {1} : pc'[q] = pc[q]
        BY <1>0, <1>2, <3>2
      <4>2. Holds({"math", "sync"}, Code(1)[pc'[1]])
        BY <2>5, <4>1
      <4> QED BY <1>0, <3>2, <4>1, <4>2, StaysOpen
    <3> QED BY <2>2, <3>1, <3>2
  <2> QED BY <1>0, <1>2, <2>2, <2>4, <2>6 DEF Goes, Unmoved
<1>3. CASE pc[1] = 3
  <2> DEFINE i == Code(1)[pc[1]]
  <2>1. i.op = "SEMWAIT" /\ i.sems = {s1} /\ i.cond = "max" /\ i.block = {"math"}
    BY <1>0, <1>3 DEF Do1, Wait
  <2>2. /\ UNCHANGED <<sem, sem_max>>
        /\ \/ UNCHANGED <<pc, error>> /\ wait_block' = [wait_block EXCEPT ![1] = {}]
           \/ ~MustWait(i) /\ Leaves(1) /\ wait_block' = [wait_block EXCEPT ![1] = {"math"}]
    BY <1>0, <2>1, Waited
  <2>3. sem_max[s1] = 2 /\ sem[s1] \in {0, 1, 2}
    BY <1>3 DEF Counts
  <2>4. ~MustWait(i) => sem[s1] # 2
    BY <2>1, <2>3 DEF MustWait
  <2>5. Holds({"math"}, Code(1)[4])
    BY <1>0 DEF Holds, Do1, Do, Wait, Post
  <2>6. Open'
    <3>1. CASE UNCHANGED <<pc, error>> /\ wait_block' = [wait_block EXCEPT ![1] = {}]
      <4>1. \A q \in Pipes \ {1} : pc'[q] = pc[q]
        BY <3>1
      <4> QED BY <1>0, <3>1, <4>1, StaysOpen
    <3>2. CASE Leaves(1) /\ wait_block' = [wait_block EXCEPT ![1] = {"math"}]
      <4>1. pc'[1] = 4 /\ \A q \in Pipes \ {1} : pc'[q] = pc[q]
        BY <1>0, <1>3, <3>2
      <4>2. Holds({"math"}, Code(1)[pc'[1]])
        BY <2>5, <4>1
      <4> QED BY <1>0, <3>2, <4>1, <4>2, StaysOpen
    <3> QED BY <2>2, <3>1, <3>2
  <2> QED BY <1>0, <1>3, <2>2, <2>4, <2>6 DEF Goes, Unmoved
<1>4. CASE pc[1] = 4
  <2> DEFINE i == Code(1)[pc[1]]
  <2>1. i.op = "OTHER"
    BY <1>0, <1>4 DEF Do1, Do
  <2>2. /\ UNCHANGED <<sem, sem_max>>
        /\ Leaves(1) /\ wait_block' = [wait_block EXCEPT ![1] = {}]
    BY <1>0, <2>1, Worked
  <2>3. Open'
    BY <1>0, <2>2, StaysOpen
  <2> QED BY <1>0, <1>4, <2>2, <2>3 DEF Goes
<1>5. CASE pc[1] = 5
  <2> DEFINE i == Code(1)[pc[1]]
  <2>1. i.op = "SEMPOST" /\ i.sem = s1
    BY <1>0, <1>5 DEF Do1, Post
  <2>2. sem[s1] \in {0, 1} /\ sem_max[s1] = 2
    BY <1>5 DEF Counts
  <2>3. Counted(s1, sem[s1] + 1) /\ Leaves(1) /\ wait_block' = [wait_block EXCEPT ![1] = {}]
    BY <1>0, <2>1, <2>2, Posted DEF Counted
  <2>4. Open'
    BY <1>0, <2>3, StaysOpen
  <2> QED BY <1>0, <1>5, <2>3, <2>4 DEF Goes
<1>6. CASE pc[1] = 6
  <2> DEFINE i == Code(1)[pc[1]]
  <2>1. i.op = "SEMGET" /\ i.sem = s0
    BY <1>0, <1>6 DEF Do1, Get
  <2>2. sem[s0] # 0
    BY <1>6 DEF Counts
  <2>3. Counted(s0, sem[s0] - 1) /\ Leaves(1) /\ wait_block' = [wait_block EXCEPT ![1] = {}]
    BY <1>0, <2>1, <2>2, Taken DEF Counted
  <2>4. Open'
    BY <1>0, <2>3, StaysOpen
  <2> QED BY <1>0, <1>6, <2>3, <2>4 DEF Goes
<1> QED BY <1>0, <1>1, <1>2, <1>3, <1>4, <1>5, <1>6

LEMMA Thread2 ==
  ASSUME TypeOK, Piped, Open, Counts, UNCHANGED <<kernel, wormhole>>,
         in_fifo[2], Execute(2, Code(2)[pc[2]])
  PROVE  /\ Open'
         /\ \/ Unmoved
            \/ Goes(2, 1, 2) /\ sem' = [sem EXCEPT ![s2] = 0] /\ sem_max' = [sem_max EXCEPT ![s2] = 1]
            \/ Goes(2, 2, 3) /\ sem[s1] # 0 /\ UNCHANGED <<sem, sem_max>>
            \/ Goes(2, 3, 4) /\ UNCHANGED <<sem, sem_max>>
            \/ Goes(2, 4, 5) /\ Counted(s1, sem[s1] - 1)
            \/ Goes(2, 5, 6) /\ sem[s2] # 1 /\ UNCHANGED <<sem, sem_max>>
            \/ Goes(2, 6, 2) /\ Counted(s2, sem[s2] + 1)
<1>0. /\ 2 \in Pipes /\ Do2 /\ pc[2] \in {1, 2, 3, 4, 5, 6} /\ pc \in [Pipes -> Nat]
      /\ Latched(2, Code(2)[pc[2]]) = {}
      /\ NextPc(2) = IF pc[2] = 6 THEN 2 ELSE pc[2] + 1
      /\ Leaves(2) => pc' = [pc EXCEPT ![2] = NextPc(2)] /\ UNCHANGED error
                      /\ pc'[2] = NextPc(2) /\ \A q \in Pipes \ {2} : pc'[q] = pc[q]
      /\ {s0, s1, s2} \subseteq Sems
  <2>1. Pipes = {0, 1, 2} /\ Do2 /\ LoopStart[kernel][2] = 2 /\ {s0, s1, s2} \subseteq Sems
    BY TheThreads, BuffersAssumption DEF Piped
  <2>2. pc[2] \in 1 .. 6 /\ pc \in [Pipes -> Nat]
    BY <2>1 DEF TypeOK, Do2
  <2>3. NextPc(2) = IF pc[2] = 6 THEN 2 ELSE pc[2] + 1
    BY <2>1 DEF NextPc, Do2
  <2>4. pc[2] \in {1, 2, 3, 4, 5, 6}
    BY <2>2
  <2> QED BY <2>1, <2>2, <2>3, <2>4 DEF Open, Leaves
<1>1. CASE pc[2] = 1
  <2> DEFINE i == Code(2)[pc[2]]
  <2>1. i.op = "SEMINIT" /\ i.value = 0 /\ i.max = 1 /\ i.sem = s2
    BY <1>0, <1>1 DEF Do2, Start
  <2>2. /\ sem' = [sem EXCEPT ![s2] = 0] /\ sem_max' = [sem_max EXCEPT ![s2] = 1]
        /\ Leaves(2) /\ wait_block' = [wait_block EXCEPT ![2] = {}]
    BY <1>0, <2>1, Initialised
  <2>3. Open'
    BY <1>0, <2>2, StaysOpen
  <2> QED BY <1>0, <1>1, <2>2, <2>3 DEF Goes
<1>2. CASE pc[2] = 2
  <2> DEFINE i == Code(2)[pc[2]]
  <2>1. i.op = "SEMWAIT" /\ i.sems = {s1} /\ i.cond = "zero" /\ i.block = {"pack"}
    BY <1>0, <1>2 DEF Do2, Wait
  <2>2. /\ UNCHANGED <<sem, sem_max>>
        /\ \/ UNCHANGED <<pc, error>> /\ wait_block' = [wait_block EXCEPT ![2] = {}]
           \/ ~MustWait(i) /\ Leaves(2) /\ wait_block' = [wait_block EXCEPT ![2] = {"pack"}]
    BY <1>0, <2>1, Waited
  <2>3. sem[s1] \in {0, 1, 2}
    BY <1>2 DEF Counts
  <2>4. ~MustWait(i) => sem[s1] # 0
    BY <2>1, <2>3 DEF MustWait
  <2>5. Holds({"pack"}, Code(2)[3])
    BY <1>0 DEF Holds, Do2, Do, Wait, Post
  <2>6. Open'
    <3>1. CASE UNCHANGED <<pc, error>> /\ wait_block' = [wait_block EXCEPT ![2] = {}]
      <4>1. \A q \in Pipes \ {2} : pc'[q] = pc[q]
        BY <3>1
      <4> QED BY <1>0, <3>1, <4>1, StaysOpen
    <3>2. CASE Leaves(2) /\ wait_block' = [wait_block EXCEPT ![2] = {"pack"}]
      <4>1. pc'[2] = 3 /\ \A q \in Pipes \ {2} : pc'[q] = pc[q]
        BY <1>0, <1>2, <3>2
      <4>2. Holds({"pack"}, Code(2)[pc'[2]])
        BY <2>5, <4>1
      <4> QED BY <1>0, <3>2, <4>1, <4>2, StaysOpen
    <3> QED BY <2>2, <3>1, <3>2
  <2> QED BY <1>0, <1>2, <2>2, <2>4, <2>6 DEF Goes, Unmoved
<1>3. CASE pc[2] = 3
  <2> DEFINE i == Code(2)[pc[2]]
  <2>1. i.op = "OTHER"
    BY <1>0, <1>3 DEF Do2, Do
  <2>2. /\ UNCHANGED <<sem, sem_max>>
        /\ Leaves(2) /\ wait_block' = [wait_block EXCEPT ![2] = {}]
    BY <1>0, <2>1, Worked
  <2>3. Open'
    BY <1>0, <2>2, StaysOpen
  <2> QED BY <1>0, <1>3, <2>2, <2>3 DEF Goes
<1>4. CASE pc[2] = 4
  <2> DEFINE i == Code(2)[pc[2]]
  <2>1. i.op = "SEMGET" /\ i.sem = s1
    BY <1>0, <1>4 DEF Do2, Get
  <2>2. sem[s1] # 0
    BY <1>4 DEF Counts
  <2>3. Counted(s1, sem[s1] - 1) /\ Leaves(2) /\ wait_block' = [wait_block EXCEPT ![2] = {}]
    BY <1>0, <2>1, <2>2, Taken DEF Counted
  <2>4. Open'
    BY <1>0, <2>3, StaysOpen
  <2> QED BY <1>0, <1>4, <2>3, <2>4 DEF Goes
<1>5. CASE pc[2] = 5
  <2> DEFINE i == Code(2)[pc[2]]
  <2>1. i.op = "SEMWAIT" /\ i.sems = {s2} /\ i.cond = "max" /\ i.block = {"sync"}
    BY <1>0, <1>5 DEF Do2, Wait
  <2>2. /\ UNCHANGED <<sem, sem_max>>
        /\ \/ UNCHANGED <<pc, error>> /\ wait_block' = [wait_block EXCEPT ![2] = {}]
           \/ ~MustWait(i) /\ Leaves(2) /\ wait_block' = [wait_block EXCEPT ![2] = {"sync"}]
    BY <1>0, <2>1, Waited
  <2>3. sem_max[s2] = 1 /\ sem[s2] \in {0, 1}
    BY <1>5 DEF Counts
  <2>4. ~MustWait(i) => sem[s2] # 1
    BY <2>1, <2>3 DEF MustWait
  <2>5. Holds({"sync"}, Code(2)[6])
    BY <1>0 DEF Holds, Do2, Do, Wait, Post
  <2>6. Open'
    <3>1. CASE UNCHANGED <<pc, error>> /\ wait_block' = [wait_block EXCEPT ![2] = {}]
      <4>1. \A q \in Pipes \ {2} : pc'[q] = pc[q]
        BY <3>1
      <4> QED BY <1>0, <3>1, <4>1, StaysOpen
    <3>2. CASE Leaves(2) /\ wait_block' = [wait_block EXCEPT ![2] = {"sync"}]
      <4>1. pc'[2] = 6 /\ \A q \in Pipes \ {2} : pc'[q] = pc[q]
        BY <1>0, <1>5, <3>2
      <4>2. Holds({"sync"}, Code(2)[pc'[2]])
        BY <2>5, <4>1
      <4> QED BY <1>0, <3>2, <4>1, <4>2, StaysOpen
    <3> QED BY <2>2, <3>1, <3>2
  <2> QED BY <1>0, <1>5, <2>2, <2>4, <2>6 DEF Goes, Unmoved
<1>6. CASE pc[2] = 6
  <2> DEFINE i == Code(2)[pc[2]]
  <2>1. i.op = "SEMPOST" /\ i.sem = s2
    BY <1>0, <1>6 DEF Do2, Post
  <2>2. sem[s2] = 0 /\ sem_max[s2] = 1
    BY <1>6 DEF Counts
  <2>3. Counted(s2, sem[s2] + 1) /\ Leaves(2) /\ wait_block' = [wait_block EXCEPT ![2] = {}]
    BY <1>0, <2>1, <2>2, Posted DEF Counted
  <2>4. Open'
    BY <1>0, <2>3, StaysOpen
  <2> QED BY <1>0, <1>6, <2>3, <2>4 DEF Goes
<1> QED BY <1>0, <1>1, <1>2, <1>3, <1>4, <1>5, <1>6

\* How the history goes on.
HalvesOn ==
  /\ posted' = IF kernel = "buffers" /\ turn = 1 /\ pc[1] = 5 /\ pc'[1] # 5 THEN 1 - posted ELSE posted
  /\ got' = IF kernel = "buffers" /\ turn = 2 /\ pc[2] = 4 /\ pc'[2] # 4 THEN 1 - got ELSE got

LEMMA TryKeepsPipe ==
  ASSUME TypeOK, Piped, error = "none", Open, Counts, Halves,
         UNCHANGED <<kernel, wormhole>>, NEW x \in Pipes, TryPipe(x), HalvesOn
  PROVE  error' = "none" /\ Open' /\ Counts' /\ Halves'
<1>0. /\ Pipes = {0, 1, 2} /\ {s0, s1, s2} \subseteq Sems /\ s0 # s1 /\ s0 # s2 /\ s1 # s2
      /\ kernel = "buffers" /\ turn = x /\ UNCHANGED saw
      /\ DOMAIN pc = {0, 1, 2} /\ DOMAIN sem = Sems /\ DOMAIN sem_max = Sems
  BY TheThreads, BuffersAssumption DEF Piped, TryPipe, TypeOK
\* Where the threads are, and what the semaphores hold, after a step.
<1>a. ASSUME NEW p \in {0, 1, 2}, NEW n, NEW m, Goes(p, n, m)
      PROVE  /\ pc[p] = n /\ error' = "none"
             /\ \A q \in {0, 1, 2} : pc'[q] = IF q = p THEN m ELSE pc[q]
  BY <1>0, <1>a DEF Goes
<1>b. ASSUME NEW s \in Sems, NEW n, Counted(s, n)
      PROVE  UNCHANGED sem_max /\ \A t \in Sems : sem'[t] = IF t = s THEN n ELSE sem[t]
  BY <1>0, <1>b DEF Counted
<1>1. CASE Unmoved /\ Open'
  BY <1>0, <1>1 DEF Unmoved, Counts, Halves, HalvesOn
<1>2. CASE ~in_fifo[x]
  <2>1. UNCHANGED <<sem, sem_max, waits, pc, error>>
    BY <1>2 DEF TryPipe
  <2>2. Open'
    BY <2>1 DEF Open, Latched, Holds, waits, Code
  <2> QED BY <1>1, <2>1, <2>2 DEF Unmoved
<1>3. CASE in_fifo[x] /\ x = 0
  <2>0. in_fifo[0] /\ Execute(0, Code(0)[pc[0]])
    BY <1>3 DEF TryPipe
  <2>a. Open'
    BY <1>0, <2>0, Thread0
  <2>1. CASE Goes(0, 1, 2) /\ sem' = [sem EXCEPT ![s0] = 0] /\ sem_max' = [sem_max EXCEPT ![s0] = 1]
    <3>1. /\ pc[0] = 1 /\ pc'[0] = 2 /\ pc'[1] = pc[1] /\ pc'[2] = pc[2]
          /\ sem'[s0] = 0 /\ sem'[s1] = sem[s1] /\ sem'[s2] = sem[s2]
          /\ sem_max'[s0] = 1 /\ sem_max'[s1] = sem_max[s1] /\ sem_max'[s2] = sem_max[s2] /\ error' = "none"
      BY <1>0, <1>a, <2>1
    <3>2. Counts'
      BY <1>0, <3>1 DEF Counts
    <3>3. Halves'
      BY <1>0, <1>3, <3>1 DEF Counts, Halves, HalvesOn
    <3> QED BY <2>a, <3>1, <3>2, <3>3
  <2>2. CASE Goes(0, 2, 3) /\ sem[s0] # 1 /\ UNCHANGED <<sem, sem_max>>
    <3>1. /\ pc[0] = 2 /\ pc'[0] = 3 /\ pc'[1] = pc[1] /\ pc'[2] = pc[2]
          /\ sem'[s0] = sem[s0] /\ sem'[s1] = sem[s1] /\ sem'[s2] = sem[s2]
          /\ UNCHANGED sem_max /\ error' = "none"
      BY <1>0, <1>a, <2>2
    <3>2. Counts'
      BY <1>0, <3>1, <2>2 DEF Counts
    <3>3. Halves'
      BY <1>0, <1>3, <3>1 DEF Counts, Halves, HalvesOn
    <3> QED BY <2>a, <3>1, <3>2, <3>3
  <2>3. CASE Goes(0, 3, 4) /\ UNCHANGED <<sem, sem_max>>
    <3>1. /\ pc[0] = 3 /\ pc'[0] = 4 /\ pc'[1] = pc[1] /\ pc'[2] = pc[2]
          /\ sem'[s0] = sem[s0] /\ sem'[s1] = sem[s1] /\ sem'[s2] = sem[s2]
          /\ UNCHANGED sem_max /\ error' = "none"
      BY <1>0, <1>a, <2>3
    <3>2. Counts'
      BY <1>0, <3>1 DEF Counts
    <3>3. Halves'
      BY <1>0, <1>3, <3>1 DEF Counts, Halves, HalvesOn
    <3> QED BY <2>a, <3>1, <3>2, <3>3
  <2>4. CASE Goes(0, 4, 2) /\ Counted(s0, sem[s0] + 1)
    <3>1. /\ pc[0] = 4 /\ pc'[0] = 2 /\ pc'[1] = pc[1] /\ pc'[2] = pc[2]
          /\ sem'[s0] = sem[s0] + 1 /\ sem'[s1] = sem[s1] /\ sem'[s2] = sem[s2]
          /\ UNCHANGED sem_max /\ error' = "none"
      BY <1>0, <1>a, <1>b, <2>4
    <3>2. Counts'
      BY <1>0, <3>1 DEF Counts
    <3>3. Halves'
      BY <1>0, <1>3, <3>1 DEF Counts, Halves, HalvesOn
    <3> QED BY <2>a, <3>1, <3>2, <3>3
  <2> QED BY <1>0, <1>1, <2>0, <2>1, <2>2, <2>3, <2>4, <2>a, Thread0
<1>4. CASE in_fifo[x] /\ x = 1
  <2>0. in_fifo[1] /\ Execute(1, Code(1)[pc[1]])
    BY <1>4 DEF TryPipe
  <2>a. Open'
    BY <1>0, <2>0, Thread1
  <2>1. CASE Goes(1, 1, 2) /\ sem' = [sem EXCEPT ![s1] = 0] /\ sem_max' = [sem_max EXCEPT ![s1] = 2]
    <3>1. /\ pc[1] = 1 /\ pc'[1] = 2 /\ pc'[0] = pc[0] /\ pc'[2] = pc[2]
          /\ sem'[s0] = sem[s0] /\ sem'[s1] = 0 /\ sem'[s2] = sem[s2]
          /\ sem_max'[s0] = sem_max[s0] /\ sem_max'[s1] = 2 /\ sem_max'[s2] = sem_max[s2] /\ error' = "none"
      BY <1>0, <1>a, <2>1
    <3>2. Counts'
      BY <1>0, <3>1 DEF Counts
    <3>3. Halves'
      BY <1>0, <1>4, <3>1 DEF Counts, Halves, HalvesOn
    <3> QED BY <2>a, <3>1, <3>2, <3>3
  <2>2. CASE Goes(1, 2, 3) /\ sem[s0] # 0 /\ UNCHANGED <<sem, sem_max>>
    <3>1. /\ pc[1] = 2 /\ pc'[1] = 3 /\ pc'[0] = pc[0] /\ pc'[2] = pc[2]
          /\ sem'[s0] = sem[s0] /\ sem'[s1] = sem[s1] /\ sem'[s2] = sem[s2]
          /\ UNCHANGED sem_max /\ error' = "none"
      BY <1>0, <1>a, <2>2
    <3>2. Counts'
      BY <1>0, <3>1, <2>2 DEF Counts
    <3>3. Halves'
      BY <1>0, <1>4, <3>1 DEF Counts, Halves, HalvesOn
    <3> QED BY <2>a, <3>1, <3>2, <3>3
  <2>3. CASE Goes(1, 3, 4) /\ sem[s1] # 2 /\ UNCHANGED <<sem, sem_max>>
    <3>1. /\ pc[1] = 3 /\ pc'[1] = 4 /\ pc'[0] = pc[0] /\ pc'[2] = pc[2]
          /\ sem'[s0] = sem[s0] /\ sem'[s1] = sem[s1] /\ sem'[s2] = sem[s2]
          /\ UNCHANGED sem_max /\ error' = "none"
      BY <1>0, <1>a, <2>3
    <3>2. Counts'
      BY <1>0, <3>1, <2>3 DEF Counts
    <3>3. Halves'
      BY <1>0, <1>4, <3>1 DEF Counts, Halves, HalvesOn
    <3> QED BY <2>a, <3>1, <3>2, <3>3
  <2>4. CASE Goes(1, 4, 5) /\ UNCHANGED <<sem, sem_max>>
    <3>1. /\ pc[1] = 4 /\ pc'[1] = 5 /\ pc'[0] = pc[0] /\ pc'[2] = pc[2]
          /\ sem'[s0] = sem[s0] /\ sem'[s1] = sem[s1] /\ sem'[s2] = sem[s2]
          /\ UNCHANGED sem_max /\ error' = "none"
      BY <1>0, <1>a, <2>4
    <3>2. Counts'
      BY <1>0, <3>1 DEF Counts
    <3>3. Halves'
      BY <1>0, <1>4, <3>1 DEF Counts, Halves, HalvesOn
    <3> QED BY <2>a, <3>1, <3>2, <3>3
  <2>5. CASE Goes(1, 5, 6) /\ Counted(s1, sem[s1] + 1)
    <3>1. /\ pc[1] = 5 /\ pc'[1] = 6 /\ pc'[0] = pc[0] /\ pc'[2] = pc[2]
          /\ sem'[s0] = sem[s0] /\ sem'[s1] = sem[s1] + 1 /\ sem'[s2] = sem[s2]
          /\ UNCHANGED sem_max /\ error' = "none"
      BY <1>0, <1>a, <1>b, <2>5
    <3>2. Counts'
      BY <1>0, <3>1 DEF Counts
    <3>3. Halves'
      BY <1>0, <1>4, <3>1 DEF Counts, Halves, HalvesOn
    <3> QED BY <2>a, <3>1, <3>2, <3>3
  <2>6. CASE Goes(1, 6, 2) /\ Counted(s0, sem[s0] - 1)
    <3>1. /\ pc[1] = 6 /\ pc'[1] = 2 /\ pc'[0] = pc[0] /\ pc'[2] = pc[2]
          /\ sem'[s0] = sem[s0] - 1 /\ sem'[s1] = sem[s1] /\ sem'[s2] = sem[s2]
          /\ UNCHANGED sem_max /\ error' = "none"
      BY <1>0, <1>a, <1>b, <2>6
    <3>2. Counts'
      BY <1>0, <3>1 DEF Counts
    <3>3. Halves'
      BY <1>0, <1>4, <3>1 DEF Counts, Halves, HalvesOn
    <3> QED BY <2>a, <3>1, <3>2, <3>3
  <2> QED BY <1>0, <1>1, <2>0, <2>1, <2>2, <2>3, <2>4, <2>5, <2>6, <2>a, Thread1
<1>5. CASE in_fifo[x] /\ x = 2
  <2>0. in_fifo[2] /\ Execute(2, Code(2)[pc[2]])
    BY <1>5 DEF TryPipe
  <2>a. Open'
    BY <1>0, <2>0, Thread2
  <2>1. CASE Goes(2, 1, 2) /\ sem' = [sem EXCEPT ![s2] = 0] /\ sem_max' = [sem_max EXCEPT ![s2] = 1]
    <3>1. /\ pc[2] = 1 /\ pc'[2] = 2 /\ pc'[0] = pc[0] /\ pc'[1] = pc[1]
          /\ sem'[s0] = sem[s0] /\ sem'[s1] = sem[s1] /\ sem'[s2] = 0
          /\ sem_max'[s0] = sem_max[s0] /\ sem_max'[s1] = sem_max[s1] /\ sem_max'[s2] = 1 /\ error' = "none"
      BY <1>0, <1>a, <2>1
    <3>2. Counts'
      BY <1>0, <3>1 DEF Counts
    <3>3. Halves'
      BY <1>0, <1>5, <3>1 DEF Counts, Halves, HalvesOn
    <3> QED BY <2>a, <3>1, <3>2, <3>3
  <2>2. CASE Goes(2, 2, 3) /\ sem[s1] # 0 /\ UNCHANGED <<sem, sem_max>>
    <3>1. /\ pc[2] = 2 /\ pc'[2] = 3 /\ pc'[0] = pc[0] /\ pc'[1] = pc[1]
          /\ sem'[s0] = sem[s0] /\ sem'[s1] = sem[s1] /\ sem'[s2] = sem[s2]
          /\ UNCHANGED sem_max /\ error' = "none"
      BY <1>0, <1>a, <2>2
    <3>2. Counts'
      BY <1>0, <3>1, <2>2 DEF Counts
    <3>3. Halves'
      BY <1>0, <1>5, <3>1 DEF Counts, Halves, HalvesOn
    <3> QED BY <2>a, <3>1, <3>2, <3>3
  <2>3. CASE Goes(2, 3, 4) /\ UNCHANGED <<sem, sem_max>>
    <3>1. /\ pc[2] = 3 /\ pc'[2] = 4 /\ pc'[0] = pc[0] /\ pc'[1] = pc[1]
          /\ sem'[s0] = sem[s0] /\ sem'[s1] = sem[s1] /\ sem'[s2] = sem[s2]
          /\ UNCHANGED sem_max /\ error' = "none"
      BY <1>0, <1>a, <2>3
    <3>2. Counts'
      BY <1>0, <3>1 DEF Counts
    <3>3. Halves'
      BY <1>0, <1>5, <3>1 DEF Counts, Halves, HalvesOn
    <3> QED BY <2>a, <3>1, <3>2, <3>3
  <2>4. CASE Goes(2, 4, 5) /\ Counted(s1, sem[s1] - 1)
    <3>1. /\ pc[2] = 4 /\ pc'[2] = 5 /\ pc'[0] = pc[0] /\ pc'[1] = pc[1]
          /\ sem'[s0] = sem[s0] /\ sem'[s1] = sem[s1] - 1 /\ sem'[s2] = sem[s2]
          /\ UNCHANGED sem_max /\ error' = "none"
      BY <1>0, <1>a, <1>b, <2>4
    <3>2. Counts'
      BY <1>0, <3>1 DEF Counts
    <3>3. Halves'
      BY <1>0, <1>5, <3>1 DEF Counts, Halves, HalvesOn
    <3> QED BY <2>a, <3>1, <3>2, <3>3
  <2>5. CASE Goes(2, 5, 6) /\ sem[s2] # 1 /\ UNCHANGED <<sem, sem_max>>
    <3>1. /\ pc[2] = 5 /\ pc'[2] = 6 /\ pc'[0] = pc[0] /\ pc'[1] = pc[1]
          /\ sem'[s0] = sem[s0] /\ sem'[s1] = sem[s1] /\ sem'[s2] = sem[s2]
          /\ UNCHANGED sem_max /\ error' = "none"
      BY <1>0, <1>a, <2>5
    <3>2. Counts'
      BY <1>0, <3>1, <2>5 DEF Counts
    <3>3. Halves'
      BY <1>0, <1>5, <3>1 DEF Counts, Halves, HalvesOn
    <3> QED BY <2>a, <3>1, <3>2, <3>3
  <2>6. CASE Goes(2, 6, 2) /\ Counted(s2, sem[s2] + 1)
    <3>1. /\ pc[2] = 6 /\ pc'[2] = 2 /\ pc'[0] = pc[0] /\ pc'[1] = pc[1]
          /\ sem'[s0] = sem[s0] /\ sem'[s1] = sem[s1] /\ sem'[s2] = sem[s2] + 1
          /\ UNCHANGED sem_max /\ error' = "none"
      BY <1>0, <1>a, <1>b, <2>6
    <3>2. Counts'
      BY <1>0, <3>1 DEF Counts
    <3>3. Halves'
      BY <1>0, <1>5, <3>1 DEF Counts, Halves, HalvesOn
    <3> QED BY <2>a, <3>1, <3>2, <3>3
  <2> QED BY <1>0, <1>1, <2>0, <2>1, <2>2, <2>3, <2>4, <2>5, <2>6, <2>a, Thread2
<1> QED BY <1>0, <1>2, <1>3, <1>4, <1>5

\* The TRISCs, of which that of thread 2 gets s2, when it has seen it nonzero.
LEMMA CoresKeepPipe ==
  ASSUME TypeOK, Piped, error = "none", Open, Counts, Halves,
         UNCHANGED <<kernel, wormhole>>, NEW p \in Pipes, HalvesOn,
         \/ PushInst(p) \/ TensixSyncRead(p)
         \/ \E s \in Sems : SemaphoreRead(p, s) \/ SemaphoreGet(p, s) \/ SemaphorePost(p, s)
  PROVE  error' = "none" /\ Open' /\ Counts' /\ Halves'
<1>0. /\ Pipes = {0, 1, 2} /\ s2 \in Sems /\ s0 # s2 /\ s1 # s2
      /\ CorePosts[kernel] = {} /\ CoreGets[kernel] = {<<2, s2>>}
      /\ DOMAIN sem = Sems /\ DOMAIN saw = {0, 1, 2}
  BY TheThreads, BuffersAssumption DEF Piped, TypeOK
<1>1. ASSUME UNCHANGED <<pc, error, sem_max>>,
             wait_block' = wait_block \/ wait_block' = [wait_block EXCEPT ![p] = {}],
             sem'[s0] = sem[s0], sem'[s1] = sem[s1], Counts'
      PROVE  error' = "none" /\ Open' /\ Counts' /\ Halves'
  <2>1. \A q \in Pipes : wait_block'[q] = wait_block[q] \/ wait_block'[q] = {}
    BY <1>1 DEF TypeOK
  <2>2. \A q \in Pipes : Code(q)' = Code(q)
    BY DEF Code
  <2>3. Open'
    BY <1>1, <2>1, <2>2 DEF Open, Latched, Holds
  <2> QED BY <1>1, <2>3 DEF Halves, HalvesOn
<1>2. CASE PushInst(p) \/ TensixSyncRead(p)
  <2>1. UNCHANGED <<pc, error, sem, sem_max, saw>>
    BY <1>2 DEF PushInst, TensixSyncRead
  <2>2. wait_block' = wait_block \/ wait_block' = [wait_block EXCEPT ![p] = {}]
    BY <1>2 DEF PushInst, TensixSyncRead, waits
  <2> QED BY <1>1, <2>1, <2>2 DEF Counts
<1>3. ASSUME NEW s \in Sems, SemaphoreRead(p, s)
      PROVE  error' = "none" /\ Open' /\ Counts' /\ Halves'
  <2>1. p = 2 /\ s = s2
    BY <1>0, <1>3 DEF SemaphoreRead
  <2>2. /\ UNCHANGED <<pc, error, sem, sem_max, wait_block>>
        /\ saw' = [saw EXCEPT ![2] = IF sem[s2] > 0 THEN saw[2] \cup {s2} ELSE saw[2]]
    BY <1>3, <2>1 DEF SemaphoreRead, waits
  <2>3. /\ saw'[0] = saw[0] /\ saw'[1] = saw[1]
        /\ saw'[2] = IF sem[s2] > 0 THEN saw[2] \cup {s2} ELSE saw[2]
    BY <1>0, <2>2
  <2>4. Counts'
    BY <2>2, <2>3 DEF Counts
  <2> QED BY <1>1, <2>2, <2>4
<1>4. ASSUME NEW s \in Sems, SemaphoreGet(p, s)
      PROVE  error' = "none" /\ Open' /\ Counts' /\ Halves'
  <2>1. p = 2 /\ s = s2 /\ sem[s2] = 1
    BY <1>0, <1>4 DEF SemaphoreGet, Counts
  <2>2. /\ UNCHANGED <<pc, error, sem_max, wait_block>> /\ sem' = [sem EXCEPT ![s2] = 0]
        /\ saw' = [saw EXCEPT ![2] = saw[2] \ {s2}]
    BY <1>4, <2>1 DEF SemaphoreGet, waits
  <2>3. /\ saw'[0] = saw[0] /\ saw'[1] = saw[1] /\ saw'[2] = saw[2] \ {s2}
        /\ sem'[s0] = sem[s0] /\ sem'[s1] = sem[s1] /\ sem'[s2] = 0
    BY <1>0, <2>2, BuffersAssumption DEF Piped
  <2>4. Counts'
    BY <2>2, <2>3 DEF Counts
  <2> QED BY <1>1, <2>2, <2>3, <2>4
<1>5. ASSUME NEW s \in Sems, SemaphorePost(p, s)
      PROVE  FALSE
  BY <1>0, <1>5 DEF SemaphorePost
<1> QED BY <1>2, <1>3, <1>4, <1>5

LEMMA PipeKept == MCSpec => [](TypeOK /\ PipeInv)
<1>1. MCSpec => []TypeOK
  BY HistoryTypes
<1>2. MCInit => PipeInv
  <2> SUFFICES ASSUME MCInit, kernel = "buffers"
               PROVE  error = "none" /\ Open /\ Counts /\ Halves
    BY DEF PipeInv
  <2>1. Pipes = {0, 1, 2} /\ {s0, s1, s2} \subseteq Sems
    BY TheThreads, BuffersAssumption DEF MCInit, Init, Piped
  <2>2. Open
    BY DEF Open, Latched, MCInit, Init
  <2> QED BY <2>1, <2>2 DEF MCInit, Init, Counts, Halves
<1>3. TypeOK /\ PipeInv /\ [MCNext]_<<vars, history>> => PipeInv'
  <2> SUFFICES ASSUME TypeOK, PipeInv, [MCNext]_<<vars, history>>, kernel' = "buffers"
               PROVE  error' = "none" /\ Open' /\ Counts' /\ Halves'
    BY DEF PipeInv
  <2>1. CASE UNCHANGED <<vars, history>>
    BY <2>1 DEF vars, syncs, setup, history, PipeInv, Open, Latched, Holds, Code, Counts, Halves
  <2>2. CASE MCNext
    <3>1. HalvesOn /\ Next
      BY <2>2 DEF MCNext, HalvesOn
    <3>2. /\ Piped /\ UNCHANGED <<kernel, wormhole>>
          /\ error = "none" /\ Open /\ Counts /\ Halves
      BY <3>1 DEF PipeInv, Piped, TypeOK, Next, Ended, vars, setup
    <3>3. CASE /\ CoresDone \/ Ended \/ (Exchange /\ UNCHANGED syncs)
               /\ UNCHANGED setup
      <4>1. UNCHANGED <<wait_block, pc, sem, sem_max, saw, error>>
        BY <3>3 DEF CoresDone, Ended, vars, syncs, waits
      <4>2. Open'
        BY <3>2, <4>1 DEF Open, Latched, Holds, Code
      <4> QED BY <3>1, <3>2, <4>1, <4>2 DEF Counts, Halves, HalvesOn
    <3>4. ASSUME NEW p \in Pipes, TryPipe(p)
          PROVE  error' = "none" /\ Open' /\ Counts' /\ Halves'
      BY <3>1, <3>2, <3>4, TryKeepsPipe
    <3>5. ASSUME NEW p \in Pipes,
                 \/ PushInst(p) \/ TensixSyncRead(p)
                 \/ \E s \in Sems : SemaphoreRead(p, s) \/ SemaphoreGet(p, s) \/ SemaphorePost(p, s)
          PROVE  error' = "none" /\ Open' /\ Counts' /\ Halves'
      BY <3>1, <3>2, <3>5, CoresKeepPipe
    <3> QED BY <3>1, <3>3, <3>4, <3>5 DEF Next, Sync, Ended, vars
  <2> QED BY <2>1, <2>2
<1> QED BY <1>1, <1>2, <1>3, PTL DEF MCSpec

\* The pipeline kernel ends no simulation, whatever order its threads come in:
\* no semaphore it gets is zero and none it posts is at its maximum, and each
\* wait is over before its thread touches the semaphore it was for.
THEOREM PipelineGoesOn == MCSpec => []NoneMisused
<1>1. PipeInv => NoneMisused
  BY DEF PipeInv, NoneMisused
<1> QED BY <1>1, PipeKept, PTL

\* The packer never reads the half of Dst that math writes: while both work,
\* one buffer is under way, so posts and gets of s1 differ by one.
THEOREM HalvesStayApart == MCSpec => []HalvesApart
<1>1. PipeInv => HalvesApart
  <2> SUFFICES ASSUME error = "none", Open, Counts, Halves, Works(1, 4, 5), Works(2, 3, 4)
               PROVE  posted # got
    BY DEF PipeInv, HalvesApart
  <2>1. pc[1] \in {4, 5} /\ pc[2] \in {3, 4}
    BY DEF Works
  <2>2. sem[s1] = 1
    BY <2>1 DEF Counts
  <2> QED BY <2>2 DEF Halves
<1> QED BY <1>1, PipeKept, PTL

-----------------------------------------------------------------------------
(* The mailboxes: what a core has sent, and what has arrived of it.        *)

\* Induction over the natural numbers, for a set that has been defined.
LEMMA Counting ==
  ASSUME NEW T, 0 \in T, \A n \in Nat \ {0} : n - 1 \in T => n \in T
  PROVE  \A n \in Nat : n \in T
<1> DEFINE Out == Nat \ T
<1>1. SUFFICES ASSUME Out # {} PROVE FALSE
  OBVIOUS
<1>2. PICK n \in Out : \A k \in Out : ~ (<<k, n>> \in OpToRel(<, Nat))
  BY <1>1, NatLessThanWellFounded, WFMin
<1>3. n \in Nat /\ n # 0
  OBVIOUS
<1>4. n - 1 \in Nat /\ n - 1 < n
  BY <1>3
<1>5. <<n - 1, n>> \in OpToRel(<, Nat)
  BY <1>3, <1>4 DEF OpToRel
<1>6. n - 1 \in T
  BY <1>2, <1>4, <1>5
<1> QED BY <1>3, <1>6

\* What the letter adds to s, which has been sent to r.
\* For k up to n, f[k] is what the first k letters send to r.
Sends(l, r, n, f) ==
  /\ f = [k \in 0 .. n |-> f[k]]
  /\ f[0] = <<>>
  /\ \A k \in 1 .. n : f[k] = Also(f[k - 1], l[k], r)
OneMore(f, n, x) == [k \in 0 .. n |-> IF k = n THEN x ELSE f[k]]

LEMMA SendsOneMore ==
  ASSUME NEW l, NEW r, NEW n \in Nat \ {0}, NEW f, Sends(l, r, n - 1, f)
  PROVE  Sends(l, r, n, OneMore(f, n, Also(f[n - 1], l[n], r)))
<1> DEFINE x == Also(f[n - 1], l[n], r)
           g == OneMore(f, n, x)
<1>1. /\ g = [k \in 0 .. n |-> g[k]]
      /\ g[n] = x
      /\ \A k \in 0 .. n - 1 : g[k] = f[k]
  <2> HIDE DEF x
  <2> QED BY DEF OneMore
<1> HIDE DEF g
<1>2. g[0] = <<>>
  <2>1. 0 \in 0 .. n - 1
    OBVIOUS
  <2>2. g[0] = f[0]
    BY <1>1, <2>1
  <2>3. f[0] = <<>>
    BY DEF Sends
  <2> QED BY <2>2, <2>3
<1>3. ASSUME NEW k \in 1 .. n PROVE g[k] = Also(g[k - 1], l[k], r)
  <2>0. k - 1 \in 0 .. n - 1
    OBVIOUS
  <2>1. g[k - 1] = f[k - 1]
    BY <1>1, <2>0
  <2>2. CASE k = n
    BY <1>1, <2>1, <2>2
  <2>3. CASE k # n
    <3>1. k \in 1 .. n - 1 /\ k \in 0 .. n - 1
      BY <2>3
    <3>2. g[k] = f[k] /\ f[k] = Also(f[k - 1], l[k], r)
      BY <1>1, <3>1 DEF Sends
    <3> QED BY <2>1, <3>2
  <2> QED BY <2>2, <2>3
<1>4. Sends(l, r, n, g)
  BY <1>1, <1>2, <1>3 DEF Sends
<1> QED BY <1>4 DEF g

LEMMA SendsExist ==
  ASSUME NEW l, NEW r, NEW m \in Nat
  PROVE  \E f : Sends(l, r, m, f)
<1> DEFINE T == {n \in Nat : \E f : Sends(l, r, n, f)}
<1>1. 0 \in T
  <2>1. Sends(l, r, 0, [k \in 0 .. 0 |-> <<>>])
    BY DEF Sends
  <2> QED BY <2>1
<1>2. ASSUME NEW n \in Nat \ {0}, n - 1 \in T PROVE n \in T
  <2>1. PICK f : Sends(l, r, n - 1, f)
    BY <1>2
  <2>2. \E g : Sends(l, r, n, g)
    BY <2>1, SendsOneMore
  <2> QED BY <2>2
<1>3. m \in T
  <2> HIDE DEF T
  <2> QED BY <1>1, <1>2, Counting
<1> QED BY <1>3

LEMMA SentIs ==
  ASSUME NEW w, NEW r, Len(Letters(w)) \in Nat
  PROVE  Sends(Letters(w), r, Len(Letters(w)), Sent(w, r))
<1> DEFINE l == Letters(w)
           m == Len(l)
           Is(f) == f = [n \in 0 .. m |-> IF n = 0 THEN <<>> ELSE Also(f[n - 1], l[n], r)]
<1>1. Sent(w, r) = CHOOSE f : Is(f)
  BY DEF Sent
<1>2. PICK f : Sends(l, r, m, f)
  <2> HIDE DEF l
  <2> QED BY SendsExist DEF l
<1> HIDE DEF l, m
<1>m. m \in Nat
  BY DEF m, l
<1>3. Is(f)
  <2>1. ASSUME NEW n \in 0 .. m
        PROVE  f[n] = IF n = 0 THEN <<>> ELSE Also(f[n - 1], l[n], r)
    <3>1. n = 0 \/ n \in 1 .. m
      BY <1>m
    <3>2. f[0] = <<>> /\ \A k \in 1 .. m : f[k] = Also(f[k - 1], l[k], r)
      BY <1>2 DEF Sends
    <3> QED BY <3>1, <3>2
  <2> QED BY <1>2, <2>1 DEF Sends
<1>4. Is(Sent(w, r))
  <2> HIDE DEF Is
  <2> QED BY <1>1, <1>3
<1>5. Sends(l, r, m, Sent(w, r))
  <2> DEFINE s == Sent(w, r)
  <2> HIDE DEF s
  <2>1. Is(s)
    BY <1>4 DEF s
  <2>2. Sends(l, r, m, s)
    BY <1>m, <2>1 DEF Sends
  <2> QED BY <2>2 DEF s
<1> QED BY <1>5 DEF l, m

\* What has been sent is numbers, grows by at most one with each letter, and is
\* the beginning of what is sent in a round.
LEMMA SentTypes ==
  ASSUME NEW w, NEW r, Letters(w) \in Seq(Letter)
  PROVE  /\ \A n \in 0 .. Len(Letters(w)) : Sent(w, r)[n] \in Seq(Nat)
         /\ Sent(w, r)[0] = <<>>
         /\ \A n \in 1 .. Len(Letters(w)) : Sent(w, r)[n] = Also(Sent(w, r)[n - 1], Letters(w)[n], r)
<1> DEFINE l == Letters(w)
           m == Len(l)
           s == Sent(w, r)
           T == {n \in Nat : n <= m => s[n] \in Seq(Nat)}
<1>1. m \in Nat
  OBVIOUS
<1>2. s[0] = <<>> /\ \A n \in 1 .. m : s[n] = Also(s[n - 1], l[n], r)
  BY <1>1, SentIs DEF Sends
<1>3. \A n \in 1 .. m : l[n] \in Letter
  OBVIOUS
<1> HIDE DEF l, m, s
<1>4. 0 \in T
  <2>1. <<>> \in Seq(Nat)
    OBVIOUS
  <2> QED BY <1>2, <2>1
<1>5. ASSUME NEW n \in Nat \ {0}, n - 1 \in T PROVE n \in T
  <2>1. SUFFICES ASSUME n <= m PROVE s[n] \in Seq(Nat)
    OBVIOUS
  <2>2. n \in 1 .. m /\ s[n - 1] \in Seq(Nat)
    BY <1>1, <1>5, <2>1
  <2>3. l[n].op = "store" => l[n].data \in Nat
    BY <1>3, <2>2 DEF Letter
  <2>4. s[n] = Also(s[n - 1], l[n], r)
    BY <1>2, <2>2
  <2> QED BY <2>2, <2>3, <2>4 DEF Also
<1>6. \A n \in Nat : n \in T
  <2> HIDE DEF T
  <2> QED BY <1>4, <1>5, Counting
<1>7. \A n \in 0 .. m : s[n] \in Seq(Nat)
  BY <1>1, <1>6
<1> QED BY <1>2, <1>7 DEF s, l, m

\* One sequence begins with another.
Begins(s, t) == Len(s) <= Len(t) /\ \A j \in 1 .. Len(s) : s[j] = t[j]

LEMMA SentBegins ==
  ASSUME NEW w, NEW r, Letters(w) \in Seq(Letter), NEW n \in 0 .. Len(Letters(w))
  PROVE  Begins(Sent(w, r)[n], TheCoreStores(w, r))
<1> DEFINE l == Letters(w)
           m == Len(l)
           s == Sent(w, r)
           T == {k \in Nat : k <= m - n => Begins(s[n], s[n + k])}
<1>1. m \in Nat /\ n \in Nat /\ n <= m
  OBVIOUS
<1>2. /\ \A k \in 0 .. m : s[k] \in Seq(Nat)
      /\ \A k \in 1 .. m : s[k] = Also(s[k - 1], l[k], r)
  BY SentTypes
<1> HIDE DEF l, m, s
<1>3. 0 \in T
  <2>1. Begins(s[n], s[n])
    BY <1>1, <1>2 DEF Begins
  <2> QED BY <1>1, <2>1
<1>4. ASSUME NEW k \in Nat \ {0}, k - 1 \in T PROVE k \in T
  <2>1. SUFFICES ASSUME k <= m - n PROVE Begins(s[n], s[n + k])
    OBVIOUS
  <2> DEFINE i == n + k
  <2>2. i \in 1 .. m /\ i - 1 \in 0 .. m /\ i - 1 = n + (k - 1)
    BY <1>1, <2>1
  <2>3. Begins(s[n], s[i - 1])
    BY <1>1, <1>4, <2>1, <2>2
  <2>4. s[i] = Also(s[i - 1], l[i], r) /\ s[i - 1] \in Seq(Nat) /\ s[n] \in Seq(Nat)
    BY <1>1, <1>2, <2>2
  <2> HIDE DEF i
  <2>5. Begins(s[n], s[i])
    <3> DEFINE a == s[n]  b == s[i - 1]
    <3> HIDE DEF a, b
    <3>1. \A v : Begins(a, Append(b, v))
      BY <2>3, <2>4 DEF Begins, a, b
    <3> QED BY <2>3, <2>4, <3>1 DEF Also, a, b
  <2> QED BY <2>5 DEF i
<1>5. \A k \in Nat : k \in T
  <2> HIDE DEF T
  <2> QED BY <1>3, <1>4, Counting
<1>6. Begins(s[n], s[m])
  <2>1. m - n \in Nat /\ n + (m - n) = m
    BY <1>1
  <2>2. (m - n) \in T
    BY <1>5, <2>1
  <2> QED BY <2>1, <2>2
<1> QED BY <1>6 DEF TheCoreStores, s, m, l

\* A writer that sends t in each round has sent k of it in this one; the
\* reader's last letters are got, and box is between them.
Due(t, g) == IF Len(g) = Len(t) THEN 1 ELSE Len(g) + 1
InStep(t, g, box, k) ==
  /\ g \in Seq(Nat) /\ Begins(g, t)
  /\ box = <<>> => k = Len(g) \/ (k = 0 /\ Len(g) = Len(t))
  /\ box # <<>> => /\ Len(t) # 0
                   /\ box = << t[Due(t, g)] >>
                   /\ k = Due(t, g) \/ (k = 0 /\ Due(t, g) = Len(t))

\* The writer begins a new round.
LEMMA NewRound ==
  ASSUME NEW t \in Seq(Nat), NEW g, NEW box, InStep(t, g, box, Len(t))
  PROVE  InStep(t, g, box, 0)
<1>1. g \in Seq(Nat) /\ Len(t) \in Nat /\ Len(g) \in Nat /\ Len(g) <= Len(t)
  BY DEF InStep, Begins
<1> QED BY <1>1 DEF InStep, Due

\* It writes.
LEMMA Written ==
  ASSUME NEW t \in Seq(Nat), NEW g, NEW k \in Nat, k + 1 <= Len(t),
         InStep(t, g, <<>>, k)
  PROVE  InStep(t, g, << t[k + 1] >>, k + 1)
<1>1. g \in Seq(Nat) /\ Len(t) \in Nat /\ Len(g) \in Nat /\ Len(g) <= Len(t)
  BY DEF InStep, Begins
<1>2. k = Len(g) \/ (k = 0 /\ Len(g) = Len(t))
  BY DEF InStep
<1>3. Due(t, g) = k + 1
  BY <1>1, <1>2 DEF Due
<1>4. << t[k + 1] >> # <<>> /\ Len(t) # 0
  BY <1>1
<1> QED BY <1>3, <1>4 DEF InStep

\* The reader loads what was written.
LEMMA Loaded ==
  ASSUME NEW t \in Seq(Nat), NEW g, NEW box, NEW k, InStep(t, g, box, k), box # <<>>
  PROVE  InStep(t, IF Len(g) = Len(t) THEN << box[1] >> ELSE Append(g, box[1]), <<>>, k)
<1> DEFINE h == IF Len(g) = Len(t) THEN << box[1] >> ELSE Append(g, box[1])
<1>1. /\ g \in Seq(Nat) /\ Len(t) \in Nat /\ Len(g) \in Nat /\ Len(g) <= Len(t)
      /\ \A j \in 1 .. Len(g) : g[j] = t[j]
  BY DEF InStep, Begins
<1>2. /\ Len(t) # 0 /\ box[1] = t[Due(t, g)]
      /\ k = Due(t, g) \/ (k = 0 /\ Due(t, g) = Len(t))
  BY DEF InStep
<1>3. Due(t, g) \in 1 .. Len(t)
  BY <1>1, <1>2 DEF Due
<1>4. box[1] \in Nat
  BY <1>2, <1>3
<1>5. h \in Seq(Nat) /\ Len(h) = Due(t, g) /\ Begins(h, t)
  <2>1. CASE Len(g) = Len(t)
    <3>1. Due(t, g) = 1 /\ h = << box[1] >>
      BY <2>1 DEF Due
    <3> DEFINE v == box[1]
    <3> HIDE DEF h, v
    <3>2. h = << v >> /\ v \in Nat /\ v = t[1]
      BY <1>2, <1>4, <3>1 DEF v, h
    <3>3. h \in Seq(Nat) /\ Len(h) = 1 /\ h[1] = v
      BY <3>2
    <3>4. ASSUME NEW j \in 1 .. Len(h) PROVE h[j] = t[j]
      BY <3>2, <3>3
    <3> QED BY <1>3, <3>1, <3>3, <3>4 DEF Begins
  <2>2. CASE Len(g) # Len(t)
    <3>1. Due(t, g) = Len(g) + 1 /\ h = Append(g, box[1])
      BY <2>2 DEF Due
    <3> DEFINE v == box[1]
    <3> HIDE DEF h, v
    <3>2. h \in Seq(Nat) /\ Len(h) = Len(g) + 1 /\ h[Len(g) + 1] = v /\ \A j \in 1 .. Len(g) : h[j] = g[j]
      BY <1>1, <1>4, <3>1 DEF v
    <3>3. ASSUME NEW j \in 1 .. Len(h) PROVE h[j] = t[j]
      BY <1>1, <1>2, <3>1, <3>2, <3>3 DEF v
    <3> QED BY <1>3, <3>1, <3>2, <3>3 DEF Begins
  <2> QED BY <2>1, <2>2
<1> HIDE DEF h
<1>6. InStep(t, h, <<>>, k)
  BY <1>2, <1>5 DEF InStep
<1> QED BY <1>6 DEF h

\* Where a core is in its program.
At(c) == mail_pc[c] \in 1 .. Len(Letters(c)) \/ (mail_pc[c] = 1 /\ Len(Letters(c)) = 0)

\* How much of what it sends to r it has sent in this round.
SentSoFar(w, r) == Len(Sent(w, r)[mail_pc[w] - 1])

\* A core goes on: with a store to r it has sent one more, with another letter
\* as many as before, unless it begins a new round.
LEMMA Moves ==
  ASSUME NEW c, NEW r, Letters(c) \in Seq(Letter), UNCHANGED kernel,
         Handling(c, "load") \/ Handling(c, "store"), mail_pc \in [Cores -> Nat], c \in Cores
  PROVE  LET l == Letters(c)[mail_pc[c]]
             t == TheCoreStores(c, r)
             k == SentSoFar(c, r)
             sends == l.op = "store" /\ l.of = r
             next == IF sends THEN k + 1 ELSE k
         IN  /\ t \in Seq(Nat) /\ k \in Nat /\ k <= Len(t)
             /\ sends => k + 1 <= Len(t) /\ t[k + 1] = l.data
             /\ SentSoFar(c, r)' = next \/ (SentSoFar(c, r)' = 0 /\ next = Len(t))
             /\ At(c)'
<1> DEFINE ls == Letters(c)
           m == Len(ls)
           n == mail_pc[c]
           s == Sent(c, r)
           l == ls[n]
           t == TheCoreStores(c, r)
           sends == l.op = "store" /\ l.of = r
           next == IF sends THEN Len(s[n - 1]) + 1 ELSE Len(s[n - 1])
<1>1. n \in 1 .. m /\ m \in Nat
  BY DEF Handling
<1>2. mail_pc'[c] = IF n = m THEN 1 ELSE n + 1
  BY DEF Handling
<1>3. /\ s[0] = <<>>
      /\ s[n - 1] \in Seq(Nat) /\ s[n] \in Seq(Nat) /\ s[m] \in Seq(Nat)
      /\ s[n] = Also(s[n - 1], l, r)
  <2>1. n - 1 \in 0 .. m /\ n \in 0 .. m /\ m \in 0 .. m
    BY <1>1
  <2> QED BY <1>1, <2>1, SentTypes
<1>4. Begins(s[n - 1], t) /\ Begins(s[n], t) /\ t = s[m]
  <2>1. n - 1 \in 0 .. m /\ n \in 0 .. m
    BY <1>1
  <2> QED BY <2>1, SentBegins DEF TheCoreStores
<1>5. UNCHANGED <<Letters(c), s>>
  BY DEF Letters, Sent
<1>6. l \in Letter
  BY <1>1
<1>7. sends => l.data \in Nat
  BY <1>6 DEF Letter
<1>8. SentSoFar(c, r) = Len(s[n - 1])
  BY DEF SentSoFar
<1>9. SentSoFar(c, r)' = Len(s[mail_pc'[c] - 1])
  BY <1>5 DEF SentSoFar
<1> HIDE DEF ls, s, t, l, n
<1>10. sends => /\ Len(s[n]) = Len(s[n - 1]) + 1
                /\ s[n][Len(s[n - 1]) + 1] = l.data
  <2> SUFFICES ASSUME sends PROVE /\ Len(s[n]) = Len(s[n - 1]) + 1
                                  /\ s[n][Len(s[n - 1]) + 1] = l.data
    OBVIOUS
  <2>1. s[n] = Append(s[n - 1], l.data) /\ l.data \in Nat
    BY <1>3, <1>7 DEF Also
  <2> DEFINE a == s[n - 1]  v == l.data
  <2> HIDE DEF a, v
  <2>2. a \in Seq(Nat) /\ v \in Nat /\ s[n] = Append(a, v)
    BY <1>3, <2>1 DEF a, v
  <2>3. Len(Append(a, v)) = Len(a) + 1 /\ Append(a, v)[Len(a) + 1] = v
    BY <2>2
  <2> QED BY <2>2, <2>3 DEF a, v
<1>11. ~sends => s[n] = s[n - 1]
  BY <1>3 DEF Also
<1>12. Len(s[n]) = next
  BY <1>10, <1>11
<1>13. Len(s[n - 1]) \in Nat /\ Len(s[n]) \in Nat /\ t \in Seq(Nat)
  BY <1>3, <1>4
<1>14. Len(s[n - 1]) <= Len(t) /\ (sends => Len(s[n - 1]) + 1 <= Len(t) /\ t[Len(s[n - 1]) + 1] = l.data)
  <2>1. Len(s[n - 1]) <= Len(t)
    BY <1>4 DEF Begins
  <2>2. ASSUME sends PROVE Len(s[n - 1]) + 1 <= Len(t) /\ t[Len(s[n - 1]) + 1] = l.data
    <3>1. Len(s[n]) = Len(s[n - 1]) + 1 /\ s[n][Len(s[n - 1]) + 1] = l.data
      BY <1>10, <2>2
    <3>2. Len(s[n]) <= Len(t) /\ \A j \in 1 .. Len(s[n]) : s[n][j] = t[j]
      BY <1>4 DEF Begins
    <3>3. Len(s[n - 1]) + 1 \in 1 .. Len(s[n])
      BY <1>13, <3>1
    <3> QED BY <3>1, <3>2, <3>3
  <2> QED BY <2>1, <2>2
<1>15. \/ Len(s[mail_pc'[c] - 1]) = next
       \/ Len(s[mail_pc'[c] - 1]) = 0 /\ next = Len(t)
  <2>1. CASE n = m
    <3>1. mail_pc'[c] - 1 = 0
      BY <1>2, <2>1
    <3>2. Len(s[0]) = 0
      BY <1>3
    <3>3. Len(t) = next
      BY <1>4, <1>12, <2>1, Zenon
    <3>4. Len(s[mail_pc'[c] - 1]) = 0
      BY <3>1, <3>2, Zenon
    <3> QED BY <3>3, <3>4, Zenon
  <2>2. CASE n # m
    <3>1. mail_pc'[c] - 1 = n
      BY <1>1, <1>2, <2>2
    <3> QED BY <1>12, <3>1
  <2> QED BY <2>1, <2>2
<1>16. At(c)'
  BY <1>1, <1>2, <1>5 DEF At, ls, n
<1> QED BY <1>8, <1>9, <1>13, <1>14, <1>15, <1>16 DEF ls, s, t, l, n

\* What goes from w to r is in step, and every core is in its program.
PairInStep(w, r) == InStep(TheCoreStores(w, r), received[w][r], mailbox[w][r], SentSoFar(w, r))
MailInv == \A w \in Cores : At(w) /\ \A r \in Cores : PairInStep(w, r)

\* What MCNext records of a load.
Records ==
  \A w, r \in Cores : received'[w][r] =
    IF Loads(w, r) THEN Receives(w, r, mailbox[Slot(w, r)[1]][Slot(w, r)[2]][1])
    ELSE received[w][r]

LEMMA StoreInStep ==
  ASSUME TypeOK, MailInv, Records, UNCHANGED kernel, NEW c \in Cores, MailboxWrite(c)
  PROVE  MailInv'
<1> DEFINE l == Letters(c)[mail_pc[c]]
<1>0. \A w \in Cores : Letters(w) \in Seq(Letter)
  BY SyncAssumption DEF TypeOK, Letters
<1>1. /\ \A w, r \in Cores : UNCHANGED <<Letters(w), TheCoreStores(w, r)>>
      /\ mail_pc \in [Cores -> Nat]
  BY DEF Letters, TheCoreStores, Sent, TypeOK
<1>2. l \in Letter /\ l.op = "store" /\ Handling(c, "store")
  <2>1. Handling(c, "store")
    BY DEF MailboxWrite
  <2>2. mail_pc[c] \in 1 .. Len(Letters(c)) /\ l.op = "store"
    BY <2>1 DEF Handling
  <2>3. Letters(c) \in Seq(Letter)
    BY <1>0
  <2>4. l \in Letter
    BY <2>2, <2>3
  <2> QED BY <2>1, <2>2, <2>4
<1>3. l.of \in Cores /\ l.data \in Nat
  BY <1>2 DEF Letter
<1>4. /\ mailbox[c][l.of] = <<>>
      /\ mailbox' = [mailbox EXCEPT ![c][l.of] = << l.data >>]
  BY DEF MailboxWrite, Slot
<1>5. /\ mailbox'[c][l.of] = << l.data >>
      /\ \A w, r \in Cores : w # c \/ r # l.of => mailbox'[w][r] = mailbox[w][r]
  BY <1>3, <1>4 DEF TypeOK
<1>6. ASSUME NEW w \in Cores, NEW r \in Cores PROVE received'[w][r] = received[w][r]
  <2>1. ~ Loads(w, r)
    BY <1>5 DEF Loads, Slot
  <2> QED BY <2>1 DEF Records
<1>7. ASSUME NEW w \in Cores, w # c PROVE At(w)' /\ \A r \in Cores : PairInStep(w, r)'
  <2>1. mail_pc'[w] = mail_pc[w]
    BY <1>1, <1>2, <1>7 DEF Handling
  <2>2. At(w)'
    BY <1>1, <2>1 DEF MailInv, At
  <2>3. ASSUME NEW r \in Cores PROVE PairInStep(w, r)'
    <3>1. SentSoFar(w, r)' = SentSoFar(w, r)
      BY <2>1 DEF SentSoFar, Sent, Letters
    <3>2. mailbox'[w][r] = mailbox[w][r] /\ PairInStep(w, r)
      BY <1>5, <1>7 DEF MailInv
    <3> QED BY <1>1, <1>6, <3>1, <3>2 DEF PairInStep
  <2> QED BY <2>2, <2>3
<1> HIDE DEF l
<1>8. ASSUME NEW r \in Cores PROVE At(c)' /\ PairInStep(c, r)'
  <2> DEFINE t == TheCoreStores(c, r)
             k == SentSoFar(c, r)
             k1 == SentSoFar(c, r)'
             g == received[c][r]
  <2>1. /\ t \in Seq(Nat) /\ k \in Nat /\ At(c)'
        /\ r = l.of => k + 1 <= Len(t) /\ t[k + 1] = l.data
        /\ r = l.of => k1 = k + 1 \/ (k1 = 0 /\ k + 1 = Len(t))
        /\ r # l.of => k1 = k \/ (k1 = 0 /\ k = Len(t))
    BY <1>0, <1>1, <1>2, Moves DEF l
  <2>2. InStep(t, g, mailbox[c][r], k)
    BY DEF MailInv, PairInStep
  <2>3. PairInStep(c, r)' = InStep(t, g, mailbox'[c][r], k1)
    BY <1>1, <1>6 DEF PairInStep
  <2> HIDE DEF t, k, k1, g
  <2>4. CASE r = l.of
    <3>1. InStep(t, g, << t[k + 1] >>, k + 1)
      BY <1>4, <2>1, <2>2, <2>4, Written
    <3>2. mailbox'[c][r] = << t[k + 1] >>
      BY <1>5, <2>1, <2>4
    <3>3. k1 = 0 /\ k + 1 = Len(t) => InStep(t, g, << t[k + 1] >>, 0)
      BY <2>1, <3>1, NewRound
    <3> QED BY <2>1, <2>3, <2>4, <3>1, <3>2, <3>3
  <2>5. CASE r # l.of
    <3>1. mailbox'[c][r] = mailbox[c][r]
      BY <1>5, <2>5
    <3>2. k = Len(t) => InStep(t, g, mailbox[c][r], 0)
      BY <2>1, <2>2, NewRound
    <3> QED BY <2>1, <2>2, <2>3, <2>5, <3>1, <3>2
  <2> QED BY <2>4, <2>5
<1> QED BY <1>7, <1>8 DEF MailInv

LEMMA LoadInStep ==
  ASSUME TypeOK, MailInv, Records, UNCHANGED kernel, NEW c \in Cores, MailboxRead(c)
  PROVE  MailInv'
<1> DEFINE l == Letters(c)[mail_pc[c]]
<1>0. \A w \in Cores : Letters(w) \in Seq(Letter)
  BY SyncAssumption DEF TypeOK, Letters
<1>1. /\ \A w, r \in Cores : UNCHANGED <<Letters(w), TheCoreStores(w, r)>>
      /\ mail_pc \in [Cores -> Nat]
  BY DEF Letters, TheCoreStores, Sent, TypeOK
<1>2. l \in Letter /\ l.op = "load" /\ Handling(c, "load")
  <2>1. Handling(c, "load")
    BY DEF MailboxRead
  <2>2. mail_pc[c] \in 1 .. Len(Letters(c)) /\ l.op = "load"
    BY <2>1 DEF Handling
  <2>3. Letters(c) \in Seq(Letter)
    BY <1>0
  <2>4. l \in Letter
    BY <2>2, <2>3
  <2> QED BY <2>1, <2>2, <2>4
<1>3. l.of \in Cores /\ l = Load(l.of)
  BY <1>2 DEF Letter, Load
<1>4. /\ mailbox[l.of][c] # <<>>
      /\ mailbox' = [mailbox EXCEPT ![l.of][c] = <<>>]
  BY DEF MailboxRead, Slot
<1>5. /\ mailbox'[l.of][c] = <<>>
      /\ \A w, r \in Cores : w # l.of \/ r # c => mailbox'[w][r] = mailbox[w][r]
  BY <1>3, <1>4 DEF TypeOK
<1>6. ASSUME NEW w \in Cores, NEW r \in Cores, w # l.of \/ r # c
      PROVE  received'[w][r] = received[w][r]
  <2>1. ~ Loads(w, r)
    BY <1>5, <1>6 DEF Loads, Slot
  <2> QED BY <2>1 DEF Records
<1>7. Loads(l.of, c)
  BY <1>3, <1>4, <1>5 DEF Loads, Slot
<1>8. received'[l.of][c] = Receives(l.of, c, mailbox[l.of][c][1])
  BY <1>3, <1>7 DEF Records, Slot
<1>9. ASSUME NEW w \in Cores PROVE At(w)'
  <2>1. CASE w = c
    BY <1>0, <1>1, <1>2, <2>1, Moves
  <2>2. CASE w # c
    <3>1. mail_pc'[w] = mail_pc[w]
      BY <1>1, <1>2, <2>2 DEF Handling
    <3> QED BY <1>1, <3>1 DEF MailInv, At
  <2> QED BY <2>1, <2>2
<1>10. ASSUME NEW w \in Cores, NEW r \in Cores
       PROVE  /\ TheCoreStores(w, r) \in Seq(Nat)
              /\ \/ SentSoFar(w, r)' = SentSoFar(w, r)
                 \/ SentSoFar(w, r)' = 0 /\ SentSoFar(w, r) = Len(TheCoreStores(w, r))
  <2>1. CASE w = c
    BY <1>0, <1>1, <1>2, <2>1, Moves
  <2>2. CASE w # c
    <3>1. mail_pc'[w] = mail_pc[w]
      BY <1>1, <1>2, <2>2 DEF Handling
    <3>2. SentSoFar(w, r)' = SentSoFar(w, r)
      BY <3>1 DEF SentSoFar, Sent, Letters
    <3>3. Len(Letters(w)) \in 0 .. Len(Letters(w))
      BY <1>0
    <3> QED BY <1>0, <3>2, <3>3, SentTypes DEF TheCoreStores
  <2> QED BY <2>1, <2>2
<1>11. ASSUME NEW w \in Cores, NEW r \in Cores PROVE PairInStep(w, r)'
  <2> DEFINE t == TheCoreStores(w, r)
             k == SentSoFar(w, r)
             k1 == SentSoFar(w, r)'
             g == received[w][r]
             box == mailbox[w][r]
  <2>1. InStep(t, g, box, k)
    BY DEF MailInv, PairInStep
  <2>2. t \in Seq(Nat) /\ (k1 = k \/ (k1 = 0 /\ k = Len(t)))
    BY <1>10
  <2>3. PairInStep(w, r)' = InStep(t, received'[w][r], mailbox'[w][r], k1)
    BY <1>1 DEF PairInStep
  <2>4. InStep(t, received'[w][r], mailbox'[w][r], k)
    <3>1. CASE w = l.of /\ r = c
      <4>1. mailbox'[w][r] = <<>> /\ box # <<>>
        BY <1>4, <1>5, <3>1
      <4>2. received'[w][r] = IF Len(g) = Len(t) THEN << box[1] >> ELSE Append(g, box[1])
        BY <1>8, <3>1 DEF Receives
      <4> HIDE DEF t, k, k1, g, box
      <4> QED BY <2>1, <2>2, <4>1, <4>2, Loaded
    <3>2. CASE ~ (w = l.of /\ r = c)
      BY <1>5, <1>6, <2>1, <3>2
    <3> QED BY <3>1, <3>2
  <2> HIDE DEF t, k, k1
  <2>5. k = Len(t) => InStep(t, received'[w][r], mailbox'[w][r], 0)
    BY <2>2, <2>4, NewRound
  <2> QED BY <2>2, <2>3, <2>4, <2>5
<1> QED BY <1>9, <1>11 DEF MailInv

LEMMA MailKept == MCSpec => [](TypeOK /\ MailInv)
<1>1. MCSpec => []TypeOK
  BY HistoryTypes
<1>2. TypeOK /\ MCInit => MailInv
  <2> SUFFICES ASSUME TypeOK, MCInit, NEW w \in Cores, NEW r \in Cores
               PROVE  At(w) /\ PairInStep(w, r)
    BY DEF MailInv
  <2>1. /\ mail_pc[w] = 1 /\ mailbox[w][r] = <<>> /\ received[w][r] = <<>>
    BY DEF MCInit, Init
  <2>2. Letters(w) \in Seq(Letter) /\ Len(Letters(w)) \in Nat
    <3>1. Letters(w) \in Seq(Letter)
      BY SyncAssumption DEF TypeOK, Letters
    <3> QED BY <3>1
  <2>3. At(w)
    BY <2>1, <2>2 DEF At
  <2>4. SentSoFar(w, r) = 0
    <3>1. Sent(w, r)[0] = <<>>
      BY <2>2, SentTypes
    <3> QED BY <2>1, <3>1 DEF SentSoFar
  <2>5. TheCoreStores(w, r) \in Seq(Nat)
    <3>1. Len(Letters(w)) \in 0 .. Len(Letters(w))
      BY <2>2
    <3> QED BY <2>2, <3>1, SentTypes DEF TheCoreStores
  <2>6. /\ <<>> \in Seq(Nat) /\ Len(<<>>) = 0 /\ Begins(<<>>, TheCoreStores(w, r))
    BY <2>5 DEF Begins
  <2> QED BY <2>1, <2>3, <2>4, <2>6 DEF PairInStep, InStep
<1>3. TypeOK /\ MailInv /\ [MCNext]_<<vars, history>> => MailInv'
  <2> SUFFICES ASSUME TypeOK, MailInv, [MCNext]_<<vars, history>>
               PROVE  MailInv'
    OBVIOUS
  <2>1. ASSUME UNCHANGED <<kernel, mailbox, mail_pc>>,
               \A w, r \in Cores : received'[w][r] = received[w][r]
        PROVE  MailInv'
    <3>1. ASSUME NEW w \in Cores, NEW r \in Cores PROVE At(w)' /\ PairInStep(w, r)'
      <4>1. UNCHANGED <<Letters(w), Sent(w, r)>>
        BY <2>1 DEF Letters, Sent
      <4>2. UNCHANGED <<TheCoreStores(w, r), SentSoFar(w, r)>>
        BY <2>1, <4>1 DEF TheCoreStores, SentSoFar
      <4>3. At(w) /\ PairInStep(w, r)
        BY DEF MailInv
      <4> QED BY <2>1, <4>1, <4>2, <4>3 DEF At, PairInStep
    <3> QED BY <3>1 DEF MailInv
  <2>2. CASE UNCHANGED <<vars, history>>
    BY <2>1, <2>2 DEF vars, setup, mails, history
  <2>3. CASE MCNext
    <3>1. Next /\ Records
      BY <2>3 DEF MCNext, Records
    <3>3. CASE UNCHANGED <<kernel, mailbox, mail_pc>>
      <4>1. \A w, r \in Cores : received'[w][r] = received[w][r]
        BY <3>1, <3>3 DEF Records, Loads
      <4> QED BY <2>1, <3>3, <4>1
    <3>4. ASSUME NEW c \in Cores, MailboxRead(c) \/ MailboxWrite(c), UNCHANGED kernel
          PROVE  MailInv'
      BY <3>1, <3>4, StoreInStep, LoadInStep
    <3> QED BY <3>1, <3>3, <3>4 DEF Next, Exchange, Ended, vars, setup, mails
  <2> QED BY <2>2, <2>3
<1> QED BY <1>1, <1>2, <1>3, PTL DEF MCSpec

-----------------------------------------------------------------------------
(* The kernel of the messages.                                             *)

\* The kernel of the messages runs.
Mailing == kernel = "mail" /\ "mail" \in Kernels

Mail0 == /\ Letters(0)[1] = Store(1, 1) /\ Letters(0)[2] = Store(2, 2) /\ Letters(0)[3] = Store(3, 3)
         /\ Letters(0)[4] = Store(1, 4) /\ Letters(0)[5] = Load(1) /\ Letters(0)[6] = Load(2)
         /\ Letters(0)[7] = Load(3) /\ Len(Letters(0)) = 7
Mail1 == /\ Letters(1)[1] = Load(0) /\ Letters(1)[2] = Load(0) /\ Letters(1)[3] = Store(2, 5)
         /\ Letters(1)[4] = Load(2) /\ Letters(1)[5] = Store(0, 6) /\ Len(Letters(1)) = 5
Mail2 == /\ Letters(2)[1] = Store(1, 7) /\ Letters(2)[2] = Load(0) /\ Letters(2)[3] = Load(1)
         /\ Letters(2)[4] = Store(0, 8) /\ Len(Letters(2)) = 4
Mail3 == Letters(3)[1] = Load(0) /\ Letters(3)[2] = Store(0, 9) /\ Len(Letters(3)) = 2

LEMMA TheLetters ==
  ASSUME Mailing
  PROVE  Cores = {0, 1, 2, 3} /\ Mail0 /\ Mail1 /\ Mail2 /\ Mail3
<1>1. NumPipes = 3 /\ Cores = {0, 1, 2, 3}
  BY MailAssumption DEF Mailing, Cores
<1>2. \A c \in Cores : Letters(c) = Messages[c]
  BY MailAssumption DEF Mailing, Letters
<1>3. /\ Messages[0] = << Store(1, 1), Store(2, 2), Store(3, 3), Store(1, 4), Load(1), Load(2), Load(3) >>
      /\ Messages[1] = << Load(0), Load(0), Store(2, 5), Load(2), Store(0, 6) >>
      /\ Messages[2] = << Store(1, 7), Load(0), Load(1), Store(0, 8) >>
      /\ Messages[3] = << Load(0), Store(0, 9) >>
  BY <1>1 DEF Messages
<1>4. Mail0
  BY <1>1, <1>2, <1>3 DEF Mail0
<1>5. Mail1
  BY <1>1, <1>2, <1>3 DEF Mail1
<1>6. Mail2
  BY <1>1, <1>2, <1>3 DEF Mail2
<1>7. Mail3
  BY <1>1, <1>2, <1>3 DEF Mail3
<1> QED BY <1>1, <1>4, <1>5, <1>6, <1>7

\* How many letters are on the way from w to r.
Full(w, r) == IF mailbox[w][r] = <<>> THEN 0 ELSE 1

\* Core c goes on from its letter n to m; a letter is put between w and r, or taken.
MovesTo(c, n, m) == mail_pc[c] = n /\ mail_pc' = [mail_pc EXCEPT ![c] = m]
OnlyBetween(w, r) ==
  \A x, y \in Cores : x # w \/ y # r => Full(x, y)' = Full(x, y)
Puts(w, r)  == Full(w, r) = 0 /\ Full(w, r)' = 1 /\ OnlyBetween(w, r)
Takes(w, r) == Full(w, r) = 1 /\ Full(w, r)' = 0 /\ OnlyBetween(w, r)

LEMMA Exchanged ==
  ASSUME TypeOK, NEW c \in Cores, mail_pc[c] \in 1 .. Len(Letters(c)), NEW n, mail_pc[c] = n,
         NEW x \in Cores
  PROVE  /\ MailboxRead(c) /\ Letters(c)[n] = Load(x) => Takes(x, c)
         /\ MailboxWrite(c) /\ (\E v : Letters(c)[n] = Store(x, v)) => Puts(c, x)
         /\ MailboxRead(c) => \A v : Letters(c)[n] # Store(x, v)
         /\ MailboxWrite(c) => Letters(c)[n] # Load(x)
         /\ MailboxRead(c) \/ MailboxWrite(c) => MovesTo(c, n, IF n = Len(Letters(c)) THEN 1 ELSE n + 1)
<1>1. mailbox \in [Cores -> [Cores -> Seq(Nat)]]
  BY DEF TypeOK
<1>2. ASSUME MailboxRead(c), Letters(c)[n] = Load(x) PROVE Takes(x, c)
  <2>1. mailbox[x][c] # <<>> /\ mailbox' = [mailbox EXCEPT ![x][c] = <<>>]
    BY <1>2 DEF MailboxRead, Slot, Load
  <2>2. /\ mailbox'[x][c] = <<>>
        /\ \A w, r \in Cores : w # x \/ r # c => mailbox'[w][r] = mailbox[w][r]
    BY <1>1, <2>1
  <2> QED BY <2>1, <2>2 DEF Takes, OnlyBetween, Full
<1>3. ASSUME MailboxWrite(c), NEW v, Letters(c)[n] = Store(x, v) PROVE Puts(c, x)
  <2>1. mailbox[c][x] = <<>> /\ mailbox' = [mailbox EXCEPT ![c][x] = <<v>>]
    BY <1>3 DEF MailboxWrite, Slot, Store
  <2>2. /\ mailbox'[c][x] = <<v>>
        /\ \A w, r \in Cores : w # c \/ r # x => mailbox'[w][r] = mailbox[w][r]
    BY <1>1, <2>1
  <2> QED BY <2>1, <2>2 DEF Puts, OnlyBetween, Full
<1>4. /\ MailboxRead(c) => \A v : Letters(c)[n] # Store(x, v)
      /\ MailboxWrite(c) => Letters(c)[n] # Load(x)
  BY DEF MailboxRead, MailboxWrite, Handling, Store, Load
<1>5. MailboxRead(c) \/ MailboxWrite(c) => MovesTo(c, n, IF n = Len(Letters(c)) THEN 1 ELSE n + 1)
  BY DEF MailboxRead, MailboxWrite, Handling, MovesTo, TypeOK
<1> QED BY <1>2, <1>3, <1>4, <1>5

\* What a core does with its letter n.
Sending(c, n, m, r) == MovesTo(c, n, m) /\ Puts(c, r)
Getting(c, n, m, w) == MovesTo(c, n, m) /\ Takes(w, c)
Does0 == \/ Sending(0, 1, 2, 1) \/ Sending(0, 2, 3, 2) \/ Sending(0, 3, 4, 3) \/ Sending(0, 4, 5, 1)
         \/ Getting(0, 5, 6, 1) \/ Getting(0, 6, 7, 2) \/ Getting(0, 7, 1, 3)
Does1 == \/ Getting(1, 1, 2, 0) \/ Getting(1, 2, 3, 0) \/ Sending(1, 3, 4, 2)
         \/ Getting(1, 4, 5, 2) \/ Sending(1, 5, 1, 0)
Does2 == Sending(2, 1, 2, 1) \/ Getting(2, 2, 3, 0) \/ Getting(2, 3, 4, 1) \/ Sending(2, 4, 1, 0)
Does3 == Getting(3, 1, 2, 0) \/ Sending(3, 2, 1, 0)

LEMMA CoresDo ==
  ASSUME TypeOK, Mailing, NEW c \in Cores, MailboxRead(c) \/ MailboxWrite(c)
  PROVE  Does0 \/ Does1 \/ Does2 \/ Does3
<1>1. Cores = {0, 1, 2, 3} /\ Mail0 /\ Mail1 /\ Mail2 /\ Mail3
  BY TheLetters
<1>2. mail_pc[c] \in 1 .. Len(Letters(c))
  BY DEF MailboxRead, MailboxWrite, Handling
<1> DEFINE n == mail_pc[c]
<1>3. /\ \A x \in Cores : Letters(c)[n] = Load(x) => Takes(x, c)
      /\ \A x \in Cores : (\E v : Letters(c)[n] = Store(x, v)) => Puts(c, x)
      /\ MovesTo(c, n, IF n = Len(Letters(c)) THEN 1 ELSE n + 1)
  BY <1>2, Exchanged
<1> HIDE DEF n
<1>4. n \in 1 .. Len(Letters(c))
  BY <1>2 DEF n
<1>5. CASE c = 0
  <2>1. n \in {1, 2, 3, 4, 5, 6, 7}
    <3>1. Len(Letters(c)) = 7
      BY <1>1, <1>5 DEF Mail0
    <3> QED BY <1>4, <3>1
  <2>2. n = 1 => Sending(0, 1, 2, 1)
    BY <1>1, <1>3, <1>5 DEF Mail0, Sending
  <2>3. n = 2 => Sending(0, 2, 3, 2)
    BY <1>1, <1>3, <1>5 DEF Mail0, Sending
  <2>4. n = 3 => Sending(0, 3, 4, 3)
    BY <1>1, <1>3, <1>5 DEF Mail0, Sending
  <2>5. n = 4 => Sending(0, 4, 5, 1)
    BY <1>1, <1>3, <1>5 DEF Mail0, Sending
  <2>6. n = 5 => Getting(0, 5, 6, 1)
    BY <1>1, <1>3, <1>5 DEF Mail0, Getting
  <2>7. n = 6 => Getting(0, 6, 7, 2)
    BY <1>1, <1>3, <1>5 DEF Mail0, Getting
  <2>8. n = 7 => Getting(0, 7, 1, 3)
    BY <1>1, <1>3, <1>5 DEF Mail0, Getting
  <2> QED BY <2>1, <2>2, <2>3, <2>4, <2>5, <2>6, <2>7, <2>8 DEF Does0
<1>6. CASE c = 1
  <2>1. n \in {1, 2, 3, 4, 5}
    <3>1. Len(Letters(c)) = 5
      BY <1>1, <1>6 DEF Mail1
    <3> QED BY <1>4, <3>1
  <2>2. n = 1 => Getting(1, 1, 2, 0)
    BY <1>1, <1>3, <1>6 DEF Mail1, Getting
  <2>3. n = 2 => Getting(1, 2, 3, 0)
    BY <1>1, <1>3, <1>6 DEF Mail1, Getting
  <2>4. n = 3 => Sending(1, 3, 4, 2)
    BY <1>1, <1>3, <1>6 DEF Mail1, Sending
  <2>5. n = 4 => Getting(1, 4, 5, 2)
    BY <1>1, <1>3, <1>6 DEF Mail1, Getting
  <2>6. n = 5 => Sending(1, 5, 1, 0)
    BY <1>1, <1>3, <1>6 DEF Mail1, Sending
  <2> QED BY <2>1, <2>2, <2>3, <2>4, <2>5, <2>6 DEF Does1
<1>7. CASE c = 2
  <2>1. n \in {1, 2, 3, 4}
    <3>1. Len(Letters(c)) = 4
      BY <1>1, <1>7 DEF Mail2
    <3> QED BY <1>4, <3>1
  <2>2. n = 1 => Sending(2, 1, 2, 1)
    BY <1>1, <1>3, <1>7 DEF Mail2, Sending
  <2>3. n = 2 => Getting(2, 2, 3, 0)
    BY <1>1, <1>3, <1>7 DEF Mail2, Getting
  <2>4. n = 3 => Getting(2, 3, 4, 1)
    BY <1>1, <1>3, <1>7 DEF Mail2, Getting
  <2>5. n = 4 => Sending(2, 4, 1, 0)
    BY <1>1, <1>3, <1>7 DEF Mail2, Sending
  <2> QED BY <2>1, <2>2, <2>3, <2>4, <2>5 DEF Does2
<1>8. CASE c = 3
  <2>1. n \in {1, 2}
    <3>1. Len(Letters(c)) = 2
      BY <1>1, <1>8 DEF Mail3
    <3> QED BY <1>4, <3>1
  <2>2. n = 1 => Getting(3, 1, 2, 0)
    BY <1>1, <1>3, <1>8 DEF Mail3, Getting
  <2>3. n = 2 => Sending(3, 2, 1, 0)
    BY <1>1, <1>3, <1>8 DEF Mail3, Sending
  <2> QED BY <2>1, <2>2, <2>3 DEF Does3
<1> QED BY <1>1, <1>5, <1>6, <1>7, <1>8

\* Core c has done R[c] rounds and its letters before mail_pc[c]: what is on
\* the way has been sent and not been loaded.
Past(c, n) == IF mail_pc[c] > n THEN 1 ELSE 0
Ledger(a, b, c, d) ==
  /\ mail_pc[0] \in 1 .. 7 /\ mail_pc[1] \in 1 .. 5 /\ mail_pc[2] \in 1 .. 4 /\ mail_pc[3] \in 1 .. 2
  /\ Full(0, 1) = 2 * a + Past(0, 1) + Past(0, 4) - 2 * b - Past(1, 1) - Past(1, 2)
  /\ Full(0, 2) = a + Past(0, 2) - c - Past(2, 2)
  /\ Full(0, 3) = a + Past(0, 3) - d - Past(3, 1)
  /\ Full(1, 0) = b - a - Past(0, 5)
  /\ Full(1, 2) = b + Past(1, 3) - c - Past(2, 3)
  /\ Full(2, 0) = c - a - Past(0, 6)
  /\ Full(2, 1) = c + Past(2, 1) - b - Past(1, 4)
  /\ Full(3, 0) = d - a

LEMMA LedgerKept ==
  ASSUME Cores = {0, 1, 2, 3}, mail_pc \in [Cores -> Nat],
         NEW a \in Nat, NEW b \in Nat, NEW c \in Nat, NEW d \in Nat, Ledger(a, b, c, d),
         Does0 \/ Does1 \/ Does2 \/ Does3
  PROVE  \/ Ledger(a, b, c, d)' \/ Ledger(a + 1, b, c, d)' \/ Ledger(a, b + 1, c, d)'
         \/ Ledger(a, b, c + 1, d)' \/ Ledger(a, b, c, d + 1)'
<1>1. CASE Does0
  BY <1>1 DEF Does0, Sending, Getting, MovesTo, Puts, Takes, OnlyBetween, Ledger, Past
<1>2. CASE Does1
  BY <1>2 DEF Does1, Sending, Getting, MovesTo, Puts, Takes, OnlyBetween, Ledger, Past
<1>3. CASE Does2
  BY <1>3 DEF Does2, Sending, Getting, MovesTo, Puts, Takes, OnlyBetween, Ledger, Past
<1>4. CASE Does3
  BY <1>4 DEF Does3, Sending, Getting, MovesTo, Puts, Takes, OnlyBetween, Ledger, Past
<1> QED BY <1>1, <1>2, <1>3, <1>4

\* With such a ledger some core can go on.
LEMMA LedgerGoesOn ==
  ASSUME Mailing, NEW a \in Nat, NEW b \in Nat, NEW c \in Nat, NEW d \in Nat, Ledger(a, b, c, d)
  PROVE  SomeCoreGoesOn
<1> DEFINE Waits0 == /\ mail_pc[0] = 1 \/ mail_pc[0] = 4 => Full(0, 1) = 1
                     /\ mail_pc[0] = 2 => Full(0, 2) = 1
                     /\ mail_pc[0] = 3 => Full(0, 3) = 1
                     /\ mail_pc[0] = 5 => Full(1, 0) = 0
                     /\ mail_pc[0] = 6 => Full(2, 0) = 0
                     /\ mail_pc[0] = 7 => Full(3, 0) = 0
           Waits1 == /\ mail_pc[1] = 1 \/ mail_pc[1] = 2 => Full(0, 1) = 0
                     /\ mail_pc[1] = 3 => Full(1, 2) = 1
                     /\ mail_pc[1] = 4 => Full(2, 1) = 0
                     /\ mail_pc[1] = 5 => Full(1, 0) = 1
           Waits2 == /\ mail_pc[2] = 1 => Full(2, 1) = 1
                     /\ mail_pc[2] = 2 => Full(0, 2) = 0
                     /\ mail_pc[2] = 3 => Full(1, 2) = 0
                     /\ mail_pc[2] = 4 => Full(2, 0) = 1
           Waits3 == /\ mail_pc[3] = 1 => Full(0, 3) = 0
                     /\ mail_pc[3] = 2 => Full(3, 0) = 1
<1>1. Cores = {0, 1, 2, 3} /\ Mail0 /\ Mail1 /\ Mail2 /\ Mail3
  BY TheLetters
<1>2. \A x, y \in Cores : Full(x, y) \in {0, 1}
  BY DEF Full
<1>3. ~ (Waits0 /\ Waits1 /\ Waits2 /\ Waits3)
  BY <1>1, <1>2 DEF Ledger, Past
<1> DEFINE Stuck(x) == LET l == Letters(x)[mail_pc[x]] IN
              ~ (IF l.op = "load" THEN mailbox[l.of][x] # <<>> ELSE mailbox[x][l.of] = <<>>)
<1>4. Stuck(0) => Waits0
  BY <1>1 DEF Mail0, Load, Store, Full
<1>5. Stuck(1) => Waits1
  BY <1>1 DEF Mail1, Load, Store, Full
<1>6. Stuck(2) => Waits2
  BY <1>1 DEF Mail2, Load, Store, Full
<1>7. Stuck(3) => Waits3
  BY <1>1 DEF Mail3, Load, Store, Full
<1>8. \E x \in Cores : ~ Stuck(x)
  <2> HIDE DEF Waits0, Waits1, Waits2, Waits3, Stuck
  <2> QED BY <1>1, <1>3, <1>4, <1>5, <1>6, <1>7
<1> QED BY <1>8 DEF SomeCoreGoesOn

LedgerInv == kernel = "mail" => \E a, b, c, d \in Nat : Ledger(a, b, c, d)

LEMMA LedgerAlways == MCSpec => [](TypeOK /\ LedgerInv)
<1>1. MCSpec => []TypeOK
  BY HistoryTypes
<1>2. TypeOK /\ MCInit => LedgerInv
  <2> SUFFICES ASSUME TypeOK, MCInit, kernel = "mail" PROVE Ledger(0, 0, 0, 0)
    BY DEF LedgerInv
  <2>1. Cores = {0, 1, 2, 3}
    BY TheLetters DEF Mailing, TypeOK
  <2>2. \A w, r \in Cores : mail_pc[w] = 1 /\ mailbox[w][r] = <<>>
    BY DEF MCInit, Init
  <2> QED BY <2>1, <2>2 DEF Ledger, Full, Past
<1>3. TypeOK /\ LedgerInv /\ [MCNext]_<<vars, history>> => LedgerInv'
  <2> SUFFICES ASSUME TypeOK, LedgerInv, [Next]_vars, kernel' = "mail"
               PROVE  \E a, b, c, d \in Nat : Ledger(a, b, c, d)'
    BY DEF LedgerInv, MCNext
  <2>1. UNCHANGED kernel /\ Mailing /\ mail_pc \in [Cores -> Nat]
    BY DEF Next, Ended, vars, setup, Mailing, TypeOK
  <2>2. PICK a \in Nat, b \in Nat, c \in Nat, d \in Nat : Ledger(a, b, c, d)
    BY <2>1 DEF LedgerInv, Mailing
  <2>3. CASE UNCHANGED mails
    <3>1. Ledger(a, b, c, d)' = Ledger(a, b, c, d)
      BY <2>3 DEF mails, Ledger, Full, Past
    <3> QED BY <2>2, <3>1
  <2>4. ASSUME NEW k \in Cores, MailboxRead(k) \/ MailboxWrite(k)
        PROVE  \E a1, b1, c1, d1 \in Nat : Ledger(a1, b1, c1, d1)'
    <3>1. Does0 \/ Does1 \/ Does2 \/ Does3
      BY <2>1, <2>4, CoresDo
    <3>2. Cores = {0, 1, 2, 3}
      BY <2>1, TheLetters
    <3>3. \/ Ledger(a, b, c, d)' \/ Ledger(a + 1, b, c, d)' \/ Ledger(a, b + 1, c, d)'
          \/ Ledger(a, b, c + 1, d)' \/ Ledger(a, b, c, d + 1)'
      BY <2>1, <2>2, <3>1, <3>2, LedgerKept
    <3>4. a + 1 \in Nat /\ b + 1 \in Nat /\ c + 1 \in Nat /\ d + 1 \in Nat
      OBVIOUS
    <3> QED BY <3>3, <3>4
  <2> QED BY <2>3, <2>4 DEF Next, Exchange, Ended, vars
<1> QED BY <1>1, <1>2, <1>3, PTL DEF MCSpec

\* A core receives from each other core what that one sent it and nothing else,
\* all of it in order, for any programs; and in the kernel of the messages, in
\* which cores write each other before they read, some core can always go on.
THEOREM MailArrives == MCSpec => []MailInOrder
<1>1. TypeOK /\ MailInv =>
        \A w, r \in Cores : received[w][r] = SubSeq(TheCoreStores(w, r), 1, Len(received[w][r]))
  <2> SUFFICES ASSUME TypeOK, MailInv, NEW w \in Cores, NEW r \in Cores
               PROVE  received[w][r] = SubSeq(TheCoreStores(w, r), 1, Len(received[w][r]))
    OBVIOUS
  <2> DEFINE g == received[w][r]
             t == TheCoreStores(w, r)
  <2>1. g \in Seq(Nat) /\ Begins(g, t)
    BY DEF MailInv, PairInStep, InStep
  <2>2. t \in Seq(Nat)
    <3>1. Letters(w) \in Seq(Letter)
      BY SyncAssumption DEF TypeOK, Letters
    <3>2. Len(Letters(w)) \in 0 .. Len(Letters(w))
      BY <3>1
    <3> QED BY <3>1, <3>2, SentTypes DEF TheCoreStores
  <2> HIDE DEF g, t
  <2> DEFINE u == SubSeq(t, 1, Len(g))
  <2>3. /\ u \in Seq(Nat) /\ Len(u) = Len(g)
        /\ \A j \in 1 .. Len(g) : u[j] = t[j]
    BY <2>1, <2>2 DEF Begins
  <2>4. \A j \in 1 .. Len(g) : u[j] = g[j]
    BY <2>1, <2>3 DEF Begins
  <2> HIDE DEF u
  <2>5. u = g
    BY <2>1, <2>3, <2>4, SeqEqual
  <2> QED BY <2>5 DEF u, g, t
<1>2. TypeOK /\ LedgerInv => SomeCoreGoesOn
  <2> SUFFICES ASSUME TypeOK, LedgerInv, kernel = "mail" PROVE SomeCoreGoesOn
    BY DEF SomeCoreGoesOn
  <2>1. Mailing
    BY DEF Mailing, TypeOK
  <2> QED BY <2>1, LedgerGoesOn DEF LedgerInv
<1>3. TypeOK /\ MailInv /\ LedgerInv => MailInOrder
  BY <1>1, <1>2 DEF MailInOrder
<1> QED BY <1>3, MailKept, LedgerAlways, PTL
=============================================================================
