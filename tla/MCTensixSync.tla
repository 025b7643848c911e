----------------------------- MODULE MCTensixSync -----------------------------
(***************************************************************************)
(* TensixSync for TLC, with three kernels: threads that pass buffers on as *)
(* the compute kernels do, threads that compete for a mutex, and cores     *)
(* that send one another messages.                                         *)
(***************************************************************************)
EXTENDS TensixSync

CONSTANTS m0, s0, s1, s2

ASSUME MutexAssumption == m0 \in Mutexes

Post(s) == [op |-> "SEMPOST", sem |-> s]
Get(s)  == [op |-> "SEMGET", sem |-> s]
Start(s, max) == [op |-> "SEMINIT", sem |-> s, value |-> 0, max |-> max]
Wait(cond, s, block) == [op |-> "SEMWAIT", sems |-> {s}, cond |-> cond, block |-> block]
Do(unit) == [op |-> "OTHER", unit |-> unit]
Acquire == [op |-> "ATGETM", mutex |-> m0]
Free    == [op |-> "ATRELM", mutex |-> m0]

\* Unpack to math, math to pack (the halves of Dst), and pack to its TRISC.
\* Who posts a semaphore initialises it: until then it counts up to SemLimit,
\* and who gets it waits, as it is zero.
Buffers == [p \in Pipes |->
  CASE p = 0 -> << Start(s0, 1), Wait("max", s0, {"unpack"}), Do("unpack"), Post(s0) >>
    [] p = 1 -> << Start(s1, 2),
                   Wait("zero", s0, {"math", "sync"}), Wait("max", s1, {"math"}),
                   Do("math"), Post(s1), Get(s0) >>
    [] p = 2 -> << Start(s2, 1),
                   Wait("zero", s1, {"pack"}), Do("pack"), Get(s1),
                   Wait("max", s2, {"sync"}), Post(s2) >>]

\* Thread 0 holds the mutex for as long as its TRISC makes it wait, 1 while it
\* waits for the Src banks, and 2 for one instruction.
Contenders == [p \in Pipes |->
  CASE p = 0 -> << Acquire, Wait("zero", s0, {"sync"}), Get(s0), Free >>
    [] p = 1 -> << Acquire, [op |-> "STALLWAIT", block |-> {"math"}], Do("math"), Free >>
    [] p = 2 -> << Acquire, Do("pack"), Free >>]

\* BRISC sends every TRISC its work and collects the answers; TRISCs 1 and 2
\* write each other before they read.
Store(r, v) == [op |-> "store", of |-> r, data |-> v]
Load(w) == [op |-> "load", of |-> w]
Messages == [c \in Cores |->
  CASE c = 0 -> << Store(1, 1), Store(2, 2), Store(3, 3), Store(1, 4), Load(1), Load(2), Load(3) >>
    [] c = 1 -> << Load(0), Load(0), Store(2, 5), Load(2), Store(0, 6) >>
    [] c = 2 -> << Store(1, 7), Load(0), Load(1), Store(0, 8) >>
    [] c = 3 -> << Load(0), Store(0, 9) >>]

Programs == [k \in Kernels |->
  CASE k = "buffers" -> Buffers
    [] k = "mutex"   -> Contenders
    [] k = "mail"    -> [p \in Pipes |-> << Do("math") >>]]
Loops == [k \in Kernels |-> [p \in Pipes |-> IF k = "buffers" THEN 2 ELSE 1]]
Posts == [k \in Kernels |-> IF k = "mutex" THEN {<<0, s0>>} ELSE {}]
Gets  == [k \in Kernels |-> IF k = "buffers" THEN {<<2, s2>>} ELSE {}]
Mails == [k \in Kernels |-> IF k = "mail" THEN Messages ELSE [c \in Cores |-> <<>>]]

\* What is run under the name of the pipeline kernel is that.
ASSUME BuffersAssumption ==
  "buffers" \in Kernels =>
    /\ NumPipes = 3
    /\ {s0, s1, s2} \subseteq Sems /\ s0 # s1 /\ s0 # s2 /\ s1 # s2
    /\ \A p \in Pipes : Program["buffers"][p] = Buffers[p] /\ LoopStart["buffers"][p] = 2
    /\ CorePosts["buffers"] = {} /\ CoreGets["buffers"] = {<<2, s2>>}

\* And what is run under the name of the messages.
ASSUME MailAssumption ==
  "mail" \in Kernels => NumPipes = 3 /\ \A c \in Cores : Mail["mail"][c] = Messages[c]

\* The instructions of thread p with which it works on a buffer: those from
\* after the wait to the one that gives the buffer away.
Works(p, from, to) == pc[p] \in from .. to

VARIABLES
  posted, got,  \* how often thread 1 posted s1, and 2 got it (modulo 2)
  waiting,      \* the threads whose ATGETM of m0 was tried in vain
  overtaken,    \* overtaken[p][q]: how often q got the mutex since p waits, up to 2
  received      \* received[w][r]: what core r has loaded from w

history == <<posted, got, waiting, overtaken, received>>

\* Sent(w, r)[n] is what core w has sent to r with its first n letters, and
\* TheCoreStores(w, r) what it sends in one round of its program.
Also(s, l, r) == IF l.op = "store" /\ l.of = r THEN Append(s, l.data) ELSE s
Sent(w, r) ==
  LET S[n \in 0 .. Len(Letters(w))] ==
        IF n = 0 THEN <<>> ELSE Also(S[n - 1], Letters(w)[n], r)
  IN S
TheCoreStores(w, r) == Sent(w, r)[Len(Letters(w))]

Got(q) == mutex[m0] # q + 1 /\ mutex'[m0] = q + 1

\* It is thread p's turn, and its next instruction asks for the mutex.
Asks(p) == turn = p /\ error = "none" /\ in_fifo[p] /\ Code(p)[pc[p]] = Acquire

MCInit ==
  /\ Init
  /\ posted = 0 /\ got = 0
  /\ waiting = {} /\ overtaken = [p \in Pipes |-> [q \in Pipes |-> 0]]
  /\ received = [w \in Cores |-> [r \in Cores |-> <<>>]]

\* Core r loads what w has written to it.
Loads(w, r) ==
  LET slot == Slot(w, r) IN
  /\ mailbox[slot[1]][slot[2]] # <<>> /\ mailbox'[slot[1]][slot[2]] = <<>>
  /\ Letters(r)[mail_pc[r]] = Load(w)

\* What core r has received from w, over and over: kept to one round.
Receives(w, r, v) ==
  IF Len(received[w][r]) = Len(TheCoreStores(w, r)) THEN <<v>> ELSE Append(received[w][r], v)

MCNext ==
  /\ Next
  /\ posted' = IF kernel = "buffers" /\ turn = 1 /\ pc[1] = 5 /\ pc'[1] # 5 THEN 1 - posted ELSE posted
  /\ got' = IF kernel = "buffers" /\ turn = 2 /\ pc[2] = 4 /\ pc'[2] # 4 THEN 1 - got ELSE got
  /\ waiting' =
       {p \in Pipes : (p \in waiting \/ Asks(p)) /\ mutex'[m0] # p + 1}
  /\ overtaken' = [p \in Pipes |-> [q \in Pipes |->
       IF p \notin waiting' THEN 0
       ELSE IF Got(q) /\ overtaken[p][q] < 2 THEN overtaken[p][q] + 1 ELSE overtaken[p][q]]]
  /\ received' = [w \in Cores |-> [r \in Cores |->
       IF Loads(w, r) THEN Receives(w, r, mailbox[Slot(w, r)[1]][Slot(w, r)[2]][1])
       ELSE received[w][r]]]

MCSpec == MCInit /\ [][MCNext]_<<vars, history>> /\ Fairness

\* A protocol that waits before it gets or posts ends no simulation, though
\* an instruction that finds the semaphore changed since the wait would.
NoneMisused == kernel = "buffers" => error = "none"

\* The two halves of Dst: the packer never reads the one that math writes.
HalvesApart == kernel = "buffers" => ~(Works(1, 4, 5) /\ Works(2, 3, 4) /\ posted = got)

\* No thread gets a mutex twice while another waits for it.  There is no
\* queue: it is the order in which a pass tries the threads that sees to it.
MutexInTurn == \A p, q \in Pipes : overtaken[p][q] < 2

\* No thread stops for good: no wait comes too late to see its semaphore.
ThreadsAdvance ==
  \A p \in Pipes : []<><<pc'[p] # pc[p]>>_vars \/ [](kernel # "buffers")

\* In the kernel of the messages some core can always go on.
SomeCoreGoesOn ==
  kernel = "mail" => \E c \in Cores :
    LET l == Letters(c)[mail_pc[c]] IN
    IF l.op = "load" THEN mailbox[l.of][c] # <<>> ELSE mailbox[c][l.of] = <<>>

\* A core receives from each other core what that one sent it, in its order,
\* though messages cross and loads and stores are retried; and some core can
\* always go on.
MailInOrder ==
  /\ \A w, r \in Cores : received[w][r] = SubSeq(TheCoreStores(w, r), 1, Len(received[w][r]))
  /\ SomeCoreGoesOn
=============================================================================
