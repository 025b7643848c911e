---------------------------- MODULE EthRelayProofs ----------------------------
(***************************************************************************)
(* Theorems about EthRelay, for any number of chips, cores and links, any  *)
(* commands, and rings of any size.  First its types, and that no post is  *)
(* lost.  Then that the firmware is the memory that it promises the host:  *)
(* MCEthRelay implements RemoteMemory, for any tables that the simulator   *)
(* may write.  The invariant has one part per thing that a step may spoil: *)
(*                                                                         *)
(*   Receives  a remote core only receives;                                *)
(*   LinkKept  a link has one request at a time, whose block is there, and *)
(*             its peer answers it once;                                   *)
(*   Line      one core at most works for a queue: its own, or the sibling *)
(*             that a relay was posted to, whose slot has the request;     *)
(*   RingKept  the ring holds the commands that are not answered, or the   *)
(*             host has the response of the one that is not;               *)
(*   Past      how many parts of the head command have taken effect, and   *)
(*             where what they read is now.                                *)
(*                                                                         *)
(* Past depends on the others, which do not depend on it.                  *)
(***************************************************************************)
EXTENDS MCEthRelay, SequenceTheorems, WellFoundedInduction, TLAPS

Job == [from : Cores \cup {NoCore}, op : Ops, data : Nat, block : Slots, seq : Nat]

\* Types that TypeOK does not state.
MoreTypes ==
  /\ relay_req \in [Cores -> [Cores -> Job]]
  /\ relay_last_seq \in [Cores -> [Cores -> Nat]]
  /\ job \in [Cores -> Job]
  /\ slot \in [Cores -> Nat \ {0}]
  /\ remote \in [Cores -> Nat \ {0}]

\* Core c executes a command of its own queue; it does a hop; for a sibling.
Commands == {"decode", "ring", "grid", "fanout", "relay wait"}
Hops     == {"stage", "ship", "header", "hop", "deposit", "reply"}
Executes(c) == pc[c] \in Commands \/ (pc[c] \in Hops /\ job[c].from = c)
Serves(c)   == pc[c] \in Hops /\ job[c].from # c

\* The commands from the head of c's queue up to pointer p.
Upto(c, p) == IF p >= rdptr[c] THEN p - rdptr[c] ELSE p + 2 * BufSize - rdptr[c]

\* A queue holds no more than its size, and what is being executed is in it:
\* the write pointer that was read is no further than the one there is now.
QueueKept(c) ==
  /\ Upto(c, wrptr[c]) <= BufSize
  /\ Executes(c) => 1 <= Upto(c, snap[c]) /\ Upto(c, snap[c]) <= Upto(c, wrptr[c])

\* A broadcast is at the head for as long as it is fanned out, and a hop for
\* this core's own queue is one of the command at the head.
HeadKept(c) ==
  /\ pc[c] \in {"grid", "fanout", "relay wait"} => Head0(c).op = "BROADCAST"
  /\ pc[c] \in Hops /\ job[c].from = c => job[c].op = Head0(c).op
  /\ pc[c] \in {"deposit", "reply"} => job[c].from # c

\* What a core serves came from the slot that the scan is at, is newer than
\* what it served last, and no newer than what is in the slot.
ServeKept(e) ==
  Serves(e) =>
    /\ slot[e] \in DOMAIN Siblings(e) /\ job[e].from = Siblings(e)[slot[e]]
    /\ relay_last_seq[e][job[e].from] < job[e].seq
    /\ job[e].seq <= relay_req[e][job[e].from].seq

\* A slot has the requests of one core, which is not the one that serves them.
SlotKept(e, c) ==
  /\ relay_req[e][c].from # e
  /\ relay_req[e][c].seq # 0 => relay_req[e][c].from = c
  /\ relay_last_seq[e][c] <= relay_req[e][c].seq /\ relay_req[e][c].seq <= relay_send_seq[c]

\* The core that core c, at "ring", is about to ring for.
Egress(c) == Route(IF Head0(c).op = "BROADCAST" THEN Bcast[remote[c]] ELSE Head0(c).tc)

\* A request in slot i that core e has not served: its poster is about to
\* ring for e, the doorbell rings, or the scan is yet to look at the slot or
\* has taken from it the very request that is in it.
Heard(e, i) ==
  relay_req[e][Order[i]].seq # relay_last_seq[e][Order[i]] =>
    \/ pc[Order[i]] = "ring" /\ Egress(Order[i]) = e
    \/ relay_doorbell[e]
    \/ Serves(e) /\ slot[e] < i
    \/ Serves(e) /\ slot[e] = i /\ relay_req[e][Order[i]].seq = job[e].seq
    \/ pc[e] = "scan" /\ slot[e] <= i

RelayInv ==
  /\ TypeOK /\ MoreTypes
  /\ \A c \in Cores : QueueKept(c) /\ HeadKept(c) /\ ServeKept(c)
  /\ \A e, c \in Cores : SlotKept(e, c)
  /\ \A e \in HostCores, i \in DOMAIN Order : Heard(e, i)

-----------------------------------------------------------------------------
(* Rings and routes.                                                       *)

LEMMA Bounds ==
  /\ BufSize \in Nat /\ BufSize > 0 /\ Chunks \in Nat /\ Chunks > 0
  /\ HostCores \subseteq Cores /\ NoCore \notin Cores /\ Start \in Ptrs
  /\ 0 \in Slots /\ 1 \in 1 .. Chunks
<1>1. BufSize \in Nat /\ BufSize # 0 /\ Chunks \in Nat /\ Chunks # 0
      /\ HostCores \subseteq Cores /\ NoCore \notin Cores /\ Start \in 0 .. 2 * BufSize - 1
  BY EthAssumption
<1> QED BY <1>1 DEF Ptrs, Slots

\* A pointer counts up to twice the size of the ring, so that a full ring is
\* told from an empty one; what is below is its slot.
LEMMA Pointers ==
  ASSUME NEW p \in Ptrs
  PROVE  /\ SlotOf(p) \in Slots /\ SlotOf(p) = IF p < BufSize THEN p ELSE p - BufSize
         /\ Inc(p) \in Ptrs /\ Inc(p) = IF p = 2 * BufSize - 1 THEN 0 ELSE p + 1
<1>1. p \in Nat /\ p < 2 * BufSize
  BY Bounds DEF Ptrs
<1>2. /\ p < BufSize => p % BufSize = p
      /\ p >= BufSize => p % BufSize = p - BufSize
  BY <1>1, Bounds, SMT
<1>3. /\ p + 1 < 2 * BufSize => (p + 1) % (2 * BufSize) = p + 1
      /\ p + 1 = 2 * BufSize => (p + 1) % (2 * BufSize) = 0
  BY <1>1, Bounds, SMT
<1> QED BY <1>1, <1>2, <1>3, Bounds DEF Ptrs, Slots, SlotOf, Inc

\* Full, as the firmware's host computes it, in terms of Upto.
LEMMA FullRing ==
  ASSUME NEW c \in HostCores, wrptr[c] \in Ptrs, rdptr[c] \in Ptrs
  PROVE  Full(c) <=> Upto(c, wrptr[c]) = BufSize
<1> DEFINE w == wrptr[c]  r == rdptr[c]
<1>1. w \in Nat /\ w < 2 * BufSize /\ r \in Nat /\ r < 2 * BufSize
  BY Bounds DEF Ptrs
<1>2. /\ w >= r => (w + 2 * BufSize - r) % (2 * BufSize) = w - r
      /\ w < r => (w + 2 * BufSize - r) % (2 * BufSize) = w + 2 * BufSize - r
  <2> HIDE DEF w, r
  <2> DEFINE n == 2 * BufSize
  <2>1. n \in Nat /\ n > 0 /\ w \in Nat /\ w < n /\ r \in Nat /\ r < n
    BY <1>1, Bounds
  <2> HIDE DEF n
  <2>2. /\ w >= r => (w + n - r) % n = w - r
        /\ w < r => (w + n - r) % n = w + n - r
    BY <2>1, SMT
  <2> QED BY <2>2 DEF n
<1> QED BY <1>1, <1>2, Bounds DEF Full, Upto

\* A route goes to a core of the chip whose link goes to the target.
LEMMA RouteGoes ==
  ASSUME NEW tc, Routable(tc)
  PROVE  Route(tc) \in HostCores /\ Peer(Route(tc)) = tc
<1> DEFINE T == {i \in DOMAIN Order : Peer(Order[i]) = tc}
<1>1. Order \in Seq(HostCores) /\ T \subseteq Nat /\ DOMAIN Order = 1 .. Len(Order)
  BY EthAssumption DEF Routes
<1>2. T # {}
  BY EthAssumption DEF Routes, Routable
<1> DEFINE R == OpToRel(<, Nat)
<1>3. PICK i \in T : \A j \in T : ~(<<j, i>> \in R)
  <2>1. IsWellFoundedOn(R, Nat)
    BY NatLessThanWellFounded
  <2> HIDE DEF R, T
  <2> QED BY <1>1, <1>2, <2>1, WFMin
<1>4. \A j \in 1 .. i - 1 : Peer(Order[j]) # tc
  <2> SUFFICES ASSUME NEW j \in 1 .. i - 1, Peer(Order[j]) = tc PROVE FALSE
    OBVIOUS
  <2>1. j \in T /\ j \in Nat /\ i \in Nat /\ j < i
    BY <1>1
  <2> QED BY <1>3, <2>1 DEF OpToRel
<1> DEFINE k == CHOOSE i2 \in DOMAIN Order :
                  /\ Peer(Order[i2]) = tc
                  /\ \A j \in 1 .. i2 - 1 : Peer(Order[j]) # tc
<1>5. k \in DOMAIN Order /\ Peer(Order[k]) = tc
  BY <1>4
<1> QED BY <1>1, <1>5 DEF Route

LEMMA BcastRoutable ==
  ASSUME NEW k \in DOMAIN Bcast
  PROVE  Routable(Bcast[k])
<1>1. Bcast[k] \in {Peer(c) : c \in HostCores}
  BY EthAssumption DEF Forwards
<1> QED BY <1>1 DEF Routable

LEMMA SiblingCores ==
  ASSUME NEW c \in Cores
  PROVE  /\ Siblings(c) \in Seq(Cores) /\ DOMAIN Siblings(c) = 1 .. Len(Siblings(c))
         /\ \A i \in DOMAIN Siblings(c) : Siblings(c)[i] \in Cores
         /\ \A i, j \in DOMAIN Siblings(c) : Siblings(c)[i] = Siblings(c)[j] => i = j
<1>1. /\ Order \in Seq(HostCores) /\ HostCores \subseteq Cores
      /\ \A i, j \in DOMAIN Order : Order[i] = Order[j] => i = j
  BY EthAssumption DEF Routes
<1>2. CASE c \in HostCores
  BY <1>1, <1>2 DEF Siblings
<1>3. CASE c \notin HostCores
  BY <1>3 DEF Siblings
<1> QED BY <1>2, <1>3

-----------------------------------------------------------------------------
(* Types.                                                                  *)

Types == TypeOK /\ MoreTypes

\* The command at the head, and the job made of it.
LEMMA HeadTypes ==
  ASSUME Types, NEW c \in Cores
  PROVE  /\ SlotOf(rdptr[c]) \in Slots /\ Head0(c) \in Command
         /\ Head0(c).op \in Ops /\ Head0(c).tc \in Chips /\ Head0(c).data \in Nat
<1>1. rdptr[c] \in Ptrs /\ req[c] \in [Slots -> Command]
  BY DEF Types, TypeOK
<1>2. SlotOf(rdptr[c]) \in Slots
  BY <1>1, Pointers
<1>3. Head0(c) \in Command
  BY <1>1, <1>2 DEF Head0
<1> QED BY <1>2, <1>3 DEF Command

LEMMA PlaceNames ==
  /\ "queue" \in Places /\ "inbox" \in Places /\ "doorbell" \in Places /\ "decode" \in Places
  /\ "ring" \in Places /\ "grid" \in Places /\ "fanout" \in Places /\ "relay wait" \in Places
  /\ "stage" \in Places /\ "ship" \in Places /\ "header" \in Places /\ "hop" \in Places
  /\ "scan" \in Places /\ "deposit" \in Places /\ "reply" \in Places
  /\ "send back" \in Places /\ "ack" \in Places
BY DEF Places

LEMMA GoTypes ==
  ASSUME Types, NEW c \in Cores, NEW to \in Places, Go(c, to)
  PROVE  pc' \in [Cores -> Places]
BY DEF Go, Types, TypeOK

LEMMA AdvanceTypes ==
  ASSUME Types, NEW c \in Cores, Advance(c)
  PROVE  /\ rdptr' \in [Cores -> Ptrs] /\ UNCHANGED <<req, wrptr>>
         /\ pc' \in [Cores -> Places]
<1>1. Inc(rdptr[c]) \in Ptrs
  BY Pointers DEF Types, TypeOK
<1>2. Go(c, "inbox") \/ Go(c, "decode")
  BY DEF Advance
<1> QED BY <1>1, <1>2, GoTypes, PlaceNames DEF Advance, Types, TypeOK

LEMMA CompleteTypes ==
  ASSUME Types, NEW c \in Cores, NEW w, NEW b, Complete(c, w, b)
  PROVE  /\ Advance(c) /\ resp_wrptr' \in [Cores -> Ptrs]
<1>1. Inc(resp_wrptr[c]) \in Ptrs
  BY Pointers DEF Types, TypeOK
<1>2. resp_wrptr' = resp_wrptr \/ resp_wrptr' = [resp_wrptr EXCEPT ![c] = Inc(@)]
  BY DEF Complete, CountWrite, Respond
<1>3. Advance(c)
  BY DEF Complete, CountWrite, Respond
<1> QED BY <1>1, <1>2, <1>3 DEF Types, TypeOK

LEMMA PutSlotTypes ==
  ASSUME Types, NEW c \in Cores, NEW egress \in Cores, NEW block \in Slots,
         PutSlot(c, egress, Head0(c), block)
  PROVE  /\ relay_send_seq' \in [Cores -> Nat]
         /\ relay_req' \in [Cores -> [Cores -> Job]]
         /\ pc' \in [Cores -> Places]
<1> DEFINE j == [from |-> c, op |-> Head0(c).op, data |-> Head0(c).data, block |-> block,
                 seq |-> relay_send_seq[c] + 1]
<1>1. relay_send_seq[c] \in Nat
  BY DEF Types, TypeOK
<1>2. j \in Job
  BY <1>1, HeadTypes DEF Job
<1>3. relay_req' = [relay_req EXCEPT ![egress] = [relay_req[egress] EXCEPT ![c] = j]]
  BY DEF PutSlot, NocPut
<1>4. [relay_req[egress] EXCEPT ![c] = j] \in [Cores -> Job]
  BY <1>2 DEF Types, MoreTypes
<1>5. relay_req' \in [Cores -> [Cores -> Job]]
  BY <1>3, <1>4 DEF Types, MoreTypes
<1>6. relay_send_seq' \in [Cores -> Nat]
  BY <1>1 DEF PutSlot, Types, TypeOK
<1>7. Go(c, "ring")
  BY DEF PutSlot
<1> QED BY <1>5, <1>6, <1>7, GoTypes, PlaceNames

LEMMA StartHopTypes ==
  ASSUME Types, NEW c \in Cores, NEW j \in Job, StartHop(c, j)
  PROVE  /\ job' \in [Cores -> Job] /\ part' \in [Cores -> 1 .. Chunks]
         /\ pc' \in [Cores -> Places]
<1>1. FirstStep(j, c) \in Places
  BY DEF FirstStep, Places
<1>2. pc' \in [Cores -> Places]
  BY <1>1, GoTypes DEF StartHop
<1> QED BY <1>2, Bounds DEF StartHop, Types, TypeOK, MoreTypes

LEMMA PollTypes ==
  ASSUME Types, NEW c \in Cores, PollQueue(c) \/ PollDoorbell(c) \/ Scan(c) \/ Receive(c)
  PROVE  Types'
<1> USE DEF hostVars, queueVars, relayVars, linkVars, coreVars
<1>1. CASE PollQueue(c)
  <2>1. pc' \in [Cores -> Places]
    BY <1>1, GoTypes, PlaceNames DEF PollQueue
  <2>2. snap' \in [Cores -> Ptrs]
    BY <1>1 DEF PollQueue, Types, TypeOK
  <2> QED BY <1>1, <2>1, <2>2 DEF PollQueue, Types, TypeOK, MoreTypes
<1>2. CASE PollDoorbell(c)
  <2>1. pc' \in [Cores -> Places]
    BY <1>2, GoTypes, PlaceNames DEF PollDoorbell
  <2>2. relay_doorbell' \in [Cores -> BOOLEAN] /\ slot' \in [Cores -> Nat \ {0}]
    BY <1>2 DEF PollDoorbell, Types, TypeOK, MoreTypes
  <2> QED BY <1>2, <2>1, <2>2 DEF PollDoorbell, Types, TypeOK, MoreTypes
<1>3. CASE Scan(c)
  <2> DEFINE new == relay_req[c][Siblings(c)[slot[c]]]
  <2>1. CASE StartHop(c, new) /\ UNCHANGED slot /\ slot[c] <= Len(Siblings(c))
    <3>1. slot[c] \in DOMAIN Siblings(c)
      BY <2>1, SiblingCores DEF Types, MoreTypes
    <3>2. new \in Job
      BY <3>1, SiblingCores DEF Types, MoreTypes
    <3> QED BY <1>3, <2>1, <3>2, StartHopTypes DEF Scan, Types, TypeOK, MoreTypes
  <2>2. CASE Go(c, "queue") /\ UNCHANGED <<job, part, slot>>
    <3>1. pc' \in [Cores -> Places]
      BY <2>2, GoTypes, PlaceNames
    <3> QED BY <1>3, <2>2, <3>1 DEF Scan, Types, TypeOK, MoreTypes
  <2>3. CASE slot' = [slot EXCEPT ![c] = @ + 1] /\ UNCHANGED <<pc, job, part>>
    <3>1. slot' \in [Cores -> Nat \ {0}]
      BY <2>3 DEF Types, MoreTypes
    <3> QED BY <1>3, <2>3, <3>1 DEF Scan, Types, TypeOK, MoreTypes
  <2> QED BY <1>3, <2>1, <2>2, <2>3 DEF Scan
<1>4. CASE Receive(c)
  <2>1. pc' \in [Cores -> Places]
    BY <1>4, GoTypes, PlaceNames DEF Receive
  <2> QED BY <1>4, <2>1 DEF Receive, Types, TypeOK, MoreTypes
<1> QED BY <1>1, <1>2, <1>3, <1>4

LEMMA QueueTypes ==
  ASSUME Types, NEW c \in Cores,
         \/ Direct(c) \/ PostRelay(c) \/ Unroutable(c) \/ Collect(c) \/ Ring(c)
         \/ StartBroadcast(c) \/ Grid(c) \/ Fanout(c) \/ RelayWait(c)
  PROVE  Types'
<1> USE DEF hostVars, queueVars, relayVars, linkVars, coreVars
<1>1. CASE Direct(c)
  <2> DEFINE j == [from |-> c, op |-> Head0(c).op, data |-> Head0(c).data,
                   block |-> SlotOf(rdptr[c]), seq |-> 0]
  <2>1. j \in Job
    BY HeadTypes DEF Job
  <2>2. StartHop(c, j)
    BY <1>1 DEF Direct
  <2> HIDE DEF j
  <2> QED BY <1>1, <2>1, <2>2, StartHopTypes DEF Direct, Types, TypeOK, MoreTypes
<1>2. CASE PostRelay(c)
  <2>1. Route(Head0(c).tc) \in Cores
    BY <1>2, RouteGoes, Bounds DEF PostRelay
  <2>2. /\ relay_send_seq' \in [Cores -> Nat] /\ pc' \in [Cores -> Places]
        /\ relay_req' \in [Cores -> [Cores -> Job]]
    BY <1>2, <2>1, HeadTypes, PutSlotTypes DEF PostRelay
  <2>3. relay_wait' \in [Cores -> BOOLEAN]
    BY <1>2 DEF PostRelay, Types, TypeOK
  <2> QED BY <1>2, <2>2, <2>3 DEF PostRelay, Types, TypeOK, MoreTypes
<1>3. CASE Unroutable(c)
  BY <1>3 DEF Unroutable, Types, TypeOK, MoreTypes
<1>4. CASE Collect(c)
  <2>1. relay_wait' \in [Cores -> BOOLEAN]
    BY <1>4 DEF Collect, Types, TypeOK
  <2>2. Advance(c) /\ resp_wrptr' \in [Cores -> Ptrs]
    BY <1>4, CompleteTypes DEF Collect
  <2> QED BY <1>4, <2>1, <2>2, AdvanceTypes DEF Collect, Types, TypeOK, MoreTypes
<1>5. CASE Ring(c)
  <2>1. pc' \in [Cores -> Places]
    BY <1>5, GoTypes, PlaceNames DEF Ring
  <2>2. relay_doorbell' \in [Cores -> BOOLEAN]
    BY <1>5 DEF Ring, NocPut, Types, TypeOK
  <2> QED BY <1>5, <2>1, <2>2 DEF Ring, Types, TypeOK, MoreTypes
<1>6. CASE StartBroadcast(c)
  <2>1. pc' \in [Cores -> Places]
    BY <1>6, GoTypes, PlaceNames DEF StartBroadcast
  <2> QED BY <1>6, <2>1, Bounds DEF StartBroadcast, Types, TypeOK, MoreTypes
<1>7. CASE Grid(c)
  <2>1. pc' \in [Cores -> Places]
    BY <1>7, GoTypes, PlaceNames DEF Grid, Types, TypeOK
  <2>2. part' \in [Cores -> 1 .. Chunks]
    <3>1. part[c] \in 1 .. Chunks /\ Chunks \in Nat
      BY Bounds DEF Types, TypeOK
    <3>2. part[c] < Chunks => part[c] + 1 \in 1 .. Chunks
      BY <3>1
    <3> QED BY <1>7, <3>2 DEF Grid, Types, TypeOK
  <2>3. remote' \in [Cores -> Nat \ {0}]
    BY <1>7 DEF Grid, Types, MoreTypes
  <2> QED BY <1>7, <2>1, <2>2, <2>3 DEF Grid, Types, TypeOK, MoreTypes
<1>8. CASE Fanout(c)
  <2>1. CASE CountWrite(c) /\ UNCHANGED <<job, part, relay_req, relay_send_seq>>
    <3>1. Complete(c, 0, 0)
      BY <2>1 DEF Complete
    <3> QED BY <1>8, <2>1, <3>1, CompleteTypes, AdvanceTypes DEF Fanout, Types, TypeOK, MoreTypes
  <2>2. CASE StartHop(c, [from |-> c, op |-> "BROADCAST", data |-> Head0(c).data,
                          block |-> 0, seq |-> 0])
             /\ UNCHANGED <<queueVars, relay_req, relay_send_seq>>
    <3> DEFINE j == [from |-> c, op |-> "BROADCAST", data |-> Head0(c).data,
                     block |-> 0, seq |-> 0]
    <3>1. j \in Job /\ StartHop(c, j)
      BY <2>2, HeadTypes, Bounds DEF Job, Ops, Writes
    <3> HIDE DEF j
    <3> QED BY <1>8, <2>2, <3>1, StartHopTypes DEF Fanout, Types, TypeOK, MoreTypes
  <2>3. CASE /\ remote[c] <= Len(Bcast) /\ PutSlot(c, Route(Bcast[remote[c]]), Head0(c), 0)
             /\ UNCHANGED <<queueVars, job, part>>
    <3>1. Route(Bcast[remote[c]]) \in Cores
      BY <2>3, BcastRoutable, RouteGoes, Bounds DEF Types, MoreTypes
    <3>2. /\ relay_send_seq' \in [Cores -> Nat] /\ pc' \in [Cores -> Places]
          /\ relay_req' \in [Cores -> [Cores -> Job]]
      BY <2>3, <3>1, Bounds, PutSlotTypes
    <3> QED BY <1>8, <2>3, <3>2 DEF Fanout, Types, TypeOK, MoreTypes
  <2> QED BY <1>8, <2>1, <2>2, <2>3 DEF Fanout
<1>9. CASE RelayWait(c)
  <2>1. pc' \in [Cores -> Places]
    BY <1>9, GoTypes, PlaceNames DEF RelayWait
  <2>2. remote' \in [Cores -> Nat \ {0}]
    <3>1. remote \in [Cores -> Nat \ {0}]
      BY DEF Types, MoreTypes
    <3>2. remote[c] + 1 \in Nat \ {0}
      BY <3>1
    <3>3. remote' = [remote EXCEPT ![c] = @ + 1]
      BY <1>9 DEF RelayWait
    <3> QED BY <3>1, <3>2, <3>3
  <2> QED BY <1>9, <2>1, <2>2 DEF RelayWait, Types, TypeOK, MoreTypes
<1> QED BY <1>1, <1>2, <1>3, <1>4, <1>5, <1>6, <1>7, <1>8, <1>9

LEMMA HopTypes ==
  ASSUME Types, NEW c \in Cores,
         \/ Stage(c) \/ Ship(c) \/ Header(c) \/ NextChunk(c) \/ OwnReply(c) \/ RelayedReply(c)
         \/ Deposit(c) \/ Reply(c) \/ SendBack(c) \/ Ack(c)
  PROVE  Types'
<1> USE DEF hostVars, queueVars, relayVars, linkVars, coreVars
<1>1. CASE Stage(c) \/ Ship(c) \/ RelayedReply(c) \/ Deposit(c) \/ SendBack(c) \/ Ack(c)
  <2>1. pc' \in [Cores -> Places]
    BY <1>1, GoTypes, PlaceNames DEF Stage, Ship, RelayedReply, Deposit, SendBack, Ack
  <2> QED BY <1>1, <2>1 DEF Stage, Ship, RelayedReply, Deposit, SendBack, Ack, Types, TypeOK, MoreTypes
<1>2. CASE Header(c)
  <2>1. pc' \in [Cores -> Places]
    BY <1>2, GoTypes, PlaceNames DEF Header
  <2>2. send_seq' \in [Cores -> Nat]
    BY <1>2 DEF Header, Types, TypeOK
  <2> QED BY <1>2, <2>1, <2>2 DEF Header, Types, TypeOK, MoreTypes
<1>3. CASE NextChunk(c)
  <2>1. part' \in [Cores -> 1 .. Chunks]
    <3>1. part[c] \in 1 .. Chunks /\ Chunks \in Nat /\ Last(job[c].op) \in {1, Chunks}
      BY Bounds DEF Types, TypeOK, Last
    <3>2. part[c] < Last(job[c].op) => part[c] + 1 \in 1 .. Chunks
      BY <3>1
    <3> QED BY <1>3, <3>2 DEF NextChunk, Types, TypeOK
  <2>2. FirstStep(job[c], c) \in Places
    BY DEF FirstStep, Places
  <2>3. pc' \in [Cores -> Places]
    BY <1>3, <2>2, GoTypes DEF NextChunk
  <2> QED BY <1>3, <2>1, <2>3 DEF NextChunk, Types, TypeOK, MoreTypes
<1>4. CASE OwnReply(c)
  <2>1. CASE job[c].op = "BROADCAST"
    <3>1. pc' \in [Cores -> Places]
      BY <1>4, <2>1, GoTypes, PlaceNames DEF OwnReply
    <3>2. remote' \in [Cores -> Nat \ {0}]
      BY <1>4, <2>1 DEF OwnReply, Types, MoreTypes
    <3> QED BY <1>4, <2>1, <3>1, <3>2 DEF OwnReply, Types, TypeOK, MoreTypes
  <2>2. CASE job[c].op # "BROADCAST"
    <3>1. Advance(c) /\ resp_wrptr' \in [Cores -> Ptrs]
      BY <1>4, <2>2, CompleteTypes DEF OwnReply
    <3> QED BY <1>4, <2>2, <3>1, AdvanceTypes DEF OwnReply, Types, TypeOK, MoreTypes
  <2> QED BY <2>1, <2>2
<1>5. CASE Reply(c)
  <2>1. pc' \in [Cores -> Places]
    BY <1>5, GoTypes, PlaceNames DEF Reply
  <2>2. slot' \in [Cores -> Nat \ {0}]
    BY <1>5 DEF Reply, Types, MoreTypes
  <2>3. relay_last_seq' \in [Cores -> [Cores -> Nat]]
    <3>1. job[c].seq \in Nat
      BY DEF Types, MoreTypes, Job
    <3> QED BY <1>5, <3>1 DEF Reply, Types, MoreTypes
  <2> QED BY <1>5, <2>1, <2>2, <2>3 DEF Reply, Types, TypeOK, MoreTypes
<1> QED BY <1>1, <1>2, <1>3, <1>4, <1>5

LEMMA HostTypes ==
  ASSUME Types, NEW c \in HostCores, Host(c)
  PROVE  Types'
<1> USE DEF hostVars, queueVars, relayVars, linkVars, coreVars
<1>0. c \in Cores
  BY Bounds
<1>1. CASE HostPush(c)
  <2>1. /\ left[c] \in Seq(Command) /\ left[c] # <<>>
        /\ Head(left[c]) \in Command /\ Tail(left[c]) \in Seq(Command)
    BY <1>1 DEF HostPush, Types, TypeOK
  <2>2. left' \in [HostCores -> Seq(Command)]
    BY <1>1, <2>1 DEF HostPush, Types, TypeOK
  <2>3. SlotOf(wrptr[c]) \in Slots /\ Inc(wrptr[c]) \in Ptrs
    BY <1>0, Pointers DEF Types, TypeOK
  <2>4. wrptr' \in [Cores -> Ptrs]
    BY <1>1, <2>3 DEF HostPush, Types, TypeOK
  <2>5. req' \in [Cores -> [Slots -> Command]]
    <3>1. req' = [req EXCEPT ![c][SlotOf(wrptr[c])] = Head(left[c])]
      BY <1>1 DEF HostPush
    <3> QED BY <1>0, <2>1, <2>3, <3>1 DEF Types, TypeOK
  <2>6. waits' \in [HostCores -> Reads \cup {"none"}]
    BY <1>1, <2>1 DEF HostPush, Types, TypeOK
  <2> QED BY <1>1, <2>2, <2>4, <2>5, <2>6 DEF HostPush, Types, TypeOK, MoreTypes
<1>2. CASE HostTake(c)
  <2>1. Inc(resp_rdptr[c]) \in Ptrs
    BY Pointers DEF Types, TypeOK
  <2>2. resp_rdptr' \in [HostCores -> Ptrs] /\ waits' \in [HostCores -> Reads \cup {"none"}]
    BY <1>2, <2>1 DEF HostTake, Types, TypeOK
  <2> QED BY <1>2, <2>2 DEF HostTake, Types, TypeOK, MoreTypes
<1> QED BY <1>1, <1>2 DEF Host

LEMMA StepTypes ==
  ASSUME Types, NEW c \in Cores, Step(c)
  PROVE  Types'
BY PollTypes, QueueTypes, HopTypes DEF Step

LEMMA InitTypes ==
  ASSUME Init
  PROVE  Types
<1>1. NoCmd \in Command \/ Cores = {}
  <2>1. CASE Cores # {}
    <3>1. (CHOOSE x \in Chips : TRUE) \in Chips
      BY <2>1, EthAssumption
    <3> QED BY <3>1 DEF NoCmd, Command, NoData, Ops, Writes
  <2> QED BY <2>1
<1>2. NoJob \in Job
  BY Bounds DEF NoJob, Job, NoData, Ops, Writes
<1>3. left \in [HostCores -> Seq(Command)]
  BY EthAssumption DEF Init
<1>4. req \in [Cores -> [Slots -> Command]]
  BY <1>1 DEF Init
<1>5. /\ relay_req \in [Cores -> [Cores -> Job]] /\ job \in [Cores -> Job]
      /\ relay_last_seq \in [Cores -> [Cores -> Nat]]
  BY <1>2 DEF Init
<1>6. /\ wrptr \in [Cores -> Ptrs] /\ rdptr \in [Cores -> Ptrs] /\ resp_wrptr \in [Cores -> Ptrs]
      /\ resp_rdptr \in [HostCores -> Ptrs] /\ snap \in [Cores -> Ptrs]
  BY Bounds DEF Init
<1>7. pc \in [Cores -> Places]
  BY PlaceNames DEF Init
<1> QED BY <1>3, <1>4, <1>5, <1>6, <1>7, Bounds DEF Init, Types, TypeOK, MoreTypes

\* Every core's state stays in its types: no pointer leaves its ring, and no
\* core counts a chunk that the transfer does not have.
THEOREM RelayTypes == Spec => []TypeOK
<1>1. Init => Types
  BY InitTypes
<1>2. Types /\ [Next]_vars => Types'
  <2>1. ASSUME Types, UNCHANGED vars PROVE Types'
    BY <2>1 DEF vars, hostVars, queueVars, relayVars, linkVars, coreVars, Types, TypeOK, MoreTypes
  <2> QED BY <2>1, StepTypes, HostTypes DEF Next
<1>3. Types => TypeOK
  BY DEF Types
<1> QED BY <1>1, <1>2, <1>3, PTL DEF Spec

-----------------------------------------------------------------------------
(* What a core's step leaves alone in the other cores.                     *)

\* Core d's own state, which only its steps and its host change.
OwnState(d) == <<pc[d], job[d], slot[d], snap[d], remote[d], rdptr[d], wrptr[d], req[d],
                 relay_last_seq[d], relay_send_seq[d]>>

Untouched(c) ==
  \A d \in Cores \ {c} :
    /\ UNCHANGED OwnState(d)
    /\ relay_doorbell[d] => relay_doorbell'[d]
    /\ \A e \in Cores : relay_req'[e][d] = relay_req[e][d]

LEMMA OthersUntouched ==
  ASSUME Types, NEW c \in Cores, Step(c)
  PROVE  Untouched(c)
<1> USE DEF hostVars, queueVars, relayVars, linkVars, coreVars, Go
<1>0. /\ pc \in [Cores -> Places] /\ slot \in [Cores -> Nat \ {0}] /\ job \in [Cores -> Job]
      /\ snap \in [Cores -> Ptrs] /\ remote \in [Cores -> Nat \ {0}]
      /\ rdptr \in [Cores -> Ptrs] /\ relay_send_seq \in [Cores -> Nat]
      /\ relay_last_seq \in [Cores -> [Cores -> Nat]]
      /\ relay_doorbell \in [Cores -> BOOLEAN]
      /\ relay_req \in [Cores -> [Cores -> Job]]
  BY DEF Types, TypeOK, MoreTypes
<1>1. ASSUME Advance(c)
      PROVE  \A d \in Cores \ {c} : pc'[d] = pc[d] /\ rdptr'[d] = rdptr[d]
  BY <1>0, <1>1 DEF Advance
<1>2. ASSUME NEW w, NEW b, Complete(c, w, b)
      PROVE  Advance(c)
  BY <1>2, CompleteTypes
<1>3. ASSUME NEW j, StartHop(c, j)
      PROVE  \A d \in Cores \ {c} : pc'[d] = pc[d] /\ job'[d] = job[d]
  BY <1>0, <1>3 DEF StartHop
<1>4. ASSUME NEW e, NEW m, NEW b, PutSlot(c, e, m, b)
      PROVE  /\ \A d \in Cores \ {c} : pc'[d] = pc[d] /\ relay_send_seq'[d] = relay_send_seq[d]
             /\ \A d \in Cores \ {c}, f \in Cores : relay_req'[f][d] = relay_req[f][d]
  BY <1>0, <1>4 DEF PutSlot, NocPut
<1>5. CASE PollQueue(c)
  BY <1>0, <1>5 DEF PollQueue, Untouched, OwnState
<1>6. CASE PollDoorbell(c)
  BY <1>0, <1>6 DEF PollDoorbell, Untouched, OwnState
<1>7. CASE Direct(c)
  BY <1>3, <1>7 DEF Direct, Untouched, OwnState
<1>8. CASE PostRelay(c)
  BY <1>4, <1>8 DEF PostRelay, Untouched, OwnState
<1>9. CASE Unroutable(c)
  BY <1>9 DEF Unroutable, Untouched, OwnState
<1>10. CASE Collect(c)
  <2>1. Advance(c)
    BY <1>2, <1>10 DEF Collect
  <2> QED BY <1>1, <1>10, <2>1 DEF Collect, Advance, Untouched, OwnState
<1>11. CASE Ring(c)
  BY <1>0, <1>11 DEF Ring, NocPut, Untouched, OwnState
<1>12. CASE StartBroadcast(c)
  BY <1>0, <1>12 DEF StartBroadcast, Untouched, OwnState
<1>13. CASE Grid(c)
  BY <1>0, <1>13 DEF Grid, Untouched, OwnState
<1>14. CASE Fanout(c)
  <2>1. CASE CountWrite(c) /\ UNCHANGED <<job, part, relay_req, relay_send_seq>>
    <3>1. Advance(c)
      BY <2>1 DEF CountWrite
    <3> QED BY <1>1, <1>14, <2>1, <3>1 DEF Fanout, Advance, Untouched, OwnState
  <2>2. CASE StartHop(c, [from |-> c, op |-> "BROADCAST", data |-> Head0(c).data,
                          block |-> 0, seq |-> 0])
             /\ UNCHANGED <<queueVars, relay_req, relay_send_seq>>
    BY <1>3, <1>14, <2>2 DEF Fanout, Untouched, OwnState
  <2>3. CASE PutSlot(c, Route(Bcast[remote[c]]), Head0(c), 0) /\ UNCHANGED <<queueVars, job, part>>
    BY <1>4, <1>14, <2>3 DEF Fanout, Untouched, OwnState
  <2> QED BY <1>14, <2>1, <2>2, <2>3 DEF Fanout
<1>15. CASE RelayWait(c)
  BY <1>0, <1>15 DEF RelayWait, Untouched, OwnState
<1>16. CASE Stage(c) \/ Ship(c) \/ Header(c)
  BY <1>0, <1>16 DEF Stage, Ship, Header, Untouched, OwnState
<1>17. CASE NextChunk(c) \/ RelayedReply(c) \/ Deposit(c)
  BY <1>0, <1>17 DEF NextChunk, RelayedReply, Deposit, Untouched, OwnState
<1>18. CASE OwnReply(c)
  <2>1. CASE job[c].op = "BROADCAST"
    BY <1>0, <1>18, <2>1 DEF OwnReply, Untouched, OwnState
  <2>2. CASE job[c].op # "BROADCAST"
    <3>1. Advance(c)
      BY <1>2, <1>18, <2>2 DEF OwnReply
    <3> QED BY <1>1, <1>18, <2>2, <3>1 DEF OwnReply, Advance, Untouched, OwnState
  <2> QED BY <2>1, <2>2
<1>19. CASE Scan(c)
  BY <1>0, <1>3, <1>19 DEF Scan, Untouched, OwnState
<1>20. CASE Reply(c)
  BY <1>0, <1>20 DEF Reply, Untouched, OwnState
<1>21. CASE Receive(c)
  BY <1>0, <1>21 DEF Receive, Untouched, OwnState
<1>22. CASE SendBack(c) \/ Ack(c)
  BY <1>0, <1>22 DEF SendBack, Ack, Untouched, OwnState
<1> QED BY <1>5, <1>6, <1>7, <1>8, <1>9, <1>10, <1>11, <1>12, <1>13, <1>14, <1>15, <1>16,
           <1>17, <1>18, <1>19, <1>20, <1>21, <1>22 DEF Step

-----------------------------------------------------------------------------
(* The queue of a core that takes a step.                                  *)

Kept(c) == QueueKept(c) /\ HeadKept(c)

\* A step that moves neither end of the queue, and starts no command.
LEMMA StaysKept ==
  ASSUME NEW c \in Cores, Kept(c),
         rdptr'[c] = rdptr[c], wrptr'[c] = wrptr[c], snap'[c] = snap[c], req'[c] = req[c],
         Executes(c)' => Executes(c),
         pc'[c] \in {"grid", "fanout", "relay wait"} => Head0(c).op = "BROADCAST",
         pc'[c] \in Hops /\ job'[c].from = c => job'[c].op = Head0(c).op,
         pc'[c] \in {"deposit", "reply"} => job'[c].from # c
  PROVE  Kept(c)'
BY DEF Kept, QueueKept, HeadKept, Upto, Head0

\* The command at the head is done.
LEMMA AdvanceKept ==
  ASSUME Types, NEW c \in Cores, Kept(c), Executes(c), Advance(c), snap'[c] = snap[c]
  PROVE  Kept(c)'
<1>1. /\ rdptr[c] \in Ptrs /\ wrptr[c] \in Ptrs /\ snap[c] \in Ptrs
      /\ rdptr \in [Cores -> Ptrs] /\ pc \in [Cores -> Places]
  BY DEF Types, TypeOK
<1>2. /\ rdptr'[c] = Inc(rdptr[c]) /\ wrptr'[c] = wrptr[c]
      /\ pc'[c] = IF rdptr'[c] = snap[c] THEN "inbox" ELSE "decode"
  BY <1>1 DEF Advance, Go
<1> DEFINE r == rdptr[c]  w == wrptr[c]  s == snap[c]  n == 2 * BufSize
<1>3. /\ r \in Nat /\ r < n /\ w \in Nat /\ w < n /\ s \in Nat /\ s < n /\ n \in Nat
      /\ BufSize \in Nat
  BY <1>1, Bounds DEF Ptrs
<1>4. Inc(r) = IF r = n - 1 THEN 0 ELSE r + 1
  BY <1>1, Pointers
<1> DEFINE upto(q, p) == IF p >= q THEN p - q ELSE p + n - q
<1>5. 1 <= upto(r, s) /\ upto(r, s) <= upto(r, w) /\ upto(r, w) <= BufSize
  BY DEF Kept, QueueKept, Upto
<1> HIDE DEF r, w, s, n
<1>6. /\ upto(Inc(r), w) = upto(r, w) - 1
      /\ upto(Inc(r), s) = upto(r, s) - 1
      /\ upto(Inc(r), s) = 0 => Inc(r) = s
  BY <1>3, <1>4, <1>5
<1>7. /\ upto(Inc(r), w) <= BufSize
      /\ Inc(r) # s => 1 <= upto(Inc(r), s) /\ upto(Inc(r), s) <= upto(Inc(r), w)
  BY <1>3, <1>4, <1>5, <1>6
<1>8. QueueKept(c)'
  BY <1>2, <1>7 DEF r, w, s, n, QueueKept, Executes, Upto, Hops, Commands
<1> QED BY <1>2, <1>8 DEF Kept, HeadKept, Hops

LEMMA OwnStep ==
  ASSUME Types, NEW c \in Cores, Kept(c), \A d \in Cores : SlotKept(c, d), Step(c)
  PROVE  Kept(c)'
<1> USE DEF hostVars, queueVars, relayVars, linkVars, coreVars, Go
<1>0. /\ pc \in [Cores -> Places] /\ job \in [Cores -> Job]
      /\ snap \in [Cores -> Ptrs] /\ rdptr \in [Cores -> Ptrs] /\ wrptr \in [Cores -> Ptrs]
  BY DEF Types, TypeOK, MoreTypes
<1>a. /\ pc[c] \in {"grid", "fanout", "relay wait"} => Head0(c).op = "BROADCAST"
      /\ pc[c] \in Hops /\ job[c].from = c => job[c].op = Head0(c).op
      /\ pc[c] \in {"deposit", "reply"} => job[c].from # c
  BY DEF Kept, HeadKept
\* A round begins with the write pointer as it is.
<1>1. CASE PollQueue(c)
  <2>1. CASE snap' = [snap EXCEPT ![c] = wrptr[c]] /\ pc' = [pc EXCEPT ![c] = "decode"]
             /\ rdptr[c] # wrptr[c]
    <3>1. /\ Upto(c, wrptr[c])' = Upto(c, wrptr[c]) /\ Upto(c, snap[c])' = Upto(c, wrptr[c])
          /\ Upto(c, wrptr[c]) <= BufSize /\ pc'[c] = "decode"
      BY <1>0, <1>1, <2>1 DEF PollQueue, Upto, Kept, QueueKept
    <3>2. Upto(c, wrptr[c]) \in Nat /\ Upto(c, wrptr[c]) # 0
      <4>1. rdptr[c] \in Nat /\ wrptr[c] \in Nat /\ rdptr[c] < 2 * BufSize /\ BufSize \in Nat
        BY <1>0, Bounds DEF Ptrs
      <4> QED BY <2>1, <4>1 DEF Upto
    <3>3. QueueKept(c)'
      BY <3>1, <3>2 DEF QueueKept
    <3>4. HeadKept(c)'
      BY <3>1 DEF HeadKept, Hops
    <3> QED BY <3>3, <3>4 DEF Kept
  <2>2. CASE pc' = [pc EXCEPT ![c] = "inbox"] /\ UNCHANGED snap
    BY <1>0, <1>1, <2>2, StaysKept DEF PollQueue, Executes, Commands, Hops
  <2> QED BY <1>1, <2>1, <2>2 DEF PollQueue, QueueReady
<1>2. CASE PollDoorbell(c)
  BY <1>0, <1>2, StaysKept DEF PollDoorbell, Executes, Commands, Hops
<1>3. CASE Direct(c)
  <2> DEFINE j == [from |-> c, op |-> Head0(c).op, data |-> Head0(c).data,
                   block |-> SlotOf(rdptr[c]), seq |-> 0]
  <2>1. /\ job'[c].from = c /\ job'[c].op = Head0(c).op /\ pc[c] = "decode"
        /\ pc'[c] = FirstStep(j, c)
    BY <1>0, <1>3 DEF Direct, StartHop
  <2>2. FirstStep(j, c) \in {"stage", "ship", "header"}
    BY DEF FirstStep
  <2> HIDE DEF j
  <2> QED BY <1>0, <1>3, <2>1, <2>2, StaysKept DEF Direct, Executes, Commands, Hops
<1>4. CASE PostRelay(c)
  <2>1. pc'[c] = "ring" /\ pc[c] = "decode"
    BY <1>0, <1>4 DEF PostRelay, PutSlot
  <2> QED BY <1>4, <2>1, StaysKept DEF PostRelay, Executes, Commands, Hops
<1>5. CASE Unroutable(c)
  BY <1>a, <1>5, StaysKept DEF Unroutable, Executes
<1>6. CASE Collect(c)
  <2>1. Advance(c) /\ Executes(c)
    BY <1>6, CompleteTypes DEF Collect, Executes, Commands
  <2> QED BY <1>6, <2>1, AdvanceKept DEF Collect
<1>7. CASE Ring(c)
  <2>1. /\ pc'[c] \in {"relay wait", "inbox"} /\ pc[c] = "ring"
        /\ pc'[c] = "relay wait" => Head0(c).op = "BROADCAST"
    BY <1>0, <1>7 DEF Ring
  <2> QED BY <1>7, <2>1, StaysKept DEF Ring, Executes, Commands, Hops
<1>8. CASE StartBroadcast(c)
  BY <1>0, <1>8, StaysKept DEF StartBroadcast, Executes, Commands, Hops
<1>9. CASE Grid(c)
  BY <1>0, <1>a, <1>9, StaysKept DEF Grid, Executes, Commands, Hops
<1>10. CASE Fanout(c)
  <2>0. pc[c] = "fanout" /\ Executes(c) /\ snap' = snap /\ Head0(c).op = "BROADCAST"
    BY <1>a, <1>10 DEF Fanout, Executes, Commands
  <2>1. CASE CountWrite(c)
    BY <2>0, <2>1, AdvanceKept DEF CountWrite
  <2> DEFINE j == [from |-> c, op |-> "BROADCAST", data |-> Head0(c).data, block |-> 0, seq |-> 0]
  <2>2. CASE StartHop(c, j) /\ UNCHANGED <<queueVars, relay_req, relay_send_seq>>
    <3>1. pc'[c] = FirstStep(j, c) /\ job'[c].from = c /\ job'[c].op = "BROADCAST"
      BY <1>0, <2>2 DEF StartHop
    <3>2. FirstStep(j, c) \in {"stage", "ship", "header"}
      BY DEF FirstStep
    <3> HIDE DEF j
    <3> QED BY <2>0, <2>2, <3>1, <3>2, StaysKept DEF Executes, Commands, Hops
  <2>3. CASE PutSlot(c, Route(Bcast[remote[c]]), Head0(c), 0) /\ UNCHANGED <<queueVars, job, part>>
    <3>1. pc'[c] = "ring"
      BY <1>0, <2>3 DEF PutSlot
    <3> QED BY <2>0, <2>3, <3>1, StaysKept DEF Executes, Commands, Hops
  <2> QED BY <1>10, <2>1, <2>2, <2>3 DEF Fanout
<1>11. CASE RelayWait(c)
  BY <1>0, <1>a, <1>11, StaysKept DEF RelayWait, Executes, Commands, Hops
<1>12. CASE Stage(c) \/ Ship(c) \/ Header(c)
  BY <1>0, <1>a, <1>12, StaysKept DEF Stage, Ship, Header, Executes, Commands, Hops
<1>13. CASE NextChunk(c)
  <2>1. FirstStep(job[c], c) \in {"stage", "ship", "header"}
    BY DEF FirstStep
  <2>2. pc'[c] = FirstStep(job[c], c) /\ pc[c] = "hop"
    BY <1>0, <1>13 DEF NextChunk, Replied
  <2> QED BY <1>a, <1>13, <2>1, <2>2, StaysKept DEF NextChunk, Executes, Commands, Hops
<1>14. CASE OwnReply(c)
  <2>0. pc[c] = "hop" /\ job[c].from = c /\ Executes(c) /\ job[c].op = Head0(c).op
    BY <1>a, <1>14 DEF OwnReply, Replied, Executes, Hops
  <2>1. CASE job[c].op = "BROADCAST"
    BY <1>0, <1>14, <2>0, <2>1, StaysKept DEF OwnReply, Executes, Commands, Hops
  <2>2. CASE job[c].op # "BROADCAST"
    <3>1. Advance(c)
      BY <1>14, <2>2, CompleteTypes DEF OwnReply
    <3> QED BY <1>14, <2>0, <3>1, AdvanceKept DEF OwnReply
  <2> QED BY <2>1, <2>2
<1>15. CASE RelayedReply(c)
  BY <1>0, <1>15, StaysKept DEF RelayedReply, Executes, Commands, Hops
<1>16. CASE Scan(c)
  <2> DEFINE new == relay_req[c][Siblings(c)[slot[c]]]
  <2>1. CASE pc'[c] \in {"queue", "scan"}
    BY <1>16, <2>1, StaysKept DEF Scan, Executes, Commands, Hops
  <2>2. CASE StartHop(c, new) /\ slot[c] <= Len(Siblings(c))
    <3>1. new.from # c
      <4>1. slot[c] \in DOMAIN Siblings(c)
        BY <2>2, SiblingCores DEF Types, MoreTypes
      <4> QED BY <4>1, SiblingCores DEF SlotKept
    <3>2. job'[c] = new
      BY <1>0, <2>2 DEF StartHop
    <3>3. pc'[c] \in {"stage", "ship", "header"}
      BY <1>0, <2>2 DEF StartHop, FirstStep
    <3> HIDE DEF new
    <3> QED BY <1>16, <3>1, <3>2, <3>3, StaysKept DEF Scan, Executes, Commands, Hops
  <2> QED BY <1>0, <1>16, <2>1, <2>2 DEF Scan
<1>17. CASE Deposit(c) \/ Reply(c)
  BY <1>0, <1>a, <1>17, StaysKept DEF Deposit, Reply, Executes, Commands, Hops
<1>18. CASE Receive(c) \/ SendBack(c) \/ Ack(c)
  <2>1. pc'[c] \in {"doorbell", "ack", "send back"}
    BY <1>0, <1>18 DEF Receive, SendBack, Ack
  <2> QED BY <1>18, <2>1, StaysKept DEF Receive, SendBack, Ack, Executes, Commands, Hops
<1> QED BY <1>1, <1>2, <1>3, <1>4, <1>5, <1>6, <1>7, <1>8, <1>9, <1>10, <1>11, <1>12,
           <1>13, <1>14, <1>15, <1>16, <1>17, <1>18 DEF Step

\* The host's step, which leaves the command that is executed alone.
LEMMA HostStep ==
  ASSUME Types, NEW c \in HostCores, Kept(c), Host(c)
  PROVE  Kept(c)' /\ (Executes(c) => Head0(c)' = Head0(c))
<1> USE DEF hostVars, queueVars, relayVars, linkVars, coreVars
<1>0. /\ c \in Cores /\ rdptr[c] \in Ptrs /\ wrptr[c] \in Ptrs /\ wrptr \in [Cores -> Ptrs]
      /\ req \in [Cores -> [Slots -> Command]] /\ snap[c] \in Ptrs
  BY Bounds DEF Types, TypeOK
<1>1. CASE HostPush(c)
  <2> DEFINE r == rdptr[c]  w == wrptr[c]
  <2>1. /\ rdptr' = rdptr /\ snap' = snap /\ pc' = pc /\ job' = job
        /\ wrptr'[c] = Inc(w) /\ Upto(c, w) # BufSize
    BY <1>0, <1>1, FullRing DEF HostPush
  <2>2. Upto(c, w) <= BufSize
    BY DEF Kept, QueueKept
  <2>3. /\ r \in Nat /\ r < 2 * BufSize /\ w \in Nat /\ w < 2 * BufSize /\ BufSize \in Nat
        /\ Inc(w) = IF w = 2 * BufSize - 1 THEN 0 ELSE w + 1
        /\ SlotOf(w) = IF w < BufSize THEN w ELSE w - BufSize
        /\ SlotOf(r) = IF r < BufSize THEN r ELSE r - BufSize
    BY <1>0, Pointers, Bounds DEF Ptrs
  <2> HIDE DEF r, w
  <2>4. Upto(c, w) = IF w >= r THEN w - r ELSE w + 2 * BufSize - r
    BY DEF r, Upto
  <2>5. /\ (IF Inc(w) >= r THEN Inc(w) - r ELSE Inc(w) + 2 * BufSize - r) = Upto(c, w) + 1
        /\ 1 <= Upto(c, w) => SlotOf(w) # SlotOf(r)
    BY <2>1, <2>2, <2>3, <2>4
  <2>6. Upto(c, wrptr[c])' = Upto(c, w) + 1 /\ Upto(c, w) \in Int
    BY <2>1, <2>3, <2>4, <2>5 DEF Upto, r
  <2>7. Upto(c, snap[c])' = Upto(c, snap[c])
    BY <2>1 DEF Upto
  <2>8. Upto(c, snap[c]) \in Int
    BY <1>0, <2>3, Bounds DEF Upto, r, Ptrs
  <2>9. QueueKept(c)'
    <3>1. Executes(c)' <=> Executes(c)
      BY <2>1 DEF Executes
    <3> QED BY <2>1, <2>2, <2>3, <2>6, <2>7, <2>8, <3>1 DEF Kept, QueueKept, w
  <2>10. Executes(c) => Head0(c)' = Head0(c)
    <3> SUFFICES ASSUME Executes(c) PROVE Head0(c)' = Head0(c)
      OBVIOUS
    <3>1. 1 <= Upto(c, w)
      BY <2>6, <2>8 DEF Kept, QueueKept, w
    <3>2. SlotOf(wrptr[c]) # SlotOf(rdptr[c])
      BY <2>5, <3>1 DEF r, w
    <3>3. req' = [req EXCEPT ![c][SlotOf(wrptr[c])] = Head(left[c])]
      BY <1>1 DEF HostPush
    <3>4. req'[c][SlotOf(rdptr[c])] = req[c][SlotOf(rdptr[c])]
      BY <1>0, <3>2, <3>3
    <3> QED BY <2>1, <3>4 DEF Head0
  <2>11. HeadKept(c)'
    BY <2>1, <2>10 DEF Kept, HeadKept, Executes, Commands
  <2> QED BY <2>9, <2>10, <2>11 DEF Kept
<1>2. CASE HostTake(c)
  BY <1>2 DEF HostTake, Kept, QueueKept, HeadKept, Executes, Upto, Head0
<1> QED BY <1>1, <1>2 DEF Host

-----------------------------------------------------------------------------
(* What a step does to relays.                                             *)

\* Core c fills its slot at another core, and goes on to ring for it.
Posts(c) ==
  \E e \in HostCores \ {c}, j \in Job :
    /\ j.from = c /\ j.seq = relay_send_seq[c] + 1
    /\ relay_send_seq' = [relay_send_seq EXCEPT ![c] = @ + 1]
    /\ relay_req' = [relay_req EXCEPT ![e] = [relay_req[e] EXCEPT ![c] = j]]
    /\ pc[c] \in {"decode", "fanout"} /\ pc'[c] = "ring" /\ Egress(c)' = e
    /\ UNCHANGED <<relay_last_seq, relay_doorbell>>

\* Nothing of a relay changes, and what core c serves it serves on.
Quiet(c) ==
  /\ UNCHANGED <<relay_req, relay_last_seq, relay_send_seq, relay_doorbell>>
  /\ pc[c] \notin {"ring", "scan"} /\ pc'[c] \notin {"ring", "scan"}
  /\ Serves(c)' <=> Serves(c)
  /\ Serves(c) => job'[c] = job[c] /\ slot'[c] = slot[c]

LEMMA Effects ==
  ASSUME Types, NEW c \in Cores, Kept(c), Step(c)
  PROVE  Posts(c) \/ Ring(c) \/ PollDoorbell(c) \/ Scan(c) \/ Reply(c) \/ Quiet(c)
<1> USE DEF hostVars, queueVars, relayVars, linkVars, coreVars, Go
<1>0. /\ pc \in [Cores -> Places] /\ job \in [Cores -> Job]
      /\ pc[c] \in {"grid", "fanout", "relay wait"} => Head0(c).op = "BROADCAST"
  BY DEF Types, TypeOK, MoreTypes, Kept, HeadKept
<1>1. ASSUME NEW e \in HostCores, e # c, NEW b \in Slots, PutSlot(c, e, Head0(c), b),
             pc[c] \in {"decode", "fanout"}, Egress(c)' = e,
             UNCHANGED <<relay_last_seq, relay_doorbell>>
      PROVE  Posts(c)
  <2> DEFINE j == [from |-> c, op |-> Head0(c).op, data |-> Head0(c).data, block |-> b,
                   seq |-> relay_send_seq[c] + 1]
  <2>1. relay_send_seq[c] \in Nat
    BY DEF Types, TypeOK
  <2>2. j \in Job /\ j.from = c /\ j.seq = relay_send_seq[c] + 1
    BY <2>1, HeadTypes DEF Job
  <2>3. relay_req' = [relay_req EXCEPT ![e] = [relay_req[e] EXCEPT ![c] = j]]
    BY <1>1 DEF PutSlot, NocPut
  <2>4. pc'[c] = "ring" /\ relay_send_seq' = [relay_send_seq EXCEPT ![c] = @ + 1]
    BY <1>0, <1>1 DEF PutSlot
  <2> HIDE DEF j
  <2> QED BY <1>1, <2>2, <2>3, <2>4 DEF Posts
<1>2. CASE PostRelay(c)
  <2> DEFINE e == Route(Head0(c).tc)
  <2>1. e \in HostCores /\ e # c
    BY <1>2, RouteGoes DEF PostRelay
  <2>2. Egress(c)' = e
    BY <1>2 DEF PostRelay, Egress, Head0
  <2> QED BY <1>1, <1>2, <2>1, <2>2, HeadTypes DEF PostRelay
<1>3. CASE Fanout(c)
  <2>0. pc[c] = "fanout" /\ Head0(c).op = "BROADCAST"
    BY <1>0, <1>3 DEF Fanout
  <2>1. CASE CountWrite(c) /\ UNCHANGED <<job, part, relay_req, relay_send_seq>>
    <3>1. pc'[c] \in {"inbox", "decode"}
      BY <1>0, <2>1 DEF CountWrite, Advance
    <3> QED BY <1>3, <2>0, <2>1, <3>1 DEF Fanout, Quiet, Serves, Hops
  <2> DEFINE j == [from |-> c, op |-> "BROADCAST", data |-> Head0(c).data, block |-> 0, seq |-> 0]
  <2>2. CASE StartHop(c, j) /\ UNCHANGED <<queueVars, relay_req, relay_send_seq>>
    <3>1. job'[c].from = c /\ pc'[c] \in {"stage", "ship", "header"}
      BY <1>0, <2>2 DEF StartHop, FirstStep
    <3> QED BY <1>3, <2>0, <2>2, <3>1 DEF Fanout, Quiet, Serves, Hops
  <2>3. CASE /\ remote[c] <= Len(Bcast) /\ Peer(c) # Bcast[remote[c]]
             /\ PutSlot(c, Route(Bcast[remote[c]]), Head0(c), 0) /\ UNCHANGED <<queueVars, job, part>>
    <3> DEFINE e == Route(Bcast[remote[c]])
    <3>1. remote[c] \in DOMAIN Bcast
      <4>1. remote[c] \in Nat \ {0} /\ Bcast \in Seq({Peer(d) : d \in HostCores} \ MmioChips)
        BY EthAssumption DEF Types, MoreTypes, Forwards
      <4> QED BY <2>3, <4>1
    <3>2. e \in HostCores /\ e # c
      BY <2>3, <3>1, BcastRoutable, RouteGoes
    <3>3. Egress(c)' = e
      BY <1>3, <2>0, <2>3 DEF Fanout, Egress, Head0
    <3> QED BY <1>1, <1>3, <2>0, <2>3, <3>2, <3>3, Bounds DEF Fanout
  <2> QED BY <1>3, <2>1, <2>2, <2>3 DEF Fanout
<1>4. CASE PollQueue(c)
  BY <1>0, <1>4 DEF PollQueue, Quiet, Serves, Hops
<1>5. CASE Direct(c)
  <2> DEFINE j == [from |-> c, op |-> Head0(c).op, data |-> Head0(c).data,
                   block |-> SlotOf(rdptr[c]), seq |-> 0]
  <2>1. job'[c].from = c /\ pc'[c] \in {"stage", "ship", "header"} /\ pc[c] = "decode"
    BY <1>0, <1>5 DEF Direct, StartHop, FirstStep
  <2> QED BY <1>5, <2>1 DEF Direct, Quiet, Serves, Hops
<1>6. CASE Unroutable(c)
  BY <1>6 DEF Unroutable, Quiet, Serves
<1>7. CASE Collect(c)
  <2>1. Advance(c)
    BY <1>7, CompleteTypes DEF Collect
  <2>2. pc'[c] \in {"inbox", "decode"}
    BY <1>0, <2>1 DEF Advance
  <2> QED BY <1>7, <2>2 DEF Collect, Quiet, Serves, Hops
<1>8. CASE StartBroadcast(c) \/ Grid(c) \/ RelayWait(c)
  <2>1. pc[c] \in {"decode", "grid", "relay wait"} /\ pc'[c] \in {"grid", "fanout"}
    BY <1>0, <1>8 DEF StartBroadcast, Grid, RelayWait
  <2> QED BY <1>8, <2>1 DEF StartBroadcast, Grid, RelayWait, Quiet, Serves, Hops
<1>9. CASE Stage(c) \/ Ship(c) \/ Header(c) \/ RelayedReply(c) \/ Deposit(c)
  BY <1>0, <1>9 DEF Stage, Ship, Header, RelayedReply, Replied, Deposit, Quiet, Serves, Hops
<1>10. CASE NextChunk(c)
  <2>1. pc'[c] \in {"stage", "ship", "header"} /\ pc[c] = "hop"
    BY <1>0, <1>10 DEF NextChunk, Replied, FirstStep
  <2> QED BY <1>10, <2>1 DEF NextChunk, Quiet, Serves, Hops
<1>11. CASE OwnReply(c)
  <2>0. pc[c] = "hop" /\ job[c].from = c
    BY <1>11 DEF OwnReply, Replied
  <2>1. pc'[c] \in {"inbox", "decode", "fanout"}
    <3>1. CASE job[c].op = "BROADCAST"
      BY <1>0, <1>11, <3>1 DEF OwnReply
    <3>2. CASE job[c].op # "BROADCAST"
      <4>1. Advance(c)
        BY <1>11, <3>2, CompleteTypes DEF OwnReply
      <4> QED BY <1>0, <4>1 DEF Advance
    <3> QED BY <3>1, <3>2
  <2> QED BY <1>11, <2>0, <2>1 DEF OwnReply, Quiet, Serves, Hops
<1>12. CASE Receive(c) \/ SendBack(c) \/ Ack(c)
  <2>1. pc[c] \in {"inbox", "send back", "ack"} /\ pc'[c] \in {"doorbell", "ack", "send back"}
    BY <1>0, <1>12 DEF Receive, SendBack, Ack
  <2> QED BY <1>12, <2>1 DEF Receive, SendBack, Ack, Quiet, Serves, Hops
<1> QED BY <1>2, <1>3, <1>4, <1>5, <1>6, <1>7, <1>8, <1>9, <1>10, <1>11, <1>12 DEF Step

LEMMA OthersKept ==
  ASSUME NEW d \in Cores, UNCHANGED OwnState(d)
  PROVE  /\ pc'[d] = pc[d] /\ job'[d] = job[d] /\ slot'[d] = slot[d]
         /\ relay_last_seq'[d] = relay_last_seq[d] /\ relay_send_seq'[d] = relay_send_seq[d]
         /\ Kept(d) => Kept(d)'
         /\ Egress(d)' = Egress(d)
         /\ Serves(d)' <=> Serves(d)
BY DEF OwnState, Kept, QueueKept, HeadKept, Upto, Executes, Head0, Egress, Serves

\* Where the others are, for the core that a slot belongs to.
LEMMA OthersThere ==
  ASSUME NEW c \in Cores, Untouched(c), NEW d \in Cores, d # c
  PROVE  /\ pc'[d] = pc[d] /\ job'[d] = job[d] /\ slot'[d] = slot[d]
         /\ relay_last_seq'[d] = relay_last_seq[d] /\ relay_send_seq'[d] = relay_send_seq[d]
         /\ Kept(d) => Kept(d)'
         /\ Egress(d)' = Egress(d)
         /\ Serves(d)' <=> Serves(d)
         /\ relay_doorbell[d] => relay_doorbell'[d]
         /\ \A e \in Cores : relay_req'[e][d] = relay_req[e][d]
<1>1. UNCHANGED OwnState(d)
  BY DEF Untouched
<1>2. /\ relay_doorbell[d] => relay_doorbell'[d]
      /\ \A e \in Cores : relay_req'[e][d] = relay_req[e][d]
  BY DEF Untouched
<1> QED BY <1>1, <1>2, OthersKept

-----------------------------------------------------------------------------
(* Relays, effect by effect.                                               *)

RelayKept ==
  /\ \A e \in Cores : ServeKept(e)
  /\ \A e, c \in Cores : SlotKept(e, c)
  /\ \A e \in HostCores, i \in DOMAIN Order : Heard(e, i)

LEMMA OrderCores ==
  /\ DOMAIN Order \subseteq Nat \ {0} /\ DOMAIN Order = 1 .. Len(Order)
  /\ \A i \in DOMAIN Order : Order[i] \in Cores
  /\ \A i, j \in DOMAIN Order : Order[i] = Order[j] => i = j
  /\ \A e \in HostCores : Siblings(e) = Order
BY EthAssumption DEF Routes, Siblings

LEMMA QuietKeeps ==
  ASSUME Types, RelayKept, NEW c \in Cores, Untouched(c), Quiet(c)
  PROVE  RelayKept'
<1>1. \A e \in Cores : ServeKept(e)'
  <2> SUFFICES ASSUME NEW e \in Cores PROVE ServeKept(e)'
    OBVIOUS
  <2>1. (Serves(e)' <=> Serves(e)) /\ (Serves(e) => job'[e] = job[e] /\ slot'[e] = slot[e])
    BY OthersThere DEF Quiet
  <2> QED BY <2>1 DEF RelayKept, ServeKept, Quiet
<1>2. \A e, d \in Cores : SlotKept(e, d)'
  BY DEF RelayKept, SlotKept, Quiet
<1>3. ASSUME NEW e \in HostCores, NEW i \in DOMAIN Order PROVE Heard(e, i)'
  <2>1. e \in Cores /\ Order[i] \in Cores /\ Heard(e, i)
    BY Bounds, OrderCores DEF RelayKept
  <2>2. /\ Serves(e)' <=> Serves(e)
        /\ Serves(e) => job'[e] = job[e] /\ slot'[e] = slot[e]
        /\ pc[e] = "scan" => pc'[e] = "scan" /\ slot'[e] = slot[e]
    BY <2>1, OthersThere DEF Quiet
  <2>3. pc[Order[i]] = "ring" => pc'[Order[i]] = "ring" /\ Egress(Order[i])' = Egress(Order[i])
    BY <2>1, OthersThere DEF Quiet
  <2> QED BY <2>1, <2>2, <2>3 DEF Heard, Quiet
<1> QED BY <1>1, <1>2, <1>3 DEF RelayKept

\* The doorbell lands after the slot, so whoever is rung for is heard.
LEMMA RingKeeps ==
  ASSUME Types, RelayKept, NEW c \in Cores, Untouched(c), Ring(c)
  PROVE  RelayKept'
<1> USE DEF queueVars, relayVars, linkVars, coreVars
<1>0. /\ pc \in [Cores -> Places] /\ relay_doorbell \in [Cores -> BOOLEAN]
  BY DEF Types, TypeOK
<1>1. /\ pc[c] = "ring" /\ pc'[c] \notin Hops \cup {"scan"}
      /\ relay_doorbell' = [relay_doorbell EXCEPT ![Egress(c)] = TRUE]
      /\ UNCHANGED <<relay_req, relay_last_seq, relay_send_seq, job, slot>>
  BY <1>0 DEF Ring, Go, NocPut, Egress, Hops
<1>2. \A e \in Cores : Serves(e)' <=> Serves(e)
  BY <1>1, OthersThere DEF Serves, Hops
<1>3. \A e \in Cores : ServeKept(e)'
  BY <1>1, <1>2 DEF RelayKept, ServeKept
<1>4. \A e, d \in Cores : SlotKept(e, d)'
  BY <1>1 DEF RelayKept, SlotKept
<1>5. ASSUME NEW e \in HostCores, NEW i \in DOMAIN Order PROVE Heard(e, i)'
  <2>1. e \in Cores /\ Order[i] \in Cores /\ Heard(e, i)
    BY Bounds, OrderCores DEF RelayKept
  <2>2. relay_doorbell[e] => relay_doorbell'[e]
    BY <1>0, <1>1, <2>1
  <2>3. pc[e] = "scan" => pc'[e] = "scan"
    BY <1>1, <2>1 DEF Untouched, OwnState
  <2>4. CASE Order[i] = c
    <3>1. Egress(c) = e => relay_doorbell'[e]
      BY <1>0, <1>1, <2>1
    <3> QED BY <1>1, <1>2, <2>1, <2>2, <2>3, <2>4, <3>1 DEF Heard
  <2>5. CASE Order[i] # c
    <3>1. pc'[Order[i]] = pc[Order[i]] /\ Egress(Order[i])' = Egress(Order[i])
      BY <2>1, <2>5, OthersThere
    <3> QED BY <1>1, <1>2, <2>1, <2>2, <2>3, <3>1 DEF Heard
  <2> QED BY <2>4, <2>5
<1> QED BY <1>3, <1>4, <1>5 DEF RelayKept

\* The scan that follows the doorbell begins at the first slot.
LEMMA DoorbellKeeps ==
  ASSUME Types, RelayKept, NEW c \in Cores, Untouched(c), PollDoorbell(c)
  PROVE  RelayKept'
<1> USE DEF queueVars, relayVars, linkVars, coreVars
<1>0. /\ pc \in [Cores -> Places] /\ relay_doorbell \in [Cores -> BOOLEAN]
      /\ slot \in [Cores -> Nat \ {0}]
  BY DEF Types, TypeOK, MoreTypes
<1>1. /\ pc[c] = "doorbell" /\ pc'[c] = (IF relay_doorbell[c] THEN "scan" ELSE "queue")
      /\ slot'[c] = 1 /\ relay_doorbell' = [relay_doorbell EXCEPT ![c] = FALSE]
      /\ UNCHANGED <<relay_req, relay_last_seq, relay_send_seq, job>>
  BY <1>0 DEF PollDoorbell, Go
<1>2. \A e \in Cores : (Serves(e)' <=> Serves(e)) /\ (Serves(e) => slot'[e] = slot[e])
  BY <1>1, OthersThere DEF Serves, Hops
<1>3. \A e \in Cores : ServeKept(e)'
  BY <1>1, <1>2 DEF RelayKept, ServeKept
<1>4. \A e, d \in Cores : SlotKept(e, d)'
  BY <1>1 DEF RelayKept, SlotKept
<1>5. ASSUME NEW e \in HostCores, NEW i \in DOMAIN Order PROVE Heard(e, i)'
  <2>1. e \in Cores /\ Order[i] \in Cores /\ Heard(e, i) /\ 1 <= i
    BY Bounds, OrderCores DEF RelayKept
  <2>2. pc[Order[i]] = "ring" => pc'[Order[i]] = "ring" /\ Egress(Order[i])' = Egress(Order[i])
    BY <1>1, <2>1, OthersThere
  <2>3. CASE e = c
    <3>1. relay_doorbell[c] => pc'[e] = "scan" /\ slot'[e] <= i
      BY <1>1, <2>1, <2>3
    <3>2. ~Serves(c) /\ pc[c] # "scan"
      BY <1>1 DEF Serves, Hops
    <3> QED BY <1>1, <2>1, <2>2, <2>3, <3>1, <3>2 DEF Heard
  <2>4. CASE e # c
    <3>1. pc'[e] = pc[e] /\ slot'[e] = slot[e] /\ relay_doorbell'[e] = relay_doorbell[e]
      BY <1>0, <1>1, <2>1, <2>4 DEF Untouched, OwnState
    <3> QED BY <1>1, <1>2, <2>1, <2>2, <3>1 DEF Heard
  <2> QED BY <2>3, <2>4
<1> QED BY <1>3, <1>4, <1>5 DEF RelayKept

\* The scan goes past a slot only when it has nothing new, and takes what it
\* finds new.
LEMMA ScanKeeps ==
  ASSUME Types, RelayKept, NEW c \in Cores, Untouched(c), Scan(c)
  PROVE  RelayKept'
<1> USE DEF queueVars, relayVars, linkVars, coreVars
<1>0. /\ pc \in [Cores -> Places] /\ slot \in [Cores -> Nat \ {0}] /\ job \in [Cores -> Job]
  BY DEF Types, TypeOK, MoreTypes
<1> DEFINE s == slot[c]
           f == Siblings(c)[s]
           new == relay_req[c][f]
<1>1. /\ pc[c] = "scan" /\ s \in Nat \ {0} /\ ~Serves(c)
      /\ UNCHANGED <<relay_req, relay_last_seq, relay_send_seq, relay_doorbell>>
  BY <1>0 DEF Scan, Serves, Hops
<1>2. \/ pc'[c] = "queue" /\ s > Len(Siblings(c))
      \/ /\ pc'[c] = "scan" /\ s <= Len(Siblings(c)) /\ new.seq = relay_last_seq[c][f]
         /\ slot'[c] = s + 1
      \/ /\ pc'[c] \in {"stage", "ship", "header"} /\ job'[c] = new /\ slot'[c] = s
         /\ s <= Len(Siblings(c)) /\ new.seq # relay_last_seq[c][f]
  BY <1>0 DEF Scan, Go, StartHop, FirstStep
<1>3. s <= Len(Siblings(c)) => s \in DOMAIN Siblings(c) /\ f \in Cores
  BY <1>1, SiblingCores
<1>4. f \in Cores => /\ relay_last_seq[c][f] \in Nat /\ new.seq \in Nat
                     /\ relay_last_seq[c][f] <= new.seq
                     /\ new.seq # 0 => new.from = f
  <2>1. f \in Cores => relay_req[c][f] \in Job /\ relay_last_seq[c][f] \in Nat /\ SlotKept(c, f)
    BY DEF RelayKept, Types, MoreTypes
  <2> QED BY <2>1 DEF SlotKept, Job
<1>5. \A e \in Cores : ServeKept(e)'
  <2> SUFFICES ASSUME NEW e \in Cores, Serves(e)' PROVE ServeKept(e)'
    BY DEF ServeKept
  <2>1. CASE e = c
    <3>1. /\ job'[c] = new /\ slot'[c] = s /\ new.seq # relay_last_seq[c][f]
          /\ s \in DOMAIN Siblings(c) /\ f \in Cores
      BY <1>2, <1>3, <2>1 DEF Serves, Hops
    <3>2. new.from = f /\ relay_last_seq[c][f] < new.seq
      BY <1>4, <3>1
    <3> HIDE DEF f, new
    <3>3. /\ job'[c].from = f /\ job'[c].seq = new.seq /\ f = Siblings(c)[slot'[c]]
          /\ relay_req'[c][f].seq = new.seq /\ relay_last_seq'[c][f] < new.seq
          /\ slot'[c] \in DOMAIN Siblings(c) /\ new.seq \in Nat
      BY <1>1, <1>4, <3>1, <3>2 DEF f, new
    <3> QED BY <2>1, <3>3 DEF ServeKept
  <2>2. CASE e # c
    BY <1>1, <2>2, OthersThere DEF RelayKept, ServeKept
  <2> QED BY <2>1, <2>2
<1>6. \A e, d \in Cores : SlotKept(e, d)'
  BY <1>1 DEF RelayKept, SlotKept
<1>7. ASSUME NEW e \in HostCores, NEW i \in DOMAIN Order PROVE Heard(e, i)'
  <2>1. e \in Cores /\ Order[i] \in Cores /\ Heard(e, i) /\ i \in Nat /\ i <= Len(Order)
    BY Bounds, OrderCores DEF RelayKept
  <2>2. pc[Order[i]] = "ring" => pc'[Order[i]] = "ring" /\ Egress(Order[i])' = Egress(Order[i])
    BY <1>1, <2>1, OthersThere
  <2>3. CASE e = c
    <3>0. Siblings(c) = Order
      BY <2>3, OrderCores
    <3> SUFFICES ASSUME relay_req[c][Order[i]].seq # relay_last_seq[c][Order[i]], s <= i
                 PROVE  \/ Serves(c)' /\ slot'[c] < i
                        \/ Serves(c)' /\ slot'[c] = i /\ relay_req'[c][Order[i]].seq = job'[c].seq
                        \/ pc'[c] = "scan" /\ slot'[c] <= i
      BY <1>1, <2>1, <2>2, <2>3 DEF Heard
    <3>1. CASE pc'[c] = "scan"
      <4>1. s # i /\ slot'[c] = s + 1
        BY <1>2, <3>0, <3>1
      <4> QED BY <1>1, <2>1, <3>1, <4>1
    <3>2. CASE pc'[c] # "scan"
      <4>1. pc'[c] \in {"stage", "ship", "header"} /\ job'[c] = new /\ slot'[c] = s
        BY <1>1, <1>2, <2>1, <3>0, <3>2
      <4>2. Serves(c)'
        <5>1. /\ s \in DOMAIN Siblings(c) /\ f \in Cores /\ new.seq # relay_last_seq[c][f]
          BY <1>1, <1>2, <1>3, <2>1, <3>0, <3>2
        <5>2. SlotKept(c, f)
          BY <5>1 DEF RelayKept
        <5>3. new.from # c
          BY <5>2 DEF SlotKept
        <5> HIDE DEF new, f
        <5> QED BY <4>1, <5>3 DEF Serves, Hops
      <4>3. s = i => relay_req'[c][Order[i]].seq = job'[c].seq
        BY <1>1, <3>0, <4>1
      <4>4. slot'[c] < i \/ (slot'[c] = i /\ s = i)
        <5>1. s \in Nat /\ i \in Nat /\ slot'[c] = s /\ s <= i
          BY <1>1, <2>1, <4>1
        <5> QED BY <5>1
      <4> QED BY <4>2, <4>3, <4>4
    <3> QED BY <3>1, <3>2
  <2>4. CASE e # c
    <3>1. pc'[e] = pc[e] /\ slot'[e] = slot[e] /\ job'[e] = job[e] /\ (Serves(e)' <=> Serves(e))
      BY <2>1, <2>4, OthersThere
    <3> QED BY <1>1, <2>1, <2>2, <3>1 DEF Heard
  <2> QED BY <2>3, <2>4
<1> QED BY <1>5, <1>6, <1>7 DEF RelayKept

\* What was served is what was taken, not what the slot may hold by now: a
\* newer request is still unserved.
LEMMA ReplyKeeps ==
  ASSUME Types, RelayKept, NEW c \in Cores, Kept(c), Untouched(c), Reply(c)
  PROVE  RelayKept'
<1> USE DEF queueVars, relayVars, linkVars, coreVars
<1>0. /\ pc \in [Cores -> Places] /\ slot \in [Cores -> Nat \ {0}]
      /\ relay_last_seq \in [Cores -> [Cores -> Nat]] /\ job[c].seq \in Nat
  BY DEF Types, TypeOK, MoreTypes, Job
<1> DEFINE s == slot[c]  f == job[c].from  q == job[c].seq
<1>1. /\ pc[c] = "reply" /\ s \in Nat \ {0} /\ pc'[c] = "scan" /\ slot'[c] = s + 1
      /\ UNCHANGED <<relay_req, relay_send_seq, relay_doorbell>>
      /\ relay_last_seq' = [relay_last_seq EXCEPT ![c][f] = q]
  BY <1>0 DEF Reply, Go
<1>2. /\ Serves(c) /\ ~Serves(c)' /\ f # c
      /\ s \in DOMAIN Siblings(c) /\ f = Siblings(c)[s]
      /\ relay_last_seq[c][f] < q /\ q <= relay_req[c][f].seq
  <2>1. f # c /\ Serves(c) /\ ~Serves(c)'
    BY <1>1 DEF Kept, HeadKept, Serves, Hops
  <2>2. ServeKept(c)
    BY DEF RelayKept
  <2> QED BY <2>1, <2>2 DEF ServeKept
<1>3. f \in Cores
  BY <1>2, SiblingCores
<1>4. /\ relay_last_seq'[c][f] = q
      /\ \A e, d \in Cores : e # c \/ d # f => relay_last_seq'[e][d] = relay_last_seq[e][d]
  BY <1>0, <1>1, <1>3
<1> HIDE DEF s, f, q
<1>5. \A e \in Cores : ServeKept(e)'
  BY <1>1, <1>2, OthersThere DEF RelayKept, ServeKept
<1>6. \A e, d \in Cores : SlotKept(e, d)'
  <2> SUFFICES ASSUME NEW e \in Cores, NEW d \in Cores PROVE SlotKept(e, d)'
    OBVIOUS
  <2>1. SlotKept(e, d) /\ relay_req' = relay_req /\ relay_send_seq' = relay_send_seq
    BY <1>1 DEF RelayKept
  <2> QED BY <1>2, <1>4, <2>1 DEF SlotKept
<1>7. ASSUME NEW e \in HostCores, NEW i \in DOMAIN Order PROVE Heard(e, i)'
  <2>1. e \in Cores /\ Order[i] \in Cores /\ Heard(e, i) /\ i \in Nat
    BY Bounds, OrderCores DEF RelayKept
  <2>2. pc[Order[i]] = "ring" => pc'[Order[i]] = "ring" /\ Egress(Order[i])' = Egress(Order[i])
    BY <1>1, <2>1, OthersThere
  <2>3. CASE e = c
    <3>0. Siblings(c) = Order
      BY <2>3, OrderCores
    <3>1. CASE Order[i] = f
      <4>1. i = s
        BY <1>2, <3>0, <3>1, OrderCores
      <4>2. relay_req[c][f].seq \in Nat /\ relay_last_seq[c][f] \in Nat /\ q \in Nat
        BY <1>0, <1>3 DEF q, Types, MoreTypes, Job
      <4>3. relay_req[c][f].seq # q => relay_req[c][f].seq # relay_last_seq[c][f]
        BY <1>2, <4>2
      <4> QED BY <1>1, <1>2, <1>4, <2>1, <2>2, <2>3, <3>1, <4>1, <4>3 DEF Heard, s, q
    <3>2. CASE Order[i] # f
      <4>1. i # s
        BY <1>2, <3>0, <3>2
      <4> QED BY <1>1, <1>2, <1>4, <2>1, <2>2, <2>3, <3>2, <4>1 DEF Heard, s
    <3> QED BY <3>1, <3>2
  <2>4. CASE e # c
    <3>1. pc'[e] = pc[e] /\ slot'[e] = slot[e] /\ job'[e] = job[e] /\ (Serves(e)' <=> Serves(e))
      BY <2>1, <2>4, OthersThere
    <3> QED BY <1>1, <1>4, <2>1, <2>2, <2>4, <3>1 DEF Heard
  <2> QED BY <2>3, <2>4
<1> QED BY <1>5, <1>6, <1>7 DEF RelayKept

\* A post is newer than everything in its slot and everything served from it.
LEMMA PostKeeps ==
  ASSUME Types, RelayKept, NEW c \in Cores, Untouched(c), Posts(c)
  PROVE  RelayKept'
<1>1. PICK e0 \in HostCores \ {c}, j \in Job :
        /\ j.from = c /\ j.seq = relay_send_seq[c] + 1
        /\ relay_send_seq' = [relay_send_seq EXCEPT ![c] = @ + 1]
        /\ relay_req' = [relay_req EXCEPT ![e0] = [relay_req[e0] EXCEPT ![c] = j]]
        /\ pc[c] \in {"decode", "fanout"} /\ pc'[c] = "ring" /\ Egress(c)' = e0
        /\ UNCHANGED <<relay_last_seq, relay_doorbell>>
  BY DEF Posts
<1>0. /\ relay_send_seq \in [Cores -> Nat] /\ relay_req \in [Cores -> [Cores -> Job]]
      /\ relay_last_seq \in [Cores -> [Cores -> Nat]] /\ e0 \in Cores
  BY Bounds DEF Types, TypeOK, MoreTypes
<1>2. /\ relay_req'[e0][c] = j /\ relay_send_seq'[c] = relay_send_seq[c] + 1
      /\ \A d \in Cores : d # c => relay_send_seq'[d] = relay_send_seq[d]
      /\ \A e, d \in Cores : e # e0 \/ d # c => relay_req'[e][d] = relay_req[e][d]
  BY <1>0, <1>1
<1>3. ~Serves(c) /\ ~Serves(c)' /\ pc[c] \notin {"ring", "scan"}
  BY <1>1 DEF Serves, Hops
<1>4. ASSUME NEW e \in Cores, NEW d \in Cores
      PROVE  /\ SlotKept(e, d)' /\ relay_req[e][d].seq \in Nat
             /\ relay_req[e][d].seq <= relay_req'[e][d].seq /\ relay_req'[e][d].seq \in Nat
  <2>1. /\ SlotKept(e, d) /\ relay_req[e][d].seq \in Nat /\ relay_last_seq[e][d] \in Nat
        /\ relay_send_seq[d] \in Nat
    BY <1>0 DEF RelayKept, Job
  <2>2. CASE e = e0 /\ d = c
    BY <1>1, <1>2, <2>1, <2>2 DEF SlotKept
  <2>3. CASE e # e0 \/ d # c
    <3>1. relay_req'[e][d] = relay_req[e][d] /\ relay_last_seq' = relay_last_seq
      BY <1>1, <1>2, <2>3
    <3>2. relay_send_seq[d] <= relay_send_seq'[d] /\ relay_send_seq'[d] \in Nat
      BY <1>2, <2>1
    <3> QED BY <2>1, <3>1, <3>2 DEF SlotKept
  <2> QED BY <2>2, <2>3
<1>5. ASSUME NEW e \in Cores, Serves(e)' PROVE ServeKept(e)'
  <2>1. e # c /\ Serves(e) /\ job'[e] = job[e] /\ slot'[e] = slot[e]
    BY <1>3, <1>5, OthersThere
  <2>2. /\ slot[e] \in DOMAIN Siblings(e) /\ job[e].from = Siblings(e)[slot[e]]
        /\ relay_last_seq[e][job[e].from] < job[e].seq
        /\ job[e].seq <= relay_req[e][job[e].from].seq
    BY <2>1 DEF RelayKept, ServeKept
  <2>3. job[e].from \in Cores /\ job[e].seq \in Nat
    BY <2>2, SiblingCores DEF Types, MoreTypes, Job
  <2> DEFINE f == job[e].from
  <2>4. relay_req[e][f].seq <= relay_req'[e][f].seq
        /\ relay_req[e][f].seq \in Nat /\ relay_req'[e][f].seq \in Nat
    BY <1>4, <2>3
  <2> QED BY <1>1, <2>1, <2>2, <2>3, <2>4 DEF ServeKept
<1>6. ASSUME NEW e \in HostCores, NEW i \in DOMAIN Order PROVE Heard(e, i)'
  <2>1. e \in Cores /\ Order[i] \in Cores /\ Heard(e, i)
    BY Bounds, OrderCores DEF RelayKept
  <2>2. CASE e = e0 /\ Order[i] = c
    BY <1>1, <2>2 DEF Heard
  <2>3. CASE e # e0 \/ Order[i] # c
    <3>1. relay_req'[e][Order[i]] = relay_req[e][Order[i]]
      BY <1>2, <2>1, <2>3
    <3>2. pc[Order[i]] = "ring" => pc'[Order[i]] = "ring" /\ Egress(Order[i])' = Egress(Order[i])
      BY <1>3, <2>1, OthersThere
    <3>3. /\ Serves(e)' <=> Serves(e)
          /\ Serves(e) \/ pc[e] = "scan" => pc'[e] = pc[e] /\ slot'[e] = slot[e] /\ job'[e] = job[e]
      BY <1>3, <2>1, OthersThere
    <3> QED BY <1>1, <2>1, <3>1, <3>2, <3>3 DEF Heard
  <2> QED BY <2>2, <2>3
<1> QED BY <1>4, <1>5, <1>6 DEF RelayKept, ServeKept

-----------------------------------------------------------------------------
(* No post is lost.                                                        *)

LEMMA HostKeeps ==
  ASSUME Types, \A d \in Cores : Kept(d), RelayKept, NEW c \in HostCores, Host(c)
  PROVE  (\A d \in Cores : Kept(d)') /\ RelayKept'
<1> USE DEF hostVars, queueVars, relayVars, linkVars, coreVars
<1>0. /\ c \in Cores /\ wrptr \in [Cores -> Ptrs] /\ req \in [Cores -> [Slots -> Command]]
  BY Bounds DEF Types, TypeOK
<1>1. /\ UNCHANGED <<pc, job, slot, snap, remote, rdptr, relay_req, relay_last_seq,
                     relay_send_seq, relay_doorbell>>
      /\ \A d \in Cores \ {c} : req'[d] = req[d] /\ wrptr'[d] = wrptr[d]
  BY <1>0 DEF Host, HostPush, HostTake
<1>2. ASSUME NEW d \in Cores, d # c PROVE Kept(d)' /\ Head0(d)' = Head0(d)
  BY <1>1, <1>2 DEF Kept, QueueKept, HeadKept, Upto, Executes, Head0
<1>3. Kept(c)' /\ (Executes(c) => Head0(c)' = Head0(c))
  BY <1>0, HostStep
<1>4. \A d \in Cores : pc[d] = "ring" => Egress(d)' = Egress(d)
  BY <1>1, <1>2, <1>3 DEF Egress, Executes, Commands
<1>5. \A e \in Cores : ServeKept(e)'
  BY <1>1 DEF RelayKept, ServeKept, Serves
<1>6. \A e, d \in Cores : SlotKept(e, d)'
  BY <1>1 DEF RelayKept, SlotKept
<1>7. ASSUME NEW e \in HostCores, NEW i \in DOMAIN Order PROVE Heard(e, i)'
  <2>1. e \in Cores /\ Order[i] \in Cores /\ Heard(e, i)
    BY Bounds, OrderCores DEF RelayKept
  <2> QED BY <1>1, <1>4, <2>1 DEF Heard, Serves
<1> QED BY <1>2, <1>3, <1>5, <1>6, <1>7 DEF RelayKept

LEMMA CoreKeeps ==
  ASSUME Types, \A d \in Cores : Kept(d), RelayKept, NEW c \in Cores, Step(c)
  PROVE  (\A d \in Cores : Kept(d)') /\ RelayKept'
<1>1. Untouched(c)
  BY OthersUntouched
<1>2. \A d \in Cores : Kept(d)'
  <2>1. Kept(c)'
    BY OwnStep DEF RelayKept
  <2> QED BY <1>1, <2>1, OthersThere
<1>3. Posts(c) \/ Ring(c) \/ PollDoorbell(c) \/ Scan(c) \/ Reply(c) \/ Quiet(c)
  BY Effects
<1> QED BY <1>1, <1>2, <1>3, PostKeeps, RingKeeps, DoorbellKeeps, ScanKeeps, ReplyKeeps,
           QuietKeeps

LEMMA InitKept ==
  ASSUME Init
  PROVE  (\A d \in Cores : Kept(d)) /\ RelayKept
<1>1. /\ \A c \in Cores : wrptr[c] = Start /\ rdptr[c] = Start /\ pc[c] = "queue"
      /\ relay_req = [c \in Cores |-> [i \in Cores |-> NoJob]]
      /\ relay_last_seq = [c \in Cores |-> [i \in Cores |-> 0]]
      /\ relay_send_seq = [c \in Cores |-> 0]
  BY DEF Init
<1>2. Start \in Nat /\ BufSize \in Nat /\ NoCore \notin Cores
  BY Bounds DEF Ptrs
<1>3. ASSUME NEW c \in Cores PROVE Kept(c) /\ ServeKept(c)
  <2>1. pc[c] = "queue" /\ rdptr[c] = Start /\ wrptr[c] = Start
    BY <1>1
  <2>2. ~Executes(c) /\ ~Serves(c) /\ HeadKept(c)
    BY <2>1 DEF Executes, Serves, HeadKept, Commands, Hops
  <2>3. Upto(c, wrptr[c]) <= BufSize
    BY <1>2, <2>1, Bounds DEF Upto
  <2> QED BY <2>2, <2>3 DEF Kept, QueueKept, ServeKept
<1>4. ASSUME NEW e \in Cores, NEW c \in Cores
      PROVE  /\ relay_req[e][c] = NoJob /\ relay_last_seq[e][c] = 0 /\ relay_send_seq[c] = 0
  BY <1>1
<1>5. NoJob.from = NoCore /\ NoJob.seq = 0
  BY DEF NoJob
<1>6. \A e, c \in Cores : SlotKept(e, c)
  BY <1>2, <1>4, <1>5 DEF SlotKept
<1>7. \A e \in HostCores, i \in DOMAIN Order : Heard(e, i)
  BY <1>4, <1>5, OrderCores, Bounds DEF Heard
<1> QED BY <1>3, <1>6, <1>7 DEF RelayKept

LEMMA RelayInvParts == RelayInv <=> Types /\ (\A d \in Cores : Kept(d)) /\ RelayKept
BY DEF RelayInv, Types, Kept, RelayKept

LEMMA RelayInvKept == RelayInv /\ [Next]_vars => RelayInv'
<1> SUFFICES ASSUME RelayInv, [Next]_vars PROVE RelayInv'
  OBVIOUS
<1>0. Types /\ (\A d \in Cores : Kept(d)) /\ RelayKept
  BY RelayInvParts
<1>1. CASE UNCHANGED vars
  <2> USE <1>1 DEF vars, hostVars, queueVars, relayVars, linkVars, coreVars
  <2>1. Types'
    BY <1>0 DEF Types, TypeOK, MoreTypes
  <2>2. ASSUME NEW d \in Cores PROVE Kept(d)' /\ (Serves(d)' <=> Serves(d)) /\ Egress(d)' = Egress(d)
    BY <1>0, OthersKept DEF OwnState
  <2>3. RelayKept'
    <3>1. \A e \in Cores : ServeKept(e)'
      BY <1>0, <2>2 DEF RelayKept, ServeKept
    <3>2. \A e, c \in Cores : SlotKept(e, c)'
      BY <1>0 DEF RelayKept, SlotKept
    <3>3. ASSUME NEW e \in HostCores, NEW i \in DOMAIN Order PROVE Heard(e, i)'
      BY <1>0, <2>2, Bounds, OrderCores DEF RelayKept, Heard
    <3> QED BY <3>1, <3>2, <3>3 DEF RelayKept
  <2> QED BY <2>1, <2>2, <2>3 DEF RelayInv, Types, Kept, RelayKept
<1>2. ASSUME NEW c \in Cores, Step(c) PROVE RelayInv'
  <2>1. Types' /\ (\A d \in Cores : Kept(d)') /\ RelayKept'
    BY <1>0, <1>2, StepTypes, CoreKeeps
  <2> QED BY <2>1 DEF RelayInv, Types, Kept, RelayKept
<1>3. ASSUME NEW c \in HostCores, Host(c) PROVE RelayInv'
  <2>1. Types' /\ (\A d \in Cores : Kept(d)') /\ RelayKept'
    BY <1>0, <1>3, HostTypes, HostKeeps
  <2> QED BY <2>1 DEF RelayInv, Types, Kept, RelayKept
<1> QED BY <1>1, <1>2, <1>3 DEF Next

\* No post is lost between the slot, the doorbell and the scan.  A request may
\* land while its egress core is in the scan that was rung for an older one,
\* before the slot or behind it, or may even replace the one being served;
\* whatever the order, its own ring is yet to come or the scan has seen it.
THEOREM PostsHeard == Spec => []PostHeard
<1>1. Init => RelayInv
  BY InitTypes, InitKept, RelayInvParts
<1>2. RelayInv /\ [Next]_vars => RelayInv'
  BY RelayInvKept
<1>3. RelayInv => PostHeard
  <2> SUFFICES ASSUME RelayInv, NEW e \in HostCores, NEW i \in DOMAIN Order,
                      relay_req[e][Order[i]].seq # relay_last_seq[e][Order[i]]
               PROVE  \/ pc[Order[i]] = "ring"
                      \/ relay_doorbell[e]
                      \/ /\ job[e].from # e /\ slot[e] <= i
                         /\ pc[e] \in {"scan", "stage", "ship", "header", "hop", "deposit", "reply"}
                      \/ pc[e] = "scan" /\ slot[e] <= i
    BY DEF PostHeard
  <2>1. Heard(e, i) /\ slot[e] \in Nat /\ i \in Nat
    BY Bounds, OrderCores DEF RelayInv, MoreTypes
  <2>2. slot[e] < i \/ slot[e] = i => slot[e] <= i
    BY <2>1
  <2> QED BY <2>1, <2>2 DEF Heard, Serves, Hops
<1> QED BY <1>1, <1>2, <1>3, PTL DEF Spec

----------------------------------------------------------------------------
(* Types of the data and of the history.                                   *)

\* What a header carries that the receiver keeps.
Word == [seq : Nat, data : Nat]

\* Types of the buffers and of the history.
DataTypes ==
  /\ mem \in [Chips -> [1 .. Chunks -> Nat]]
  /\ access \in [Cores -> Nat] /\ block_buf \in [Cores -> Nat]
  /\ req_inbox \in [Cores -> [seq : Nat, op : Ops, k : 1 .. Chunks, data : Nat]]
  /\ resp_inbox \in [Cores -> Word] /\ last_recv_seq \in [Cores -> Nat]
  /\ relay_resp \in [Cores -> Word] /\ relay_resp_block \in [Cores -> Nat]
  /\ resp \in [Cores -> [Slots -> Nat]] /\ data_buffer \in [Cores -> [Slots -> Nat]]
  /\ window \in [HostCores -> [1 .. Chunks -> Nat]]
  /\ wr_req \in [Cores -> Nat] /\ answers \in [HostCores -> Seq(Seq(Nat))]

\* Types of the history.
PastTypes ==
  /\ todo \in [HostCores -> Seq(Command)] /\ served \in [HostCores -> Nat]
  /\ got \in [HostCores -> Seq(Nat)]

\* Core e is in a hop of the head command of queue q.
Works(e, q) == pc[e] \in Hops /\ job[e].from = q

\* The host has a response to take.
Responded(q) == resp_rdptr[q] # resp_wrptr[q]

\* The command at pointer p of queue q is in its place among those not answered;
\* its block is in its slot; and a read is the last, for which the host waits.
InSlot(q, p) ==
  LET m == req[q][SlotOf(p)] IN
  /\ todo[q][Upto(q, p) + 1] = m
  /\ m.op = "BLOCK_WRITE" => data_buffer[q][SlotOf(p)] = m.data
  /\ m.op \in Reads => Upto(q, p) + 1 = Len(todo[q]) /\ waits[q] = m.op

\* The commands not answered are those in the ring, or the one read whose
\* response the host has yet to take.
RingKept(q) ==
  IF Responded(q)
  THEN /\ rdptr[q] = wrptr[q] /\ waits[q] \in Reads /\ resp_wrptr[q] = Inc(resp_rdptr[q])
       /\ Len(todo[q]) = 1 /\ todo[q][1].op = waits[q]
  ELSE /\ Len(todo[q]) = Upto(q, wrptr[q])
       /\ \A p \in Ptrs : Upto(q, p) < Len(todo[q]) => InSlot(q, p)
       /\ waits[q] # "none" => rdptr[q] # wrptr[q] /\ todo[q][Len(todo[q])].op = waits[q]

----------------------------------------------------------------------------
(* Who does what for a queue: the invariant's main part.                   *)

\* Where a core looks for work.
Polls == {"queue", "inbox", "doorbell"}

\* A remote core only receives, and only over a link from the host's chip.
Receives(r) ==
  /\ r \notin HostCores => /\ pc[r] \in Polls \cup {"send back", "ack"}
                           /\ ~relay_doorbell[r] /\ rdptr[r] = wrptr[r]
  /\ Link(r) \notin HostCores => ~InboxFull(r) /\ pc[r] \notin {"send back", "ack"}

\* The chip that the head command, or this turn of a broadcast, goes to.
Target(q) == IF Head0(q).op = "BROADCAST" THEN Bcast[remote[q]] ELSE Head0(q).tc

\* Queue q has posted a relay and not acted on its reply; there is no reply yet.
Outstanding(q) == relay_wait[q] \/ pc[q] \in {"ring", "relay wait"}
Pending(q) == Outstanding(q) /\ relay_resp[q].seq # relay_send_seq[q]

\* A relay is outstanding only where a sibling is needed, for the head command.
Control(q) ==
  /\ relay_resp[q].seq <= relay_send_seq[q]
  /\ Outstanding(q) =>
       /\ Routable(Target(q)) /\ Target(q) # Peer(q)
       /\ ~Works(q, q) /\ rdptr[q] # wrptr[q]
       /\ Head0(q).op = "BROADCAST" => remote[q] \in DOMAIN Bcast
  /\ relay_wait[q] =>
       /\ pc[q] \notin {"grid", "fanout", "relay wait"} /\ Head0(q).op # "BROADCAST"
       /\ pc[q] = "decode" => ~Pending(q)
  /\ pc[q] = "ring" /\ ~relay_wait[q] => Head0(q).op = "BROADCAST"
  /\ pc[q] = "fanout" => remote[q] <= Len(Bcast) + 1

\* What core e does for queue q is the head command, on the link that goes to
\* its target.
JobKept(e, q) ==
  Works(e, q) =>
    /\ job[e].op = Head0(q).op /\ job[e].data = Head0(q).data
    /\ Head0(q).op = "BLOCK_WRITE" => job[e].block = SlotOf(rdptr[q])
    /\ Peer(e) = Target(q) /\ (Head0(q).op = "BROADCAST" => remote[q] \in DOMAIN Bcast)
    /\ part[e] <= Last(job[e].op)
    /\ pc[e] \in {"deposit", "reply"} => part[e] = Last(job[e].op)
    /\ pc[e] = "deposit" => job[e].op = "BLOCK_READ"

\* The request of the relay that queue q posts.
Request(q) == [from |-> q, op |-> Head0(q).op, data |-> Head0(q).data,
               block |-> IF Head0(q).op = "BROADCAST" THEN 0 ELSE SlotOf(rdptr[q]),
               seq |-> relay_send_seq[q]]

\* Only the egress core of a pending relay has a request of queue q, or works for
\* it; nobody does once the reply is there.
SlotFor(e, q) ==
  IF Pending(q) /\ e = Egress(q)
  THEN /\ relay_req[e][q] = Request(q) /\ relay_req[e][q].seq # relay_last_seq[e][q]
       /\ Works(e, q) => job[e].seq = relay_send_seq[q]
  ELSE /\ relay_req[e][q].seq = relay_last_seq[e][q]
       /\ e # q => ~Works(e, q)

\* At most one core works for queue q.
Line(q) == Control(q) /\ \A e \in HostCores : JobKept(e, q) /\ SlotFor(e, q)

\* What holds without regard to the commands, and the types.
Based == RelayInv /\ DataTypes /\ PastTypes

----------------------------------------------------------------------------
(* The links.                                                              *)

\* The ops whose hop ships a block ahead of the header.
Blocks == {"BLOCK_WRITE", "DRAM_WRITE", "BROADCAST"}

\* The header of the hop that core e is at.
HeaderOf(e) == [seq |-> send_seq[e], op |-> HopOp(job[e].op), k |-> part[e], data |-> job[e].data]

\* Core e's link: the peer answers the header that e sent, once, before e goes
\* on; and the block of a write is in the peer's buffer until it has answered.
LinkKept(e) ==
  LET r == Link(e) IN
  /\ req_inbox[r].seq = send_seq[e]
  /\ last_recv_seq[r] = resp_inbox[e].seq
  /\ pc[e] # "hop" => resp_inbox[e].seq = send_seq[e]
  /\ pc[e] = "hop" => req_inbox[r] = HeaderOf(e)
  /\ pc[r] \in {"send back", "ack"} => resp_inbox[e].seq # send_seq[e]
  /\ pc[r] = "send back" => job[e].op \in {"BLOCK_READ", "DRAM_READ"}
  /\ pc[e] = "ship" /\ job[e].op \in Blocks /\ (job[e].op = "BLOCK_WRITE" => job[e].from # e)
       => block_buf[e] = job[e].data
  /\ job[e].op \in Blocks /\ (pc[e] = "header" \/ (pc[e] = "hop" /\ resp_inbox[e].seq # send_seq[e]))
       => block_buf[r] = job[e].data

----------------------------------------------------------------------------
(* How far a command is.                                                   *)

\* Parts of the head command that were performed before this turn of a broadcast.
Before(q) == IF Head0(q).op = "BROADCAST" THEN Chunks * remote[q] ELSE 0

\* The peer has performed the part that core e's hop is at; the parts that are
\* performed so far, and what the last of them read.
Accessed(e) == pc[Link(e)] \in {"send back", "ack"} \/ resp_inbox[e].seq = send_seq[e]
Done(e) ==
  IF pc[e] \in {"stage", "ship", "header"} \/ (pc[e] = "hop" /\ ~Accessed(e))
  THEN part[e] - 1 ELSE part[e]
Val(e) ==
  IF job[e].op = "READ"
  THEN IF pc[Link(e)] = "ack" THEN access[Link(e)] ELSE resp_inbox[e].data
  ELSE IF pc[Link(e)] = "send back" THEN block_buf[Link(e)] ELSE block_buf[e]

\* Core e's hop for queue q: where what was read is.
HopPast(e, q) ==
  /\ served[q] = Before(q) + Done(e)
  /\ IF job[e].op \in Reads THEN Len(got[q]) = Done(e) ELSE got[q] = <<>>
  /\ job[e].op \in Reads /\ Done(e) = part[e] => got[q][part[e]] = Val(e)
  /\ job[e].op = "DRAM_READ" =>
       \A k \in 1 .. part[e] : (k < part[e] \/ pc[e] = "reply") => window[q][k] = got[q][k]
  /\ job[e].op = "BLOCK_READ" /\ pc[e] = "reply" => relay_resp_block[q] = got[q][1]

\* No part of this turn has been performed.
Fresh(q) == served[q] = Before(q) /\ got[q] = <<>>

\* The relay that queue q posted has been performed, and its reply is here.
Relayed(q) ==
  /\ served[q] = Before(q) + Last(Head0(q).op)
  /\ Head0(q).op \notin Reads => got[q] = <<>>
  /\ Head0(q).op \in Reads => Len(got[q]) = Last(Head0(q).op)
  /\ Head0(q).op = "READ" => got[q][1] = relay_resp[q].data
  /\ Head0(q).op = "BLOCK_READ" => got[q][1] = relay_resp_block[q]
  /\ Head0(q).op = "DRAM_READ" => \A k \in 1 .. Chunks : window[q][k] = got[q][k]

\* The response that the host is to take is what the command read.
Read(q) ==
  /\ served[q] = Last(waits[q]) /\ Len(got[q]) = Last(waits[q])
  /\ waits[q] = "READ" => got[q][1] = resp[q][SlotOf(resp_rdptr[q])]
  /\ waits[q] = "BLOCK_READ" => got[q][1] = data_buffer[q][SlotOf(resp_rdptr[q])]
  /\ waits[q] = "DRAM_READ" => \A k \in 1 .. Chunks : window[q][k] = got[q][k]

\* How far the first of queue q's commands is.
Past(q) ==
  IF Responded(q) THEN Read(q)
  ELSE IF pc[q] = "grid" THEN served[q] = part[q] - 1 /\ got[q] = <<>>
  ELSE IF pc[q] = "fanout" THEN Fresh(q)
  ELSE IF Works(q, q) THEN HopPast(q, q)
  ELSE IF Outstanding(q)
       THEN IF ~Pending(q) THEN Relayed(q)
            ELSE IF Works(Egress(q), q) THEN HopPast(Egress(q), q) ELSE Fresh(q)
  ELSE served[q] = 0 /\ got[q] = <<>>

\* The parts of the invariant that Past rests on.
Settled == Based /\ (\A r \in Cores : Receives(r)) /\ (\A e \in HostCores : LinkKept(e))
           /\ \A q \in HostCores : Line(q) /\ RingKept(q)

\* What the host has yet to issue are commands of the program.
LeftKept == left \in [HostCores -> Seq(AllCommands)]
AllPast == \A q \in HostCores : Past(q)
Inv == Settled /\ AllPast /\ LeftKept

----------------------------------------------------------------------------
(* Types.                                                                  *)

\* The ops of hops are ops.
LEMMA HopOps == \A op \in Ops : HopOp(op) \in Ops
BY DEF Ops, Reads, Writes, HopOp

\* The kinds of ops.
LEMMA OpKinds ==
  /\ Ops = {"READ", "BLOCK_READ", "DRAM_READ", "WRITE", "BLOCK_WRITE", "DRAM_WRITE", "BROADCAST"}
  /\ \A op : op \in Reads <=> op \in {"READ", "BLOCK_READ", "DRAM_READ"}
  /\ \A op : op \in Writes <=> op \in {"WRITE", "BLOCK_WRITE", "DRAM_WRITE", "BROADCAST"}
  /\ \A op : op \in Streams <=> op \in {"DRAM_WRITE", "DRAM_READ", "BROADCAST"}
BY DEF Ops, Reads, Writes, Streams

\* A command has a part at least, and no more than the chunks of a block.
LEMMA LastTypes == \A op : Last(op) \in Nat /\ Last(op) >= 1 /\ Last(op) <= Chunks
BY Bounds DEF Last

\* A hop is for a core of the same chip.
LEMMA HopFrom ==
  ASSUME RelayInv, NEW c \in Cores, pc[c] \in Hops
  PROVE  /\ job[c].from \in Cores
         /\ c \in HostCores => job[c].from \in HostCores
<1>1. CASE job[c].from = c
  BY <1>1
<1>2. CASE job[c].from # c
  <2>1. slot[c] \in DOMAIN Siblings(c) /\ job[c].from = Siblings(c)[slot[c]]
    BY <1>2 DEF RelayInv, ServeKept, Serves
  <2>2. c \in HostCores => /\ Siblings(c) = Order /\ Order \in Seq(HostCores)
    BY EthAssumption DEF Routes, Siblings
  <2>3. job[c].from \in Cores
    BY <2>1, SiblingCores
  <2>4. c \in HostCores => slot[c] \in 1 .. Len(Order) /\ job[c].from = Order[slot[c]]
    BY <2>1, <2>2
  <2>5. c \in HostCores => job[c].from \in HostCores
    BY <2>2, <2>4
  <2> QED BY <2>3, <2>5
<1> QED BY <1>1, <1>2

\* The types of everything, as facts.
LEMMA AllTypes ==
  ASSUME Based
  PROVE  /\ left \in [HostCores -> Seq(Command)]
         /\ waits \in [HostCores -> Reads \cup {"none"}]
         /\ resp_rdptr \in [HostCores -> Ptrs] /\ resp_wrptr \in [Cores -> Ptrs]
         /\ answers \in [HostCores -> Seq(Seq(Nat))]
         /\ window \in [HostCores -> [1 .. Chunks -> Nat]]
         /\ req \in [Cores -> [Slots -> Command]]
         /\ wrptr \in [Cores -> Ptrs] /\ rdptr \in [Cores -> Ptrs] /\ snap \in [Cores -> Ptrs]
         /\ wr_req \in [Cores -> Nat] /\ resp \in [Cores -> [Slots -> Nat]]
         /\ data_buffer \in [Cores -> [Slots -> Nat]]
         /\ relay_req \in [Cores -> [Cores -> Job]]
         /\ relay_last_seq \in [Cores -> [Cores -> Nat]]
         /\ relay_resp \in [Cores -> Word] /\ relay_send_seq \in [Cores -> Nat]
         /\ relay_wait \in [Cores -> BOOLEAN] /\ relay_doorbell \in [Cores -> BOOLEAN]
         /\ relay_resp_block \in [Cores -> Nat]
         /\ send_seq \in [Cores -> Nat]
         /\ req_inbox \in [Cores -> [seq : Nat, op : Ops, k : 1 .. Chunks, data : Nat]]
         /\ last_recv_seq \in [Cores -> Nat] /\ resp_inbox \in [Cores -> Word]
         /\ block_buf \in [Cores -> Nat]
         /\ pc \in [Cores -> Places] /\ job \in [Cores -> Job]
         /\ part \in [Cores -> 1 .. Chunks] /\ slot \in [Cores -> Nat \ {0}]
         /\ remote \in [Cores -> Nat \ {0}] /\ access \in [Cores -> Nat]
         /\ mem \in [Chips -> [1 .. Chunks -> Nat]]
         /\ todo \in [HostCores -> Seq(Command)] /\ served \in [HostCores -> Nat]
         /\ got \in [HostCores -> Seq(Nat)]
BY DEF Based, RelayInv, TypeOK, MoreTypes, DataTypes, PastTypes

\* Finishing a command keeps the types of the responses.
LEMMA CompleteData ==
  ASSUME DataTypes, Types, NEW c \in Cores, NEW w \in Nat, NEW b \in Nat, Complete(c, w, b)
  PROVE  /\ resp' \in [Cores -> [Slots -> Nat]] /\ data_buffer' \in [Cores -> [Slots -> Nat]]
         /\ wr_req' \in [Cores -> Nat]
<1>0. /\ resp \in [Cores -> [Slots -> Nat]] /\ data_buffer \in [Cores -> [Slots -> Nat]]
      /\ wr_req \in [Cores -> Nat] /\ SlotOf(resp_wrptr[c]) \in Slots
  BY Pointers DEF DataTypes, Types, TypeOK
<1>1. CASE CountWrite(c)
  BY <1>0, <1>1 DEF CountWrite
<1>2. CASE Respond(c, w, b)
  <2> DEFINE s == SlotOf(resp_wrptr[c])
  <2>1. s \in Slots
    BY <1>0
  <2>2. resp' = [resp EXCEPT ![c][s] = w] \/ resp' = resp
    BY <1>2 DEF Respond
  <2>3. data_buffer' = [data_buffer EXCEPT ![c][s] = b] \/ data_buffer' = data_buffer
    BY <1>2 DEF Respond
  <2>4. wr_req' = wr_req
    BY <1>2 DEF Respond
  <2> HIDE DEF s
  <2>5. /\ [resp EXCEPT ![c][s] = w] \in [Cores -> [Slots -> Nat]]
        /\ [data_buffer EXCEPT ![c][s] = b] \in [Cores -> [Slots -> Nat]]
    BY <1>0, <2>1
  <2>6. resp' \in [Cores -> [Slots -> Nat]] /\ data_buffer' \in [Cores -> [Slots -> Nat]]
    BY <1>0, <2>2, <2>3, <2>5
  <2> QED BY <2>4, <2>6, <1>0
<1> QED BY <1>1, <1>2 DEF Complete

\* A step of a core keeps the types.
LEMMA StepData ==
  ASSUME Based, NEW c \in Cores, Step(c)
  PROVE  DataTypes'
<1> USE DEF hostVars, queueVars, relayVars, linkVars, coreVars, Go, NocPut, EthSend
<1>0. /\ mem \in [Chips -> [1 .. Chunks -> Nat]]
      /\ access \in [Cores -> Nat] /\ block_buf \in [Cores -> Nat]
      /\ req_inbox \in [Cores -> [seq : Nat, op : Ops, k : 1 .. Chunks, data : Nat]]
      /\ resp_inbox \in [Cores -> Word] /\ last_recv_seq \in [Cores -> Nat]
      /\ relay_resp \in [Cores -> Word] /\ relay_resp_block \in [Cores -> Nat]
      /\ resp \in [Cores -> [Slots -> Nat]] /\ data_buffer \in [Cores -> [Slots -> Nat]]
      /\ window \in [HostCores -> [1 .. Chunks -> Nat]]
      /\ wr_req \in [Cores -> Nat] /\ answers \in [HostCores -> Seq(Seq(Nat))]
  BY AllTypes
<1>t. Types /\ DataTypes /\ RelayInv
  BY DEF Based, RelayInv, Types
<1>a. /\ pc \in [Cores -> Places] /\ job[c] \in Job /\ part[c] \in 1 .. Chunks
      /\ send_seq \in [Cores -> Nat] /\ Link(c) \in Cores /\ Chip(c) \in Chips /\ NoData \in Nat
      /\ Head0(c).data \in Nat /\ resp_inbox[c].data \in Nat /\ relay_resp[c].data \in Nat
      /\ block_buf[c] \in Nat /\ relay_resp_block[c] \in Nat
  <2>1. Link(c) \in Cores /\ Chip(c) \in Chips
    BY EthAssumption
  <2>2. Head0(c).data \in Nat
    BY <1>t, HeadTypes
  <2> QED BY <1>0, <2>1, <2>2, AllTypes DEF NoData, Word
<1>1. CASE \/ PollQueue(c) \/ PollDoorbell(c) \/ Direct(c) \/ PostRelay(c) \/ Unroutable(c)
           \/ Ring(c) \/ StartBroadcast(c) \/ RelayWait(c) \/ Scan(c)
  BY <1>0, <1>1 DEF PollQueue, PollDoorbell, Direct, PostRelay, Unroutable, Ring, StartBroadcast,
     RelayWait, Scan, DataTypes
<1>2. CASE Collect(c)
  <2>1. /\ resp' \in [Cores -> [Slots -> Nat]] /\ data_buffer' \in [Cores -> [Slots -> Nat]]
        /\ wr_req' \in [Cores -> Nat]
    BY <1>t, <1>a, <1>2, CompleteData DEF Collect
  <2> QED BY <1>0, <1>2, <2>1 DEF Collect, DataTypes
<1>3. CASE Grid(c)
  <2>1. block_buf' \in [Cores -> Nat] /\ block_buf'[c] \in Nat
    BY <1>0, <1>a, <1>3 DEF Grid
  <2>2. mem' \in [Chips -> [1 .. Chunks -> Nat]]
    BY <1>0, <1>a, <1>3, <2>1 DEF Grid
  <2> QED BY <1>0, <1>3, <2>1, <2>2 DEF Grid, DataTypes
<1>4. CASE Fanout(c)
  <2>1. CASE CountWrite(c)
    <3>1. Complete(c, 0, 0)
      BY <2>1 DEF Complete
    <3>2. /\ resp' \in [Cores -> [Slots -> Nat]] /\ data_buffer' \in [Cores -> [Slots -> Nat]]
          /\ wr_req' \in [Cores -> Nat]
      BY <1>t, <3>1, CompleteData
    <3> QED BY <1>0, <1>4, <3>2 DEF Fanout, DataTypes
  <2>2. CASE UNCHANGED queueVars
    BY <1>0, <1>4, <2>2 DEF Fanout, DataTypes
  <2> QED BY <1>4, <2>1, <2>2 DEF Fanout
<1>5. CASE Stage(c)
  <2>1. job[c].from \in Cores /\ job[c].block \in Slots /\ job[c].data \in Nat
    BY <1>t, <1>a, <1>5, HopFrom DEF Stage, Hops, Job
  <2>2. data_buffer[job[c].from][job[c].block] \in Nat
    BY <1>0, <2>1
  <2> QED BY <1>0, <1>5, <2>1, <2>2 DEF Stage, DataTypes
<1>6. CASE Ship(c)
  <2>1. job[c].block \in Slots
    BY <1>a DEF Job
  <2>2. data_buffer[c][job[c].block] \in Nat
    BY <1>0, <2>1
  <2> QED BY <1>0, <1>a, <1>6, <2>2 DEF Ship, DataTypes
<1>7. CASE Header(c)
  <2>1. HopOp(job[c].op) \in Ops /\ job[c].data \in Nat
    BY <1>a, HopOps DEF Job
  <2>2. send_seq'[c] \in Nat
    BY <1>a, <1>7 DEF Header
  <2> DEFINE w == [seq |-> send_seq'[c], op |-> HopOp(job[c].op), k |-> part[c], data |-> job[c].data]
  <2>3. w \in [seq : Nat, op : Ops, k : 1 .. Chunks, data : Nat]
    BY <1>a, <2>1, <2>2
  <2>4. req_inbox' = [req_inbox EXCEPT ![Link(c)] = w]
    BY <1>7 DEF Header
  <2> HIDE DEF w
  <2>5. req_inbox' \in [Cores -> [seq : Nat, op : Ops, k : 1 .. Chunks, data : Nat]]
    BY <1>0, <2>3, <2>4
  <2> QED BY <1>0, <1>7, <2>5 DEF Header, DataTypes
<1>8. CASE NextChunk(c) \/ RelayedReply(c)
  <2>1. window' \in [HostCores -> [1 .. Chunks -> Nat]]
    <3>1. [window EXCEPT ![job[c].from][part[c]] = block_buf[c]] \in [HostCores -> [1 .. Chunks -> Nat]]
      BY <1>0, <1>a
    <3> QED BY <1>0, <1>8, <3>1 DEF NextChunk, RelayedReply, ToWindow
  <2> QED BY <1>0, <1>8, <2>1 DEF NextChunk, RelayedReply, DataTypes
<1>9. CASE OwnReply(c)
  <2>1. window' \in [HostCores -> [1 .. Chunks -> Nat]]
    BY <1>0, <1>a, <1>9 DEF OwnReply, ToWindow
  <2>2. CASE UNCHANGED queueVars
    BY <1>0, <1>9, <2>1, <2>2 DEF OwnReply, DataTypes
  <2>3. CASE Complete(c, resp_inbox[c].data, block_buf[c])
    <3>1. /\ resp' \in [Cores -> [Slots -> Nat]] /\ data_buffer' \in [Cores -> [Slots -> Nat]]
          /\ wr_req' \in [Cores -> Nat]
      BY <1>t, <1>a, <2>3, CompleteData
    <3> QED BY <1>0, <1>9, <2>1, <3>1 DEF OwnReply, DataTypes
  <2> QED BY <1>9, <2>2, <2>3 DEF OwnReply
<1>10. CASE Deposit(c)
  BY <1>0, <1>a, <1>10 DEF Deposit, DataTypes
<1>11. CASE Reply(c)
  <2>1. job[c].seq \in Nat
    BY <1>a DEF Job
  <2> DEFINE w == [seq |-> job[c].seq,
                   data |-> IF job[c].op \in Streams THEN NoData ELSE resp_inbox[c].data]
  <2>2. w \in Word
    BY <1>a, <2>1 DEF Word
  <2>3. relay_resp' = [relay_resp EXCEPT ![job[c].from] = w]
    BY <1>11 DEF Reply
  <2> HIDE DEF w
  <2>4. relay_resp' \in [Cores -> Word]
    BY <1>0, <2>2, <2>3
  <2> QED BY <1>0, <1>11, <2>4 DEF Reply, DataTypes
<1>12. CASE Receive(c)
  <2>1. /\ req_inbox[c].k \in 1 .. Chunks /\ req_inbox[c].data \in Nat
        /\ mem[Chip(c)][req_inbox[c].k] \in Nat
    BY <1>0, <1>a
  <2>2. /\ block_buf' = block_buf \/ block_buf' = [block_buf EXCEPT ![c] = mem[Chip(c)][req_inbox[c].k]]
        /\ \/ access' = access \/ access' = [access EXCEPT ![c] = NoData]
           \/ access' = [access EXCEPT ![c] = mem[Chip(c)][req_inbox[c].k]]
    BY <1>12 DEF Receive
  <2>3. \/ mem' = mem
        \/ \E v \in Nat : mem' = [mem EXCEPT ![Chip(c)][req_inbox[c].k] = v]
    BY <1>a, <1>12, <2>1 DEF Receive
  <2>4. block_buf' \in [Cores -> Nat] /\ access' \in [Cores -> Nat]
    <3>1. PICK v \in Nat : v = mem[Chip(c)][req_inbox[c].k]
      BY <2>1
    <3>2. block_buf \in [Cores -> Nat] /\ access \in [Cores -> Nat] /\ NoData \in Nat
      BY <1>0, <1>a
    <3>3. /\ [block_buf EXCEPT ![c] = v] \in [Cores -> Nat]
          /\ [access EXCEPT ![c] = v] \in [Cores -> Nat]
          /\ [access EXCEPT ![c] = NoData] \in [Cores -> Nat]
      BY <3>1, <3>2
    <3>4. block_buf' = block_buf \/ block_buf' = [block_buf EXCEPT ![c] = v]
      BY <2>2, <3>1
    <3>5. \/ access' = access \/ access' = [access EXCEPT ![c] = NoData]
          \/ access' = [access EXCEPT ![c] = v]
      BY <2>2, <3>1
    <3>6. block_buf' \in [Cores -> Nat]
      BY <3>2, <3>3, <3>4, Zenon
    <3>7. access' \in [Cores -> Nat]
      BY <3>2, <3>3, <3>5, Zenon
    <3> QED BY <3>6, <3>7
  <2>5. mem' \in [Chips -> [1 .. Chunks -> Nat]]
    <3>1. ASSUME NEW v \in Nat
          PROVE  [mem EXCEPT ![Chip(c)][req_inbox[c].k] = v] \in [Chips -> [1 .. Chunks -> Nat]]
      BY <1>0, <1>a, <2>1
    <3>2. mem \in [Chips -> [1 .. Chunks -> Nat]]
      BY <1>0
    <3> QED BY <2>3, <3>1, <3>2, Zenon
  <2> QED BY <1>0, <1>12, <2>4, <2>5 DEF Receive, DataTypes
<1>13. CASE SendBack(c)
  BY <1>0, <1>a, <1>13 DEF SendBack, DataTypes
<1>14. CASE Ack(c)
  BY <1>0, <1>a, <1>14 DEF Ack, DataTypes, Word
<1> QED BY <1>1, <1>2, <1>3, <1>4, <1>5, <1>6, <1>7, <1>8, <1>9, <1>10, <1>11, <1>12, <1>13,
           <1>14 DEF Step

\* A step of the host keeps the types.
LEMMA HostData ==
  ASSUME Based, NEW c \in HostCores, Host(c)
  PROVE  DataTypes'
<1> USE DEF hostVars, queueVars, relayVars, linkVars, coreVars
<1>0. /\ data_buffer \in [Cores -> [Slots -> Nat]] /\ answers \in [HostCores -> Seq(Seq(Nat))]
      /\ c \in Cores /\ resp[c] \in [Slots -> Nat] /\ window[c] \in [1 .. Chunks -> Nat]
      /\ SlotOf(wrptr[c]) \in Slots /\ SlotOf(resp_rdptr[c]) \in Slots
      /\ waits[c] \in Reads \cup {"none"} /\ left[c] \in Seq(Command)
  BY AllTypes, Bounds, Pointers
<1>1. CASE HostPush(c)
  <2>1. Head(left[c]).data \in Nat
    <3>1. Head(left[c]) \in Command
      BY <1>0, <1>1 DEF HostPush
    <3> QED BY <3>1 DEF Command
  <2>2. data_buffer' \in [Cores -> [Slots -> Nat]]
    BY <1>0, <1>1, <2>1 DEF HostPush
  <2> QED BY <1>1, <2>2 DEF HostPush, Based, DataTypes
<1>2. CASE HostTake(c)
  <2> DEFINE s == SlotOf(resp_rdptr[c])
             w == CASE waits[c] = "READ"       -> << resp[c][s] >>
                    [] waits[c] = "BLOCK_READ" -> << data_buffer[c][s] >>
                    [] waits[c] = "DRAM_READ"  -> window[c]
  <2>1. answers' = [answers EXCEPT ![c] = Append(@, w)]
    BY <1>2 DEF HostTake
  <2>2. resp[c][s] \in Nat /\ data_buffer[c][s] \in Nat /\ window[c] \in Seq(Nat)
    <3>1. window[c] \in Seq(Nat)
      BY <1>0, Bounds, SeqDef
    <3>2. data_buffer[c] \in [Slots -> Nat]
      BY <1>0
    <3> QED BY <1>0, <3>1, <3>2
  <2>3. w \in Seq(Nat)
    <3>1. waits[c] \in {"READ", "BLOCK_READ", "DRAM_READ"}
      BY <1>0, <1>2 DEF HostTake, Reads
    <3> QED BY <2>2, <3>1
  <2> HIDE DEF w
  <2>4. answers' \in [HostCores -> Seq(Seq(Nat))]
    BY <1>0, <2>1, <2>3
  <2> QED BY <1>2, <2>4 DEF HostTake, Based, DataTypes
<1> QED BY <1>1, <1>2 DEF Host

----------------------------------------------------------------------------
(* What a core's step leaves alone.                                        *)

\* What only core d itself writes.
OwnData(d) == <<pc[d], job[d], part[d], remote[d], snap[d], slot[d], access[d], rdptr[d],
                wr_req[d], resp[d], resp_wrptr[d], data_buffer[d], send_seq[d],
                last_recv_seq[d], relay_last_seq[d], relay_send_seq[d], relay_wait[d]>>

\* What a step of core c leaves alone, and where it may write to others.
Frame(c) ==
  /\ UNCHANGED <<left, waits, resp_rdptr, answers, req, wrptr>>
  /\ \A d \in Cores \ {c} :
       UNCHANGED OwnData(d) /\ \A e \in Cores : relay_req'[e][d] = relay_req[e][d]
  /\ \A d \in Cores \ {c} :
       block_buf'[d] # block_buf[d] => d = Link(c) /\ pc[c] \in {"ship", "send back"}
  /\ \A d \in Cores : req_inbox'[d] # req_inbox[d] => d = Link(c) /\ pc[c] = "header"
  /\ \A d \in Cores : resp_inbox'[d] # resp_inbox[d] => d = Link(c) /\ pc[c] = "ack"
  /\ \A q \in HostCores : window'[q] # window[q] => q = job[c].from /\ pc[c] = "hop"
  /\ \A q \in Cores : relay_resp'[q] # relay_resp[q] => q = job[c].from /\ pc[c] = "reply"
  /\ \A q \in Cores :
       relay_resp_block'[q] # relay_resp_block[q] => q = job[c].from /\ pc[c] = "deposit"
  /\ \A q \in Cores :
       relay_last_seq'[c][q] # relay_last_seq[c][q] => q = job[c].from /\ pc[c] = "reply"

\* What only the host and the core itself write.
MoreData(d) == <<part[d], access[d], wr_req[d], resp[d], resp_wrptr[d], data_buffer[d],
                 send_seq[d], last_recv_seq[d], relay_wait[d]>>

\* A step of core c leaves the data of the others alone.
LEMMA MoreUntouched ==
  ASSUME Based, NEW c \in Cores, Step(c)
  PROVE  \A d \in Cores \ {c} : UNCHANGED MoreData(d)
<1> USE DEF hostVars, queueVars, relayVars, linkVars, coreVars
<1>0. /\ part \in [Cores -> 1 .. Chunks] /\ access \in [Cores -> Nat] /\ wr_req \in [Cores -> Nat]
      /\ resp \in [Cores -> [Slots -> Nat]] /\ resp_wrptr \in [Cores -> Ptrs]
      /\ data_buffer \in [Cores -> [Slots -> Nat]]
      /\ send_seq \in [Cores -> Nat] /\ last_recv_seq \in [Cores -> Nat]
      /\ relay_wait \in [Cores -> BOOLEAN]
  BY AllTypes
<1>1. ASSUME NEW w, NEW b, Complete(c, w, b)
      PROVE  \A d \in Cores \ {c} : UNCHANGED <<wr_req[d], resp[d], resp_wrptr[d], data_buffer[d]>>
  BY <1>0, <1>1 DEF Complete, CountWrite, Respond
<1>2. CASE \/ PollQueue(c) \/ PollDoorbell(c) \/ Unroutable(c) \/ Ring(c) \/ RelayWait(c)
           \/ Deposit(c) \/ Reply(c) \/ Stage(c) \/ Ship(c) \/ RelayedReply(c) \/ SendBack(c)
  BY <1>2 DEF PollQueue, PollDoorbell, Unroutable, Ring, RelayWait, Deposit, Reply, Stage, Ship,
     RelayedReply, SendBack, MoreData
<1>3. CASE Direct(c)
  BY <1>0, <1>3 DEF Direct, StartHop, MoreData
<1>4. CASE PostRelay(c)
  BY <1>0, <1>4 DEF PostRelay, MoreData
<1>5. CASE Collect(c)
  <2>1. \A d \in Cores \ {c} : UNCHANGED <<wr_req[d], resp[d], resp_wrptr[d], data_buffer[d]>>
    BY <1>1, <1>5 DEF Collect
  <2> QED BY <1>0, <1>5, <2>1 DEF Collect, MoreData
<1>6. CASE StartBroadcast(c) \/ Grid(c)
  BY <1>0, <1>6 DEF StartBroadcast, Grid, MoreData
<1>7. CASE Fanout(c)
  <2>1. CASE CountWrite(c) /\ UNCHANGED part
    <3>1. Complete(c, 0, 0)
      BY <2>1 DEF Complete
    <3>2. \A d \in Cores \ {c} : UNCHANGED <<wr_req[d], resp[d], resp_wrptr[d], data_buffer[d]>>
      BY <1>1, <3>1
    <3> QED BY <1>0, <1>7, <2>1, <3>2 DEF Fanout, MoreData
  <2>2. CASE UNCHANGED queueVars
    <3>1. \A d \in Cores \ {c} : part'[d] = part[d]
      BY <1>0, <1>7 DEF Fanout, StartHop
    <3> QED BY <1>7, <2>2, <3>1 DEF Fanout, MoreData
  <2> QED BY <1>7, <2>1, <2>2 DEF Fanout
<1>8. CASE Header(c)
  BY <1>0, <1>8 DEF Header, MoreData
<1>9. CASE NextChunk(c)
  BY <1>0, <1>9 DEF NextChunk, MoreData
<1>10. CASE OwnReply(c)
  <2>1. CASE UNCHANGED queueVars
    BY <1>10, <2>1 DEF OwnReply, MoreData
  <2>2. CASE Complete(c, resp_inbox[c].data, block_buf[c])
    <3>1. \A d \in Cores \ {c} : UNCHANGED <<wr_req[d], resp[d], resp_wrptr[d], data_buffer[d]>>
      BY <1>1, <2>2
    <3> QED BY <1>10, <3>1 DEF OwnReply, MoreData
  <2> QED BY <1>10, <2>1, <2>2 DEF OwnReply
<1>11. CASE Scan(c)
  BY <1>0, <1>11 DEF Scan, StartHop, MoreData
<1>12. CASE Receive(c) \/ Ack(c)
  BY <1>0, <1>12 DEF Receive, Ack, MoreData
<1> QED BY <1>2, <1>3, <1>4, <1>5, <1>6, <1>7, <1>8, <1>9, <1>10, <1>11, <1>12 DEF Step

\* A step writes to another core at most over its link, or to the queue it works for.
LEMMA SharedUntouched ==
  ASSUME Based, NEW c \in Cores, Step(c)
  PROVE  /\ UNCHANGED <<left, waits, resp_rdptr, answers, req, wrptr>>
         /\ \A d \in Cores \ {c} :
              block_buf'[d] # block_buf[d] => d = Link(c) /\ pc[c] \in {"ship", "send back"}
         /\ \A d \in Cores : req_inbox'[d] # req_inbox[d] => d = Link(c) /\ pc[c] = "header"
         /\ \A d \in Cores : resp_inbox'[d] # resp_inbox[d] => d = Link(c) /\ pc[c] = "ack"
         /\ \A q \in HostCores : window'[q] # window[q] => q = job[c].from /\ pc[c] = "hop"
         /\ \A q \in Cores : relay_resp'[q] # relay_resp[q] => q = job[c].from /\ pc[c] = "reply"
         /\ \A q \in Cores :
              relay_resp_block'[q] # relay_resp_block[q] => q = job[c].from /\ pc[c] = "deposit"
         /\ \A q \in Cores :
              relay_last_seq'[c][q] # relay_last_seq[c][q] => q = job[c].from /\ pc[c] = "reply"
<1> USE DEF hostVars, queueVars, relayVars, linkVars, coreVars, NocPut, EthSend
<1>0. /\ block_buf \in [Cores -> Nat]
      /\ req_inbox \in [Cores -> [seq : Nat, op : Ops, k : 1 .. Chunks, data : Nat]]
      /\ resp_inbox \in [Cores -> Word]
      /\ window \in [HostCores -> [1 .. Chunks -> Nat]]
      /\ relay_resp \in [Cores -> Word] /\ relay_resp_block \in [Cores -> Nat]
      /\ relay_last_seq \in [Cores -> [Cores -> Nat]]
  BY AllTypes
<1>1. ASSUME NEW w, NEW b, Complete(c, w, b) PROVE UNCHANGED <<req, wrptr>>
  BY <1>1 DEF Complete, CountWrite, Respond, Advance
<1>2. CASE \/ PollQueue(c) \/ PollDoorbell(c) \/ Unroutable(c) \/ Ring(c) \/ RelayWait(c)
           \/ Direct(c) \/ PostRelay(c) \/ StartBroadcast(c) \/ Scan(c)
  BY <1>2 DEF PollQueue, PollDoorbell, Unroutable, Ring, RelayWait, Direct, PostRelay,
     StartBroadcast, Scan
<1>3. CASE Collect(c)
  BY <1>1, <1>3 DEF Collect
<1>4. CASE Grid(c)
  BY <1>0, <1>4 DEF Grid
<1>5. CASE Fanout(c)
  <2>1. UNCHANGED <<req, wrptr>>
    BY <1>5 DEF Fanout, CountWrite, Advance
  <2> QED BY <1>5, <2>1 DEF Fanout
<1>6. CASE Stage(c)
  BY <1>0, <1>6 DEF Stage
<1>7. CASE Ship(c) \/ SendBack(c)
  BY <1>0, <1>7 DEF Ship, SendBack
<1>8. CASE Header(c)
  BY <1>0, <1>8 DEF Header
<1>9. CASE NextChunk(c) \/ RelayedReply(c) \/ OwnReply(c)
  <2>1. /\ pc[c] = "hop" /\ \A q \in HostCores : window'[q] # window[q] => q = job[c].from
    BY <1>0, <1>9 DEF NextChunk, RelayedReply, OwnReply, ToWindow, Replied
  <2>2. UNCHANGED <<req, wrptr>>
    BY <1>1, <1>9 DEF NextChunk, RelayedReply, OwnReply
  <2> QED BY <1>9, <2>1, <2>2 DEF NextChunk, RelayedReply, OwnReply
<1>10. CASE Deposit(c)
  BY <1>0, <1>10 DEF Deposit
<1>11. CASE Reply(c)
  BY <1>0, <1>11 DEF Reply
<1>12. CASE Receive(c)
  BY <1>0, <1>12 DEF Receive
<1>13. CASE Ack(c)
  BY <1>0, <1>13 DEF Ack
<1> QED BY <1>2, <1>3, <1>4, <1>5, <1>6, <1>7, <1>8, <1>9, <1>10, <1>11, <1>12, <1>13 DEF Step

\* Together: every step keeps to its frame.
LEMMA StepFrame ==
  ASSUME Based, NEW c \in Cores, Step(c)
  PROVE  Frame(c)
<1>1. Untouched(c)
  BY OthersUntouched DEF Based, RelayInv, Types
<1>2. \A d \in Cores \ {c} :
        UNCHANGED OwnData(d) /\ \A e \in Cores : relay_req'[e][d] = relay_req[e][d]
  BY <1>1, MoreUntouched DEF Untouched, OwnState, MoreData, OwnData
<1> QED BY <1>2, SharedUntouched DEF Frame

\* What that says of the other cores.
LEMMA FrameOthers ==
  ASSUME NEW c, Frame(c), NEW d \in Cores, d # c
  PROVE  /\ pc'[d] = pc[d] /\ job'[d] = job[d] /\ part'[d] = part[d] /\ remote'[d] = remote[d]
         /\ rdptr'[d] = rdptr[d] /\ wrptr'[d] = wrptr[d] /\ req'[d] = req[d]
         /\ wr_req'[d] = wr_req[d] /\ resp'[d] = resp[d] /\ resp_wrptr'[d] = resp_wrptr[d]
         /\ data_buffer'[d] = data_buffer[d] /\ send_seq'[d] = send_seq[d]
         /\ last_recv_seq'[d] = last_recv_seq[d] /\ relay_last_seq'[d] = relay_last_seq[d]
         /\ relay_send_seq'[d] = relay_send_seq[d] /\ relay_wait'[d] = relay_wait[d]
         /\ access'[d] = access[d]
         /\ \A e \in Cores : relay_req'[e][d] = relay_req[e][d]
         /\ Head0(d)' = Head0(d) /\ Outstanding(d)' = Outstanding(d) /\ Target(d)' = Target(d)
         /\ \A q : Works(d, q)' = Works(d, q)
<1>1. /\ pc'[d] = pc[d] /\ job'[d] = job[d] /\ part'[d] = part[d] /\ remote'[d] = remote[d]
      /\ rdptr'[d] = rdptr[d] /\ wrptr'[d] = wrptr[d] /\ req'[d] = req[d]
      /\ wr_req'[d] = wr_req[d] /\ resp'[d] = resp[d] /\ resp_wrptr'[d] = resp_wrptr[d]
      /\ data_buffer'[d] = data_buffer[d] /\ send_seq'[d] = send_seq[d]
      /\ last_recv_seq'[d] = last_recv_seq[d] /\ relay_last_seq'[d] = relay_last_seq[d]
      /\ relay_send_seq'[d] = relay_send_seq[d] /\ relay_wait'[d] = relay_wait[d]
      /\ access'[d] = access[d]
      /\ \A e \in Cores : relay_req'[e][d] = relay_req[e][d]
  BY DEF Frame, OwnData
<1>2. Head0(d)' = Head0(d)
  BY <1>1 DEF Head0
<1>3. Outstanding(d)' = Outstanding(d) /\ Target(d)' = Target(d)
  BY <1>1, <1>2 DEF Outstanding, Target
<1>4. \A q : Works(d, q)' = Works(d, q)
  BY <1>1 DEF Works
<1> QED BY <1>1, <1>2, <1>3, <1>4

----------------------------------------------------------------------------
(* The kinds of steps.                                                     *)

\* Every remote core only receives.
AllReceive == \A r \in Cores : Receives(r)

\* Where a core does nothing for a command.
Quiets == Polls \cup {"scan", "decode"}

\* Core c polls, or scans a slot that has nothing new.
Idle(c) ==
  /\ pc[c] \in Quiets /\ pc'[c] \in Quiets
  /\ pc'[c] = "decode" /\ pc[c] # "decode" => QueueReady(c)
  /\ c \notin HostCores => pc'[c] \in Polls /\ (~relay_doorbell[c] => relay_doorbell' = relay_doorbell)
  /\ \A d \in Cores : relay_doorbell'[d] => relay_doorbell[d]
  /\ UNCHANGED <<hostVars, window, queueVars, relay_req, relay_last_seq, relay_resp, relay_send_seq,
                 relay_wait, relay_resp_block, linkVars, job, part, remote, access, mem>>

\* The scan takes the request of a sibling.
Takes(c) ==
  /\ pc[c] = "scan" /\ slot[c] \in DOMAIN Siblings(c)
  /\ LET f == Siblings(c)[slot[c]] IN
       relay_req[c][f].seq # relay_last_seq[c][f] /\ StartHop(c, relay_req[c][f])
  /\ UNCHANGED <<hostVars, window, queueVars, relayVars, linkVars, slot, snap, remote, access, mem>>

\* The steps of a core on a host chip.
HostKind(c) ==
  \/ Idle(c) \/ Direct(c) \/ PostRelay(c) \/ Collect(c) \/ Ring(c) \/ StartBroadcast(c) \/ Grid(c)
  \/ Fanout(c) \/ RelayWait(c) \/ Stage(c) \/ Ship(c) \/ Header(c) \/ NextChunk(c) \/ OwnReply(c)
  \/ RelayedReply(c) \/ Takes(c) \/ Deposit(c) \/ Reply(c)

\* The steps of a core on a remote chip, that are not idle.
RemoteKind(c) ==
  Link(c) \in HostCores /\ ((Receive(c) /\ InboxFull(c)) \/ SendBack(c) \/ Ack(c))

\* A receiver has no queue of its own, and a host core receives nothing.
LEMMA ReceiverPlaces ==
  ASSUME AllReceive, NEW c \in Cores
  PROVE  /\ c \in HostCores => ~InboxFull(c) /\ pc[c] \notin {"send back", "ack"}
         /\ c \notin HostCores => pc[c] \in Polls \cup {"send back", "ack"}
         /\ c \notin HostCores => ~relay_doorbell[c] /\ rdptr[c] = wrptr[c]
         /\ Link(c) \notin HostCores => ~InboxFull(c) /\ pc[c] \notin {"send back", "ack"}
BY LinksLeave DEF AllReceive, Receives

\* The polls are idle.
LEMMA IdleKinds ==
  ASSUME Based, AllReceive, NEW c \in Cores,
         \/ PollQueue(c) \/ PollDoorbell(c) \/ (Receive(c) /\ ~InboxFull(c)) \/ Unroutable(c)
         \/ (Scan(c) /\ pc'[c] \in {"queue", "scan"})
  PROVE  Idle(c)
<1> USE DEF hostVars, queueVars, relayVars, linkVars, coreVars, Go
<1>0. pc \in [Cores -> Places] /\ relay_doorbell \in [Cores -> BOOLEAN]
  BY AllTypes
<1>r. c \notin HostCores => pc[c] \in Polls \cup {"send back", "ack"} /\ ~relay_doorbell[c]
                            /\ rdptr[c] = wrptr[c]
  BY ReceiverPlaces
<1>1. CASE PollQueue(c)
  BY <1>0, <1>1, <1>r DEF PollQueue, Idle, Quiets, Polls, QueueReady
<1>2. CASE PollDoorbell(c)
  BY <1>0, <1>2, <1>r DEF PollDoorbell, Idle, Quiets, Polls
<1>3. CASE Receive(c) /\ ~InboxFull(c)
  BY <1>0, <1>3 DEF Receive, Idle, Quiets, Polls
<1>4. CASE Unroutable(c)
  BY <1>0, <1>4, <1>r DEF Unroutable, Idle, Quiets, Polls
<1>5. CASE Scan(c) /\ pc'[c] \in {"queue", "scan"}
  <2>1. ~ \E j : StartHop(c, j)
    BY <1>0, <1>5 DEF StartHop, FirstStep
  <2> HIDE DEF Go
  <2>2. UNCHANGED <<job, part>> /\ pc[c] = "scan"
    BY <1>5, <2>1 DEF Scan
  <2> QED BY <1>0, <1>5, <1>r, <2>2 DEF Scan, Idle, Quiets, Polls
<1> QED BY <1>1, <1>2, <1>3, <1>4, <1>5

\* Every step is of one of these kinds.
LEMMA StepKinds ==
  ASSUME Based, AllReceive, NEW c \in Cores, Step(c)
  PROVE  \/ Idle(c)
         \/ c \in HostCores /\ HostKind(c)
         \/ c \notin HostCores /\ RemoteKind(c)
<1>0. pc \in [Cores -> Places] /\ slot[c] \in Nat \ {0}
  BY AllTypes
<1>r. /\ c \in HostCores => ~InboxFull(c) /\ pc[c] \notin {"send back", "ack"}
      /\ c \notin HostCores => pc[c] \in Polls \cup {"send back", "ack"}
      /\ Link(c) \notin HostCores => ~InboxFull(c) /\ pc[c] \notin {"send back", "ack"}
  BY ReceiverPlaces
<1>1. CASE PollQueue(c) \/ PollDoorbell(c) \/ Unroutable(c)
  BY <1>1, IdleKinds
<1>2. CASE Scan(c)
  <2> DEFINE f == Siblings(c)[slot[c]]
  <2>1. CASE slot[c] <= Len(Siblings(c)) /\ relay_req[c][f].seq # relay_last_seq[c][f]
             /\ StartHop(c, relay_req[c][f]) /\ UNCHANGED slot
    <3>1. slot[c] \in DOMAIN Siblings(c)
      BY <1>0, <2>1, SiblingCores
    <3>2. Takes(c)
      BY <1>2, <2>1, <3>1 DEF Scan, Takes
    <3>3. c \in HostCores
      BY <1>2, <1>r DEF Scan, Polls
    <3> QED BY <3>2, <3>3 DEF HostKind
  <2>2. CASE pc'[c] \in {"queue", "scan"}
    BY <1>2, <2>2, IdleKinds
  <2>3. Go(c, "queue") => pc'[c] = "queue"
    BY <1>0 DEF Go
  <2> QED BY <1>2, <2>1, <2>2, <2>3 DEF Scan
<1>3. CASE Receive(c)
  <2>1. CASE ~InboxFull(c)
    BY <1>3, <2>1, IdleKinds
  <2>2. CASE InboxFull(c)
    BY <1>3, <1>r, <2>2 DEF RemoteKind
  <2> QED BY <2>1, <2>2
<1>4. CASE SendBack(c) \/ Ack(c)
  BY <1>4, <1>r DEF SendBack, Ack, RemoteKind
<1>5. CASE \/ Direct(c) \/ PostRelay(c) \/ Collect(c) \/ Ring(c) \/ StartBroadcast(c) \/ Grid(c)
           \/ Fanout(c) \/ RelayWait(c) \/ Stage(c) \/ Ship(c) \/ Header(c) \/ NextChunk(c)
           \/ OwnReply(c) \/ RelayedReply(c) \/ Deposit(c) \/ Reply(c)
  <2>1. pc[c] \notin Polls \cup {"send back", "ack"}
    BY <1>5 DEF Direct, PostRelay, Collect, Ring, StartBroadcast, Grid, Fanout, RelayWait, Stage,
       Ship, Header, NextChunk, OwnReply, RelayedReply, Replied, Deposit, Reply, Polls
  <2> QED BY <1>5, <1>r, <2>1 DEF HostKind
<1> QED BY <1>1, <1>2, <1>3, <1>4, <1>5 DEF Step

----------------------------------------------------------------------------
(* What the history records of a step.                                     *)

\* How the history variables change, by the queue.
History ==
  /\ todo' = [q \in HostCores |->
       IF Ends(q) /\ todo[q] # <<>> THEN Tail(todo[q])
       ELSE IF left'[q] # left[q] THEN Append(todo[q], Head(left[q])) ELSE todo[q]]
  /\ served' = [q \in HostCores |->
       IF Ends(q) THEN 0 ELSE IF Performs(q) THEN served[q] + 1 ELSE served[q]]
  /\ got' = [q \in HostCores |->
       IF Ends(q) THEN <<>>
       ELSE IF \E r \in Cores : Accesses(r) /\ Origin(r) = q /\ req_inbox[r].op \in Reads
       THEN LET r == CHOOSE r \in Cores : Accesses(r) /\ Origin(r) = q
            IN Append(got[q], IF req_inbox[r].op = "READ" THEN access'[r] ELSE block_buf'[r])
       ELSE got[q]]

\* It is what MCNext says.
LEMMA NextHistory == MCNext <=> Next /\ History
BY DEF MCNext, History

\* Core c counts a write; it performs a part of queue q's command.
Counts(c) == wr_req'[c] # wr_req[c]
PerformsFor(c, q) ==
  (Accesses(c) /\ Origin(c) = q) \/ (c = q /\ pc[c] = "grid" /\ <<pc[q], part[q]>>' # <<pc[q], part[q]>>)

\* What a step of core c adds to the history of queue q.
LEMMA StepHistory ==
  ASSUME Based, NEW c \in Cores, Frame(c), History, NEW q \in HostCores
  PROVE  /\ todo'[q] = IF q = c /\ Counts(c) /\ todo[q] # <<>> THEN Tail(todo[q]) ELSE todo[q]
         /\ served'[q] = IF q = c /\ Counts(c) THEN 0
                         ELSE IF PerformsFor(c, q) THEN served[q] + 1 ELSE served[q]
         /\ got'[q] = IF q = c /\ Counts(c) THEN <<>>
                      ELSE IF Accesses(c) /\ Origin(c) = q /\ req_inbox[c].op \in Reads
                      THEN Append(got[q], IF req_inbox[c].op = "READ" THEN access'[c] ELSE block_buf'[c])
                      ELSE got[q]
<1>0. q \in Cores
  BY Bounds
<1>1. left' = left /\ answers' = answers
  BY DEF Frame
<1>2. Ends(q) <=> q = c /\ Counts(c)
  <2>1. q # c => wr_req'[q] = wr_req[q]
    BY <1>0, FrameOthers
  <2> QED BY <1>1, <2>1 DEF Ends, Counts
<1>3. \A r \in Cores : Accesses(r) => r = c
  <2> SUFFICES ASSUME NEW r \in Cores, r # c PROVE ~Accesses(r)
    OBVIOUS
  <2>1. pc'[r] = pc[r]
    BY FrameOthers
  <2> QED BY <2>1 DEF Accesses
<1>4. Performs(q) <=> PerformsFor(c, q)
  <2>1. q # c => pc'[q] = pc[q] /\ part'[q] = part[q]
    BY <1>0, FrameOthers
  <2>2. (\E r \in Cores : Accesses(r) /\ Origin(r) = q) <=> Accesses(c) /\ Origin(c) = q
    BY <1>3
  <2> QED BY <2>1, <2>2 DEF Performs, PerformsFor
<1>5. todo'[q] = IF Ends(q) /\ todo[q] # <<>> THEN Tail(todo[q]) ELSE todo[q]
  BY <1>1 DEF History
<1>6. served'[q] = IF Ends(q) THEN 0 ELSE IF Performs(q) THEN served[q] + 1 ELSE served[q]
  BY DEF History
<1>7. got'[q] = IF Ends(q) THEN <<>>
                ELSE IF \E r \in Cores : Accesses(r) /\ Origin(r) = q /\ req_inbox[r].op \in Reads
                THEN LET r == CHOOSE r \in Cores : Accesses(r) /\ Origin(r) = q
                     IN Append(got[q], IF req_inbox[r].op = "READ" THEN access'[r] ELSE block_buf'[r])
                ELSE got[q]
  BY DEF History
<1>8. Accesses(c) /\ Origin(c) = q => (CHOOSE r \in Cores : Accesses(r) /\ Origin(r) = q) = c
  BY <1>3
<1>9. got'[q] = IF Ends(q) THEN <<>>
                ELSE IF Accesses(c) /\ Origin(c) = q /\ req_inbox[c].op \in Reads
                THEN Append(got[q], IF req_inbox[c].op = "READ" THEN access'[c] ELSE block_buf'[c])
                ELSE got[q]
  <2>1. (\E r \in Cores : Accesses(r) /\ Origin(r) = q /\ req_inbox[r].op \in Reads)
        <=> Accesses(c) /\ Origin(c) = q /\ req_inbox[c].op \in Reads
    BY <1>3
  <2> QED BY <1>7, <1>8, <2>1
<1> QED BY <1>2, <1>4, <1>5, <1>6, <1>9

\* Most steps leave no trace in the history.
Silent(q) == todo'[q] = todo[q] /\ served'[q] = served[q] /\ got'[q] = got[q]

\* A step that neither counts nor performs is silent.
LEMMA StepSilent ==
  ASSUME Based, NEW c \in Cores, Frame(c), History, NEW q \in HostCores,
         q = c => wr_req'[c] = wr_req[c] /\ pc[c] # "grid",
         ~(Accesses(c) /\ Origin(c) = q)
  PROVE  Silent(q)
BY StepHistory DEF Silent, Counts, PerformsFor

----------------------------------------------------------------------------
(* Who receives.                                                           *)

\* A relay goes to the sibling whose link ends at the target.
LEMMA EgressGoes ==
  ASSUME NEW q \in HostCores, Control(q), Outstanding(q)
  PROVE  /\ Egress(q) = Route(Target(q)) /\ Egress(q) \in HostCores /\ Egress(q) # q
         /\ Peer(Egress(q)) = Target(q) /\ Egress(q) \in Cores /\ q \in Cores
<1>1. Egress(q) = Route(Target(q))
  BY DEF Egress, Target
<1>2. Routable(Target(q)) /\ Target(q) # Peer(q)
  BY DEF Control
<1> QED BY <1>1, <1>2, RouteGoes, Bounds

\* A remote core keeps to receiving.
LEMMA ReceivesKept ==
  ASSUME Based, AllReceive, \A q \in HostCores : Control(q), NEW c \in Cores, Step(c)
  PROVE  AllReceive'
<1> USE DEF hostVars, queueVars, relayVars, linkVars, coreVars, Go
<1>0. pc \in [Cores -> Places] /\ relay_doorbell \in [Cores -> BOOLEAN]
  BY AllTypes
<1>f. Frame(c)
  BY StepFrame
<1>k. \/ Idle(c)
      \/ c \in HostCores /\ HostKind(c)
      \/ c \notin HostCores /\ RemoteKind(c)
  BY StepKinds
<1>b. ASSUME NEW r \in Cores, r \notin HostCores PROVE ~relay_doorbell'[r]
  <2>1. ~relay_doorbell[r]
    BY <1>b, ReceiverPlaces
  <2>2. CASE Idle(c)
    BY <2>1, <2>2 DEF Idle
  <2>3. CASE c \in HostCores /\ HostKind(c) /\ ~Idle(c)
    <3>1. CASE Ring(c)
      <4>1. Egress(c) \in HostCores
        BY <2>3, <3>1, EgressGoes DEF Ring, Outstanding
      <4>2. relay_doorbell' = [relay_doorbell EXCEPT ![Egress(c)] = TRUE]
        BY <3>1 DEF Ring, NocPut, Egress
      <4> QED BY <1>0, <1>b, <2>1, <4>1, <4>2
    <3>2. CASE ~Ring(c)
      <4>1. relay_doorbell' = relay_doorbell
        BY <2>3, <3>2 DEF HostKind, Direct, PostRelay, Collect, StartBroadcast, Grid, Fanout,
           RelayWait, Stage, Ship, Header, NextChunk, OwnReply, RelayedReply, Takes, Deposit, Reply
      <4> QED BY <2>1, <4>1
    <3> QED BY <3>1, <3>2
  <2>4. CASE c \notin HostCores /\ RemoteKind(c)
    <3>1. relay_doorbell' = relay_doorbell
      BY <2>4 DEF RemoteKind, Receive, SendBack, Ack
    <3> QED BY <2>1, <3>1
  <2> QED BY <1>k, <2>2, <2>3, <2>4
<1>1. ASSUME NEW r \in Cores, r # c PROVE Receives(r)'
  <2>1. /\ pc'[r] = pc[r] /\ rdptr'[r] = rdptr[r] /\ wrptr'[r] = wrptr[r]
        /\ last_recv_seq'[r] = last_recv_seq[r]
    BY <1>f, <1>1, FrameOthers
  <2>2. Link(r) \notin HostCores => req_inbox'[r] = req_inbox[r]
    <3>1. req_inbox'[r] # req_inbox[r] => r = Link(c) /\ pc[c] = "header"
      BY <1>f DEF Frame
    <3>2. pc[c] = "header" => c \in HostCores
      BY ReceiverPlaces DEF Polls
    <3>3. Link(Link(c)) = c
      BY EthAssumption
    <3> QED BY <3>1, <3>2, <3>3
  <2> QED BY <1>1, <1>b, <2>1, <2>2 DEF AllReceive, Receives, InboxFull
<1>2. Receives(c)'
  <2>0. /\ wrptr' = wrptr
        /\ c \notin HostCores => rdptr[c] = wrptr[c]
    BY <1>f, ReceiverPlaces DEF Frame
  <2>1. CASE Idle(c)
    <3>1. c \notin HostCores => pc'[c] \in Polls
      BY <2>1 DEF Idle
    <3>2. UNCHANGED <<rdptr, req_inbox, last_recv_seq>> /\ pc'[c] \notin {"send back", "ack"}
      BY <2>1 DEF Idle, Quiets, Polls
    <3> QED BY <1>b, <2>0, <3>1, <3>2, ReceiverPlaces DEF Receives, InboxFull
  <2>2. CASE c \in HostCores /\ HostKind(c) /\ ~Idle(c)
    <3>1. Link(c) \notin HostCores /\ Link(c) # c
      BY <2>2, LinksLeave
    <3>2. ~InboxFull(c) /\ pc[c] \notin {"send back", "ack"}
      BY <2>2, ReceiverPlaces
    <3>3. req_inbox'[c] = req_inbox[c]
      BY <1>f, <3>1 DEF Frame
    <3>4. ASSUME Advance(c) PROVE pc'[c] \in {"inbox", "decode"}
      BY <1>0, <3>4 DEF Advance
    <3>5. ASSUME NEW j, StartHop(c, j) PROVE pc'[c] \in {"stage", "ship", "header"}
      BY <1>0, <3>5 DEF StartHop, FirstStep
    <3>6. ASSUME NEW w, NEW b, Complete(c, w, b) PROVE pc'[c] \in {"inbox", "decode"}
      BY <3>4, <3>6 DEF Complete, CountWrite, Respond
    <3>7. pc'[c] \notin {"send back", "ack"}
      <4>1. CASE Direct(c)
        BY <3>5, <4>1 DEF Direct
      <4>2. CASE Collect(c)
        <5> HIDE DEF Go
        <5> QED BY <3>6, <4>2 DEF Collect
      <4>3. CASE Fanout(c)
        <5>1. CASE CountWrite(c)
          BY <3>4, <5>1 DEF CountWrite
        <5>2. CASE \E j : StartHop(c, j)
          BY <3>5, <5>2
        <5>3. CASE \E e, m, b : PutSlot(c, e, m, b)
          BY <1>0, <5>3 DEF PutSlot
        <5> HIDE DEF Go
        <5> QED BY <4>3, <5>1, <5>2, <5>3 DEF Fanout
      <4>4. CASE NextChunk(c)
        BY <1>0, <4>4 DEF NextChunk, FirstStep
      <4>5. CASE OwnReply(c)
        <5>1. CASE job[c].op = "BROADCAST"
          BY <1>0, <4>5, <5>1 DEF OwnReply
        <5>2. CASE job[c].op # "BROADCAST"
          <6> HIDE DEF Go
          <6> QED BY <3>6, <4>5, <5>2 DEF OwnReply
        <5> QED BY <5>1, <5>2
      <4>6. CASE Takes(c)
        BY <3>5, <4>6 DEF Takes
      <4>7. CASE \/ PostRelay(c) \/ Ring(c) \/ StartBroadcast(c) \/ Grid(c) \/ RelayWait(c)
                 \/ Stage(c) \/ Ship(c) \/ Header(c) \/ RelayedReply(c) \/ Deposit(c) \/ Reply(c)
        BY <1>0, <3>2, <4>7 DEF PostRelay, PutSlot, Ring, StartBroadcast, Grid, RelayWait, Stage,
           Ship, Header, RelayedReply, Deposit, Reply
      <4> QED BY <2>2, <4>1, <4>2, <4>3, <4>4, <4>5, <4>6, <4>7 DEF HostKind
    <3>8. last_recv_seq' = last_recv_seq
      BY <2>2 DEF HostKind, Direct, PostRelay, Collect, Ring, StartBroadcast, Grid, Fanout,
           RelayWait, Stage, Ship, Header, NextChunk, OwnReply, RelayedReply, Takes, Deposit, Reply
    <3> QED BY <2>2, <3>2, <3>3, <3>7, <3>8 DEF Receives, InboxFull
  <2>3. CASE c \notin HostCores /\ RemoteKind(c)
    <3>1. pc'[c] \in {"send back", "ack", "doorbell"} /\ rdptr' = rdptr /\ Link(c) \in HostCores
      BY <1>0, <2>3 DEF RemoteKind, Receive, SendBack, Ack
    <3> QED BY <1>b, <2>0, <2>3, <3>1 DEF Receives, Polls
  <2> QED BY <1>k, <2>1, <2>2, <2>3
<1> QED BY <1>1, <1>2 DEF AllReceive

----------------------------------------------------------------------------
(* Rings.                                                                  *)

\* Places from pointer r to pointer p, in a ring of twice the size.
Dist(r, p) == IF p >= r THEN p - r ELSE p + 2 * BufSize - r

\* One place on, at either end.
LEMMA DistFacts ==
  ASSUME NEW r \in Ptrs, NEW p \in Ptrs
  PROVE  /\ Dist(r, p) \in Nat /\ Dist(r, p) < 2 * BufSize /\ (Dist(r, p) = 0 <=> p = r)
         /\ Dist(Inc(r), p) = IF p = r THEN 2 * BufSize - 1 ELSE Dist(r, p) - 1
         /\ Dist(r, Inc(p)) = IF Dist(r, p) = 2 * BufSize - 1 THEN 0 ELSE Dist(r, p) + 1
<1>1. BufSize \in Nat /\ BufSize > 0 /\ r \in Nat /\ r < 2 * BufSize /\ p \in Nat /\ p < 2 * BufSize
  BY Bounds DEF Ptrs
<1>2. /\ Inc(r) = IF r = 2 * BufSize - 1 THEN 0 ELSE r + 1
      /\ Inc(p) = IF p = 2 * BufSize - 1 THEN 0 ELSE p + 1
  BY Pointers
<1> QED BY <1>1, <1>2 DEF Dist

\* Two places of the ring that are less than its size apart have slots of their own.
LEMMA DistSlots ==
  ASSUME NEW r \in Ptrs, NEW p \in Ptrs, NEW w \in Ptrs,
         Dist(r, p) < Dist(r, w), Dist(r, w) < BufSize
  PROVE  SlotOf(p) # SlotOf(w)
<1>1. /\ BufSize \in Nat /\ BufSize > 0 /\ r \in Nat /\ r < 2 * BufSize
      /\ p \in Nat /\ p < 2 * BufSize /\ w \in Nat /\ w < 2 * BufSize
  BY Bounds DEF Ptrs
<1>2. /\ SlotOf(p) = IF p < BufSize THEN p ELSE p - BufSize
      /\ SlotOf(w) = IF w < BufSize THEN w ELSE w - BufSize
  BY Pointers
<1> QED BY <1>1, <1>2 DEF Dist

\* The queue's fill is such a distance.
LEMMA UptoDist == \A q, p : Upto(q, p) = Dist(rdptr[q], p)
BY DEF Upto, Dist

LEMMA UptoFacts ==
  ASSUME Based, NEW q \in Cores, NEW p \in Ptrs
  PROVE  Upto(q, p) \in Nat /\ Upto(q, p) < 2 * BufSize /\ (Upto(q, p) = 0 <=> p = rdptr[q])
<1>1. rdptr[q] \in Ptrs
  BY AllTypes
<1> QED BY <1>1, DistFacts, UptoDist

\* A core that executes a command has it at the head.
LEMMA Busy ==
  ASSUME Based, NEW c \in Cores, Executes(c)
  PROVE  rdptr[c] # wrptr[c]
<1>1. /\ 1 <= Upto(c, snap[c]) /\ Upto(c, snap[c]) <= Upto(c, wrptr[c])
  BY DEF Based, RelayInv, QueueKept
<1>2. /\ Upto(c, wrptr[c]) \in Nat /\ Upto(c, snap[c]) \in Nat
      /\ Upto(c, wrptr[c]) = 0 <=> wrptr[c] = rdptr[c]
  BY AllTypes, UptoFacts
<1> QED BY <1>1, <1>2

\* The head of the ring is the first of the commands that are not answered.
LEMMA HeadTodo ==
  ASSUME Based, NEW q \in HostCores, RingKept(q), rdptr[q] # wrptr[q]
  PROVE  /\ ~Responded(q) /\ Len(todo[q]) = Upto(q, wrptr[q]) /\ Len(todo[q]) >= 1
         /\ Len(todo[q]) \in Nat /\ Len(todo[q]) <= BufSize
         /\ todo[q] # <<>> /\ Head(todo[q]) = Head0(q) /\ todo[q][1] = Head0(q)
         /\ InSlot(q, rdptr[q]) /\ Upto(q, rdptr[q]) = 0 /\ todo[q] \in Seq(Command)
         /\ Head0(q).op = "BLOCK_WRITE" => data_buffer[q][SlotOf(rdptr[q])] = Head0(q).data
<1>0. q \in Cores /\ rdptr[q] \in Ptrs /\ wrptr[q] \in Ptrs /\ todo[q] \in Seq(Command)
  BY AllTypes, Bounds
<1>1. Upto(q, wrptr[q]) \in Nat /\ Upto(q, wrptr[q]) # 0 /\ Upto(q, rdptr[q]) = 0
      /\ Upto(q, wrptr[q]) <= BufSize
  BY <1>0, UptoFacts DEF Based, RelayInv, QueueKept
<1>2. ~Responded(q) /\ Len(todo[q]) = Upto(q, wrptr[q]) /\ Len(todo[q]) >= 1
  BY <1>1 DEF RingKept
<1>3. InSlot(q, rdptr[q])
  <2>1. \A p \in Ptrs : Upto(q, p) < Len(todo[q]) => InSlot(q, p)
    BY <1>2 DEF RingKept
  <2>2. Upto(q, rdptr[q]) < Len(todo[q])
    BY <1>1, <1>2
  <2> QED BY <1>0, <2>1, <2>2
<1>4. todo[q][1] = Head0(q)
  BY <1>1, <1>3 DEF InSlot, Head0
<1>5. todo[q] # <<>> /\ Head(todo[q]) = todo[q][1]
  BY <1>0, <1>2
<1>6. Head0(q).op = "BLOCK_WRITE" => data_buffer[q][SlotOf(rdptr[q])] = Head0(q).data
  BY <1>3 DEF InSlot, Head0
<1> QED BY <1>0, <1>1, <1>2, <1>3, <1>4, <1>5, <1>6

\* A step that leaves the queue as it is.
LEMMA RingSame ==
  ASSUME NEW q, RingKept(q), resp_rdptr'[q] = resp_rdptr[q], resp_wrptr'[q] = resp_wrptr[q],
         rdptr'[q] = rdptr[q], wrptr'[q] = wrptr[q], waits'[q] = waits[q], todo'[q] = todo[q],
         req'[q] = req[q], data_buffer'[q] = data_buffer[q]
  PROVE  RingKept(q)'
BY DEF RingKept, Responded, InSlot, Upto

\* The steps that end a command of the queue.
Finishes(c) == \E w, b \in Nat : Complete(c, w, b)

\* A step leaves the pointers as they are, or ends the head command.
LEMMA StepEnds ==
  ASSUME Based, NEW c \in Cores, Step(c)
  PROVE  \/ UNCHANGED <<rdptr[c], wr_req[c], resp_wrptr[c], data_buffer[c], resp[c]>>
         \/ Executes(c) /\ Finishes(c)
<1> USE DEF hostVars, queueVars, relayVars, linkVars, coreVars
<1>0. resp_inbox[c].data \in Nat /\ block_buf[c] \in Nat /\ relay_resp[c].data \in Nat
      /\ relay_resp_block[c] \in Nat
  BY AllTypes DEF Word
<1>1. CASE Collect(c)
  BY <1>0, <1>1 DEF Collect, Finishes, Executes, Commands
<1>2. CASE Fanout(c)
  <2>1. CASE CountWrite(c)
    BY <1>2, <2>1 DEF Fanout, Finishes, Complete, Executes, Commands
  <2>2. CASE UNCHANGED queueVars
    BY <2>2
  <2> QED BY <1>2, <2>1, <2>2 DEF Fanout
<1>3. CASE OwnReply(c)
  BY <1>0, <1>3 DEF OwnReply, Replied, Finishes, Executes, Hops
<1>4. CASE ~Collect(c) /\ ~Fanout(c) /\ ~OwnReply(c)
  BY <1>4 DEF Step, PollQueue, PollDoorbell, Direct, PostRelay, Unroutable, Ring, StartBroadcast,
     Grid, RelayWait, Stage, Ship, Header, NextChunk, RelayedReply, Scan, Deposit, Reply, Receive,
     SendBack, Ack
<1> QED BY <1>1, <1>2, <1>3, <1>4

\* A command that a core finishes: a write is counted, a read is responded to.
LEMMA FinishFacts ==
  ASSUME Based, NEW c \in Cores, NEW w, NEW b, Complete(c, w, b)
  PROVE  /\ rdptr'[c] = Inc(rdptr[c]) /\ pc'[c] \in {"inbox", "decode"}
         /\ \/ /\ Head0(c).op \in Writes /\ wr_req'[c] = wr_req[c] + 1 /\ wr_req'[c] # wr_req[c]
               /\ UNCHANGED <<resp_wrptr[c], data_buffer[c], resp[c]>>
            \/ /\ Head0(c).op \in Reads /\ wr_req'[c] = wr_req[c]
               /\ resp_wrptr'[c] = Inc(resp_wrptr[c])
               /\ Head0(c).op = "READ" => resp'[c][SlotOf(resp_wrptr[c])] = w
               /\ Head0(c).op = "BLOCK_READ" => data_buffer'[c][SlotOf(resp_wrptr[c])] = b
<1>0. /\ rdptr \in [Cores -> Ptrs] /\ pc \in [Cores -> Places] /\ wr_req \in [Cores -> Nat]
      /\ resp \in [Cores -> [Slots -> Nat]] /\ resp_wrptr \in [Cores -> Ptrs]
      /\ data_buffer \in [Cores -> [Slots -> Nat]] /\ SlotOf(resp_wrptr[c]) \in Slots
  BY AllTypes, Pointers
<1>1. CASE CountWrite(c)
  BY <1>0, <1>1 DEF CountWrite, Advance, Go
<1>2. CASE Respond(c, w, b)
  BY <1>0, <1>2 DEF Respond, Advance, Go
<1> QED BY <1>1, <1>2 DEF Complete

\* A write is counted.
LEMMA RingCounted ==
  ASSUME Based, NEW q \in HostCores, RingKept(q), rdptr[q] # wrptr[q], Head0(q).op \in Writes,
         rdptr'[q] = Inc(rdptr[q]), wrptr'[q] = wrptr[q], req'[q] = req[q], waits'[q] = waits[q],
         resp_rdptr'[q] = resp_rdptr[q], resp_wrptr'[q] = resp_wrptr[q],
         data_buffer'[q] = data_buffer[q], todo'[q] = Tail(todo[q])
  PROVE  RingKept(q)'
<1>0. q \in Cores /\ rdptr[q] \in Ptrs /\ wrptr[q] \in Ptrs /\ BufSize \in Nat /\ BufSize > 0
      /\ waits[q] \in Reads \cup {"none"}
  BY AllTypes, Bounds
<1>1. /\ ~Responded(q) /\ Len(todo[q]) = Upto(q, wrptr[q]) /\ Len(todo[q]) >= 1
      /\ Len(todo[q]) \in Nat /\ Len(todo[q]) <= BufSize /\ todo[q][1] = Head0(q)
      /\ todo[q] \in Seq(Command)
  BY HeadTodo
<1>2. \A p \in Ptrs : /\ Upto(q, p) \in Nat
                      /\ Upto(q, p)' = IF p = rdptr[q] THEN 2 * BufSize - 1 ELSE Upto(q, p) - 1
  <2> SUFFICES ASSUME NEW p \in Ptrs
               PROVE  /\ Upto(q, p) \in Nat
                      /\ Upto(q, p)' = IF p = rdptr[q] THEN 2 * BufSize - 1 ELSE Upto(q, p) - 1
    OBVIOUS
  <2>1. Upto(q, p) = Dist(rdptr[q], p) /\ Upto(q, p)' = Dist(Inc(rdptr[q]), p)
    BY DEF Upto, Dist
  <2> QED BY <1>0, <2>1, DistFacts
<1>3. Upto(q, wrptr[q])' = Upto(q, wrptr[q]) - 1
  <2>1. Upto(q, wrptr[q])' = Dist(Inc(rdptr[q]), wrptr[q]) /\ Upto(q, wrptr[q]) = Dist(rdptr[q], wrptr[q])
    BY DEF Upto, Dist
  <2> QED BY <1>0, <2>1, DistFacts
<1>4. /\ Len(todo'[q]) = Len(todo[q]) - 1
      /\ \A i \in Nat \ {0} : i <= Len(todo[q]) - 1 => todo'[q][i] = todo[q][i + 1]
  BY <1>1
<1>5. ~Responded(q)'
  BY <1>1 DEF Responded
<1>6. ASSUME NEW p \in Ptrs, Upto(q, p)' < Len(todo'[q]) PROVE InSlot(q, p)'
  <2>1. p # rdptr[q] /\ Upto(q, p)' = Upto(q, p) - 1 /\ Upto(q, p) \in Nat
    BY <1>0, <1>1, <1>2, <1>4, <1>6
  <2>2. Upto(q, p) # 0
    BY <1>0, <2>1, UptoFacts
  <2>3. InSlot(q, p)
    <3>1. Upto(q, p) < Len(todo[q])
      BY <1>1, <1>4, <1>6, <2>1
    <3> QED BY <1>1, <3>1 DEF RingKept
  <2>4. todo'[q][Upto(q, p)' + 1] = todo[q][Upto(q, p) + 1]
    <3>1. Upto(q, p)' + 1 \in Nat \ {0} /\ Upto(q, p)' + 1 <= Len(todo[q]) - 1
          /\ (Upto(q, p)' + 1) + 1 = Upto(q, p) + 1
      BY <1>1, <1>4, <1>6, <2>1, <2>2
    <3> QED BY <1>4, <3>1
  <2>5. Upto(q, p) + 1 = Len(todo[q]) => Upto(q, p)' + 1 = Len(todo'[q])
    BY <1>1, <1>4, <2>1
  <2> QED BY <2>3, <2>4, <2>5 DEF InSlot
<1>7. ASSUME waits[q] # "none"
      PROVE  rdptr'[q] # wrptr'[q] /\ todo'[q][Len(todo'[q])].op = waits[q]
  <2>1. todo[q][Len(todo[q])].op = waits[q] /\ waits[q] \in Reads
    BY <1>0, <1>1, <1>7 DEF RingKept
  <2>2. Len(todo[q]) # 1
    BY <1>1, <2>1, OpKinds
  <2>3. todo'[q][Len(todo'[q])] = todo[q][Len(todo[q])]
    <3>1. Len(todo'[q]) \in Nat \ {0} /\ Len(todo'[q]) <= Len(todo[q]) - 1
          /\ Len(todo'[q]) + 1 = Len(todo[q])
      BY <1>1, <1>4, <2>2
    <3> QED BY <1>4, <3>1
  <2>4. rdptr'[q] # wrptr'[q]
    <3>1. Dist(Inc(rdptr[q]), wrptr[q]) = Upto(q, wrptr[q]) - 1
      BY <1>3 DEF Upto, Dist
    <3>2. Dist(Inc(rdptr[q]), wrptr[q]) # 0
      BY <1>1, <2>2, <3>1
    <3>3. Inc(rdptr[q]) \in Ptrs
      BY <1>0, Pointers
    <3> QED BY <1>0, <3>2, <3>3, DistFacts
  <2> QED BY <2>1, <2>3, <2>4
<1>8. Len(todo'[q]) = Upto(q, wrptr[q])'
  BY <1>1, <1>3, <1>4
<1> QED BY <1>5, <1>6, <1>7, <1>8 DEF RingKept

\* A read is responded to.
LEMMA RingResponded ==
  ASSUME Based, NEW q \in HostCores, RingKept(q), rdptr[q] # wrptr[q], Head0(q).op \in Reads,
         rdptr'[q] = Inc(rdptr[q]), wrptr'[q] = wrptr[q], waits'[q] = waits[q],
         resp_rdptr'[q] = resp_rdptr[q], resp_wrptr'[q] = Inc(resp_wrptr[q]), todo'[q] = todo[q]
  PROVE  RingKept(q)' /\ Responded(q)' /\ waits[q] = Head0(q).op /\ resp_rdptr[q] = resp_wrptr[q]
<1>0. q \in Cores /\ rdptr[q] \in Ptrs /\ wrptr[q] \in Ptrs /\ BufSize \in Nat /\ BufSize > 0
      /\ resp_wrptr[q] \in Ptrs
  BY AllTypes, Bounds
<1>1. /\ ~Responded(q) /\ Len(todo[q]) = Upto(q, wrptr[q]) /\ Len(todo[q]) \in Nat
      /\ todo[q][1] = Head0(q) /\ InSlot(q, rdptr[q]) /\ Upto(q, rdptr[q]) = 0
  BY HeadTodo
<1>2. Len(todo[q]) = 1 /\ waits[q] = Head0(q).op
  BY <1>1 DEF InSlot, Head0
<1>3. Inc(rdptr[q]) = wrptr[q]
  <2>1. Dist(rdptr[q], wrptr[q]) = 1
    BY <1>1, <1>2, UptoDist
  <2>2. Dist(Inc(rdptr[q]), wrptr[q]) = 0
    BY <1>0, <2>1, DistFacts
  <2> QED BY <1>0, <2>2, DistFacts, Pointers
<1>4. Inc(resp_wrptr[q]) # resp_wrptr[q]
  <2>1. Inc(resp_wrptr[q]) = IF resp_wrptr[q] = 2 * BufSize - 1 THEN 0 ELSE resp_wrptr[q] + 1
    BY <1>0, Pointers
  <2> QED BY <1>0, <2>1 DEF Ptrs
<1>5. resp_rdptr[q] = resp_wrptr[q]
  BY <1>1 DEF Responded
<1>6. Responded(q)'
  BY <1>4, <1>5 DEF Responded
<1> QED BY <1>1, <1>2, <1>3, <1>5, <1>6 DEF RingKept

\* A step of a core keeps the rings.
LEMMA RingStep ==
  ASSUME Based, NEW c \in Cores, Step(c), History, NEW q \in HostCores, RingKept(q)
  PROVE  RingKept(q)'
<1>0. q \in Cores
  BY Bounds
<1>f. Frame(c)
  BY StepFrame
<1>1. resp_rdptr' = resp_rdptr /\ waits' = waits /\ wrptr' = wrptr /\ req' = req
  BY <1>f DEF Frame
<1>2. todo'[q] = IF q = c /\ Counts(c) /\ todo[q] # <<>> THEN Tail(todo[q]) ELSE todo[q]
  BY <1>f, StepHistory
<1>3. CASE q # c
  <2>1. resp_wrptr'[q] = resp_wrptr[q] /\ rdptr'[q] = rdptr[q] /\ data_buffer'[q] = data_buffer[q]
    BY <1>0, <1>3, <1>f, FrameOthers
  <2> QED BY <1>1, <1>2, <1>3, <2>1, RingSame
<1>4. CASE q = c /\ UNCHANGED <<rdptr[c], wr_req[c], resp_wrptr[c], data_buffer[c], resp[c]>>
  BY <1>1, <1>2, <1>4, RingSame DEF Counts
<1>5. CASE q = c /\ Executes(c) /\ Finishes(c)
  <2>1. rdptr[q] # wrptr[q]
    BY <1>5, Busy
  <2>2. todo[q] # <<>>
    BY <2>1, HeadTodo
  <2>3. PICK w, b \in Nat : Complete(c, w, b)
    BY <1>5 DEF Finishes
  <2> QED BY <1>1, <1>2, <1>5, <2>1, <2>2, <2>3, FinishFacts, RingCounted, RingResponded DEF Counts
<1> QED BY <1>3, <1>4, <1>5, StepEnds

----------------------------------------------------------------------------
(* The host's steps.                                                       *)

\* No core moves: no part is performed.
LEMMA NoPart ==
  ASSUME pc' = pc, part' = part, NEW q
  PROVE  ~Performs(q) /\ \A r \in Cores : ~Accesses(r)
<1>1. \A r \in Cores : ~Accesses(r)
  BY DEF Accesses
<1> QED BY <1>1 DEF Performs

\* The host issues a command: it is the last of those that are not answered.
LEMMA PushHistory ==
  ASSUME Based, NEW c \in HostCores, HostPush(c), History, NEW q \in HostCores
  PROVE  /\ todo'[q] = IF q = c THEN Append(todo[q], Head(left[c])) ELSE todo[q]
         /\ served'[q] = served[q] /\ got'[q] = got[q]
<1> USE DEF hostVars, queueVars, relayVars, linkVars, coreVars
<1>1. left \in [HostCores -> Seq(Command)] /\ left[c] # <<>> /\ left' = [left EXCEPT ![c] = Tail(@)]
  BY AllTypes DEF HostPush
<1>2. Tail(left[c]) # left[c]
  <2>1. left[c] \in Seq(Command) /\ Len(left[c]) \in Nat
    BY <1>1
  <2>2. Len(Tail(left[c])) = Len(left[c]) - 1
    BY <1>1, <2>1
  <2>3. Len(left[c]) # Len(left[c]) - 1
    BY <2>1
  <2> QED BY <2>2, <2>3, Zenon
<1>3. left'[q] # left[q] <=> q = c
  BY <1>1, <1>2
<1>4. ~Ends(q) /\ ~Performs(q) /\ \A r \in Cores : ~Accesses(r)
  BY NoPart DEF HostPush, Ends
<1> QED BY <1>3, <1>4 DEF History

\* The host takes a response: the first of them is answered.
LEMMA TakeHistory ==
  ASSUME Based, NEW c \in HostCores, HostTake(c), History, NEW q \in HostCores
  PROVE  /\ todo'[q] = IF q = c /\ todo[q] # <<>> THEN Tail(todo[q]) ELSE todo[q]
         /\ served'[q] = IF q = c THEN 0 ELSE served[q]
         /\ got'[q] = IF q = c THEN <<>> ELSE got[q]
<1> USE DEF hostVars, queueVars, relayVars, linkVars, coreVars
<1>1. answers \in [HostCores -> Seq(Seq(Nat))] /\ left' = left /\ wr_req' = wr_req
  BY AllTypes DEF HostTake
<1>2. PICK w : answers' = [answers EXCEPT ![c] = Append(@, w)]
  BY DEF HostTake
<1>3. Append(answers[c], w) # answers[c]
  <2>1. answers[c] \in Seq(Seq(Nat)) /\ Len(answers[c]) \in Nat
    BY <1>1
  <2>2. Len(Append(answers[c], w)) = Len(answers[c]) + 1
    BY <2>1
  <2> QED BY <2>1, <2>2
<1>4. answers'[q] # answers[q] <=> q = c
  BY <1>1, <1>2, <1>3
<1>5. Ends(q) <=> q = c
  BY <1>1, <1>4 DEF Ends
<1>6. ~Performs(q) /\ \A r \in Cores : ~Accesses(r)
  BY NoPart DEF HostTake
<1> QED BY <1>1, <1>5, <1>6 DEF History

\* What the host leaves alone.
HostFrame(c) ==
  /\ UNCHANGED <<window, rdptr, wr_req, resp, resp_wrptr, relayVars, linkVars, coreVars, mem, aborted>>
  /\ \A d \in Cores \ {c} : UNCHANGED <<req[d], wrptr[d], data_buffer[d]>>
  /\ \A d \in HostCores \ {c} : UNCHANGED <<waits[d], resp_rdptr[d], answers[d], left[d]>>
  /\ Executes(c) => Head0(c)' = Head0(c)
  /\ rdptr[c] # wrptr[c] =>
       /\ Head0(c)' = Head0(c) /\ rdptr'[c] # wrptr'[c]
       /\ data_buffer'[c][SlotOf(rdptr[c])] = data_buffer[c][SlotOf(rdptr[c])]

\* The host issues a command: it is in a free slot, with its block.
LEMMA PushFacts ==
  ASSUME Based, NEW c \in HostCores, HostPush(c)
  PROVE  /\ Upto(c, wrptr[c]) < BufSize /\ wrptr' = [wrptr EXCEPT ![c] = Inc(@)]
         /\ waits[c] = "none" /\ left[c] # <<>> /\ Head(left[c]) \in Command
         /\ req' = [req EXCEPT ![c][SlotOf(wrptr[c])] = Head(left[c])]
         /\ req'[c][SlotOf(wrptr[c])] = Head(left[c])
         /\ \A s \in Slots : s # SlotOf(wrptr[c]) =>
              req'[c][s] = req[c][s] /\ data_buffer'[c][s] = data_buffer[c][s]
         /\ Head(left[c]).op = "BLOCK_WRITE" => data_buffer'[c][SlotOf(wrptr[c])] = Head(left[c]).data
         /\ waits'[c] = IF Head(left[c]).op \in Reads THEN Head(left[c]).op ELSE "none"
         /\ \A d \in Cores \ {c} : UNCHANGED <<req[d], wrptr[d], data_buffer[d]>>
         /\ \A d \in HostCores \ {c} : UNCHANGED <<waits[d], left[d]>>
<1> DEFINE m == Head(left[c])  s0 == SlotOf(wrptr[c])
<1>0. /\ c \in Cores /\ rdptr[c] \in Ptrs /\ wrptr[c] \in Ptrs /\ wrptr \in [Cores -> Ptrs]
      /\ req \in [Cores -> [Slots -> Command]] /\ data_buffer \in [Cores -> [Slots -> Nat]]
      /\ waits \in [HostCores -> Reads \cup {"none"}] /\ left \in [HostCores -> Seq(Command)]
      /\ s0 \in Slots /\ BufSize \in Nat
  BY AllTypes, Bounds, Pointers
<1>1. Upto(c, wrptr[c]) < BufSize
  <2>1. ~Full(c)
    BY DEF HostPush
  <2>2. Upto(c, wrptr[c]) # BufSize
    BY <1>0, <2>1, FullRing
  <2>3. Upto(c, wrptr[c]) <= BufSize
    BY <1>0 DEF Based, RelayInv, QueueKept
  <2>4. Upto(c, wrptr[c]) \in Nat
    BY <1>0, UptoFacts
  <2> QED BY <1>0, <2>2, <2>3, <2>4
<1>2. /\ waits[c] = "none" /\ left[c] # <<>> /\ wrptr' = [wrptr EXCEPT ![c] = Inc(@)]
      /\ req' = [req EXCEPT ![c][s0] = m] /\ left' = [left EXCEPT ![c] = Tail(@)]
      /\ data_buffer' = IF m.op = "BLOCK_WRITE" THEN [data_buffer EXCEPT ![c][s0] = m.data] ELSE data_buffer
      /\ waits' = [waits EXCEPT ![c] = IF m.op \in Reads THEN m.op ELSE "none"]
  BY DEF HostPush
<1>3. m \in Command
  <2>1. left[c] \in Seq(Command) /\ left[c] # <<>>
    BY <1>0, <1>2
  <2> QED BY <2>1
<1> HIDE DEF m, s0
<1>4. /\ req'[c][s0] = m /\ \A s \in Slots : s # s0 => req'[c][s] = req[c][s]
      /\ \A d \in Cores \ {c} : req'[d] = req[d] /\ wrptr'[d] = wrptr[d]
  BY <1>0, <1>2
<1>5. /\ m.op = "BLOCK_WRITE" => data_buffer'[c][s0] = m.data
      /\ \A s \in Slots : s # s0 => data_buffer'[c][s] = data_buffer[c][s]
      /\ \A d \in Cores \ {c} : data_buffer'[d] = data_buffer[d]
  BY <1>0, <1>2
<1>6. /\ \A d \in HostCores \ {c} : UNCHANGED <<waits[d], left[d]>>
      /\ waits'[c] = IF m.op \in Reads THEN m.op ELSE "none"
  BY <1>0, <1>2
<1> QED BY <1>1, <1>2, <1>3, <1>4, <1>5, <1>6 DEF m, s0

\* A step of the host keeps to its frame.
LEMMA HostFrames ==
  ASSUME Based, NEW c \in HostCores, Host(c)
  PROVE  HostFrame(c)
<1> USE DEF hostVars, queueVars
<1>0. c \in Cores /\ rdptr[c] \in Ptrs /\ wrptr[c] \in Ptrs /\ resp_rdptr \in [HostCores -> Ptrs]
      /\ waits \in [HostCores -> Reads \cup {"none"}] /\ answers \in [HostCores -> Seq(Seq(Nat))]
      /\ BufSize \in Nat /\ wrptr \in [Cores -> Ptrs]
  BY AllTypes, Bounds
<1>1. CASE HostPush(c)
  <2>1. Executes(c) => rdptr[c] # wrptr[c]
    BY <1>0, Busy
  <2>2. /\ Upto(c, wrptr[c]) < BufSize /\ wrptr'[c] = Inc(wrptr[c])
        /\ \A s \in Slots : s # SlotOf(wrptr[c]) =>
              req'[c][s] = req[c][s] /\ data_buffer'[c][s] = data_buffer[c][s]
    BY <1>0, <1>1, PushFacts
  <2>3. ASSUME rdptr[c] # wrptr[c]
        PROVE  /\ Head0(c)' = Head0(c) /\ rdptr'[c] # wrptr'[c]
               /\ data_buffer'[c][SlotOf(rdptr[c])] = data_buffer[c][SlotOf(rdptr[c])]
    <3>1. Upto(c, wrptr[c]) \in Nat /\ Upto(c, wrptr[c]) # 0 /\ Upto(c, rdptr[c]) = 0
      BY <1>0, <2>3, UptoFacts
    <3>2. SlotOf(rdptr[c]) # SlotOf(wrptr[c]) /\ SlotOf(rdptr[c]) \in Slots
      <4>1. Dist(rdptr[c], rdptr[c]) < Dist(rdptr[c], wrptr[c]) /\ Dist(rdptr[c], wrptr[c]) < BufSize
        BY <1>0, <2>2, <3>1, UptoDist
      <4> QED BY <1>0, <4>1, DistSlots, Pointers
    <3>3. rdptr' = rdptr
      BY <1>1 DEF HostPush
    <3>4. Inc(wrptr[c]) # rdptr[c]
      <4>1. Dist(rdptr[c], Inc(wrptr[c])) = Dist(rdptr[c], wrptr[c]) + 1
        BY <1>0, <2>2, <3>1, DistFacts, UptoDist
      <4>2. Dist(rdptr[c], Inc(wrptr[c])) # 0
        BY <3>1, <4>1, UptoDist
      <4> QED BY <1>0, <4>2, DistFacts, Pointers
    <3> QED BY <2>2, <3>2, <3>3, <3>4 DEF Head0
  <2> QED BY <1>1, <2>1, <2>3, PushFacts DEF HostPush, HostFrame
<1>2. CASE HostTake(c)
  BY <1>0, <1>2 DEF HostTake, HostFrame, Head0
<1> QED BY <1>1, <1>2 DEF Host

\* Issuing a command keeps the ring.
LEMMA RingPushed ==
  ASSUME Based, NEW c \in HostCores, HostPush(c), History, RingKept(c)
  PROVE  RingKept(c)'
<1> DEFINE m == Head(left[c])
<1>0. /\ c \in Cores /\ rdptr[c] \in Ptrs /\ wrptr[c] \in Ptrs /\ BufSize \in Nat /\ BufSize > 0
      /\ todo[c] \in Seq(Command) /\ Upto(c, wrptr[c]) \in Nat /\ wrptr \in [Cores -> Ptrs]
  BY AllTypes, Bounds, UptoFacts
<1>1. /\ Upto(c, wrptr[c]) < BufSize /\ wrptr'[c] = Inc(wrptr[c]) /\ waits[c] = "none"
      /\ req'[c][SlotOf(wrptr[c])] = m /\ m \in Command
      /\ \A s \in Slots : s # SlotOf(wrptr[c]) =>
           req'[c][s] = req[c][s] /\ data_buffer'[c][s] = data_buffer[c][s]
      /\ m.op = "BLOCK_WRITE" => data_buffer'[c][SlotOf(wrptr[c])] = m.data
      /\ waits'[c] = IF m.op \in Reads THEN m.op ELSE "none"
  BY <1>0, PushFacts
<1>2. UNCHANGED <<rdptr, resp_rdptr, resp_wrptr>>
  BY DEF HostPush
<1>3. todo'[c] = Append(todo[c], m)
  BY PushHistory
<1> HIDE DEF m
<1>4. ~Responded(c) /\ ~Responded(c)'
  <2>1. ~Responded(c)
    BY <1>1, OpKinds DEF RingKept
  <2> QED BY <1>2, <2>1 DEF Responded
<1>5. /\ Len(todo[c]) = Upto(c, wrptr[c]) /\ \A p \in Ptrs : Upto(c, p) < Len(todo[c]) => InSlot(c, p)
  BY <1>4 DEF RingKept
<1>6. /\ Len(todo'[c]) = Len(todo[c]) + 1 /\ todo'[c][Len(todo[c]) + 1] = m
      /\ \A i \in Nat \ {0} : i <= Len(todo[c]) => todo'[c][i] = todo[c][i]
  BY <1>0, <1>3
<1>7. \A p \in Ptrs : Upto(c, p)' = Upto(c, p)
  BY <1>2 DEF Upto
<1>8. Upto(c, wrptr[c])' = Upto(c, wrptr[c]) + 1
  <2>1. Upto(c, wrptr[c])' = Dist(rdptr[c], Inc(wrptr[c])) /\ Upto(c, wrptr[c]) = Dist(rdptr[c], wrptr[c])
    BY <1>1, <1>2 DEF Upto, Dist
  <2> QED BY <1>0, <1>1, <2>1, DistFacts
<1>9. ASSUME NEW p \in Ptrs, Upto(c, p)' < Len(todo'[c]) PROVE InSlot(c, p)'
  <2>0. Upto(c, p) \in Nat /\ Len(todo[c]) \in Nat /\ SlotOf(p) \in Slots
    BY <1>0, UptoFacts, Pointers
  <2>1. CASE Upto(c, p) < Len(todo[c])
    <3>1. InSlot(c, p)
      BY <1>5, <2>1
    <3>2. SlotOf(p) # SlotOf(wrptr[c])
      BY <1>0, <1>1, <1>5, <2>1, UptoDist, DistSlots
    <3>3. req'[c][SlotOf(p)] = req[c][SlotOf(p)] /\ data_buffer'[c][SlotOf(p)] = data_buffer[c][SlotOf(p)]
      BY <1>1, <2>0, <3>2
    <3>4. todo'[c][Upto(c, p) + 1] = todo[c][Upto(c, p) + 1]
      <4>1. Upto(c, p) + 1 \in Nat \ {0} /\ Upto(c, p) + 1 <= Len(todo[c])
        BY <2>0, <2>1
      <4> QED BY <1>6, <4>1
    \* nothing is waited for, so none of the commands that were there reads
    <3>5. req[c][SlotOf(p)].op \notin Reads
      BY <1>1, <3>1, OpKinds DEF InSlot
    <3> QED BY <1>7, <3>1, <3>3, <3>4, <3>5 DEF InSlot
  <2>2. CASE ~(Upto(c, p) < Len(todo[c]))
    <3>1. Upto(c, p) = Upto(c, wrptr[c])
      BY <1>5, <1>6, <1>7, <1>9, <2>0, <2>2
    <3>2. p = wrptr[c]
      <4>1. Dist(rdptr[c], p) = Dist(rdptr[c], wrptr[c])
        BY <3>1, UptoDist
      <4>2. /\ rdptr[c] \in Nat /\ p \in Nat /\ wrptr[c] \in Nat
            /\ rdptr[c] < 2 * BufSize /\ p < 2 * BufSize /\ wrptr[c] < 2 * BufSize
        BY <1>0 DEF Ptrs
      <4> QED BY <1>0, <4>1, <4>2 DEF Dist
    <3>3. Upto(c, p)' + 1 = Len(todo[c]) + 1 /\ Upto(c, p)' + 1 = Len(todo'[c])
      BY <1>5, <1>6, <1>7, <3>1
    <3> QED BY <1>1, <1>6, <3>2, <3>3 DEF InSlot
  <2> QED BY <2>1, <2>2
<1>10. Len(todo'[c]) = Upto(c, wrptr[c])'
  BY <1>5, <1>6, <1>8
<1>11. waits'[c] # "none" => rdptr'[c] # wrptr'[c] /\ todo'[c][Len(todo'[c])].op = waits'[c]
  <2>1. Inc(wrptr[c]) # rdptr[c]
    <3>1. Dist(rdptr[c], Inc(wrptr[c])) = Upto(c, wrptr[c]) + 1
      BY <1>0, <1>1, DistFacts, UptoDist
    <3>2. Dist(rdptr[c], Inc(wrptr[c])) # 0
      BY <1>0, <3>1
    <3> QED BY <1>0, <3>2, DistFacts, Pointers
  <2> QED BY <1>1, <1>2, <1>6, <2>1
<1> QED BY <1>4, <1>9, <1>10, <1>11 DEF RingKept

\* Taking a response keeps the ring.
LEMMA RingTaken ==
  ASSUME Based, NEW c \in HostCores, HostTake(c), History, RingKept(c)
  PROVE  RingKept(c)'
<1>0. /\ c \in Cores /\ rdptr[c] \in Ptrs /\ wrptr[c] \in Ptrs
      /\ todo[c] \in Seq(Command) /\ resp_rdptr \in [HostCores -> Ptrs]
      /\ waits \in [HostCores -> Reads \cup {"none"}]
  BY AllTypes, Bounds
<1>1. /\ Responded(c) /\ UNCHANGED queueVars /\ resp_rdptr'[c] = Inc(resp_rdptr[c])
      /\ waits'[c] = "none"
  BY <1>0 DEF HostTake, Responded
<1>2. /\ rdptr[c] = wrptr[c] /\ resp_wrptr[c] = Inc(resp_rdptr[c]) /\ Len(todo[c]) = 1
  BY <1>1 DEF RingKept
<1>3. todo'[c] = Tail(todo[c])
  <2>1. todo[c] \in Seq(Command) /\ Len(todo[c]) \in Nat /\ Len(todo[c]) >= 1
    BY <1>0, <1>2
  <2>2. todo[c] # <<>>
    BY <2>1
  <2> QED BY <2>2, TakeHistory
<1>4. Len(todo'[c]) = 0
  BY <1>0, <1>2, <1>3
<1>5. /\ ~Responded(c)' /\ Upto(c, wrptr[c])' = Upto(c, wrptr[c]) /\ Upto(c, wrptr[c]) = 0
  <2>1. Upto(c, wrptr[c]) = 0
    BY <1>0, <1>2, UptoFacts
  <2> QED BY <1>1, <1>2, <2>1 DEF Responded, queueVars, Upto
<1>6. \A p \in Ptrs : Upto(c, p)' \in Nat
  <2>1. \A p \in Ptrs : Upto(c, p)' = Upto(c, p)
    BY <1>1 DEF Upto, queueVars
  <2> QED BY <1>0, <2>1, UptoFacts
<1>7. \A p \in Ptrs : ~(Upto(c, p)' < Len(todo'[c]))
  BY <1>4, <1>6
<1> QED BY <1>1, <1>4, <1>5, <1>7 DEF RingKept

\* A step of the host keeps the rings.
LEMMA RingHost ==
  ASSUME Based, NEW c \in HostCores, Host(c), History, NEW q \in HostCores, RingKept(q)
  PROVE  RingKept(q)'
<1>1. CASE q = c
  BY <1>1, RingPushed, RingTaken DEF Host
<1>2. CASE q # c
  <2>1. todo'[q] = todo[q]
    BY <1>2, PushHistory, TakeHistory DEF Host
  <2>2. /\ UNCHANGED <<rdptr, resp_wrptr>>
        /\ UNCHANGED <<req[q], wrptr[q], data_buffer[q], waits[q], resp_rdptr[q]>>
    BY <1>2, Bounds, HostFrames DEF HostFrame
  <2> QED BY <2>1, <2>2, RingSame
<1> QED BY <1>1, <1>2

----------------------------------------------------------------------------
(* Who works for a queue.                                                  *)

\* Who works for queue q is its own core, or the sibling while the relay is pending.
LEMMA OneWorks ==
  ASSUME NEW q \in HostCores, Line(q), NEW e \in HostCores, Works(e, q)
  PROVE  /\ e = q \/ (Pending(q) /\ e = Egress(q))
         /\ e = q => ~Outstanding(q)
         /\ JobKept(e, q) /\ SlotFor(e, q)
BY DEF Line, Control, SlotFor

\* No relay is pending: no sibling works for the queue.
LEMMA NobodyElse ==
  ASSUME NEW q \in HostCores, Line(q), ~Pending(q), NEW e \in HostCores
  PROVE  /\ relay_req[e][q].seq = relay_last_seq[e][q]
         /\ e # q => ~Works(e, q)
BY DEF Line, SlotFor

\* A queue that is worked for has a command.
LEMMA WorkedFor ==
  ASSUME Based, NEW q \in HostCores, Line(q), NEW e \in HostCores, Works(e, q)
  PROVE  rdptr[q] # wrptr[q]
<1>1. CASE e = q
  BY <1>1, Busy, Bounds DEF Works, Executes
<1>2. CASE e # q
  BY <1>2, OneWorks DEF Pending, Line, Control
<1> QED BY <1>1, <1>2

\* A step of core c leaves the jobs of the others alone.
LEMMA OtherJobs ==
  ASSUME NEW c, Frame(c), NEW d \in Cores, d # c
  PROVE  /\ pc'[d] = pc[d] /\ job'[d] = job[d] /\ part'[d] = part[d]
         /\ relay_last_seq'[d] = relay_last_seq[d]
BY FrameOthers

\* Nobody replies to itself.
LEMMA OwnRelay ==
  ASSUME Based, NEW c \in HostCores, Frame(c)
  PROVE  relay_resp'[c] = relay_resp[c] /\ relay_last_seq'[c][c] = relay_last_seq[c][c]
         /\ relay_resp_block'[c] = relay_resp_block[c]
<1>1. c \in Cores
  BY Bounds
<1>2. pc[c] \in {"deposit", "reply"} => job[c].from # c
  BY <1>1 DEF Based, RelayInv, HeadKept
<1> QED BY <1>1, <1>2 DEF Frame

\* Sequence numbers are numbers.
LEMMA SeqTypes ==
  ASSUME Based, NEW q \in Cores
  PROVE  /\ relay_send_seq[q] \in Nat /\ relay_resp[q].seq \in Nat
         /\ \A e \in Cores : relay_req[e][q].seq \in Nat /\ relay_last_seq[e][q] \in Nat
<1>1. relay_send_seq[q] \in Nat /\ relay_resp[q].seq \in Nat
  BY AllTypes DEF Word
<1>2. ASSUME NEW e \in Cores PROVE relay_req[e][q].seq \in Nat /\ relay_last_seq[e][q] \in Nat
  <2>1. relay_req[e][q] \in Job /\ relay_last_seq[e][q] \in Nat
    BY AllTypes
  <2> QED BY <2>1 DEF Job
<1> QED BY <1>1, <1>2

\* A step of a core that does not work for queue q.
LEMMA LineAside ==
  ASSUME NEW c \in Cores, Frame(c), NEW q \in HostCores, q # c, Line(q),
         ~Works(c, q), ~Works(c, q)'
  PROVE  Line(q)'
<1>0. q \in Cores /\ HostCores \subseteq Cores
  BY Bounds
<1>1. /\ pc'[q] = pc[q] /\ remote'[q] = remote[q] /\ rdptr'[q] = rdptr[q] /\ wrptr'[q] = wrptr[q]
      /\ relay_send_seq'[q] = relay_send_seq[q] /\ relay_wait'[q] = relay_wait[q]
      /\ Head0(q)' = Head0(q) /\ Outstanding(q)' = Outstanding(q) /\ Target(q)' = Target(q)
      /\ \A e \in Cores : relay_req'[e][q] = relay_req[e][q]
      /\ Works(q, q)' = Works(q, q)
  BY <1>0, FrameOthers
<1>2. relay_resp'[q] = relay_resp[q]
  BY <1>0 DEF Frame, Works, Hops
<1>3. Egress(q)' = Egress(q) /\ Pending(q)' = Pending(q) /\ Request(q)' = Request(q)
  BY <1>1, <1>2 DEF Egress, Pending, Request
<1>4. Control(q)'
  BY <1>1, <1>2, <1>3 DEF Line, Control
<1>5. ASSUME NEW e \in HostCores PROVE JobKept(e, q)' /\ SlotFor(e, q)'
  <2>0. JobKept(e, q) /\ SlotFor(e, q) /\ e \in Cores
    BY <1>0 DEF Line
  <2>1. CASE e = c
    <3>1. relay_last_seq'[c][q] = relay_last_seq[c][q]
      BY <1>0 DEF Frame, Works, Hops
    <3> QED BY <1>1, <1>3, <2>0, <2>1, <3>1 DEF JobKept, SlotFor
  <2>2. CASE e # c
    <3>1. /\ pc'[e] = pc[e] /\ job'[e] = job[e] /\ part'[e] = part[e]
          /\ relay_last_seq'[e] = relay_last_seq[e] /\ Works(e, q)' = Works(e, q)
      BY <2>0, <2>2, FrameOthers
    <3>2. JobKept(e, q)'
      BY <1>1, <2>0, <3>1 DEF JobKept
    <3>3. SlotFor(e, q)'
      BY <1>1, <1>3, <2>0, <3>1 DEF SlotFor
    <3> QED BY <3>2, <3>3
  <2> QED BY <2>1, <2>2
<1> QED BY <1>4, <1>5 DEF Line

\* A step in the hop that core c does for a sibling.
LEMMA LineServing ==
  ASSUME NEW c \in HostCores, Frame(c), NEW q \in HostCores, q # c, Line(q),
         Works(c, q), Works(c, q)', pc[c] # "reply", job'[c] = job[c], part'[c] <= Last(job[c].op),
         pc'[c] \in {"deposit", "reply"} => part'[c] = Last(job[c].op),
         pc'[c] = "deposit" => job[c].op = "BLOCK_READ"
  PROVE  Line(q)'
<1>0. q \in Cores /\ c \in Cores /\ HostCores \subseteq Cores
  BY Bounds
<1>1. /\ pc'[q] = pc[q] /\ remote'[q] = remote[q] /\ rdptr'[q] = rdptr[q] /\ wrptr'[q] = wrptr[q]
      /\ relay_send_seq'[q] = relay_send_seq[q] /\ relay_wait'[q] = relay_wait[q]
      /\ Head0(q)' = Head0(q) /\ Outstanding(q)' = Outstanding(q) /\ Target(q)' = Target(q)
      /\ \A e \in Cores : relay_req'[e][q] = relay_req[e][q]
      /\ Works(q, q)' = Works(q, q)
  BY <1>0, FrameOthers
<1>2. relay_resp'[q] = relay_resp[q] /\ relay_last_seq'[c][q] = relay_last_seq[c][q]
  BY <1>0 DEF Frame
<1>3. Egress(q)' = Egress(q) /\ Pending(q)' = Pending(q) /\ Request(q)' = Request(q)
  BY <1>1, <1>2 DEF Egress, Pending, Request
<1>4. Control(q)'
  BY <1>1, <1>2, <1>3 DEF Line, Control
<1>5. ASSUME NEW e \in HostCores PROVE JobKept(e, q)' /\ SlotFor(e, q)'
  <2>0. JobKept(e, q) /\ SlotFor(e, q) /\ e \in Cores
    BY <1>0 DEF Line
  <2>1. CASE e = c
    <3>1. JobKept(c, q)'
      BY <1>1, <2>0, <2>1 DEF JobKept
    <3>2. SlotFor(c, q)'
      BY <1>1, <1>2, <1>3, <2>0, <2>1 DEF SlotFor
    <3> QED BY <2>1, <3>1, <3>2
  <2>2. CASE e # c
    <3>1. /\ pc'[e] = pc[e] /\ job'[e] = job[e] /\ part'[e] = part[e]
          /\ relay_last_seq'[e] = relay_last_seq[e] /\ Works(e, q)' = Works(e, q)
      BY <2>0, <2>2, FrameOthers
    <3>2. JobKept(e, q)'
      BY <1>1, <2>0, <3>1 DEF JobKept
    <3>3. SlotFor(e, q)'
      BY <1>1, <1>3, <2>0, <3>1 DEF SlotFor
    <3> QED BY <3>2, <3>3
  <2> QED BY <2>1, <2>2
<1> QED BY <1>4, <1>5 DEF Line

\* Steps of core c for its own queue, when no relay is pending.
LEMMA LineOwn ==
  ASSUME Based, NEW c \in HostCores, Frame(c), Line(c), ~Pending(c),
         \A e \in Cores : relay_req'[e][c] = relay_req[e][c],
         relay_send_seq'[c] = relay_send_seq[c], ~relay_wait'[c],
         pc'[c] \notin {"ring", "relay wait"},
         pc'[c] = "fanout" => remote'[c] <= Len(Bcast) + 1,
         JobKept(c, c)'
  PROVE  Line(c)'
<1>0. c \in Cores /\ HostCores \subseteq Cores
  BY Bounds
<1>1. relay_resp'[c] = relay_resp[c] /\ relay_last_seq'[c][c] = relay_last_seq[c][c]
  BY OwnRelay
<1>2. ~Outstanding(c)' /\ ~Pending(c)'
  BY DEF Outstanding, Pending
<1>3. Control(c)'
  BY <1>1, <1>2 DEF Line, Control
<1>4. ASSUME NEW e \in HostCores PROVE JobKept(e, c)' /\ SlotFor(e, c)'
  <2>0. relay_req[e][c].seq = relay_last_seq[e][c] /\ (e # c => ~Works(e, c)) /\ e \in Cores
    BY <1>0, NobodyElse
  <2>1. CASE e = c
    BY <1>0, <1>1, <1>2, <2>0, <2>1 DEF SlotFor
  <2>2. CASE e # c
    <3>1. relay_last_seq'[e] = relay_last_seq[e] /\ pc'[e] = pc[e] /\ job'[e] = job[e]
      BY <2>0, <2>2, OtherJobs
    <3> QED BY <1>2, <2>0, <2>2, <3>1 DEF SlotFor, JobKept, Works
  <2> QED BY <2>1, <2>2
<1> QED BY <1>3, <1>4 DEF Line

\* Steps of core c that are not for its own queue, and its ring.
LEMMA LineStays ==
  ASSUME Based, NEW c \in HostCores, Frame(c), Line(c), ~Works(c, c)',
         \A e \in Cores : relay_req'[e][c] = relay_req[e][c],
         relay_send_seq'[c] = relay_send_seq[c], relay_wait'[c] = relay_wait[c],
         rdptr'[c] = rdptr[c], remote'[c] = remote[c], Outstanding(c)' <=> Outstanding(c),
         pc'[c] \notin {"grid", "fanout", "ring"},
         pc'[c] = "relay wait" => ~relay_wait[c],
         pc'[c] = "decode" /\ relay_wait[c] => relay_resp[c].seq = relay_send_seq[c]
  PROVE  Line(c)'
<1>0. c \in Cores /\ HostCores \subseteq Cores
  BY Bounds
<1>1. relay_resp'[c] = relay_resp[c] /\ relay_last_seq'[c][c] = relay_last_seq[c][c]
  BY OwnRelay
<1>2. Head0(c)' = Head0(c) /\ wrptr' = wrptr
  BY DEF Frame, Head0
<1>3. /\ Egress(c)' = Egress(c) /\ (Pending(c)' <=> Pending(c)) /\ Request(c)' = Request(c)
      /\ Target(c)' = Target(c)
  BY <1>1, <1>2 DEF Egress, Pending, Request, Target
<1>4. Control(c)'
  BY <1>1, <1>2, <1>3 DEF Line, Control, Pending
<1>5. ASSUME NEW e \in HostCores PROVE JobKept(e, c)' /\ SlotFor(e, c)'
  <2>0. JobKept(e, c) /\ SlotFor(e, c) /\ e \in Cores
    BY <1>0 DEF Line
  <2>1. CASE e = c
    <3>1. ~(Pending(c) /\ c = Egress(c))
      BY EgressGoes DEF Line, Pending
    <3> QED BY <1>0, <1>1, <1>3, <2>0, <2>1, <3>1 DEF JobKept, SlotFor
  <2>2. CASE e # c
    <3>1. /\ pc'[e] = pc[e] /\ job'[e] = job[e] /\ part'[e] = part[e]
          /\ relay_last_seq'[e] = relay_last_seq[e]
      BY <2>0, <2>2, OtherJobs
    <3>2. JobKept(e, c)'
      BY <1>2, <1>3, <2>0, <3>1 DEF JobKept, Works
    <3>3. SlotFor(e, c)'
      BY <1>3, <2>0, <3>1 DEF SlotFor, Works
    <3> QED BY <3>2, <3>3
  <2> QED BY <2>1, <2>2
<1> QED BY <1>4, <1>5 DEF Line

\* Core c posts a request to the core whose link goes to the target.
LEMMA LinePosted ==
  ASSUME Based, NEW c \in HostCores, Frame(c), Line(c), ~Outstanding(c), ~Works(c, c),
         rdptr[c] # wrptr[c], Routable(Target(c)), Target(c) # Peer(c),
         Head0(c).op = "BROADCAST" => remote[c] \in DOMAIN Bcast,
         NEW block, block = IF Head0(c).op = "BROADCAST" THEN 0 ELSE SlotOf(rdptr[c]),
         PutSlot(c, Route(Target(c)), Head0(c), block), rdptr' = rdptr, remote' = remote,
         relay_resp' = relay_resp, relay_wait'[c] = (Head0(c).op # "BROADCAST")
  PROVE  Line(c)'
<1> DEFINE e0 == Route(Target(c))
<1>0. c \in Cores /\ HostCores \subseteq Cores /\ e0 \in HostCores /\ Peer(e0) = Target(c)
  BY Bounds, RouteGoes
<1>1. /\ relay_send_seq \in [Cores -> Nat] /\ relay_req \in [Cores -> [Cores -> Job]]
      /\ pc \in [Cores -> Places]
  BY AllTypes
<1>2. /\ relay_send_seq'[c] = relay_send_seq[c] + 1 /\ pc'[c] = "ring"
      /\ relay_req'[e0][c] = [from |-> c, op |-> Head0(c).op, data |-> Head0(c).data,
                              block |-> block, seq |-> relay_send_seq[c] + 1]
      /\ \A e \in Cores : e # e0 => relay_req'[e] = relay_req[e]
  BY <1>0, <1>1 DEF PutSlot, NocPut, Go
<1>3. Head0(c)' = Head0(c) /\ wrptr' = wrptr
  BY DEF Frame, Head0
<1>4. Target(c)' = Target(c) /\ Egress(c)' = e0
  BY <1>3 DEF Target, Egress
<1> HIDE DEF e0
<1>5. ~Pending(c)
  BY DEF Pending
<1>6. relay_resp[c].seq <= relay_send_seq[c] /\ relay_resp[c].seq \in Nat /\ relay_send_seq[c] \in Nat
  BY <1>0, SeqTypes DEF Line, Control
<1>7. Outstanding(c)' /\ Pending(c)'
  <2>1. relay_resp[c].seq # relay_send_seq[c] + 1
    BY <1>6
  <2> QED BY <1>2, <2>1 DEF Outstanding, Pending
<1>8. ~Works(c, c)'
  BY <1>2 DEF Works, Hops
<1>9. Control(c)'
  <2>1. relay_resp'[c].seq <= relay_send_seq'[c]
    BY <1>2, <1>6
  <2> QED BY <1>2, <1>3, <1>4, <1>8, <2>1 DEF Control
<1>10. Request(c)' = [from |-> c, op |-> Head0(c).op, data |-> Head0(c).data,
                      block |-> block, seq |-> relay_send_seq[c] + 1]
  BY <1>2, <1>3 DEF Request
<1>11. ASSUME NEW e \in HostCores PROVE JobKept(e, c)' /\ SlotFor(e, c)'
  <2>0. relay_req[e][c].seq = relay_last_seq[e][c] /\ ~Works(e, c) /\ e \in Cores
    BY <1>0, <1>5, NobodyElse
  <2>1. relay_last_seq'[e][c] = relay_last_seq[e][c] /\ ~Works(e, c)'
    <3>1. CASE e = c
      BY <1>8, <3>1, OwnRelay
    <3>2. CASE e # c
      BY <2>0, <3>2, FrameOthers
    <3> QED BY <3>1, <3>2
  <2>2. JobKept(e, c)'
    BY <2>1 DEF JobKept
  <2>3. CASE e = e0
    <3>1. SlotKept(e, c)
      BY <1>0, <2>0 DEF Based, RelayInv
    <3>2. relay_req[e][c].seq <= relay_send_seq[c] /\ relay_req[e][c].seq \in Nat
      BY <1>0, <2>0, <3>1, SeqTypes DEF SlotKept
    <3>3. relay_last_seq[e][c] # relay_send_seq[c] + 1
      BY <1>6, <2>0, <3>2
    <3> QED BY <1>2, <1>10, <2>1, <2>2, <2>3, <3>3, <1>4, <1>7 DEF SlotFor
  <2>4. CASE e # e0
    <3>1. relay_req'[e] = relay_req[e]
      BY <1>2, <2>0, <2>4
    <3> QED BY <1>4, <2>0, <2>1, <2>2, <2>4, <3>1 DEF SlotFor
  <2> QED BY <2>3, <2>4
<1> QED BY <1>9, <1>11 DEF Line

\* Core c takes the request of queue q.
LEMMA LineTaken ==
  ASSUME Based, NEW c \in HostCores, Frame(c), NEW q \in HostCores, q # c, Line(q),
         pc[c] = "scan", pc'[c] \in {"stage", "ship", "header"}, job'[c] = relay_req[c][q],
         part'[c] = 1, relay_req[c][q].seq # relay_last_seq[c][q]
  PROVE  Line(q)' /\ Works(c, q)' /\ Pending(q) /\ c = Egress(q) /\ job'[c] = Request(q)
<1>0. q \in Cores /\ c \in Cores /\ HostCores \subseteq Cores
  BY Bounds
<1>1. /\ pc'[q] = pc[q] /\ remote'[q] = remote[q] /\ rdptr'[q] = rdptr[q] /\ wrptr'[q] = wrptr[q]
      /\ relay_send_seq'[q] = relay_send_seq[q] /\ relay_wait'[q] = relay_wait[q]
      /\ Head0(q)' = Head0(q) /\ Outstanding(q)' = Outstanding(q) /\ Target(q)' = Target(q)
      /\ \A e \in Cores : relay_req'[e][q] = relay_req[e][q]
      /\ Works(q, q)' = Works(q, q)
  BY <1>0, FrameOthers
<1>2. relay_resp'[q] = relay_resp[q] /\ relay_last_seq'[c][q] = relay_last_seq[c][q]
  BY <1>0 DEF Frame
<1>3. Egress(q)' = Egress(q) /\ Pending(q)' = Pending(q) /\ Request(q)' = Request(q)
  BY <1>1, <1>2 DEF Egress, Pending, Request
<1>4. Control(q)'
  BY <1>1, <1>2, <1>3 DEF Line, Control
<1>5. Pending(q) /\ c = Egress(q) /\ relay_req[c][q] = Request(q)
  BY DEF Line, SlotFor
<1>6. Works(c, q)' /\ job'[c] = Request(q)
  BY <1>5 DEF Works, Hops, Request
<1>7. ASSUME NEW e \in HostCores PROVE JobKept(e, q)' /\ SlotFor(e, q)'
  <2>0. JobKept(e, q) /\ SlotFor(e, q) /\ e \in Cores
    BY <1>0 DEF Line
  <2>1. CASE e = c
    <3>1. Peer(c) = Target(q) /\ (Head0(q).op = "BROADCAST" => remote[q] \in DOMAIN Bcast)
      BY <1>5, EgressGoes DEF Line, Control, Pending
    <3>2. 1 <= Last(job'[c].op)
      BY LastTypes
    <3>3. /\ job'[c].op = Head0(q).op /\ job'[c].data = Head0(q).data
          /\ job'[c].block = IF Head0(q).op = "BROADCAST" THEN 0 ELSE SlotOf(rdptr[q])
          /\ job'[c].seq = relay_send_seq[q]
      BY <1>6 DEF Request
    <3>4. JobKept(c, q)'
      BY <1>1, <3>1, <3>2, <3>3 DEF JobKept
    <3> QED BY <1>1, <1>2, <1>3, <1>5, <2>0, <2>1, <3>3, <3>4 DEF SlotFor
  <2>2. CASE e # c
    <3>1. /\ pc'[e] = pc[e] /\ job'[e] = job[e] /\ part'[e] = part[e]
          /\ relay_last_seq'[e] = relay_last_seq[e] /\ Works(e, q)' = Works(e, q)
      BY <2>0, <2>2, FrameOthers
    <3>2. JobKept(e, q)'
      BY <1>1, <2>0, <3>1 DEF JobKept
    <3>3. SlotFor(e, q)'
      BY <1>1, <1>3, <2>0, <3>1 DEF SlotFor
    <3> QED BY <3>2, <3>3
  <2> QED BY <2>1, <2>2
<1> QED BY <1>4, <1>5, <1>6, <1>7 DEF Line

\* Core c replies to queue q.
LEMMA LineReplied ==
  ASSUME Based, NEW c \in HostCores, Frame(c), NEW q \in HostCores, q # c, Line(q), Works(c, q), Reply(c)
  PROVE  Line(q)' /\ ~Pending(q)'
<1> USE DEF relayVars
<1>0. q \in Cores /\ c \in Cores /\ HostCores \subseteq Cores
  BY Bounds
<1>1. /\ pc'[q] = pc[q] /\ remote'[q] = remote[q] /\ rdptr'[q] = rdptr[q] /\ wrptr'[q] = wrptr[q]
      /\ relay_send_seq'[q] = relay_send_seq[q] /\ relay_wait'[q] = relay_wait[q]
      /\ Head0(q)' = Head0(q) /\ Outstanding(q)' = Outstanding(q) /\ Target(q)' = Target(q)
      /\ \A e \in Cores : relay_req'[e][q] = relay_req[e][q]
      /\ Works(q, q)' = Works(q, q)
  BY <1>0, FrameOthers
<1>2. /\ Pending(q) /\ c = Egress(q) /\ job[c].seq = relay_send_seq[q]
      /\ relay_req[c][q].seq = relay_send_seq[q] /\ job[c].from = q
  <2>1. Pending(q) /\ c = Egress(q) /\ SlotFor(c, q)
    BY OneWorks
  <2> QED BY <2>1 DEF SlotFor, Request, Works
<1>3. /\ relay_resp'[q].seq = relay_send_seq[q] /\ relay_last_seq'[c][q] = relay_send_seq[q]
      /\ pc'[c] = "scan"
  <2>1. /\ relay_resp \in [Cores -> Word] /\ relay_last_seq \in [Cores -> [Cores -> Nat]]
        /\ pc \in [Cores -> Places]
    BY AllTypes
  <2> QED BY <1>0, <1>2, <2>1 DEF Reply, NocPut, Go
<1>4. ~Pending(q)'
  BY <1>1, <1>3 DEF Pending
<1>5. Control(q)'
  <2>1. relay_resp'[q].seq <= relay_send_seq'[q]
    BY <1>0, <1>1, <1>3, SeqTypes
  <2> QED BY <1>1, <1>4, <2>1 DEF Line, Control
<1>6. ASSUME NEW e \in HostCores PROVE JobKept(e, q)' /\ SlotFor(e, q)'
  <2>0. JobKept(e, q) /\ SlotFor(e, q) /\ e \in Cores
    BY <1>0 DEF Line
  <2>1. CASE e = c
    <3>1. ~Works(c, q)'
      BY <1>3 DEF Works, Hops
    <3> QED BY <1>0, <1>1, <1>2, <1>3, <1>4, <2>1, <3>1 DEF JobKept, SlotFor
  <2>2. CASE e # c
    <3>1. /\ pc'[e] = pc[e] /\ job'[e] = job[e] /\ part'[e] = part[e]
          /\ relay_last_seq'[e] = relay_last_seq[e] /\ Works(e, q)' = Works(e, q)
      BY <2>0, <2>2, FrameOthers
    <3>2. JobKept(e, q)'
      BY <1>1, <2>0, <3>1 DEF JobKept
    <3>3. SlotFor(e, q)'
      BY <1>1, <1>2, <1>4, <2>0, <2>2, <3>1 DEF SlotFor
    <3> QED BY <3>2, <3>3
  <2> QED BY <2>1, <2>2
<1> QED BY <1>4, <1>5, <1>6 DEF Line

\* Line, LinkKept and RingKept of every queue and every link.
AllLines == \A q \in HostCores : Line(q)

\* Where a core goes from a hop, and with which part.
HopStep(c) ==
  /\ pc[c] \in Hops /\ pc'[c] \in Hops /\ pc[c] # "reply" /\ job'[c] = job[c]
  /\ part'[c] = part[c] \/ (part[c] < Last(job[c].op) /\ part'[c] = part[c] + 1)
  /\ pc'[c] \in {"deposit", "reply"} =>
       job[c].from # c /\ part'[c] = part[c] /\ (part[c] = Last(job[c].op) \/ pc[c] = "deposit")
  /\ pc'[c] = "deposit" => job[c].op = "BLOCK_READ"
  /\ \A e, d \in Cores : relay_req'[e][d] = relay_req[e][d]
  /\ relay_send_seq' = relay_send_seq /\ relay_wait' = relay_wait /\ rdptr' = rdptr
  /\ remote' = remote

\* These are the steps of a hop.
LEMMA HopSteps ==
  ASSUME Based, NEW c \in Cores,
         Stage(c) \/ Ship(c) \/ Header(c) \/ NextChunk(c) \/ RelayedReply(c) \/ Deposit(c)
  PROVE  HopStep(c)
<1> USE DEF queueVars, relayVars, linkVars, coreVars, Go
<1>0. pc \in [Cores -> Places] /\ part \in [Cores -> 1 .. Chunks] /\ job[c].from = job[c].from
  BY AllTypes
<1>1. CASE Stage(c) \/ Ship(c) \/ Header(c)
  BY <1>0, <1>1 DEF Stage, Ship, Header, HopStep, Hops
<1>2. CASE NextChunk(c)
  <2>1. FirstStep(job[c], c) \in {"stage", "ship", "header"}
    BY DEF FirstStep
  <2>2. pc'[c] = FirstStep(job[c], c) /\ part'[c] = part[c] + 1
    BY <1>0, <1>2 DEF NextChunk
  <2> QED BY <1>2, <2>1, <2>2 DEF NextChunk, Replied, HopStep, Hops
<1>3. CASE RelayedReply(c)
  BY <1>0, <1>3 DEF RelayedReply, Replied, HopStep, Hops
<1>4. CASE Deposit(c)
  <2>1. job[c].from # c
    BY <1>4 DEF Deposit, Based, RelayInv, HeadKept
  <2> QED BY <1>0, <1>4, <2>1 DEF Deposit, HopStep, Hops
<1> QED BY <1>1, <1>2, <1>3, <1>4

\* A step of a hop keeps the lines.
LEMMA LineHop ==
  ASSUME Based, AllLines, NEW c \in HostCores, Frame(c), HopStep(c), NEW q \in HostCores
  PROVE  Line(q)'
<1>0. c \in Cores /\ Line(q) /\ part[c] \in Nat /\ Last(job[c].op) \in Nat
  <2>1. c \in Cores /\ Line(q)
    BY Bounds DEF AllLines
  <2>2. part[c] \in 1 .. Chunks
    BY <2>1, AllTypes
  <2>3. Last(job[c].op) \in Nat
    BY LastTypes
  <2> QED BY <2>1, <2>2, <2>3
<1>1. Works(c, q)' <=> Works(c, q)
  BY DEF HopStep, Works
<1>2. CASE ~Works(c, q) /\ q # c
  BY <1>0, <1>1, <1>2, LineAside
<1>3. ASSUME Works(c, q)
      PROVE  /\ part'[c] <= Last(job[c].op)
             /\ pc'[c] \in {"deposit", "reply"} => part'[c] = Last(job[c].op)
  <2>1. JobKept(c, q)
    BY <1>0 DEF Line
  <2> QED BY <1>0, <1>3, <2>1 DEF HopStep, JobKept
<1>4. CASE Works(c, q) /\ q # c
  BY <1>0, <1>1, <1>3, <1>4, LineServing DEF HopStep
<1>5. CASE q = c /\ Works(c, c)
  <2>1. ~Outstanding(c) /\ ~Pending(c) /\ JobKept(c, c)
    BY <1>0, <1>5, OneWorks DEF Pending
  <2>2. JobKept(c, c)'
    <3>1. Head0(c)' = Head0(c) /\ Target(c)' = Target(c)
      BY DEF HopStep, Frame, Head0, Target
    <3>2. pc'[c] = "deposit" => job[c].op = "BLOCK_READ"
      BY DEF HopStep
    <3>3. job'[c] = job[c] /\ rdptr' = rdptr /\ remote' = remote
      BY DEF HopStep
    <3> QED BY <1>0, <1>3, <1>5, <2>1, <3>1, <3>2, <3>3 DEF JobKept
  <2> QED BY <1>0, <1>5, <2>1, <2>2, LineOwn DEF HopStep, Outstanding, Hops
<1>6. CASE q = c /\ ~Works(c, c)
  <2>1. /\ Outstanding(c)' <=> Outstanding(c)
        /\ pc'[c] \notin {"grid", "fanout", "ring", "relay wait", "decode"}
    BY DEF HopStep, Outstanding, Hops
  <2> QED BY <1>0, <1>1, <1>6, <2>1, LineStays DEF HopStep
<1> QED BY <1>2, <1>4, <1>5, <1>6

\* Steps by which core c goes on with its own queue.
LEMMA LineCommands ==
  ASSUME Based, AllLines, NEW c \in HostCores, Frame(c), Step(c),
         \/ Direct(c) \/ PostRelay(c) \/ Collect(c) \/ Ring(c) \/ StartBroadcast(c) \/ Grid(c)
         \/ Fanout(c) \/ RelayWait(c) \/ OwnReply(c)
  PROVE  Line(c)'
<1> USE DEF hostVars, queueVars, relayVars, linkVars, coreVars
<1>0. /\ c \in Cores /\ Line(c) /\ Control(c) /\ pc \in [Cores -> Places] /\ job \in [Cores -> Job]
      /\ part \in [Cores -> 1 .. Chunks] /\ remote \in [Cores -> Nat \ {0}]
      /\ relay_wait \in [Cores -> BOOLEAN]
  BY Bounds, AllTypes DEF AllLines, Line
<1>h. Head0(c)' = req'[c][SlotOf(rdptr'[c])] /\ req' = req
  BY DEF Frame, Head0
<1>1. CASE Direct(c)
  <2>1. pc[c] = "decode" /\ Head0(c).op # "BROADCAST" /\ Head0(c).tc = Peer(c) /\ Target(c) = Peer(c)
    BY <1>1 DEF Direct, Target
  <2>2. ~Outstanding(c) /\ ~Pending(c)
    BY <1>0, <2>1 DEF Control, Pending
  <2>3. /\ job'[c] = [from |-> c, op |-> Head0(c).op, data |-> Head0(c).data,
                      block |-> SlotOf(rdptr[c]), seq |-> 0]
        /\ part'[c] = 1 /\ pc'[c] \in {"stage", "ship", "header"} /\ UNCHANGED <<rdptr, remote>>
        /\ UNCHANGED relayVars
    BY <1>0, <1>1 DEF Direct, StartHop, Go, FirstStep
  <2>4. Head0(c)' = Head0(c) /\ Target(c)' = Target(c)
    BY <1>h, <2>3 DEF Head0, Target
  <2>5. JobKept(c, c)'
    BY <2>1, <2>3, <2>4, LastTypes DEF JobKept
  <2> QED BY <1>0, <2>2, <2>3, <2>5, LineOwn DEF Outstanding
<1>2. CASE PostRelay(c)
  <2>1. /\ pc[c] = "decode" /\ Head0(c).op # "BROADCAST" /\ Target(c) = Head0(c).tc
        /\ Target(c) # Peer(c) /\ ~relay_wait[c] /\ Routable(Target(c))
        /\ PutSlot(c, Route(Target(c)), Head0(c), SlotOf(rdptr[c]))
        /\ relay_wait' = [relay_wait EXCEPT ![c] = TRUE] /\ UNCHANGED <<rdptr, remote, relay_resp>>
    BY <1>2 DEF PostRelay, Target
  <2>2. ~Outstanding(c) /\ ~Works(c, c) /\ rdptr[c] # wrptr[c]
    BY <1>0, <2>1, Busy DEF Outstanding, Works, Hops, Executes, Commands
  <2>3. relay_wait'[c] = (Head0(c).op # "BROADCAST")
    BY <1>0, <2>1
  <2> QED BY <1>0, <2>1, <2>2, <2>3, LinePosted
<1>3. CASE Collect(c)
  <2>1. pc[c] = "decode" /\ relay_wait[c] /\ relay_wait' = [relay_wait EXCEPT ![c] = FALSE]
        /\ UNCHANGED <<relay_req, relay_send_seq>>
    BY <1>3 DEF Collect
  <2>2. ~Pending(c)
    BY <1>0, <2>1 DEF Control
  <2>3. pc'[c] \in {"inbox", "decode"}
    BY <1>0, <1>3, FinishFacts DEF Collect
  <2>4. JobKept(c, c)'
    BY <2>3 DEF JobKept, Works, Hops
  <2>5. ~relay_wait'[c]
    BY <1>0, <2>1
  <2> QED BY <1>0, <2>1, <2>2, <2>3, <2>4, <2>5, LineOwn
<1>4. CASE Ring(c)
  <2>1. /\ pc[c] = "ring" /\ pc'[c] = (IF Head0(c).op = "BROADCAST" THEN "relay wait" ELSE "inbox")
        /\ UNCHANGED <<relay_req, relay_send_seq, relay_wait, rdptr, remote>>
    BY <1>0, <1>4 DEF Ring, Go
  <2>2. Outstanding(c) /\ (relay_wait[c] <=> Head0(c).op # "BROADCAST")
    BY <1>0, <2>1 DEF Outstanding, Control
  <2>3. Outstanding(c)'
    BY <2>1, <2>2 DEF Outstanding
  <2>4. ~Works(c, c)'
    BY <2>1 DEF Works, Hops
  <2> QED BY <1>0, <2>1, <2>2, <2>3, <2>4, LineStays
<1>5. CASE StartBroadcast(c) \/ Grid(c) \/ RelayWait(c)
  <2>1. /\ pc[c] \in {"decode", "grid", "relay wait"} /\ Head0(c).op = "BROADCAST"
        /\ pc'[c] \in {"grid", "fanout"} /\ UNCHANGED <<relay_req, relay_send_seq, relay_wait>>
    <3>1. pc[c] \in {"grid", "relay wait"} => Head0(c).op = "BROADCAST"
      BY <1>0 DEF Based, RelayInv, HeadKept
    <3> QED BY <1>0, <1>5, <3>1 DEF StartBroadcast, Grid, RelayWait, Go
  <2>2. ~relay_wait[c] /\ ~Pending(c)
    <3>1. ~relay_wait[c]
      BY <1>0, <2>1 DEF Control
    <3>2. pc[c] = "relay wait" => relay_resp[c].seq = relay_send_seq[c]
      BY <1>5 DEF StartBroadcast, Grid, RelayWait
    <3> QED BY <2>1, <3>1, <3>2 DEF Pending, Outstanding
  <2>3. pc'[c] = "fanout" => remote'[c] <= Len(Bcast) + 1
    <3>0. Len(Bcast) \in Nat /\ DOMAIN Bcast = 1 .. Len(Bcast)
      BY EthAssumption DEF Forwards
    <3>1. CASE RelayWait(c)
      <4>1. remote[c] \in DOMAIN Bcast
        BY <1>0, <2>1, <3>1 DEF RelayWait, Control, Outstanding
      <4>2. remote'[c] = remote[c] + 1
        BY <1>0, <3>1 DEF RelayWait
      <4> QED BY <3>0, <4>1, <4>2
    <3>2. CASE Grid(c)
      <4>1. remote'[c] = 1 \/ pc'[c] = pc[c]
        BY <1>0, <3>2 DEF Grid
      <4>2. pc[c] = "grid"
        BY <3>2 DEF Grid
      <4> QED BY <3>0, <4>1, <4>2
    <3>3. CASE StartBroadcast(c)
      BY <1>0, <3>3 DEF StartBroadcast, Go
    <3> QED BY <1>5, <3>1, <3>2, <3>3
  <2>4. JobKept(c, c)'
    BY <2>1 DEF JobKept, Works, Hops
  <2> QED BY <1>0, <2>1, <2>2, <2>3, <2>4, LineOwn
<1>6. CASE Fanout(c)
  <2>0. pc[c] = "fanout" /\ Head0(c).op = "BROADCAST" /\ UNCHANGED <<relay_wait, remote, relay_resp>>
    BY <1>0, <1>6 DEF Fanout, Based, RelayInv, HeadKept
  <2>1. ~relay_wait[c] /\ ~Outstanding(c) /\ ~Pending(c) /\ remote[c] <= Len(Bcast) + 1
    BY <1>0, <2>0 DEF Control, Outstanding, Pending
  <2>2. CASE CountWrite(c) /\ UNCHANGED <<relay_req, relay_send_seq>>
    <3>1. Complete(c, 0, 0)
      BY <2>2 DEF Complete
    <3>2. pc'[c] \in {"inbox", "decode"}
      BY <1>0, <3>1, FinishFacts
    <3>3. JobKept(c, c)'
      BY <3>2 DEF JobKept, Works, Hops
    <3> QED BY <1>0, <2>0, <2>1, <2>2, <3>2, <3>3, LineOwn
  <2>d. remote[c] <= Len(Bcast) => remote[c] \in DOMAIN Bcast
    <3>1. Len(Bcast) \in Nat /\ DOMAIN Bcast = 1 .. Len(Bcast)
      BY EthAssumption DEF Forwards
    <3> QED BY <1>0, <3>1
  <2>3. CASE /\ remote[c] <= Len(Bcast) /\ Peer(c) = Bcast[remote[c]]
             /\ StartHop(c, [from |-> c, op |-> "BROADCAST", data |-> Head0(c).data,
                             block |-> 0, seq |-> 0])
             /\ UNCHANGED <<queueVars, relay_req, relay_send_seq>>
    <3>1. /\ job'[c] = [from |-> c, op |-> "BROADCAST", data |-> Head0(c).data, block |-> 0, seq |-> 0]
          /\ part'[c] = 1 /\ pc'[c] \in {"stage", "ship", "header"}
      BY <1>0, <2>3 DEF StartHop, Go, FirstStep
    <3>2. Head0(c)' = Head0(c) /\ Target(c)' = Target(c) /\ Target(c) = Peer(c)
      BY <1>h, <2>0, <2>3 DEF Head0, Target
    <3>3. JobKept(c, c)'
      BY <2>0, <2>3, <2>d, <3>1, <3>2, LastTypes DEF JobKept
    <3> QED BY <1>0, <2>0, <2>1, <2>3, <3>1, <3>3, LineOwn
  <2>4. CASE /\ remote[c] <= Len(Bcast) /\ Peer(c) # Bcast[remote[c]]
             /\ PutSlot(c, Route(Bcast[remote[c]]), Head0(c), 0)
             /\ UNCHANGED <<queueVars, job, part>>
    <3>1. Target(c) = Bcast[remote[c]] /\ Routable(Target(c)) /\ remote[c] \in DOMAIN Bcast
      BY <2>0, <2>4, <2>d, BcastRoutable DEF Target
    <3>2. ~Works(c, c) /\ rdptr[c] # wrptr[c]
      BY <1>0, <2>0, Busy DEF Works, Hops, Executes, Commands
    <3>3. relay_wait'[c] = (Head0(c).op # "BROADCAST")
      BY <1>0, <2>0, <2>1
    <3> QED BY <1>0, <2>0, <2>1, <2>4, <3>1, <3>2, <3>3, LinePosted
  <2> QED BY <1>6, <2>2, <2>3, <2>4 DEF Fanout
<1>7. CASE OwnReply(c)
  <2>0. /\ Works(c, c) /\ UNCHANGED <<relay_req, relay_send_seq, relay_wait>>
    BY <1>7 DEF OwnReply, Replied, Works, Hops
  <2>1. ~Outstanding(c) /\ ~Pending(c) /\ JobKept(c, c)
    BY <1>0, <2>0, OneWorks DEF Pending
  <2>2. /\ pc'[c] \in {"inbox", "decode", "fanout"}
        /\ pc'[c] = "fanout" => remote'[c] <= Len(Bcast) + 1
    <3>1. CASE job[c].op = "BROADCAST"
      <4>1. pc'[c] = "fanout" /\ remote'[c] = remote[c] + 1
        BY <1>0, <1>7, <3>1 DEF OwnReply, Go
      <4>2. remote[c] \in 1 .. Len(Bcast) /\ Len(Bcast) \in Nat
        BY <2>0, <2>1, <3>1, EthAssumption DEF JobKept, Forwards
      <4> QED BY <4>1, <4>2
    <3>2. CASE job[c].op # "BROADCAST"
      BY <1>0, <1>7, <3>2, FinishFacts DEF OwnReply
    <3> QED BY <3>1, <3>2
  <2>3. JobKept(c, c)'
    BY <2>2 DEF JobKept, Works, Hops
  <2> QED BY <1>0, <2>0, <2>1, <2>2, <2>3, LineOwn DEF Outstanding
<1> QED BY <1>1, <1>2, <1>3, <1>4, <1>5, <1>6, <1>7

\* The steps of a command are no work for another queue.
LEMMA CommandsAside ==
  ASSUME Based, NEW c \in Cores,
         \/ Direct(c) \/ PostRelay(c) \/ Collect(c) \/ Ring(c) \/ StartBroadcast(c) \/ Grid(c)
         \/ Fanout(c) \/ RelayWait(c) \/ OwnReply(c),
         NEW q, q # c
  PROVE  ~Works(c, q) /\ ~Works(c, q)'
<1> USE DEF queueVars, relayVars, coreVars
<1>0. pc \in [Cores -> Places] /\ job \in [Cores -> Job]
  BY AllTypes
<1>1. pc[c] \in {"decode", "ring", "grid", "fanout", "relay wait"} \/ job[c].from = c
  BY DEF Direct, PostRelay, Collect, Ring, StartBroadcast, Grid, Fanout, RelayWait, OwnReply
<1>2. ~Works(c, q)
  BY <1>1 DEF Works, Hops
<1>3. pc'[c] \notin Hops \/ job'[c].from = c
  <2>1. CASE Direct(c)
    BY <1>0, <2>1 DEF Direct, StartHop
  <2>2. CASE Collect(c)
    BY <2>2, FinishFacts DEF Collect, Hops
  <2>3. CASE Fanout(c)
    <3>1. CASE CountWrite(c)
      <4>1. Complete(c, 0, 0)
        BY <3>1 DEF Complete
      <4> QED BY <4>1, FinishFacts DEF Hops
    <3>2. CASE \E j : StartHop(c, j) /\ j.from = c
      BY <1>0, <3>2 DEF StartHop
    <3>3. CASE \E e, m, b : PutSlot(c, e, m, b)
      BY <1>0, <3>3 DEF PutSlot, Go, Hops
    <3> QED BY <2>3, <3>1, <3>2, <3>3 DEF Fanout
  <2>4. CASE PostRelay(c) \/ Ring(c) \/ StartBroadcast(c) \/ Grid(c) \/ RelayWait(c)
    BY <1>0, <2>4 DEF PostRelay, PutSlot, Ring, StartBroadcast, Grid, RelayWait, Go, Hops
  <2>5. CASE OwnReply(c)
    BY <2>5 DEF OwnReply
  <2> QED BY <2>1, <2>2, <2>3, <2>4, <2>5
<1> QED BY <1>2, <1>3 DEF Works

\* The scan that takes a request keeps the lines: the taker was posted to.
LEMMA LineTakes ==
  ASSUME Based, AllLines, NEW c \in HostCores, Frame(c), Takes(c)
  PROVE  /\ \A q \in HostCores : Line(q)'
         /\ \E q \in HostCores \ {c} :
              /\ Works(c, q)' /\ Pending(q) /\ c = Egress(q) /\ job'[c] = Request(q) /\ part'[c] = 1
              /\ pc'[c] = FirstStep(Request(q), c)
<1> USE DEF hostVars, queueVars, relayVars, linkVars, coreVars
<1>0. pc \in [Cores -> Places] /\ job \in [Cores -> Job] /\ c \in Cores /\ part \in [Cores -> 1 .. Chunks]
  BY AllTypes, Bounds
<1>1. PICK f \in HostCores : f = Siblings(c)[slot[c]]
  BY EthAssumption DEF Takes, Siblings, Routes
<1>2. /\ pc[c] = "scan" /\ relay_req[c][f].seq # relay_last_seq[c][f] /\ job'[c] = relay_req[c][f]
      /\ part'[c] = 1 /\ pc'[c] = FirstStep(relay_req[c][f], c)
      /\ pc'[c] \in {"stage", "ship", "header"}
      /\ UNCHANGED <<relayVars, rdptr, remote>>
  BY <1>0, <1>1 DEF Takes, StartHop, Go, FirstStep
<1>3. f # c
  <2>1. SlotKept(c, f) /\ relay_req[c][f].seq \in Nat /\ relay_last_seq[c][f] \in Nat
    BY <1>0, <1>1, Bounds, SeqTypes DEF Based, RelayInv
  <2>2. relay_req[c][f].seq # 0
    BY <1>2, <2>1 DEF SlotKept
  <2> QED BY <2>1, <2>2 DEF SlotKept
<1>4. Line(f)' /\ Works(c, f)' /\ Pending(f) /\ c = Egress(f) /\ job'[c] = Request(f)
  <2>1. Line(f)
    BY <1>1 DEF AllLines
  <2>2. /\ pc[c] = "scan" /\ pc'[c] \in {"stage", "ship", "header"} /\ job'[c] = relay_req[c][f]
        /\ part'[c] = 1 /\ relay_req[c][f].seq # relay_last_seq[c][f]
    BY <1>2
  <2> HIDE DEF relayVars
  <2> QED BY <1>1, <1>3, <2>1, <2>2, LineTaken
<1>5. job'[c].from = f
  BY <1>4 DEF Request
<1>6. ASSUME NEW q \in HostCores, q # f PROVE Line(q)'
  <2>1. ~Works(c, q) /\ ~Works(c, q)'
    BY <1>2, <1>5, <1>6 DEF Works, Hops
  <2>2. CASE q # c
    BY <1>0, <2>1, <2>2, LineAside DEF AllLines
  <2>3. CASE q = c
    <3>1. Outstanding(c)' <=> Outstanding(c)
      BY <1>2 DEF Outstanding
    <3> QED BY <1>0, <1>2, <2>1, <2>3, <3>1, LineStays DEF AllLines
  <2> QED BY <2>2, <2>3
<1>7. pc'[c] = FirstStep(Request(f), c)
  BY <1>2, <1>4
<1>8. f \in HostCores \ {c} /\ part'[c] = 1
  BY <1>1, <1>2, <1>3
<1>9. \A q \in HostCores : Line(q)'
  BY <1>4, <1>6
<1> QED BY <1>4, <1>7, <1>8, <1>9

\* A step of a core keeps the lines.
LEMMA LineStep ==
  ASSUME Based, AllReceive, AllLines, NEW c \in Cores, Step(c)
  PROVE  AllLines'
<1> USE DEF hostVars, queueVars, relayVars, linkVars, coreVars
<1> SUFFICES ASSUME NEW q \in HostCores PROVE Line(q)'
  BY DEF AllLines
<1>f. Frame(c)
  BY StepFrame
<1>0. Line(q) /\ pc \in [Cores -> Places]
  BY AllTypes DEF AllLines
<1>k. \/ Idle(c)
      \/ c \in HostCores /\ HostKind(c)
      \/ c \notin HostCores /\ RemoteKind(c)
  BY StepKinds
<1>1. CASE Idle(c)
  <2>1. ~Works(c, q) /\ ~Works(c, q)'
    BY <1>1 DEF Idle, Works, Hops, Quiets, Polls
  <2>2. CASE q # c
    BY <1>0, <1>f, <2>1, <2>2, LineAside
  <2>3. CASE q = c
    <3>1. /\ Outstanding(c)' <=> Outstanding(c)
          /\ pc'[c] \notin {"grid", "fanout", "ring", "relay wait"}
      BY <1>1 DEF Idle, Outstanding, Quiets, Polls
    <3>2. pc'[c] = "decode" /\ relay_wait[c] => relay_resp[c].seq = relay_send_seq[c]
      <4>1. CASE pc[c] = "decode"
        BY <1>0, <2>3, <4>1 DEF Line, Control, Pending, Outstanding
      <4>2. CASE pc[c] # "decode"
        BY <1>1, <4>2 DEF Idle, QueueReady
      <4> QED BY <4>1, <4>2
    <3> QED BY <1>0, <1>1, <1>f, <2>1, <2>3, <3>1, <3>2, LineStays DEF Idle
  <2> QED BY <2>2, <2>3
<1>2. CASE c \notin HostCores
  <2>1. ~Works(c, q)
    BY <1>2, ReceiverPlaces DEF Works, Hops, Polls
  <2>2. ~Works(c, q)'
    <3>1. AllReceive'
      BY ReceivesKept DEF AllLines, Line
    <3>2. pc'[c] \in Polls \cup {"send back", "ack"}
      BY <1>2, <3>1 DEF AllReceive, Receives
    <3> QED BY <3>2 DEF Works, Hops, Polls
  <2> QED BY <1>0, <1>2, <1>f, <2>1, <2>2, LineAside
<1>3. CASE c \in HostCores /\ (Stage(c) \/ Ship(c) \/ Header(c) \/ NextChunk(c) \/ RelayedReply(c) \/ Deposit(c))
  BY <1>3, <1>f, HopSteps, LineHop
<1>4. CASE c \in HostCores /\ Takes(c)
  BY <1>4, <1>f, LineTakes
<1>5. CASE c \in HostCores /\ Reply(c)
  <2>1. /\ pc[c] = "reply" /\ pc'[c] = "scan" /\ relay_req' = relay_req
        /\ UNCHANGED <<relay_send_seq, relay_wait, rdptr, remote>>
    BY <1>0, <1>5 DEF Reply, Go
  <2>2. ~Works(c, q)'
    BY <2>1 DEF Works, Hops
  <2>3. CASE q # c /\ Works(c, q)
    BY <1>0, <1>5, <1>f, <2>3, LineReplied
  <2>4. CASE q # c /\ ~Works(c, q)
    BY <1>0, <1>f, <2>2, <2>4, LineAside
  <2>5. CASE q = c
    <3>1. Outstanding(c)' <=> Outstanding(c)
      BY <2>1 DEF Outstanding
    <3> QED BY <1>0, <1>5, <1>f, <2>1, <2>2, <2>5, <3>1, LineStays
  <2> QED BY <2>3, <2>4, <2>5
<1>6. CASE c \in HostCores /\ (\/ Direct(c) \/ PostRelay(c) \/ Collect(c) \/ Ring(c) \/ StartBroadcast(c)
                               \/ Grid(c) \/ Fanout(c) \/ RelayWait(c) \/ OwnReply(c))
  <2>1. CASE q = c
    BY <1>6, <1>f, <2>1, LineCommands
  <2>2. CASE q # c
    <3>1. ~Works(c, q) /\ ~Works(c, q)'
      BY <1>6, <2>2, CommandsAside
    <3> QED BY <1>0, <1>f, <2>2, <3>1, LineAside
  <2> QED BY <2>1, <2>2
<1> QED BY <1>k, <1>1, <1>2, <1>3, <1>4, <1>5, <1>6 DEF HostKind

\* What the host leaves as it is, of queue q's relays and hops.
LEMMA HostOthers ==
  ASSUME NEW c \in HostCores, HostFrame(c), NEW d \in Cores
  PROVE  /\ pc' = pc /\ job' = job /\ part' = part /\ remote' = remote /\ rdptr' = rdptr
         /\ access' = access /\ block_buf' = block_buf /\ req_inbox' = req_inbox
         /\ resp_inbox' = resp_inbox /\ last_recv_seq' = last_recv_seq /\ send_seq' = send_seq
         /\ relay_req' = relay_req /\ relay_last_seq' = relay_last_seq /\ relay_resp' = relay_resp
         /\ relay_send_seq' = relay_send_seq /\ relay_wait' = relay_wait
         /\ relay_doorbell' = relay_doorbell /\ relay_resp_block' = relay_resp_block
         /\ window' = window /\ resp' = resp /\ resp_wrptr' = resp_wrptr /\ mem' = mem
         /\ (Outstanding(d)' <=> Outstanding(d)) /\ (Pending(d)' <=> Pending(d))
         /\ d # c => Head0(d)' = Head0(d) /\ wrptr'[d] = wrptr[d]
         /\ rdptr[d] # wrptr[d] => Head0(d)' = Head0(d) /\ rdptr'[d] # wrptr'[d]
<1> USE DEF relayVars, linkVars, coreVars
<1>1. /\ pc' = pc /\ job' = job /\ part' = part /\ remote' = remote /\ rdptr' = rdptr
      /\ access' = access /\ block_buf' = block_buf /\ req_inbox' = req_inbox
      /\ resp_inbox' = resp_inbox /\ last_recv_seq' = last_recv_seq /\ send_seq' = send_seq
      /\ relay_req' = relay_req /\ relay_last_seq' = relay_last_seq /\ relay_resp' = relay_resp
      /\ relay_send_seq' = relay_send_seq /\ relay_wait' = relay_wait
      /\ relay_doorbell' = relay_doorbell /\ relay_resp_block' = relay_resp_block
      /\ window' = window /\ resp' = resp /\ resp_wrptr' = resp_wrptr /\ mem' = mem
  BY DEF HostFrame
<1>2. (Outstanding(d)' <=> Outstanding(d)) /\ (Pending(d)' <=> Pending(d))
  BY <1>1 DEF Outstanding, Pending
<1>3. d # c => Head0(d)' = Head0(d) /\ wrptr'[d] = wrptr[d]
  BY <1>1 DEF HostFrame, Head0
<1>4. rdptr[d] # wrptr[d] => Head0(d)' = Head0(d) /\ rdptr'[d] # wrptr'[d]
  BY <1>1, <1>3 DEF HostFrame
<1> QED BY <1>1, <1>2, <1>3, <1>4

\* A step of the host keeps the lines.
LEMMA LineHost ==
  ASSUME Based, AllLines, NEW c \in HostCores, HostFrame(c)
  PROVE  AllLines'
<1> SUFFICES ASSUME NEW q \in HostCores PROVE Line(q)'
  BY DEF AllLines
<1>0. q \in Cores /\ Line(q) /\ Control(q)
  BY Bounds DEF AllLines, Line
<1>1. /\ pc' = pc /\ job' = job /\ part' = part /\ remote' = remote /\ rdptr' = rdptr
      /\ relay_req' = relay_req /\ relay_last_seq' = relay_last_seq /\ relay_resp' = relay_resp
      /\ relay_send_seq' = relay_send_seq /\ relay_wait' = relay_wait
      /\ (Outstanding(q)' <=> Outstanding(q)) /\ (Pending(q)' <=> Pending(q))
      /\ rdptr[q] # wrptr[q] => Head0(q)' = Head0(q) /\ rdptr'[q] # wrptr'[q]
  BY <1>0, HostOthers
<1>2. \A e : Works(e, q)' <=> Works(e, q)
  BY <1>1 DEF Works
<1>3. rdptr[q] # wrptr[q] => Target(q)' = Target(q) /\ Egress(q)' = Egress(q) /\ Request(q)' = Request(q)
  BY <1>1 DEF Target, Egress, Request
<1>4. Control(q)'
  <2>1. CASE rdptr[q] = wrptr[q]
    <3>1. ~Outstanding(q) /\ ~Outstanding(q)' /\ ~relay_wait'[q] /\ ~(pc'[q] = "ring")
      BY <1>0, <1>1, <2>1 DEF Control, Outstanding
    <3>2. relay_resp'[q].seq <= relay_send_seq'[q] /\ (pc'[q] = "fanout" => remote'[q] <= Len(Bcast) + 1)
      BY <1>0, <1>1 DEF Control
    <3> QED BY <3>1, <3>2 DEF Control
  <2>2. CASE rdptr[q] # wrptr[q]
    <3>1. /\ relay_wait'[q] <=> relay_wait[q]
          /\ pc'[q] = pc[q] /\ remote'[q] = remote[q] /\ relay_resp'[q] = relay_resp[q]
          /\ relay_send_seq'[q] = relay_send_seq[q] /\ rdptr'[q] # wrptr'[q]
          /\ Head0(q)' = Head0(q) /\ Target(q)' = Target(q)
          /\ (Outstanding(q)' <=> Outstanding(q)) /\ (Pending(q)' <=> Pending(q))
          /\ Works(q, q)' <=> Works(q, q)
      BY <1>1, <1>2, <1>3, <2>2
    <3> QED BY <1>0, <2>2, <3>1 DEF Control
  <2> QED BY <2>1, <2>2
<1>5. ASSUME NEW e \in HostCores PROVE JobKept(e, q)' /\ SlotFor(e, q)'
  <2>1. JobKept(e, q) /\ SlotFor(e, q)
    BY <1>0 DEF Line
  <2>2. JobKept(e, q)'
    <3>1. CASE Works(e, q)
      <4>1. rdptr[q] # wrptr[q]
        BY <1>0, <3>1, WorkedFor
      <4> QED BY <1>1, <1>2, <1>3, <2>1, <3>1, <4>1 DEF JobKept
    <3>2. CASE ~Works(e, q)
      BY <1>2, <3>2 DEF JobKept
    <3> QED BY <3>1, <3>2
  <2>3. SlotFor(e, q)'
    <3>1. CASE Pending(q)
      <4>1. rdptr[q] # wrptr[q]
        BY <1>0, <3>1 DEF Control, Pending
      <4> QED BY <1>1, <1>2, <1>3, <2>1, <3>1, <4>1 DEF SlotFor
    <3>2. CASE ~Pending(q)
      BY <1>1, <1>2, <2>1, <3>2 DEF SlotFor
    <3> QED BY <3>1, <3>2
  <2> QED BY <2>2, <2>3
<1> QED BY <1>4, <1>5 DEF Line

\* The host writes to no remote core.
LEMMA ReceivesHost ==
  ASSUME AllReceive, NEW c \in HostCores, HostFrame(c)
  PROVE  AllReceive'
<1> SUFFICES ASSUME NEW r \in Cores PROVE Receives(r)'
  BY DEF AllReceive
<1>1. /\ pc' = pc /\ rdptr' = rdptr /\ req_inbox' = req_inbox /\ last_recv_seq' = last_recv_seq
      /\ relay_doorbell' = relay_doorbell
      /\ r # c => wrptr'[r] = wrptr[r]
  BY HostOthers
<1> QED BY <1>1 DEF AllReceive, Receives, InboxFull

----------------------------------------------------------------------------
(* Links.                                                                  *)

AllLinks == \A e \in HostCores : LinkKept(e)
AllRings == \A q \in HostCores : RingKept(q)

\* A link has two ends, of which one is on a host chip.
LEMMA LinkEnds ==
  ASSUME NEW e \in HostCores
  PROVE  e \in Cores /\ Link(e) \in Cores /\ Link(e) \notin HostCores /\ Link(Link(e)) = e /\ Link(e) # e
BY EthAssumption, LinksLeave

\* A hop begins with its block, if it has one.
LEMMA FirstSteps ==
  \A j, c : /\ FirstStep(j, c) \in {"stage", "ship", "header"}
            /\ FirstStep(j, c) = "ship" => j.op = "BLOCK_WRITE" /\ j.from = c
            /\ FirstStep(j, c) = "header" => j.op \notin Blocks
BY DEF FirstStep, Streams, Blocks

\* The block of a write is in its slot.
LEMMA BlockReady ==
  ASSUME Based, AllLines, AllRings, NEW e \in HostCores, pc[e] \in Hops, job[e].op = "BLOCK_WRITE"
  PROVE  data_buffer[job[e].from][job[e].block] = job[e].data
<1>1. PICK q \in HostCores : Works(e, q) /\ q = job[e].from
  BY HopFrom, Bounds DEF Works, Based
<1>2. Line(q) /\ RingKept(q) /\ JobKept(e, q)
  BY DEF AllLines, AllRings, Line
<1>3. rdptr[q] # wrptr[q]
  BY <1>1, <1>2, WorkedFor
<1>4. Head0(q).op = "BLOCK_WRITE" => data_buffer[q][SlotOf(rdptr[q])] = Head0(q).data
  BY <1>2, <1>3, HeadTodo
<1> QED BY <1>1, <1>2, <1>4 DEF JobKept

\* A step of a core that is not at the link.
LEMMA LinkAside ==
  ASSUME NEW c \in Cores, Frame(c), NEW e \in HostCores, LinkKept(e), c # e, c # Link(e)
  PROVE  LinkKept(e)'
<1>0. e \in Cores /\ Link(e) \in Cores /\ Link(Link(e)) = e /\ Link(Link(c)) = c
  BY LinkEnds, EthAssumption
<1>1. /\ pc'[e] = pc[e] /\ job'[e] = job[e] /\ part'[e] = part[e] /\ send_seq'[e] = send_seq[e]
      /\ pc'[Link(e)] = pc[Link(e)] /\ last_recv_seq'[Link(e)] = last_recv_seq[Link(e)]
  BY <1>0, FrameOthers
<1>2. /\ req_inbox'[Link(e)] = req_inbox[Link(e)] /\ resp_inbox'[e] = resp_inbox[e]
      /\ block_buf'[e] = block_buf[e] /\ block_buf'[Link(e)] = block_buf[Link(e)]
  BY <1>0 DEF Frame
<1> QED BY <1>1, <1>2 DEF LinkKept, HeaderOf

\* The step of the core at the other end.
LEMMA LinkPeer ==
  ASSUME Based, AllReceive, NEW e \in HostCores, Frame(Link(e)), LinkKept(e),
         Idle(Link(e)) \/ RemoteKind(Link(e))
  PROVE  LinkKept(e)'
<1> USE DEF linkVars
<1> DEFINE r == Link(e)
<1>0. e \in Cores /\ r \in Cores /\ r \notin HostCores /\ Link(r) = e /\ r # e
  BY LinkEnds
<1> HIDE DEF r
<1>t. /\ pc \in [Cores -> Places] /\ block_buf \in [Cores -> Nat] /\ last_recv_seq \in [Cores -> Nat]
      /\ resp_inbox \in [Cores -> Word] /\ job[e].op \in Ops /\ send_seq \in [Cores -> Nat]
  <2>1. job[e] \in Job
    BY <1>0, AllTypes
  <2> QED BY <2>1, AllTypes DEF Job
<1>1. /\ pc'[e] = pc[e] /\ job'[e] = job[e] /\ part'[e] = part[e] /\ send_seq'[e] = send_seq[e]
  BY <1>0, FrameOthers DEF r
<1>2. req_inbox'[r] = req_inbox[r]
  BY <1>0 DEF Frame, r
<1>k. /\ req_inbox[r].seq = send_seq[e]
      /\ last_recv_seq[r] = resp_inbox[e].seq
      /\ pc[e] # "hop" => resp_inbox[e].seq = send_seq[e]
      /\ pc[e] = "hop" => req_inbox[r] = HeaderOf(e)
      /\ pc[r] \in {"send back", "ack"} => resp_inbox[e].seq # send_seq[e]
      /\ pc[r] = "send back" => job[e].op \in {"BLOCK_READ", "DRAM_READ"}
      /\ pc[e] = "ship" /\ job[e].op \in Blocks /\ (job[e].op = "BLOCK_WRITE" => job[e].from # e)
           => block_buf[e] = job[e].data
      /\ job[e].op \in Blocks /\ (pc[e] = "header" \/ (pc[e] = "hop" /\ resp_inbox[e].seq # send_seq[e]))
           => block_buf[r] = job[e].data
  BY DEF LinkKept, r
<1>h. HeaderOf(e)' = HeaderOf(e)
  BY <1>1 DEF HeaderOf
<1>3. CASE Idle(r)
  BY <1>0, <1>1, <1>2, <1>3, <1>h, <1>k DEF Idle, Quiets, Polls, LinkKept, r
<1>4. CASE Receive(r) /\ InboxFull(r)
  <2>1. pc[e] = "hop" /\ resp_inbox[e].seq # send_seq[e] /\ req_inbox[r] = HeaderOf(e)
    BY <1>4, <1>k DEF InboxFull
  <2>2. req_inbox[r].op = HopOp(job[e].op)
    BY <2>1 DEF HeaderOf
  <2>3. /\ UNCHANGED <<last_recv_seq, resp_inbox>> /\ block_buf'[e] = block_buf[e]
        /\ pc'[r] \in {"ack", "send back"}
        /\ pc'[r] = "send back" \/ block_buf' # block_buf => req_inbox[r].op = "BLOCK_READ"
    BY <1>0, <1>4, <1>t DEF Receive, Go
  <2>4. /\ HopOp(job[e].op) = "BLOCK_READ" => job[e].op \in {"BLOCK_READ", "DRAM_READ"}
        /\ job[e].op \in Blocks => HopOp(job[e].op) # "BLOCK_READ"
    BY DEF HopOp, Blocks
  <2> QED BY <1>1, <1>2, <1>h, <1>k, <2>1, <2>2, <2>3, <2>4 DEF LinkKept, r
<1>5. CASE SendBack(r)
  <2>1. pc[e] = "hop" /\ resp_inbox[e].seq # send_seq[e]
    BY <1>5, <1>k DEF SendBack
  <2>2. UNCHANGED <<last_recv_seq, resp_inbox>> /\ block_buf'[r] = block_buf[r] /\ pc'[r] = "ack"
    BY <1>0, <1>5, <1>t DEF SendBack, EthSend, Go
  <2> QED BY <1>1, <1>2, <1>h, <1>k, <2>1, <2>2 DEF LinkKept, r
<1>6. CASE Ack(r)
  <2>1. pc[e] = "hop"
    BY <1>6, <1>k DEF Ack
  <2>2. /\ last_recv_seq'[r] = send_seq[e] /\ resp_inbox'[e].seq = send_seq[e] /\ pc'[r] = "doorbell"
        /\ UNCHANGED block_buf
    BY <1>0, <1>6, <1>t, <1>k DEF Ack, EthSend, Go
  <2> QED BY <1>1, <1>2, <1>h, <1>k, <2>1, <2>2 DEF LinkKept, r
<1> QED BY <1>3, <1>4, <1>5, <1>6 DEF RemoteKind, r

\* A step of core e that is not in a hop.
LEMMA LinkStarts ==
  ASSUME NEW e \in HostCores, Frame(e), LinkKept(e),
         pc[e] # "header",
         resp_inbox[e].seq = send_seq[e], send_seq'[e] = send_seq[e], pc'[e] # "hop",
         pc'[e] = "ship" => job'[e].op = "BLOCK_WRITE" /\ job'[e].from = e,
         pc'[e] = "header" => job'[e].op \notin Blocks
  PROVE  LinkKept(e)'
<1>0. e \in Cores /\ Link(e) \in Cores /\ Link(e) # e
  BY LinkEnds
<1>1. pc'[Link(e)] = pc[Link(e)] /\ last_recv_seq'[Link(e)] = last_recv_seq[Link(e)]
  BY <1>0, FrameOthers
<1>2. req_inbox'[Link(e)] = req_inbox[Link(e)] /\ resp_inbox'[e] = resp_inbox[e]
  BY <1>0 DEF Frame
<1> QED BY <1>1, <1>2 DEF LinkKept

\* A step of the hop: it stages the block, ships it, or sends the header.
LEMMA LinkHops ==
  ASSUME Based, AllLines, AllRings, NEW e \in HostCores, Frame(e), LinkKept(e),
         Stage(e) \/ Ship(e) \/ Header(e)
  PROVE  LinkKept(e)'
<1> USE DEF linkVars
<1>0. e \in Cores /\ Link(e) \in Cores /\ Link(e) # e
  BY LinkEnds
<1>t. /\ pc \in [Cores -> Places] /\ block_buf \in [Cores -> Nat] /\ send_seq \in [Cores -> Nat]
      /\ req_inbox \in [Cores -> [seq : Nat, op : Ops, k : 1 .. Chunks, data : Nat]]
  BY AllTypes
<1>1. /\ pc'[Link(e)] = pc[Link(e)] /\ last_recv_seq'[Link(e)] = last_recv_seq[Link(e)]
      /\ resp_inbox'[e] = resp_inbox[e]
  <2>1. pc'[Link(e)] = pc[Link(e)] /\ last_recv_seq'[Link(e)] = last_recv_seq[Link(e)]
    BY <1>0, FrameOthers
  <2>2. resp_inbox'[e] = resp_inbox[e]
    BY <1>0 DEF Frame
  <2> QED BY <2>1, <2>2
<1>2. pc[e] # "hop" /\ resp_inbox[e].seq = send_seq[e]
  BY DEF Stage, Ship, Header, LinkKept
<1>3. job[e].op = "BLOCK_WRITE" => data_buffer[job[e].from][job[e].block] = job[e].data
  BY <1>0, BlockReady DEF Stage, Ship, Header, Hops
<1>4. CASE Stage(e)
  <2>1. /\ pc'[e] = "ship" /\ UNCHANGED <<job, send_seq, req_inbox>>
        /\ block_buf'[e] = job[e].data
    BY <1>0, <1>3, <1>4, <1>t DEF Stage, Go, coreVars
  <2> QED BY <1>1, <1>2, <2>1 DEF LinkKept
<1>5. CASE Ship(e)
  <2>1. /\ pc[e] = "ship" /\ pc'[e] = "header" /\ UNCHANGED <<job, send_seq, req_inbox>>
        /\ block_buf'[Link(e)] = IF job[e].op = "BLOCK_WRITE" /\ job[e].from = e THEN job[e].data
                                 ELSE block_buf[e]
    BY <1>0, <1>3, <1>5, <1>t DEF Ship, EthSend, Go, coreVars
  <2> QED BY <1>1, <1>2, <2>1 DEF LinkKept
<1>6. CASE Header(e)
  <2>1. /\ pc[e] = "header" /\ pc'[e] = "hop" /\ UNCHANGED <<job, part, block_buf>>
        /\ send_seq'[e] = send_seq[e] + 1
        /\ req_inbox'[Link(e)] = [seq |-> send_seq'[e], op |-> HopOp(job[e].op), k |-> part[e],
                                  data |-> job[e].data]
    BY <1>0, <1>6, <1>t DEF Header, EthSend, Go, coreVars
  <2>2. req_inbox'[Link(e)] = HeaderOf(e)' /\ req_inbox'[Link(e)].seq = send_seq'[e]
    BY <2>1 DEF HeaderOf
  <2>3. send_seq'[e] # send_seq[e] /\ resp_inbox'[e].seq # send_seq'[e]
    <3>1. send_seq[e] \in Nat
      BY <1>0, <1>t
    <3> QED BY <1>1, <1>2, <2>1, <3>1
  <2>4. pc[Link(e)] \notin {"send back", "ack"} /\ last_recv_seq[Link(e)] = resp_inbox[e].seq
    BY <1>2 DEF LinkKept
  <2>5. job[e].op \in Blocks => block_buf[Link(e)] = job[e].data
    BY <2>1 DEF LinkKept
  <2> QED BY <1>1, <2>1, <2>2, <2>3, <2>4, <2>5 DEF LinkKept
<1> QED BY <1>4, <1>5, <1>6

\* A step of the core at this end.
LEMMA LinkOwn ==
  ASSUME Based, AllLines, AllRings, NEW e \in HostCores, Frame(e), LinkKept(e),
         Idle(e) \/ HostKind(e)
  PROVE  LinkKept(e)'
<1> USE DEF hostVars, queueVars, relayVars, linkVars, coreVars
<1>0. e \in Cores /\ pc \in [Cores -> Places] /\ job \in [Cores -> Job]
  BY LinkEnds, AllTypes
<1>1. pc[e] # "hop" \/ Replied(e) => resp_inbox[e].seq = send_seq[e]
  BY DEF LinkKept, Replied
<1>2. ASSUME NEW w, NEW b, Complete(e, w, b) PROVE pc'[e] \in {"inbox", "decode"}
  BY <1>0, <1>2, FinishFacts
<1>3. ASSUME NEW j, StartHop(e, j) PROVE pc'[e] = FirstStep(j, e) /\ job'[e] = j
  BY <1>0, <1>3 DEF StartHop, Go
<1>4. CASE Stage(e) \/ Ship(e) \/ Header(e)
  BY <1>4, LinkHops
<1>5. CASE Idle(e)
  <2>1. pc[e] \notin {"hop", "header"} /\ pc'[e] \notin {"hop", "ship", "header"} /\ send_seq' = send_seq
    BY <1>5 DEF Idle, Quiets, Polls
  <2> QED BY <1>1, <2>1, LinkStarts
<1>6. CASE \/ PostRelay(e) \/ Ring(e) \/ StartBroadcast(e) \/ Grid(e) \/ RelayWait(e) \/ Deposit(e)
           \/ Reply(e)
  <2>1. pc[e] \notin {"hop", "header"} /\ pc'[e] \notin {"hop", "ship", "header"} /\ send_seq' = send_seq
    BY <1>0, <1>6 DEF PostRelay, PutSlot, Ring, StartBroadcast, Grid, RelayWait, Deposit, Reply, Go
  <2> QED BY <1>1, <2>1, LinkStarts
<1>7. CASE Collect(e)
  <2>1. pc[e] = "decode" /\ pc'[e] \in {"inbox", "decode"} /\ send_seq' = send_seq
    BY <1>2, <1>7 DEF Collect
  <2> QED BY <1>1, <2>1, LinkStarts
<1>8. CASE Direct(e) \/ Takes(e)
  <2>1. /\ pc[e] \in {"decode", "scan"} /\ send_seq' = send_seq
        /\ pc'[e] = FirstStep(job'[e], e)
    BY <1>3, <1>8 DEF Direct, Takes
  <2> QED BY <1>1, <2>1, FirstSteps, LinkStarts
<1>9. CASE Fanout(e)
  <2>1. pc[e] = "fanout" /\ send_seq' = send_seq
    BY <1>9 DEF Fanout
  <2>2. \/ pc'[e] = FirstStep(job'[e], e)
        \/ pc'[e] \in {"ring", "inbox", "decode"}
    <3>1. CASE CountWrite(e)
      <4>1. Complete(e, 0, 0)
        BY <3>1 DEF Complete
      <4> QED BY <1>2, <4>1
    <3>2. CASE \E j : StartHop(e, j)
      BY <1>3, <3>2
    <3>3. CASE \E d, m, b : PutSlot(e, d, m, b)
      BY <1>0, <3>3 DEF PutSlot, Go
    <3> QED BY <1>9, <3>1, <3>2, <3>3 DEF Fanout
  <2> QED BY <1>1, <2>1, <2>2, FirstSteps, LinkStarts
<1>10. CASE NextChunk(e) \/ RelayedReply(e)
  <2>1. /\ Replied(e) /\ pc[e] = "hop" /\ UNCHANGED <<send_seq, job>>
        /\ pc'[e] \in {FirstStep(job[e], e), "deposit", "reply"}
    BY <1>0, <1>10 DEF NextChunk, RelayedReply, Replied, Go
  <2> QED BY <1>1, <2>1, FirstSteps, LinkStarts
<1>11. CASE OwnReply(e)
  <2>1. Replied(e) /\ pc[e] = "hop" /\ UNCHANGED <<send_seq, job>>
    BY <1>11 DEF OwnReply, Replied
  <2>2. pc'[e] \in {"fanout", "inbox", "decode"}
    BY <1>0, <1>2, <1>11 DEF OwnReply, Go
  <2> QED BY <1>1, <2>1, <2>2, LinkStarts
<1> QED BY <1>4, <1>5, <1>6, <1>7, <1>8, <1>9, <1>10, <1>11 DEF HostKind

\* A step of a core keeps the links.
LEMMA LinkStep ==
  ASSUME Based, AllReceive, AllLines, AllRings, AllLinks, NEW c \in Cores, Step(c)
  PROVE  AllLinks'
<1> SUFFICES ASSUME NEW e \in HostCores PROVE LinkKept(e)'
  BY DEF AllLinks
<1>1. Frame(c) /\ LinkKept(e)
  BY StepFrame DEF AllLinks
<1>2. \/ Idle(c)
      \/ c \in HostCores /\ HostKind(c)
      \/ c \notin HostCores /\ RemoteKind(c)
  BY StepKinds
<1>3. e \in Cores /\ Link(e) \in Cores /\ Link(e) \notin HostCores
  BY LinkEnds
<1>4. CASE c = e
  BY <1>1, <1>2, <1>4, LinkOwn
<1>5. CASE c = Link(e)
  BY <1>1, <1>2, <1>3, <1>5, LinkPeer
<1>6. CASE c # e /\ c # Link(e)
  BY <1>1, <1>6, LinkAside
<1> QED BY <1>4, <1>5, <1>6

\* A step of the host keeps the links.
LEMMA LinkHost ==
  ASSUME AllLinks, NEW c \in HostCores, HostFrame(c)
  PROVE  AllLinks'
<1> SUFFICES ASSUME NEW e \in HostCores PROVE LinkKept(e)'
  BY DEF AllLinks
<1>1. /\ pc' = pc /\ job' = job /\ part' = part /\ block_buf' = block_buf /\ req_inbox' = req_inbox
      /\ resp_inbox' = resp_inbox /\ last_recv_seq' = last_recv_seq /\ send_seq' = send_seq
  BY HostOthers, Bounds
<1>2. LinkKept(e)
  BY DEF AllLinks
<1> QED BY <1>1, <1>2 DEF LinkKept, HeaderOf

----------------------------------------------------------------------------
(* How far a command is: what most steps leave as it is.                   *)

\* Core e does a hop of the head command of queue q.
HopCase(e, q) ==
  /\ ~Responded(q) /\ pc[q] \notin {"grid", "fanout"} /\ Works(e, q)
  /\ e = q \/ (~Works(q, q) /\ Pending(q) /\ e = Egress(q))

\* In a hop, Past says what HopPast says.
LEMMA HopCasePast ==
  ASSUME NEW e, NEW q, HopCase(e, q)
  PROVE  Past(q) <=> HopPast(e, q)
BY DEF HopCase, Past, Pending

\* The same, of the next state.
LEMMA HopCaseNext ==
  ASSUME NEW e, NEW q, HopCase(e, q)'
  PROVE  Past(q)' <=> HopPast(e, q)'
BY DEF HopCase, Past, Pending

\* A core that works for a queue does a hop of its head command.
LEMMA HopIs ==
  ASSUME Based, AllLines, AllRings, NEW q \in HostCores, NEW e \in HostCores, Works(e, q)
  PROVE  HopCase(e, q) /\ rdptr[q] # wrptr[q]
<1>1. Line(q) /\ RingKept(q)
  BY DEF AllLines, AllRings
<1>2. rdptr[q] # wrptr[q]
  BY <1>1, WorkedFor
<1>3. ~Responded(q)
  BY <1>1, <1>2, HeadTodo
<1>4. CASE e = q
  BY <1>2, <1>3, <1>4 DEF HopCase, Works, Hops
<1>5. CASE e # q
  <2>1. Pending(q) /\ e = Egress(q)
    BY <1>1, <1>5, OneWorks
  <2>2. ~Works(q, q)
    BY <1>1, <2>1 DEF Line, Control, Pending
  <2>3. pc[q] \notin {"grid", "fanout"}
    BY <1>1, <2>1 DEF Line, Control, Pending, Outstanding
  <2> QED BY <1>2, <1>3, <2>1, <2>2, <2>3 DEF HopCase
<1> QED BY <1>4, <1>5

\* A core executes a command, or its relay is out, only if one is in the ring.
LEMMA NothingElse ==
  ASSUME Based, AllLines, AllRings, NEW q \in HostCores, rdptr[q] = wrptr[q]
  PROVE  /\ pc[q] \notin {"grid", "fanout"} /\ ~Outstanding(q)
         /\ \A e \in HostCores : ~Works(e, q)
<1>1. ~Executes(q) /\ Control(q)
  BY Busy, Bounds DEF AllLines, Line
<1>2. \A e \in HostCores : ~Works(e, q)
  BY HopIs
<1> QED BY <1>1, <1>2 DEF Executes, Commands, Control

\* A step of a core that is not at the link leaves what the hop has performed.
LEMMA DoneAside ==
  ASSUME NEW c \in Cores, Frame(c), NEW e \in HostCores, c # e, c # Link(e)
  PROVE  Done(e)' = Done(e) /\ Val(e)' = Val(e)
<1>0. e \in Cores /\ Link(e) \in Cores /\ Link(Link(e)) = e /\ Link(Link(c)) = c
  BY LinkEnds, EthAssumption
<1>1. /\ pc'[e] = pc[e] /\ job'[e] = job[e] /\ part'[e] = part[e] /\ send_seq'[e] = send_seq[e]
      /\ pc'[Link(e)] = pc[Link(e)] /\ access'[Link(e)] = access[Link(e)]
  BY <1>0, FrameOthers
<1>2. /\ resp_inbox'[e] = resp_inbox[e]
      /\ block_buf'[e] = block_buf[e] /\ block_buf'[Link(e)] = block_buf[Link(e)]
  BY <1>0 DEF Frame
<1> QED BY <1>1, <1>2 DEF Done, Val, Accessed

\* So does an idle step, of any other core.
LEMMA DoneIdle ==
  ASSUME NEW c \in Cores, Idle(c), Frame(c), NEW e \in HostCores, c # e
  PROVE  Done(e)' = Done(e) /\ Val(e)' = Val(e)
<1>1. CASE c = Link(e)
  <2>0. e \in Cores
    BY Bounds
  <2>1. pc'[e] = pc[e]
    BY <2>0, FrameOthers
  <2>2. /\ UNCHANGED <<resp_inbox, send_seq, block_buf, access, job, part>>
        /\ pc[Link(e)] \notin {"send back", "ack"} /\ pc'[Link(e)] \notin {"send back", "ack"}
    BY <1>1 DEF Idle, linkVars, Quiets, Polls
  <2> QED BY <2>1, <2>2 DEF Done, Val, Accessed
<1>2. CASE c # Link(e)
  BY <1>2, DoneAside
<1> QED BY <1>1, <1>2

\* A step of a core that does not work for queue q before or after it.
LEMMA PastAside ==
  ASSUME NEW c \in Cores, Frame(c), NEW q \in HostCores, Line(q), Past(q), Silent(q),
         ~Works(c, q), ~Works(c, q)',
         \A e \in HostCores \ {c} : Works(e, q) => Done(e)' = Done(e) /\ Val(e)' = Val(e),
         q = c =>
           /\ pc[c] \notin {"grid", "fanout"} /\ pc'[c] \notin {"grid", "fanout"}
           /\ Outstanding(c)' <=> Outstanding(c)
           /\ UNCHANGED <<rdptr[c], remote[c], resp_wrptr[c], resp[c], data_buffer[c], relay_send_seq[c]>>
  PROVE  Past(q)'
<1>0. q \in Cores /\ HostCores \subseteq Cores
  BY Bounds
<1>1. /\ rdptr'[q] = rdptr[q] /\ remote'[q] = remote[q] /\ resp_wrptr'[q] = resp_wrptr[q]
      /\ resp'[q] = resp[q] /\ data_buffer'[q] = data_buffer[q]
      /\ relay_send_seq'[q] = relay_send_seq[q] /\ (Outstanding(q)' <=> Outstanding(q))
      /\ pc[q] \in {"grid", "fanout"} \/ pc'[q] \in {"grid", "fanout"} =>
           pc'[q] = pc[q] /\ part'[q] = part[q]
      /\ Works(q, q)' <=> Works(q, q)
  <2>1. CASE q = c
    BY <2>1
  <2>2. CASE q # c
    BY <1>0, <2>2, FrameOthers
  <2> QED BY <2>1, <2>2
<1>2. /\ waits' = waits /\ resp_rdptr' = resp_rdptr /\ req' = req
      /\ relay_resp'[q] = relay_resp[q] /\ relay_resp_block'[q] = relay_resp_block[q]
      /\ window'[q] = window[q]
  BY <1>0 DEF Frame, Works, Hops
<1>3. Head0(q)' = Head0(q) /\ (Responded(q)' <=> Responded(q))
  BY <1>1, <1>2 DEF Head0, Responded
<1>4. Egress(q)' = Egress(q) /\ (Pending(q)' <=> Pending(q)) /\ Before(q)' = Before(q)
  BY <1>1, <1>2, <1>3 DEF Egress, Pending, Before
<1>5. served'[q] = served[q] /\ got'[q] = got[q]
  BY DEF Silent
<1>6. ASSUME NEW e \in HostCores
      PROVE  /\ Works(e, q)' <=> Works(e, q)
             /\ Works(e, q) => (HopPast(e, q)' <=> HopPast(e, q))
  <2>1. CASE e = c
    BY <2>1
  <2>2. CASE e # c
    <3>1. pc'[e] = pc[e] /\ job'[e] = job[e] /\ part'[e] = part[e]
      BY <1>0, <2>2, FrameOthers
    <3> QED BY <1>2, <1>4, <1>5, <2>2, <3>1 DEF HopPast, Works
  <2> QED BY <2>1, <2>2
<1>7. /\ Read(q)' <=> Read(q)
      /\ Fresh(q)' <=> Fresh(q)
      /\ Relayed(q)' <=> Relayed(q)
  BY <1>1, <1>2, <1>3, <1>4, <1>5 DEF Read, Fresh, Relayed
<1>8. Pending(q) => Egress(q) \in HostCores
  BY EgressGoes DEF Line, Pending
<1>9. CASE Responded(q)
  BY <1>3, <1>7, <1>9 DEF Past
<1>10. CASE ~Responded(q) /\ pc[q] \in {"grid", "fanout"}
  BY <1>1, <1>3, <1>5, <1>7, <1>10 DEF Past
<1>11. CASE ~Responded(q) /\ pc[q] \notin {"grid", "fanout"}
  <2>0. ~Responded(q)' /\ pc'[q] \notin {"grid", "fanout"}
    BY <1>1, <1>3, <1>11
  <2>1. CASE Works(q, q)
    BY <1>1, <1>6, <1>11, <2>0, <2>1 DEF Past
  <2>2. CASE ~Works(q, q) /\ ~Outstanding(q)
    BY <1>1, <1>5, <1>11, <2>0, <2>2 DEF Past
  <2>3. CASE ~Works(q, q) /\ Outstanding(q) /\ ~Pending(q)
    BY <1>1, <1>4, <1>7, <1>11, <2>0, <2>3 DEF Past
  <2>4. CASE ~Works(q, q) /\ Outstanding(q) /\ Pending(q)
    <3>1. /\ Works(Egress(q), q)' <=> Works(Egress(q), q)
          /\ Works(Egress(q), q) => (HopPast(Egress(q), q)' <=> HopPast(Egress(q), q))
      <4> DEFINE g == Egress(q)
      <4>1. g' = g
        BY <1>4
      <4> QED BY <1>6, <1>8, <1>4, <2>4
    <3> QED BY <1>1, <1>4, <1>7, <1>11, <2>0, <2>4, <3>1 DEF Past
  <2> QED BY <2>1, <2>2, <2>3, <2>4
<1> QED BY <1>9, <1>10, <1>11

----------------------------------------------------------------------------
(* How far a command is, through the steps of a hop.                       *)

\* A step of a hop keeps the command.
LEMMA HopCaseKept ==
  ASSUME Based, AllLines, AllRings, NEW c \in HostCores, Frame(c), HopStep(c), UNCHANGED queueVars,
         NEW q \in HostCores, Works(c, q)
  PROVE  HopCase(c, q)' /\ Before(q)' = Before(q) /\ Head0(q)' = Head0(q)
<1>0. c \in Cores /\ q \in Cores
  BY Bounds
<1>1. HopCase(c, q)
  BY HopIs
<1>2. Works(c, q)' /\ remote' = remote /\ relay_send_seq' = relay_send_seq /\ pc[c] # "reply"
  BY DEF HopStep, Works
<1>3. (Responded(q)' <=> Responded(q)) /\ Head0(q)' = Head0(q)
  BY DEF Frame, queueVars, Responded, Head0
<1>4. Before(q)' = Before(q) /\ Egress(q)' = Egress(q)
  BY <1>2, <1>3 DEF Before, Egress
<1>5. CASE c = q
  BY <1>1, <1>2, <1>3, <1>4, <1>5 DEF HopCase, Works, Hops
<1>6. CASE c # q
  <2>1. pc'[q] = pc[q] /\ (Works(q, q)' <=> Works(q, q)) /\ (Outstanding(q)' <=> Outstanding(q))
    BY <1>0, <1>6, FrameOthers
  <2>2. relay_resp'[q] = relay_resp[q]
    BY <1>0, <1>2 DEF Frame
  <2>3. Pending(q)' <=> Pending(q)
    BY <1>2, <2>1, <2>2 DEF Pending
  <2> QED BY <1>1, <1>2, <1>3, <1>4, <1>6, <2>1, <2>3 DEF HopCase
<1> QED BY <1>5, <1>6

\* The answer is here: the part that the hop is at has been performed.
LEMMA RepliedFacts ==
  ASSUME NEW e \in HostCores, LinkKept(e), resp_inbox[e].seq = send_seq[e],
         pc[e] \in {"hop", "deposit", "reply"}
  PROVE  /\ Done(e) = part[e] /\ Accessed(e) /\ pc[Link(e)] \notin {"send back", "ack"}
         /\ Val(e) = IF job[e].op = "READ" THEN resp_inbox[e].data ELSE block_buf[e]
BY DEF LinkKept, Done, Accessed, Val

\* A step of a hop that performs no part keeps what the hop has performed.
LEMMA HopPastKept ==
  ASSUME Based, AllLinks, NEW c \in HostCores, Frame(c), NEW q \in HostCores, Works(c, q),
         Stage(c) \/ Ship(c) \/ Header(c) \/ NextChunk(c) \/ RelayedReply(c) \/ Deposit(c),
         HopStep(c), Silent(q), HopPast(c, q), Before(q)' = Before(q), JobKept(c, q)
  PROVE  HopPast(c, q)'
<1> USE DEF linkVars, coreVars, relayVars
<1>0. /\ c \in Cores /\ Link(c) \in Cores /\ Link(c) # c /\ LinkKept(c)
      /\ q \in Cores /\ job[c].from = q /\ part[c] \in Nat /\ part[c] >= 1 /\ part[c] <= Chunks
      /\ Chunks \in Nat
  <2>1. part[c] \in 1 .. Chunks
    BY AllTypes, LinkEnds
  <2> QED BY <2>1, LinkEnds, Bounds DEF Works, AllLinks
<1>t. /\ pc \in [Cores -> Places] /\ part \in [Cores -> 1 .. Chunks] /\ send_seq \in [Cores -> Nat]
      /\ window \in [HostCores -> [1 .. Chunks -> Nat]] /\ relay_resp_block \in [Cores -> Nat]
  BY AllTypes
<1>1. /\ served'[q] = served[q] /\ got'[q] = got[q] /\ job'[c] = job[c]
      /\ resp_inbox'[c] = resp_inbox[c] /\ pc'[Link(c)] = pc[Link(c)] /\ access'[Link(c)] = access[Link(c)]
  <2>1. pc'[Link(c)] = pc[Link(c)] /\ access'[Link(c)] = access[Link(c)]
    BY <1>0, FrameOthers
  <2>2. resp_inbox'[c] = resp_inbox[c]
    BY <1>0 DEF Frame
  <2> QED BY <2>1, <2>2 DEF Silent, HopStep
<1>p. /\ served[q] = Before(q) + Done(c)
      /\ IF job[c].op \in Reads THEN Len(got[q]) = Done(c) ELSE got[q] = <<>>
      /\ job[c].op \in Reads /\ Done(c) = part[c] => got[q][part[c]] = Val(c)
      /\ job[c].op = "DRAM_READ" =>
           \A k \in 1 .. part[c] : (k < part[c] \/ pc[c] = "reply") => window[q][k] = got[q][k]
      /\ job[c].op = "BLOCK_READ" /\ pc[c] = "reply" => relay_resp_block[q] = got[q][1]
  BY DEF HopPast
<1>2. CASE Stage(c) \/ Ship(c) \/ Header(c)
  <2>1. /\ part' = part /\ window' = window /\ pc[c] \in {"stage", "ship", "header"}
        /\ pc'[c] \in {"ship", "header", "hop"}
    BY <1>0, <1>2, <1>t DEF Stage, Ship, Header, Go
  <2>2. Done(c) = part[c] - 1
    BY <2>1 DEF Done
  <2>3. Done(c)' = part[c] - 1
    <3>1. CASE pc'[c] \in {"ship", "header"}
      BY <2>1, <3>1 DEF Done
    <3>2. CASE pc'[c] = "hop"
      <4>1. send_seq'[c] = send_seq[c] + 1 /\ send_seq[c] \in Nat
        BY <1>0, <1>2, <1>t, <3>2 DEF Stage, Ship, Header, Go
      <4>2. resp_inbox[c].seq = send_seq[c] /\ pc[Link(c)] \notin {"send back", "ack"}
        BY <1>0, <2>1 DEF LinkKept
      <4>3. resp_inbox[c].seq # send_seq'[c]
        <5>1. send_seq[c] # send_seq[c] + 1
          BY <4>1
        <5> QED BY <4>1, <4>2, <5>1
      <4>4. ~Accessed(c)'
        BY <1>1, <4>2, <4>3 DEF Accessed
      <4> QED BY <2>1, <3>2, <4>4 DEF Done
    <3> QED BY <2>1, <3>1, <3>2
  <2>4. part[c] - 1 # part[c]
    BY <1>0
  <2> QED BY <1>1, <1>p, <2>1, <2>2, <2>3, <2>4 DEF HopPast
<1>3. CASE NextChunk(c)
  <2>1. /\ pc'[c] \in {"stage", "ship", "header"} /\ part'[c] = part[c] + 1 /\ Replied(c)
        /\ window' = IF job[c].op = "DRAM_READ"
                     THEN [window EXCEPT ![q][part[c]] = block_buf[c]] ELSE window
    BY <1>0, <1>3, <1>t, FirstSteps DEF NextChunk, Go, ToWindow
  <2>2. Done(c) = part[c] /\ Val(c) = IF job[c].op = "READ" THEN resp_inbox[c].data ELSE block_buf[c]
    BY <1>0, <2>1, RepliedFacts DEF Replied
  <2>3. Done(c)' = part[c]
    <3>1. Done(c)' = part'[c] - 1
      BY <2>1 DEF Done
    <3> QED BY <1>0, <2>1, <3>1
  <2>4. part'[c] # part[c]
    BY <1>0, <2>1
  <2>5. job[c].op = "DRAM_READ" => \A k \in 1 .. part'[c] : k < part'[c] => window'[q][k] = got[q][k]
    <3> SUFFICES ASSUME job[c].op = "DRAM_READ", NEW k \in 1 .. part'[c], k < part'[c]
                 PROVE  window'[q][k] = got[q][k]
      OBVIOUS
    <3>1. k \in Nat /\ k >= 1 /\ k <= part[c] /\ k \in 1 .. Chunks
      BY <1>0, <2>1
    <3>2. CASE k = part[c]
      <4>1. got[q][k] = block_buf[c]
        BY <1>p, <2>2, <3>2, OpKinds
      <4>2. window'[q][k] = block_buf[c]
        BY <1>t, <2>1, <3>1, <3>2
      <4> QED BY <4>1, <4>2
    <3>3. CASE k # part[c]
      <4>1. k \in 1 .. part[c] /\ k < part[c]
        BY <1>0, <3>1, <3>3
      <4>2. window'[q][k] = window[q][k]
        BY <1>t, <2>1, <3>1, <3>3
      <4> QED BY <1>p, <4>1, <4>2
    <3> QED BY <3>2, <3>3
  <2> QED BY <1>1, <1>p, <2>1, <2>2, <2>3, <2>4, <2>5 DEF HopPast
<1>4. CASE RelayedReply(c)
  <2>1. /\ pc'[c] = (IF job[c].op = "BLOCK_READ" THEN "deposit" ELSE "reply")
        /\ part' = part /\ Replied(c) /\ block_buf' = block_buf /\ send_seq' = send_seq
        /\ window' = IF job[c].op = "DRAM_READ"
                     THEN [window EXCEPT ![q][part[c]] = block_buf[c]] ELSE window
    BY <1>0, <1>4, <1>t DEF RelayedReply, Go, ToWindow
  <2>2. Done(c) = part[c] /\ Val(c) = IF job[c].op = "READ" THEN resp_inbox[c].data ELSE block_buf[c]
    BY <1>0, <2>1, RepliedFacts DEF Replied
  <2>3. Done(c)' = part[c] /\ Val(c)' = Val(c)
    <3>1. pc[Link(c)] \notin {"send back", "ack"}
      BY <1>0, <2>1, RepliedFacts DEF Replied
    <3> QED BY <1>1, <2>1, <2>2, <3>1 DEF Done, Val
  <2>4. job[c].op = "DRAM_READ" => \A k \in 1 .. part[c] : window'[q][k] = got[q][k]
    <3> SUFFICES ASSUME job[c].op = "DRAM_READ", NEW k \in 1 .. part[c]
                 PROVE  window'[q][k] = got[q][k]
      OBVIOUS
    <3>1. k \in Nat /\ k >= 1 /\ k <= part[c] /\ k \in 1 .. Chunks
      BY <1>0
    <3>2. CASE k = part[c]
      <4>1. got[q][k] = block_buf[c]
        BY <1>p, <2>2, <3>2, OpKinds
      <4>2. window'[q][k] = block_buf[c]
        BY <1>t, <2>1, <3>1, <3>2
      <4> QED BY <4>1, <4>2
    <3>3. CASE k # part[c]
      <4>1. k < part[c]
        BY <1>0, <3>1, <3>3
      <4>2. window'[q][k] = window[q][k]
        BY <1>t, <2>1, <3>1, <3>3
      <4> QED BY <1>p, <4>1, <4>2
    <3> QED BY <3>2, <3>3
  <2> QED BY <1>1, <1>p, <2>1, <2>2, <2>3, <2>4 DEF HopPast
<1>5. CASE Deposit(c)
  <2>1. /\ pc[c] = "deposit" /\ pc'[c] = "reply" /\ part' = part /\ window' = window
        /\ block_buf' = block_buf /\ send_seq' = send_seq /\ relay_resp_block'[q] = block_buf[c]
    BY <1>0, <1>5, <1>t DEF Deposit, NocPut, Go
  <2>2. job[c].op = "BLOCK_READ" /\ part[c] = 1
    <3>1. job[c].op = "BLOCK_READ" /\ part[c] = Last(job[c].op)
      BY <2>1 DEF JobKept
    <3> QED BY <3>1 DEF Last, Streams
  <2>3. Done(c) = part[c] /\ Val(c) = block_buf[c] /\ pc[Link(c)] \notin {"send back", "ack"}
    <3>1. resp_inbox[c].seq = send_seq[c]
      BY <1>0, <2>1 DEF LinkKept
    <3> QED BY <1>0, <2>1, <2>2, <3>1, RepliedFacts
  <2>4. Done(c)' = part[c] /\ Val(c)' = Val(c)
    BY <1>1, <2>1, <2>2, <2>3 DEF Done, Val
  <2>5. got[q][1] = block_buf[c]
    BY <1>p, <2>2, <2>3, OpKinds
  <2> QED BY <1>1, <1>p, <2>1, <2>2, <2>3, <2>4, <2>5 DEF HopPast
<1> QED BY <1>2, <1>3, <1>4, <1>5

\* The peer has a request of core e's, or is about to answer it.
LEMMA PeerHop ==
  ASSUME Based, AllLinks, NEW r \in Cores, Link(r) \in HostCores,
         InboxFull(r) \/ pc[r] \in {"send back", "ack"}
  PROVE  \E e \in HostCores, q \in HostCores :
           /\ e = Link(r) /\ r = Link(e) /\ e # r /\ e \in Cores /\ LinkKept(e) /\ q = job[e].from
           /\ pc[e] = "hop" /\ resp_inbox[e].seq # send_seq[e] /\ req_inbox[r] = HeaderOf(e)
           /\ Works(e, q) /\ Origin(r) = q
<1> DEFINE e == Link(r)
<1>1. e \in HostCores /\ r = Link(e) /\ e # r /\ e \in Cores /\ LinkKept(e)
  BY LinkEnds, EthAssumption DEF AllLinks
<1> HIDE DEF e
<1>2. resp_inbox[e].seq # send_seq[e]
  BY <1>1 DEF LinkKept, InboxFull
<1>3. pc[e] = "hop" /\ req_inbox[r] = HeaderOf(e)
  BY <1>1, <1>2 DEF LinkKept
<1>4. job[e].from \in HostCores
  BY <1>1, <1>3, HopFrom DEF Based, Hops
<1>5. Works(e, job[e].from)
  BY <1>3 DEF Works, Hops
<1>6. Origin(r) = job[e].from
  BY DEF Origin, e
<1> QED BY <1>1, <1>2, <1>3, <1>4, <1>5, <1>6 DEF e

\* A step of the peer keeps the hop.
LEMMA PeerCase ==
  ASSUME Based, AllLines, AllRings, NEW r \in Cores, r \notin HostCores, RemoteKind(r), Frame(r),
         NEW e \in HostCores, NEW q \in HostCores, Works(e, q)
  PROVE  HopCase(e, q)' /\ Before(q)' = Before(q)
<1> USE DEF queueVars, relayVars, hostVars
<1>0. q \in Cores /\ q # r /\ e \in Cores /\ e # r
  BY Bounds
<1>1. HopCase(e, q)
  BY HopIs
<1>2. UNCHANGED <<hostVars, queueVars, relayVars, remote>>
  BY DEF RemoteKind, Receive, SendBack, Ack
<1>3. /\ pc'[q] = pc[q] /\ (Outstanding(q)' <=> Outstanding(q)) /\ Head0(q)' = Head0(q)
      /\ Works(q, q)' <=> Works(q, q)
      /\ Works(e, q)' <=> Works(e, q)
  <2>1. Works(e, q)' <=> Works(e, q)
    BY <1>0, FrameOthers
  <2> QED BY <1>0, <2>1, FrameOthers
<1>4. (Responded(q)' <=> Responded(q)) /\ Egress(q)' = Egress(q) /\ Before(q)' = Before(q)
      /\ (Pending(q)' <=> Pending(q))
  BY <1>2, <1>3 DEF Responded, Egress, Before, Pending
<1> QED BY <1>1, <1>3, <1>4 DEF HopCase

\* What the receiver's access is: the part of the command that core e's hop is at.
LEMMA ReceiveFacts ==
  ASSUME Based, NEW r \in Cores, Receive(r), InboxFull(r)
  PROVE  /\ Accesses(r) /\ UNCHANGED <<resp_inbox, job, part, send_seq>> /\ pc[r] = "inbox"
         /\ LET m == req_inbox[r] IN
              \/ /\ m.op \in Writes /\ pc'[r] = "ack" /\ block_buf' = block_buf
                 /\ mem' = [mem EXCEPT ![Chip(r)][m.k] = IF m.op = "WRITE" THEN m.data ELSE block_buf[r]]
              \/ /\ m.op = "READ" /\ pc'[r] = "ack" /\ access'[r] = mem[Chip(r)][m.k] /\ mem' = mem
                 /\ block_buf' = block_buf
              \/ /\ m.op = "BLOCK_READ" /\ pc'[r] = "send back" /\ block_buf'[r] = mem[Chip(r)][m.k]
                 /\ mem' = mem
<1>1. pc \in [Cores -> Places] /\ access \in [Cores -> Nat] /\ block_buf \in [Cores -> Nat]
  BY AllTypes
<1> QED BY <1>1 DEF Receive, Accesses, Go, linkVars, coreVars

\* A hop reads, or writes a block, as the command does.
LEMMA HopReads ==
  \A op \in Ops : /\ HopOp(op) \in Reads <=> op \in Reads
                  /\ HopOp(op) \in Writes <=> op \notin Reads
                  /\ HopOp(op) = "READ" <=> op = "READ"
                  /\ HopOp(op) = "WRITE" <=> op = "WRITE"
                  /\ HopOp(op) \in Writes /\ HopOp(op) # "WRITE" <=> op \in Blocks
BY DEF Ops, Reads, Writes, HopOp, Blocks

\* The peer performs the part that the hop is at.
LEMMA PeerReceives ==
  ASSUME Based, AllReceive, AllLinks, NEW r \in Cores, r \notin HostCores, Frame(r), History,
         Link(r) \in HostCores, Receive(r), InboxFull(r),
         NEW e \in HostCores, e = Link(r), NEW q \in HostCores, Works(e, q), HopPast(e, q),
         Before(q)' = Before(q)
  PROVE  HopPast(e, q)'
<1>0. /\ r = Link(e) /\ e # r /\ e \in Cores /\ LinkKept(e) /\ q = job[e].from
      /\ pc[e] = "hop" /\ resp_inbox[e].seq # send_seq[e] /\ req_inbox[r] = HeaderOf(e)
      /\ Origin(r) = q
  <2>1. PICK d \in HostCores, p \in HostCores :
          /\ d = Link(r) /\ r = Link(d) /\ d # r /\ d \in Cores /\ LinkKept(d) /\ p = job[d].from
          /\ pc[d] = "hop" /\ resp_inbox[d].seq # send_seq[d] /\ req_inbox[r] = HeaderOf(d)
          /\ Works(d, p) /\ Origin(r) = p
    BY PeerHop
  <2>2. d = e
    BY <2>1
  <2>3. p = q
    BY <2>1, <2>2 DEF Works
  <2> QED BY <2>1, <2>2, <2>3
<1>1. Accesses(r) /\ UNCHANGED <<resp_inbox, job, part, send_seq>> /\ pc[r] = "inbox"
  BY ReceiveFacts
<1>2. q # r /\ part[e] \in Nat /\ part[e] >= 1 /\ served[q] \in Nat /\ got[q] \in Seq(Nat)
      /\ job[e].op \in Ops
  <2>1. part[e] \in 1 .. Chunks /\ job[e] \in Job
    BY <1>0, AllTypes
  <2>2. served[q] \in Nat /\ got[q] \in Seq(Nat)
    BY AllTypes
  <2> QED BY <2>1, <2>2 DEF Job
<1>3. /\ req_inbox[r].op = HopOp(job[e].op)
      /\ req_inbox[r].op \in Reads <=> job[e].op \in Reads
      /\ req_inbox[r].op = "READ" <=> job[e].op = "READ"
  <2>1. req_inbox[r] = HeaderOf(e)
    BY <1>0
  <2>2. req_inbox[r].op = HopOp(job[e].op)
    BY <2>1 DEF HeaderOf
  <2> QED BY <1>2, <2>2, HopReads
<1>4. Done(e) = part[e] - 1
  BY <1>0, <1>1 DEF Done, Accessed
<1>5. pc'[e] = "hop" /\ window' = window /\ pc'[r] \in {"ack", "send back"}
  <2>1. pc'[e] = pc[e]
    BY <1>0, FrameOthers
  <2>2. window'= window
    BY DEF Receive
  <2> QED BY <1>0, <1>1, <2>1, <2>2 DEF Accesses
<1>6. Done(e)' = part[e]
  BY <1>0, <1>1, <1>5 DEF Done, Accessed
<1>7. served'[q] = served[q] + 1
  <2>1. served'[q] = IF q = r /\ Counts(r) THEN 0
                     ELSE IF PerformsFor(r, q) THEN served[q] + 1 ELSE served[q]
    BY StepHistory
  <2> QED BY <1>0, <1>1, <1>2, <2>1 DEF PerformsFor
<1>8. got'[q] = IF job[e].op \in Reads
                THEN Append(got[q], IF job[e].op = "READ" THEN access'[r] ELSE block_buf'[r])
                ELSE got[q]
  <2>1. got'[q] = IF q = r /\ Counts(r) THEN <<>>
                      ELSE IF Accesses(r) /\ Origin(r) = q /\ req_inbox[r].op \in Reads
                      THEN Append(got[q], IF req_inbox[r].op = "READ" THEN access'[r] ELSE block_buf'[r])
                      ELSE got[q]
    BY StepHistory
  <2> QED BY <1>0, <1>1, <1>2, <1>3, <2>1
<1>9. Val(e)' = IF job[e].op = "READ" THEN access'[r] ELSE IF pc'[r] = "send back" THEN block_buf'[r]
                ELSE block_buf'[e]
  <2>1. job[e].op = "READ" => pc'[r] = "ack"
    BY <1>3, ReceiveFacts
  <2> QED BY <1>0, <1>1, <2>1 DEF Val
<1>10. job[e].op \in Reads /\ job[e].op # "READ" => pc'[r] = "send back"
  BY <1>3, ReceiveFacts, OpKinds
<1>p. /\ served[q] = Before(q) + (part[e] - 1)
      /\ IF job[e].op \in Reads THEN Len(got[q]) = part[e] - 1 ELSE got[q] = <<>>
      /\ job[e].op = "DRAM_READ" =>
           \A k \in 1 .. part[e] : k < part[e] => window[q][k] = got[q][k]
  BY <1>4 DEF HopPast
<1>11. CASE job[e].op \in Reads
  <2> DEFINE v == IF job[e].op = "READ" THEN access'[r] ELSE block_buf'[r]
  <2>1. got'[q] = Append(got[q], v) /\ Val(e)' = v
    BY <1>8, <1>9, <1>10, <1>11
  <2> HIDE DEF v
  <2>2. Len(got'[q]) = part[e] /\ got'[q][part[e]] = v
        /\ \A k \in 1 .. part[e] : k < part[e] => got'[q][k] = got[q][k]
    BY <1>2, <1>p, <1>11, <2>1
  <2>3. served'[q] = Before(q) + part[e]
    <3>1. Before(q) \in Nat
      <4>1. remote[q] \in Nat /\ Chunks \in Nat
        BY AllTypes, Bounds
      <4>2. Chunks * remote[q] \in Nat
        BY <4>1
      <4> QED BY <4>2 DEF Before
    <3> QED BY <1>2, <1>7, <1>p, <3>1
  <2> QED BY <1>1, <1>5, <1>6, <1>11, <1>p, <2>1, <2>2, <2>3 DEF HopPast
<1>12. CASE job[e].op \notin Reads
  <2>1. got'[q] = <<>>
    BY <1>8, <1>12, <1>p
  <2>2. served'[q] = Before(q) + part[e]
    <3>1. Before(q) \in Nat
      <4>1. remote[q] \in Nat /\ Chunks \in Nat
        BY AllTypes, Bounds
      <4>2. Chunks * remote[q] \in Nat
        BY <4>1
      <4> QED BY <4>2 DEF Before
    <3> QED BY <1>2, <1>7, <1>p, <3>1
  <2>3. job[e].op \notin {"READ", "BLOCK_READ", "DRAM_READ"}
    BY <1>12, OpKinds
  <2> QED BY <1>1, <1>5, <1>6, <1>12, <2>1, <2>2, <2>3 DEF HopPast
<1> QED BY <1>11, <1>12

\* The peer sends what it read.
LEMMA PeerAnswers ==
  ASSUME Based, AllReceive, AllLinks, NEW r \in Cores, r \notin HostCores, Frame(r), History,
         Link(r) \in HostCores, SendBack(r) \/ Ack(r),
         NEW e \in HostCores, e = Link(r), NEW q \in HostCores, Works(e, q), HopPast(e, q),
         Before(q)' = Before(q)
  PROVE  HopPast(e, q)'
<1> USE DEF coreVars, linkVars, queueVars
<1>0. /\ r = Link(e) /\ e # r /\ e \in Cores /\ LinkKept(e) /\ q = job[e].from
      /\ pc[e] = "hop" /\ resp_inbox[e].seq # send_seq[e] /\ req_inbox[r] = HeaderOf(e)
  <2>0. pc[r] \in {"send back", "ack"}
    BY DEF SendBack, Ack
  <2>1. PICK d \in HostCores, p \in HostCores :
          /\ d = Link(r) /\ r = Link(d) /\ d # r /\ d \in Cores /\ LinkKept(d) /\ p = job[d].from
          /\ pc[d] = "hop" /\ resp_inbox[d].seq # send_seq[d] /\ req_inbox[r] = HeaderOf(d)
          /\ Works(d, p) /\ Origin(r) = p
    BY <2>0, PeerHop
  <2>2. d = e
    BY <2>1
  <2>3. p = q
    BY <2>1, <2>2 DEF Works
  <2> QED BY <2>1, <2>2, <2>3
<1>t. /\ pc \in [Cores -> Places] /\ block_buf \in [Cores -> Nat] /\ resp_inbox \in [Cores -> Word]
  BY AllTypes
<1>1. /\ UNCHANGED <<job, part, send_seq, access, wr_req, window, relay_resp_block>> /\ pc[r] \in {"send back", "ack"}
  BY DEF SendBack, Ack, relayVars
<1>2. Silent(q)
  <2>1. ~Accesses(r)
    BY <1>1 DEF Accesses
  <2> QED BY <1>1, <2>1, StepSilent
<1>3. pc'[e] = "hop"
  BY <1>0, FrameOthers
<1>4. Done(e)' = Done(e) /\ Val(e)' = Val(e)
  <2>1. CASE SendBack(r)
    <3>1. /\ pc[r] = "send back" /\ pc'[r] = "ack" /\ block_buf'[e] = block_buf[r]
          /\ UNCHANGED resp_inbox
      BY <1>0, <1>t, <2>1 DEF SendBack, EthSend, Go
    <3>2. job[e].op # "READ"
      BY <1>0, <3>1 DEF LinkKept
    <3> QED BY <1>0, <1>1, <1>3, <3>1, <3>2 DEF Done, Val, Accessed
  <2>2. CASE Ack(r)
    <3>1. /\ pc[r] = "ack" /\ pc'[r] = "doorbell" /\ block_buf' = block_buf
          /\ resp_inbox'[e] = [seq |-> req_inbox[r].seq, data |-> access[r]]
      BY <1>0, <1>t, <2>2 DEF Ack, EthSend, Go
    <3>2. resp_inbox'[e].seq = send_seq[e] /\ resp_inbox'[e].data = access[r]
      <4>1. req_inbox[r].seq = send_seq[e]
        BY <1>0 DEF LinkKept
      <4> QED BY <3>1, <4>1
    <3> QED BY <1>0, <1>1, <1>3, <3>1, <3>2 DEF Done, Val, Accessed
  <2> QED BY <2>1, <2>2
<1>5. served'[q] = served[q] /\ got'[q] = got[q] /\ pc'[e] = pc[e]
  BY <1>0, <1>2, <1>3 DEF Silent
<1>6. UNCHANGED <<job, part, window, relay_resp_block>> /\ Before(q)' = Before(q)
  BY <1>1
<1> HIDE DEF coreVars, linkVars, queueVars
<1> QED BY <1>4, <1>5, <1>6 DEF HopPast

----------------------------------------------------------------------------
(* How far a command is, where its hop begins and where it is done.        *)

\* A number of parts.
LEMMA BeforeTypes ==
  ASSUME Based, NEW q \in HostCores
  PROVE  Before(q) \in Nat
<1>1. remote[q] \in Nat /\ Chunks \in Nat
  BY AllTypes, Bounds
<1>2. Chunks * remote[q] \in Nat
  BY <1>1
<1> QED BY <1>2 DEF Before

\* A hop begins with no part performed.
LEMMA HopBegins ==
  ASSUME NEW e, NEW q, Before(q)' \in Nat, served'[q] = Before(q)', got'[q] = <<>>, part'[e] = 1,
         pc'[e] \in {"stage", "ship", "header"}
  PROVE  HopPast(e, q)'
<1>1. Done(e)' = 0
  BY DEF Done
<1>2. served'[q] = Before(q)' + Done(e)'
  BY <1>1
<1>3. Len(got'[q]) = 0
  OBVIOUS
<1> QED BY <1>1, <1>2, <1>3 DEF HopPast

\* Core c executes a command: it is at the head, and no response is to be taken.
LEMMA Executing ==
  ASSUME Based, AllLines, AllRings, NEW c \in HostCores, Executes(c)
  PROVE  /\ rdptr[c] # wrptr[c] /\ ~Responded(c) /\ Line(c) /\ Control(c) /\ RingKept(c) /\ c \in Cores
         /\ todo[c] # <<>> /\ Head(todo[c]) = Head0(c)
         /\ pc[c] \in Commands => \A e \in HostCores : Works(e, c) => e # c /\ Pending(c)
<1>1. c \in Cores /\ Line(c) /\ RingKept(c)
  BY Bounds DEF AllLines, AllRings
<1>2. rdptr[c] # wrptr[c]
  BY <1>1, Busy
<1>3. pc[c] \in Commands => \A e \in HostCores : Works(e, c) => e # c /\ Pending(c)
  BY <1>1, OneWorks DEF Works, Hops, Commands
<1> QED BY <1>1, <1>2, <1>3, HeadTodo DEF Line

\* The scan takes a request: the hop of it begins.
LEMMA PastTakes ==
  ASSUME Based, AllLines, AllRings, NEW c \in HostCores, Frame(c), Takes(c),
         NEW q \in HostCores, q # c, Works(c, q)', Pending(q), c = Egress(q), part'[c] = 1,
         pc'[c] \in {"stage", "ship", "header"}, Silent(q), Past(q)
  PROVE  Past(q)'
<1> USE DEF queueVars, relayVars, hostVars
<1>0. q \in Cores /\ c \in Cores /\ Line(q) /\ RingKept(q) /\ Control(q)
  BY Bounds DEF AllLines, AllRings, Line
<1>1. rdptr[q] # wrptr[q] /\ pc[q] \notin {"grid", "fanout"} /\ ~Works(q, q) /\ Outstanding(q)
  BY <1>0 DEF Control, Pending, Outstanding
<1>2. ~Responded(q)
  BY <1>0, <1>1, HeadTodo
<1>3. ~Works(c, q)
  BY DEF Takes, Works, Hops
<1>4. served[q] = Before(q) /\ got[q] = <<>>
  BY <1>1, <1>2, <1>3 DEF Past, Fresh
<1>5. /\ pc'[q] = pc[q] /\ (Outstanding(q)' <=> Outstanding(q)) /\ Head0(q)' = Head0(q)
      /\ Works(q, q)' <=> Works(q, q)
  BY <1>0, FrameOthers
<1>6. UNCHANGED <<hostVars, queueVars, relayVars, remote>>
  BY DEF Takes
<1>7. /\ Responded(q)' <=> Responded(q)
      /\ Egress(q)' = Egress(q) /\ Before(q)' = Before(q)
      /\ Pending(q)' <=> Pending(q)
  BY <1>5, <1>6 DEF Responded, Egress, Before, Pending
<1>8. HopCase(c, q)'
  BY <1>1, <1>2, <1>5, <1>7 DEF HopCase
<1>9. HopPast(c, q)'
  BY <1>4, <1>7, BeforeTypes, HopBegins DEF Silent
<1> QED BY <1>8, <1>9, HopCaseNext

\* Core c begins a hop of its own.
LEMMA PastDirect ==
  ASSUME Based, AllLines, AllRings, NEW c \in HostCores, Frame(c), Direct(c), Silent(c), Past(c)
  PROVE  Past(c)'
<1> USE DEF queueVars, relayVars, hostVars
<1>1. pc[c] = "decode" /\ Head0(c).op # "BROADCAST" /\ Head0(c).tc = Peer(c)
  BY DEF Direct
<1>0. /\ ~Responded(c) /\ Control(c) /\ c \in Cores
      /\ \A e \in HostCores : Works(e, c) => e # c /\ Pending(c)
  BY <1>1, Executing DEF Executes, Commands
<1>2. ~Outstanding(c) /\ ~Works(c, c)
  BY <1>0, <1>1 DEF Control, Pending, Target
<1>3. served[c] = 0 /\ got[c] = <<>>
  BY <1>0, <1>1, <1>2 DEF Past
<1>4. /\ part'[c] = 1 /\ pc'[c] \in {"stage", "ship", "header"} /\ job'[c].from = c
      /\ UNCHANGED <<hostVars, queueVars, remote>>
  <2>1. pc \in [Cores -> Places] /\ job \in [Cores -> Job] /\ part \in [Cores -> 1 .. Chunks]
    BY AllTypes
  <2> QED BY <1>0, <2>1, FirstSteps DEF Direct, StartHop, Go
<1>5. Before(c)' = 0 /\ ~Responded(c)'
  BY <1>0, <1>1, <1>4 DEF Before, Head0, Responded
<1>6. HopCase(c, c)'
  BY <1>4, <1>5 DEF HopCase, Works, Hops
<1>7. HopPast(c, c)'
  <2>1. served'[c] = Before(c)' /\ got'[c] = <<>> /\ Before(c)' \in Nat
    BY <1>3, <1>5 DEF Silent
  <2> QED BY <1>4, <2>1, HopBegins
<1> QED BY <1>6, <1>7, HopCaseNext

\* A relay that core c posts.
LEMMA PastPosted ==
  ASSUME Based, AllLines, AllRings, NEW c \in HostCores, Frame(c), AllLines',
         Executes(c), pc[c] \in Commands, ~Pending(c),
         pc'[c] = "ring", Pending(c)', resp_wrptr'[c] = resp_wrptr[c], rdptr' = rdptr,
         remote' = remote, Silent(c), served[c] = Before(c), got[c] = <<>>
  PROVE  Past(c)'
<1>0. ~Responded(c) /\ c \in Cores /\ \A e \in HostCores : ~Works(e, c)
  BY Executing
<1>1. Head0(c)' = Head0(c) /\ (Responded(c)' <=> Responded(c))
  BY DEF Frame, Head0, Responded
<1>2. Before(c)' = Before(c)
  BY <1>1 DEF Before
<1>3. ~Works(c, c)' /\ Outstanding(c)'
  BY DEF Works, Hops, Outstanding
<1>4. ~Works(Egress(c), c)'
  <2>1. PICK g \in HostCores : g = Egress(c)' /\ g # c
    <3>1. Control(c)'
      BY DEF AllLines, Line
    <3>2. Routable(Target(c)') /\ Target(c)' # Peer(c) /\ Egress(c)' = Route(Target(c)')
      BY <1>3, <3>1 DEF Control, Egress, Target
    <3> QED BY <3>2, RouteGoes
  <2>2. pc'[g] = pc[g] /\ job'[g] = job[g]
    BY <2>1, Bounds, FrameOthers
  <2> QED BY <1>0, <2>1, <2>2 DEF Works
<1>5. Fresh(c)'
  BY <1>2 DEF Fresh, Silent
<1> QED BY <1>0, <1>1, <1>3, <1>4, <1>5 DEF Past

\* A relay that is posted is pending.
LEMMA PutPending ==
  ASSUME Based, NEW c \in HostCores, Control(c), NEW e, NEW m, NEW b, PutSlot(c, e, m, b),
         relay_resp' = relay_resp
  PROVE  pc'[c] = "ring" /\ Pending(c)'
<1>1. /\ relay_send_seq \in [Cores -> Nat] /\ pc \in [Cores -> Places] /\ c \in Cores
      /\ relay_resp[c].seq \in Nat
  BY AllTypes, SeqTypes, Bounds
<1>2. relay_send_seq'[c] = relay_send_seq[c] + 1 /\ pc'[c] = "ring"
  BY <1>1 DEF PutSlot, Go
<1>3. relay_resp[c].seq <= relay_send_seq[c] /\ relay_send_seq[c] \in Nat
  BY <1>1 DEF Control
<1>4. relay_resp[c].seq # relay_send_seq[c] + 1
  BY <1>1, <1>3
<1> QED BY <1>2, <1>4 DEF Pending, Outstanding

\* Core c posts a relay for its command.
LEMMA PastPostRelay ==
  ASSUME Based, AllLines, AllRings, NEW c \in HostCores, Frame(c), AllLines', PostRelay(c),
         Silent(c), Past(c)
  PROVE  Past(c)'
<1> USE DEF queueVars, hostVars
<1>1. /\ pc[c] = "decode" /\ Head0(c).op # "BROADCAST" /\ ~relay_wait[c]
      /\ PutSlot(c, Route(Head0(c).tc), Head0(c), SlotOf(rdptr[c]))
      /\ UNCHANGED <<relay_resp, rdptr, remote, resp_wrptr>>
  BY DEF PostRelay
<1>0. Executes(c) /\ ~Responded(c) /\ Control(c) /\ ~Works(c, c)
  BY <1>1, Executing DEF Executes, Commands
<1>2. ~Outstanding(c) /\ ~Pending(c)
  BY <1>1 DEF Outstanding, Pending
<1>3. served[c] = 0 /\ got[c] = <<>> /\ Before(c) = 0
  BY <1>0, <1>1, <1>2 DEF Past, Before
<1>4. pc'[c] = "ring" /\ Pending(c)'
  BY <1>0, <1>1, PutPending
<1>5. pc[c] \in Commands
  BY <1>1 DEF Commands
<1> QED BY <1>0, <1>1, <1>2, <1>3, <1>4, <1>5, PastPosted

\* A chip's parts come after those of the chips before it.
LEMMA NextChip ==
  ASSUME NEW k \in Nat
  PROVE  Chunks * k + Chunks = Chunks * (k + 1) /\ Chunks * 1 = Chunks
BY Bounds

\* The steps of a broadcast between its chips.
LEMMA PastBroadcast ==
  ASSUME Based, AllLines, AllRings, NEW c \in HostCores, Frame(c), History,
         StartBroadcast(c) \/ Grid(c) \/ RelayWait(c), Past(c)
  PROVE  Past(c)'
<1> USE DEF queueVars, relayVars, hostVars
<1>c. c \in Cores /\ Chunks \in Nat
  BY Bounds
<1>u. /\ pc \in [Cores -> Places] /\ part \in [Cores -> 1 .. Chunks] /\ remote \in [Cores -> Nat \ {0}]
  BY AllTypes
<1>p. part[c] \in Nat /\ part[c] >= 1 /\ part[c] <= Chunks
  <2>1. part[c] \in 1 .. Chunks
    BY <1>c, <1>u
  <2> QED BY <1>c, <2>1
<1>t. /\ pc \in [Cores -> Places] /\ part \in [Cores -> 1 .. Chunks] /\ remote \in [Cores -> Nat \ {0}]
      /\ c \in Cores /\ Chunks \in Nat /\ part[c] \in Nat /\ part[c] >= 1 /\ part[c] <= Chunks
  BY <1>c, <1>u, <1>p
<1>1. /\ pc[c] \in {"decode", "grid", "relay wait"} /\ Head0(c).op = "BROADCAST"
      /\ UNCHANGED <<hostVars, queueVars, relayVars>> /\ Last(Head0(c).op) = Chunks
  <2>1. pc[c] \in {"grid", "relay wait"} => Head0(c).op = "BROADCAST"
    BY <1>t DEF Based, RelayInv, HeadKept
  <2> QED BY <2>1 DEF StartBroadcast, Grid, RelayWait, Last, Streams
<1>0. ~Responded(c) /\ Control(c) /\ ~Works(c, c) /\ ~relay_wait[c]
  <2>1. ~Responded(c) /\ Control(c) /\ ~Works(c, c)
    BY <1>1, Executing DEF Executes, Commands
  <2> QED BY <1>1, <2>1 DEF Control
<1>2. ~Responded(c)' /\ Head0(c)' = Head0(c)
  BY <1>0, <1>1 DEF Responded, Head0
<1>3. CASE StartBroadcast(c)
  <2>1. pc[c] = "decode" /\ pc'[c] = "grid" /\ part'[c] = 1
    BY <1>t, <1>3 DEF StartBroadcast, Go
  <2>2. served[c] = 0 /\ got[c] = <<>>
    BY <1>0, <2>1 DEF Past, Outstanding
  <2>3. Silent(c)
    BY <1>1, <1>t, <2>1, StepSilent DEF Accesses
  <2>4. served'[c] = part'[c] - 1 /\ got'[c] = <<>>
    BY <2>1, <2>2, <2>3 DEF Silent
  <2> QED BY <1>2, <2>1, <2>4 DEF Past
<1>4. CASE Grid(c)
  <2>1. /\ pc[c] = "grid"
        /\ \/ part[c] < Chunks /\ part'[c] = part[c] + 1 /\ pc'[c] = "grid"
           \/ part[c] = Chunks /\ remote'[c] = 1 /\ pc'[c] = "fanout"
    BY <1>t, <1>4 DEF Grid, Go
  <2>2. served[c] = part[c] - 1 /\ got[c] = <<>>
    BY <1>0, <2>1 DEF Past
  <2>3. ~Counts(c) /\ ~Accesses(c)
    BY <1>1, <2>1 DEF Counts, Accesses
  <2>4. PerformsFor(c, c)
    <3>1. pc'[c] # pc[c] \/ part'[c] # part[c]
      BY <1>t, <2>1
    <3> QED BY <2>1, <3>1 DEF PerformsFor
  <2>5. served'[c] = served[c] + 1
    BY <1>c, <2>3, <2>4, StepHistory
  <2>6. got'[c] = got[c]
    BY <1>c, <2>3, StepHistory
  <2>7. CASE pc'[c] = "grid"
    <3>1. served'[c] = part'[c] - 1
      BY <1>t, <2>1, <2>2, <2>5, <2>7
    <3> QED BY <1>2, <2>2, <2>6, <2>7, <3>1 DEF Past
  <2>8. CASE pc'[c] = "fanout"
    <3>1. Before(c)' = Chunks
      BY <1>1, <1>2, <2>1, <2>8, <1>t, NextChip DEF Before
    <3>2. served'[c] = Chunks
      BY <1>t, <2>1, <2>2, <2>5, <2>8
    <3> QED BY <1>2, <2>2, <2>6, <2>8, <3>1, <3>2 DEF Past, Fresh
  <2> QED BY <2>1, <2>7, <2>8
<1>5. CASE RelayWait(c)
  <2>1. /\ pc[c] = "relay wait" /\ pc'[c] = "fanout" /\ remote'[c] = remote[c] + 1
        /\ relay_resp[c].seq = relay_send_seq[c]
    BY <1>t, <1>5 DEF RelayWait, Go
  <2>2. Relayed(c)
    BY <1>0, <2>1 DEF Past, Pending, Outstanding
  <2>3. Silent(c)
    BY <1>1, <1>t, <2>1, StepSilent DEF Accesses
  <2>4. served[c] = Chunks * remote[c] + Chunks /\ got[c] = <<>>
    BY <1>1, <2>2, OpKinds DEF Relayed, Before
  <2>5. Before(c)' = Chunks * (remote[c] + 1)
    BY <1>1, <1>2, <2>1 DEF Before
  <2>6. served'[c] = Before(c)' /\ got'[c] = <<>>
    <3>1. remote[c] \in Nat
      BY <1>t
    <3> QED BY <2>3, <2>4, <2>5, <3>1, NextChip DEF Silent
  <2> QED BY <1>2, <2>1, <2>6 DEF Past, Fresh
<1> QED BY <1>3, <1>4, <1>5

\* A command that core c has finished: a write is counted, and the host has the
\* response of a read.
LEMMA PastFinished ==
  ASSUME Based, AllLines, AllRings, NEW c \in HostCores, Frame(c), History, Executes(c),
         NEW w, NEW b, Complete(c, w, b), ~relay_wait'[c], ~Accesses(c), pc[c] # "grid",
         Head0(c).op \in Reads =>
           /\ served[c] = Last(Head0(c).op) /\ Len(got[c]) = Last(Head0(c).op)
           /\ Head0(c).op = "READ" => got[c][1] = w
           /\ Head0(c).op = "BLOCK_READ" => got[c][1] = b
           /\ Head0(c).op = "DRAM_READ" => \A k \in 1 .. Chunks : window'[c][k] = got[c][k]
  PROVE  Past(c)'
<1>0. ~Responded(c) /\ RingKept(c) /\ rdptr[c] # wrptr[c] /\ c \in Cores /\ todo[c] # <<>>
  BY Executing
<1>1. /\ rdptr'[c] = Inc(rdptr[c]) /\ pc'[c] \in {"inbox", "decode"}
      /\ \/ /\ Head0(c).op \in Writes /\ wr_req'[c] # wr_req[c]
            /\ UNCHANGED <<resp_wrptr[c], data_buffer[c], resp[c]>>
         \/ /\ Head0(c).op \in Reads /\ wr_req'[c] = wr_req[c]
            /\ resp_wrptr'[c] = Inc(resp_wrptr[c])
            /\ Head0(c).op = "READ" => resp'[c][SlotOf(resp_wrptr[c])] = w
            /\ Head0(c).op = "BLOCK_READ" => data_buffer'[c][SlotOf(resp_wrptr[c])] = b
  BY <1>0, FinishFacts
<1>2. /\ UNCHANGED <<waits, resp_rdptr, wrptr>>
  BY DEF Frame
<1>3. CASE Head0(c).op \in Writes
  <2>0. Head0(c).op \notin Reads
    BY <1>3, OpKinds
  <2>1. Counts(c) /\ ~Responded(c)'
    BY <1>0, <1>1, <1>2, <2>0 DEF Counts, Responded
  <2>2. served'[c] = 0 /\ got'[c] = <<>>
    BY <1>0, <2>1, StepHistory
  <2>3. ~Works(c, c)' /\ ~Outstanding(c)'
    BY <1>1 DEF Works, Hops, Outstanding
  <2> QED BY <1>1, <2>1, <2>2, <2>3 DEF Past
<1>4. CASE Head0(c).op \in Reads
  <2>0. Head0(c).op \notin Writes
    BY <1>4, OpKinds
  <2>1. Silent(c)
    BY <1>0, <1>1, <2>0, StepSilent
  <2>2. Responded(c)' /\ waits[c] = Head0(c).op /\ resp_rdptr[c] = resp_wrptr[c]
    BY <1>0, <1>1, <1>2, <1>4, <2>0, <2>1, RingResponded DEF Silent
  <2>3. Read(c)'
    BY <1>1, <1>2, <1>4, <2>0, <2>1, <2>2 DEF Read, Silent
  <2> QED BY <2>2, <2>3 DEF Past
<1> QED BY <1>1, <1>3, <1>4

\* A broadcast goes on to its next chip, or ends.
LEMMA PastFanout ==
  ASSUME Based, AllLines, AllRings, NEW c \in HostCores, Frame(c), History, AllLines',
         Fanout(c), Past(c)
  PROVE  Past(c)'
<1> USE DEF queueVars, hostVars
<1>1. /\ pc[c] = "fanout" /\ pc[c] \in Commands /\ Executes(c) /\ relay_resp' = relay_resp
      /\ UNCHANGED <<remote, relay_wait, window>>
  BY DEF Fanout, Executes, Commands
<1>0. /\ ~Responded(c) /\ Control(c) /\ c \in Cores /\ rdptr[c] # wrptr[c]
      /\ \A e \in HostCores : Works(e, c) => e # c /\ Pending(c)
  BY <1>1, Executing
<1>h. Head0(c).op = "BROADCAST" /\ Head0(c).op \notin Reads
  BY <1>0, <1>1, OpKinds DEF Based, RelayInv, HeadKept
<1>w. ~relay_wait[c] /\ ~Outstanding(c) /\ ~Pending(c)
  <2>1. ~relay_wait[c]
    BY <1>0, <1>1 DEF Control
  <2> QED BY <1>1, <2>1 DEF Outstanding, Pending
<1>2. served[c] = Before(c) /\ got[c] = <<>>
  BY <1>0, <1>1 DEF Past, Fresh
<1>3. ~Accesses(c) /\ pc[c] # "grid"
  BY <1>1 DEF Accesses
<1>4. CASE remote[c] > Len(Bcast) /\ CountWrite(c)
  <2>1. Complete(c, 0, 0)
    BY <1>4 DEF Complete
  <2>2. ~relay_wait'[c]
    BY <1>1, <1>w
  <2> QED BY <1>1, <1>3, <1>h, <2>1, <2>2, PastFinished
<1>5. CASE /\ UNCHANGED <<queueVars, relay_send_seq>>
           /\ StartHop(c, [from |-> c, op |-> "BROADCAST", data |-> Head0(c).data, block |-> 0, seq |-> 0])
  <2>1. Silent(c)
    BY <1>0, <1>3, <1>5, StepSilent
  <2>2. /\ part'[c] = 1 /\ pc'[c] \in {"stage", "ship", "header"} /\ job'[c].from = c
    <3>1. pc \in [Cores -> Places] /\ job \in [Cores -> Job] /\ part \in [Cores -> 1 .. Chunks]
      BY AllTypes
    <3> QED BY <1>0, <1>5, <3>1, FirstSteps DEF StartHop, Go
  <2>3. Head0(c)' = Head0(c) /\ ~Responded(c)'
    BY <1>0, <1>5 DEF Head0, Responded, Frame
  <2>4. Before(c)' = Before(c)
    BY <1>1, <2>3 DEF Before
  <2>5. HopCase(c, c)'
    BY <2>2, <2>3 DEF HopCase, Works, Hops
  <2>6. HopPast(c, c)'
    <3>1. served'[c] = Before(c)' /\ got'[c] = <<>> /\ Before(c)' \in Nat
      BY <1>2, <2>1, <2>4, BeforeTypes DEF Silent
    <3> QED BY <2>2, <3>1, HopBegins
  <2> QED BY <2>5, <2>6, HopCaseNext
<1>6. CASE PutSlot(c, Route(Bcast[remote[c]]), Head0(c), 0) /\ UNCHANGED queueVars
  <2>1. pc'[c] = "ring" /\ Pending(c)'
    BY <1>0, <1>1, <1>6, PutPending
  <2>2. Silent(c)
    BY <1>0, <1>3, <1>6, StepSilent
  <2> QED BY <1>1, <1>2, <1>6, <1>w, <2>1, <2>2, PastPosted
<1> QED BY <1>4, <1>5, <1>6 DEF Fanout

\* Core c collects the response of its relay.
LEMMA PastCollect ==
  ASSUME Based, AllLines, AllRings, NEW c \in HostCores, Frame(c), History, Collect(c), Past(c)
  PROVE  Past(c)'
<1> USE DEF queueVars, hostVars
<1>1. /\ pc[c] = "decode" /\ Head0(c).op # "BROADCAST" /\ Executes(c) /\ pc[c] \in Commands
      /\ Complete(c, relay_resp[c].data, relay_resp_block[c]) /\ window' = window
  BY DEF Collect, Executes, Commands
<1>w. relay_wait[c]
  BY DEF Collect
<1>v. ~relay_wait'[c]
  <2>1. relay_wait \in [Cores -> BOOLEAN] /\ c \in Cores
    BY AllTypes, Bounds
  <2> QED BY <2>1 DEF Collect
<1>0. /\ ~Responded(c) /\ Control(c) /\ ~Works(c, c)
  BY <1>1, Executing
<1>2. Relayed(c)
  <2>1. Outstanding(c) /\ ~Pending(c)
    BY <1>0, <1>1, <1>w DEF Control, Outstanding
  <2> QED BY <1>0, <1>1, <2>1 DEF Past
<1>3. /\ served[c] = 0 + Last(Head0(c).op)
      /\ Head0(c).op \in Reads => Len(got[c]) = Last(Head0(c).op)
      /\ Head0(c).op = "READ" => got[c][1] = relay_resp[c].data
      /\ Head0(c).op = "BLOCK_READ" => got[c][1] = relay_resp_block[c]
      /\ Head0(c).op = "DRAM_READ" => \A k \in 1 .. Chunks : window'[c][k] = got[c][k]
  BY <1>1, <1>2 DEF Relayed, Before
<1>4. served[c] = Last(Head0(c).op)
  BY <1>3, LastTypes
<1>5. ~Accesses(c) /\ pc[c] # "grid"
  BY <1>1 DEF Accesses
<1> QED BY <1>1, <1>3, <1>4, <1>5, <1>v, PastFinished

\* The last reply to core c of a command of its own queue.
LEMMA PastOwnReply ==
  ASSUME Based, AllLines, AllRings, AllLinks, NEW c \in HostCores, Frame(c), History,
         OwnReply(c), Past(c)
  PROVE  Past(c)'
<1> USE DEF queueVars, hostVars
<1>0. /\ c \in Cores /\ LinkKept(c) /\ Line(c) /\ part[c] \in Nat /\ part[c] >= 1 /\ part[c] <= Chunks
      /\ Chunks \in Nat
  <2>1. c \in Cores
    BY Bounds
  <2>2. part[c] \in 1 .. Chunks
    BY <2>1, AllTypes
  <2> QED BY <2>1, <2>2, Bounds DEF AllLines, AllLinks
<1>1. /\ Works(c, c) /\ pc[c] = "hop" /\ part[c] = Last(job[c].op) /\ resp_inbox[c].seq = send_seq[c]
      /\ Executes(c) /\ relay_wait' = relay_wait /\ job[c].from = c
      /\ window' = IF job[c].op = "DRAM_READ"
                   THEN [window EXCEPT ![c][part[c]] = block_buf[c]] ELSE window
  BY DEF OwnReply, Replied, ToWindow, Works, Hops, Executes, relayVars
<1>2. HopCase(c, c) /\ HopPast(c, c)
  BY <1>1, HopIs, HopCasePast
<1>3. job[c].op = Head0(c).op
  BY <1>0, <1>1, OneWorks DEF JobKept
<1>4. Done(c) = part[c] /\ Val(c) = IF job[c].op = "READ" THEN resp_inbox[c].data ELSE block_buf[c]
  BY <1>0, <1>1, RepliedFacts
<1>p. /\ served[c] = Before(c) + part[c]
      /\ IF job[c].op \in Reads THEN Len(got[c]) = part[c] ELSE got[c] = <<>>
      /\ job[c].op \in Reads => got[c][part[c]] = Val(c)
      /\ job[c].op = "DRAM_READ" =>
           \A k \in 1 .. part[c] : k < part[c] => window[c][k] = got[c][k]
  BY <1>2, <1>4 DEF HopPast
<1>5. ~Accesses(c) /\ pc[c] # "grid"
  BY <1>1 DEF Accesses
<1>6. CASE job[c].op = "BROADCAST"
  <2>1. /\ remote'[c] = remote[c] + 1 /\ pc'[c] = "fanout" /\ UNCHANGED queueVars
    <3>1. pc \in [Cores -> Places] /\ remote \in [Cores -> Nat \ {0}]
      BY AllTypes
    <3> QED BY <1>0, <1>6, <3>1 DEF OwnReply, Go
  <2>2. Silent(c)
    BY <1>0, <1>5, <2>1, StepSilent
  <2>3. Head0(c)' = Head0(c) /\ ~Responded(c)'
    BY <1>2, <2>1 DEF Head0, Responded, HopCase, Frame
  <2>4. Before(c) = Chunks * remote[c] /\ Before(c)' = Chunks * (remote[c] + 1)
    BY <1>3, <1>6, <2>1, <2>3 DEF Before
  <2>5. part[c] = Chunks /\ got[c] = <<>>
    BY <1>1, <1>6, <1>p, OpKinds DEF Last
  <2>6. served'[c] = Before(c)' /\ got'[c] = <<>>
    <3>1. remote[c] \in Nat
      BY <1>0, AllTypes
    <3> QED BY <1>p, <2>2, <2>4, <2>5, <3>1, NextChip DEF Silent
  <2> QED BY <2>1, <2>3, <2>6 DEF Past, Fresh
<1>7. CASE job[c].op # "BROADCAST"
  <2>1. Complete(c, resp_inbox[c].data, block_buf[c])
    BY <1>7 DEF OwnReply
  <2>2. ~relay_wait'[c]
    <3>1. ~Outstanding(c)
      BY <1>0, <1>1, OneWorks
    <3>2. ~relay_wait[c]
      BY <3>1 DEF Outstanding
    <3> QED BY <1>1, <3>2
  <2>3. served[c] = Last(Head0(c).op)
    <3>1. Before(c) = 0
      BY <1>3, <1>7 DEF Before
    <3> QED BY <1>0, <1>1, <1>3, <1>p, <3>1
  <2>4. Head0(c).op \in Reads => Len(got[c]) = Last(Head0(c).op)
    BY <1>1, <1>3, <1>p
  <2>5. Head0(c).op = "READ" => got[c][1] = resp_inbox[c].data
    BY <1>1, <1>3, <1>4, <1>p, OpKinds DEF Last
  <2>6. Head0(c).op = "BLOCK_READ" => got[c][1] = block_buf[c]
    BY <1>1, <1>3, <1>4, <1>p, OpKinds DEF Last
  <2>7. Head0(c).op = "DRAM_READ" => \A k \in 1 .. Chunks : window'[c][k] = got[c][k]
    <3> SUFFICES ASSUME Head0(c).op = "DRAM_READ", NEW k \in 1 .. Chunks
                 PROVE  window'[c][k] = got[c][k]
      OBVIOUS
    <3>0. window \in [HostCores -> [1 .. Chunks -> Nat]] /\ part[c] = Chunks
      BY <1>1, <1>3, AllTypes, OpKinds DEF Last
    <3>1. window' = [window EXCEPT ![c][part[c]] = block_buf[c]]
      BY <1>1, <1>3
    <3>2. CASE k = part[c]
      <4>1. got[c][k] = block_buf[c]
        BY <1>3, <1>4, <1>p, <3>2, OpKinds
      <4>2. window'[c][k] = block_buf[c]
        BY <3>0, <3>1, <3>2
      <4> QED BY <4>1, <4>2
    <3>3. CASE k # part[c]
      <4>1. k \in 1 .. part[c] /\ k < part[c]
        BY <1>0, <3>0, <3>3
      <4>2. window'[c][k] = window[c][k]
        BY <3>0, <3>1, <3>3
      <4> QED BY <1>3, <1>p, <4>1, <4>2
    <3> QED BY <3>2, <3>3
  <2> QED BY <1>1, <1>5, <2>1, <2>2, <2>3, <2>4, <2>5, <2>6, <2>7, PastFinished
<1> QED BY <1>6, <1>7

\* Core c replies to the queue that it served.
LEMMA PastReply ==
  ASSUME Based, AllLines, AllRings, AllLinks, NEW c \in HostCores, Frame(c), History, Reply(c),
         NEW q \in HostCores, Works(c, q), q # c, Past(q)
  PROVE  Past(q)'
<1> USE DEF queueVars, hostVars
<1>0. /\ c \in Cores /\ q \in Cores /\ LinkKept(c) /\ Line(q) /\ JobKept(c, q) /\ Chunks \in Nat
  BY Bounds DEF AllLines, AllLinks, Line
<1>1. /\ pc[c] = "reply" /\ job[c].from = q /\ UNCHANGED <<queueVars, relay_resp_block, remote, window>>
      /\ relay_resp'[q].data = IF job[c].op \in Streams THEN NoData ELSE resp_inbox[c].data
  <2>1. relay_resp \in [Cores -> Word]
    BY AllTypes
  <2> QED BY <1>0, <2>1 DEF Reply, Works, NocPut
<1>2. HopCase(c, q) /\ HopPast(c, q)
  BY HopIs, HopCasePast
<1>3. job[c].op = Head0(q).op /\ part[c] = Last(job[c].op)
  BY <1>0, <1>1 DEF JobKept
<1>4. Done(c) = part[c] /\ Val(c) = IF job[c].op = "READ" THEN resp_inbox[c].data ELSE block_buf[c]
  <2>1. resp_inbox[c].seq = send_seq[c]
    BY <1>0, <1>1 DEF LinkKept
  <2> QED BY <1>0, <1>1, <2>1, RepliedFacts
<1>5. Silent(q)
  <2>1. ~Accesses(c)
    BY <1>1 DEF Accesses
  <2> QED BY <1>0, <2>1, StepSilent
<1>6. Head0(q)' = Head0(q) /\ ~Responded(q)'
  BY <1>1, <1>2 DEF Head0, Responded, HopCase, Frame
<1>7. Before(q)' = Before(q)
  BY <1>1, <1>6 DEF Before
<1>8. Relayed(q)'
  <2>1. /\ served[q] = Before(q) + Last(Head0(q).op)
        /\ IF Head0(q).op \in Reads THEN Len(got[q]) = Last(Head0(q).op) ELSE got[q] = <<>>
        /\ Head0(q).op \in Reads => got[q][Last(Head0(q).op)] = Val(c)
        /\ Head0(q).op = "DRAM_READ" => \A k \in 1 .. Last(Head0(q).op) : window[q][k] = got[q][k]
        /\ Head0(q).op = "BLOCK_READ" => relay_resp_block[q] = got[q][1]
    BY <1>1, <1>2, <1>3, <1>4 DEF HopPast
  <2>2. Head0(q).op = "READ" => got[q][1] = relay_resp'[q].data
    BY <1>1, <1>3, <1>4, <2>1, OpKinds DEF Last
  <2>3. Head0(q).op = "DRAM_READ" => \A k \in 1 .. Chunks : window'[q][k] = got[q][k]
    BY <1>1, <2>1, OpKinds DEF Last
  <2> QED BY <1>1, <1>5, <1>6, <1>7, <2>1, <2>2, <2>3 DEF Relayed, Silent
<1>9. ~Pending(q)'
  BY <1>0, LineReplied
<1>10. /\ Outstanding(q)' /\ pc'[q] \notin {"grid", "fanout"} /\ ~Works(q, q)'
  BY <1>0, <1>2, FrameOthers DEF HopCase, Pending
<1> QED BY <1>6, <1>8, <1>9, <1>10 DEF Past

\* What core c does leaves the hops of the others as they are.
LEMMA OthersHop ==
  ASSUME NEW c \in HostCores, Frame(c), NEW q
  PROVE  \A e \in HostCores \ {c} : Works(e, q) => Done(e)' = Done(e) /\ Val(e)' = Val(e)
BY Bounds, LinkEnds, DoneAside

\* An idle step performs nothing.
LEMMA PastIdle ==
  ASSUME Based, AllLines, NEW c \in Cores, Frame(c), History, Idle(c), NEW q \in HostCores, Past(q)
  PROVE  Past(q)'
<1> USE DEF queueVars, relayVars, hostVars
<1>1. /\ ~Works(c, q) /\ ~Works(c, q)' /\ ~Accesses(c) /\ pc[c] \notin {"grid", "fanout"}
      /\ pc'[c] \notin {"grid", "fanout"} /\ (Outstanding(c)' <=> Outstanding(c))
      /\ UNCHANGED <<wr_req, rdptr, remote, resp_wrptr, resp, data_buffer, relay_send_seq>>
  BY DEF Idle, Works, Hops, Quiets, Polls, Accesses, Outstanding
<1>2. Silent(q)
  BY <1>1, StepSilent
<1>3. \A e \in HostCores \ {c} : Works(e, q) => Done(e)' = Done(e) /\ Val(e)' = Val(e)
  BY DoneIdle
<1> QED BY <1>1, <1>2, <1>3, PastAside DEF AllLines

\* A remote core receives, or answers.
LEMMA PastRemote ==
  ASSUME Based, AllReceive, AllLines, AllReceive', AllRings, AllLinks,
         NEW c \in Cores, c \notin HostCores, Frame(c), History, RemoteKind(c),
         NEW q \in HostCores, Past(q)
  PROVE  Past(q)'
<1>1. ~Works(c, q) /\ ~Works(c, q)'
  <2>1. pc[c] \in Polls \cup {"send back", "ack"}
    BY ReceiverPlaces
  <2>2. pc'[c] \in Polls \cup {"send back", "ack"}
    BY DEF AllReceive, Receives
  <2> QED BY <2>1, <2>2 DEF Works, Hops, Polls
<1>2. PICK e \in HostCores : e = Link(c) /\ c = Link(e)
  <2>1. Link(c) \in HostCores /\ Link(Link(c)) = c
    BY EthAssumption DEF RemoteKind
  <2> QED BY <2>1
<1>3. InboxFull(c) \/ pc[c] \in {"send back", "ack"}
  BY DEF RemoteKind, SendBack, Ack
<1>4. CASE Works(e, q)
  <2>1. HopCase(e, q)' /\ Before(q)' = Before(q)
    BY <1>4, PeerCase
  <2>2. HopPast(e, q)
    BY <1>4, HopIs, HopCasePast
  <2>3. HopPast(e, q)'
    BY <1>2, <1>4, <2>1, <2>2, PeerReceives, PeerAnswers DEF RemoteKind
  <2> QED BY <2>1, <2>3, HopCaseNext
<1>5. CASE ~Works(e, q)
  <2>1. ~(Accesses(c) /\ Origin(c) = q)
    <3>1. PICK g \in HostCores, p \in HostCores : g = Link(c) /\ Works(g, p) /\ Origin(c) = p
      BY <1>2, <1>3, PeerHop
    <3> QED BY <1>2, <1>5, <3>1
  <2>2. Silent(q)
    BY <2>1, StepSilent
  <2>3. \A g \in HostCores \ {c} : Works(g, q) => Done(g)' = Done(g) /\ Val(g)' = Val(g)
    <3> SUFFICES ASSUME NEW g \in HostCores, Works(g, q) PROVE Done(g)' = Done(g) /\ Val(g)' = Val(g)
      OBVIOUS
    <3>1. g # c /\ c # Link(g)
      BY <1>2, <1>5, LinkEnds
    <3> QED BY <3>1, DoneAside
  <2> QED BY <1>1, <2>2, <2>3, PastAside DEF AllLines
<1> QED BY <1>4, <1>5

\* A step of a hop, for the queue that core c works for and for the others.
LEMMA PastHop ==
  ASSUME Based, AllLines, AllRings, AllLinks, NEW c \in HostCores, Frame(c), History,
         Stage(c) \/ Ship(c) \/ Header(c) \/ NextChunk(c) \/ RelayedReply(c) \/ Deposit(c),
         NEW q \in HostCores, Past(q)
  PROVE  Past(q)'
<1>0. c \in Cores
  BY Bounds
<1>1. HopStep(c)
  BY <1>0, HopSteps
<1>2. UNCHANGED queueVars
  BY DEF Stage, Ship, Header, NextChunk, RelayedReply, Deposit
<1>3. Silent(q)
  <2>1. ~Accesses(c) /\ pc[c] # "grid"
    BY <1>1 DEF HopStep, Hops, Accesses
  <2> QED BY <1>0, <1>2, <2>1, StepSilent DEF queueVars
<1>4. CASE Works(c, q)
  <2>1. HopCase(c, q)' /\ Before(q)' = Before(q)
    BY <1>1, <1>2, <1>4, HopCaseKept
  <2>2. HopPast(c, q)
    BY <1>4, HopIs, HopCasePast
  <2>3. HopPast(c, q)'
    BY <1>1, <1>3, <1>4, <2>1, <2>2, HopPastKept DEF AllLines, Line
  <2> QED BY <2>1, <2>3, HopCaseNext
<1>5. CASE ~Works(c, q)
  <2>1. ~Works(c, q)'
    BY <1>1, <1>5 DEF HopStep, Works
  <2>2. /\ pc[c] \notin {"grid", "fanout"} /\ pc'[c] \notin {"grid", "fanout"}
        /\ Outstanding(c)' <=> Outstanding(c)
        /\ remote' = remote /\ relay_send_seq' = relay_send_seq
    BY <1>1 DEF HopStep, Hops, Outstanding
  <2> QED BY <1>0, <1>2, <1>3, <1>5, <2>1, <2>2, OthersHop, PastAside DEF AllLines, queueVars
<1> QED BY <1>4, <1>5

\* The scan that takes a request.
LEMMA PastScan ==
  ASSUME Based, AllLines, AllRings, NEW c \in HostCores, Frame(c), History, Takes(c),
         NEW q \in HostCores, Past(q)
  PROVE  Past(q)'
<1> USE DEF queueVars, relayVars, hostVars
<1>0. c \in Cores
  BY Bounds
<1>1. /\ pc[c] = "scan"
      /\ UNCHANGED <<wr_req, rdptr, remote, resp_wrptr, resp, data_buffer, relay_send_seq, relay_wait>>
  BY DEF Takes
<1>2. Silent(q)
  BY <1>0, <1>1, StepSilent DEF Accesses
<1>3. PICK f \in HostCores \ {c} :
        /\ Works(c, f)' /\ Pending(f) /\ c = Egress(f) /\ job'[c] = Request(f) /\ part'[c] = 1
        /\ pc'[c] = FirstStep(Request(f), c)
  BY LineTakes
<1>4. pc'[c] \in {"stage", "ship", "header"}
  BY <1>3, FirstSteps
<1>5. CASE q = f
  BY <1>2, <1>3, <1>4, <1>5, PastTakes
<1>6. CASE q # f
  <2>1. ~Works(c, q) /\ ~Works(c, q)'
    BY <1>1, <1>3, <1>6 DEF Works, Hops
  <2>2. Outstanding(c)' <=> Outstanding(c)
    BY <1>1, <1>4 DEF Outstanding
  <2> QED BY <1>0, <1>1, <1>2, <1>4, <2>1, <2>2, OthersHop, PastAside DEF AllLines
<1> QED BY <1>5, <1>6

\* The reply of a sibling.
LEMMA PastReplied ==
  ASSUME Based, AllLines, AllRings, AllLinks, NEW c \in HostCores, Frame(c), History, Reply(c),
         NEW q \in HostCores, Past(q)
  PROVE  Past(q)'
<1> USE DEF queueVars
<1>0. c \in Cores /\ pc \in [Cores -> Places]
  BY Bounds, AllTypes
<1>1. /\ pc[c] = "reply" /\ pc'[c] = "scan"
      /\ UNCHANGED <<wr_req, rdptr, remote, resp_wrptr, resp, data_buffer, relay_send_seq, relay_wait>>
  BY <1>0 DEF Reply, Go
<1>2. ~Works(c, c)
  BY <1>0, <1>1 DEF Based, RelayInv, HeadKept, Works
<1>3. CASE Works(c, q)
  BY <1>2, <1>3, PastReply
<1>4. CASE ~Works(c, q)
  <2>1. Silent(q)
    BY <1>0, <1>1, StepSilent DEF Accesses
  <2>2. ~Works(c, q)' /\ (Outstanding(c)' <=> Outstanding(c))
    BY <1>1 DEF Works, Hops, Outstanding
  <2> QED BY <1>0, <1>1, <1>4, <2>1, <2>2, OthersHop, PastAside DEF AllLines
<1> QED BY <1>3, <1>4

\* The doorbell of a relay.
LEMMA PastRing ==
  ASSUME Based, AllLines, AllRings, NEW c \in HostCores, Frame(c), History, Ring(c), Past(c)
  PROVE  Past(c)'
<1> USE DEF queueVars
<1>0. c \in Cores /\ pc \in [Cores -> Places] /\ Control(c)
  BY Bounds, AllTypes DEF AllLines, Line
<1>1. /\ pc[c] = "ring" /\ pc'[c] = (IF Head0(c).op = "BROADCAST" THEN "relay wait" ELSE "inbox")
      /\ UNCHANGED <<wr_req, rdptr, remote, resp_wrptr, resp, data_buffer, relay_send_seq>>
  BY <1>0 DEF Ring, Go
<1>2. Silent(c)
  BY <1>0, <1>1, StepSilent DEF Accesses
<1>3. ~Works(c, c) /\ ~Works(c, c)'
  BY <1>1 DEF Works, Hops
<1>4. Outstanding(c)' /\ Outstanding(c)
  <2>1. CASE Head0(c).op = "BROADCAST"
    BY <1>1, <2>1 DEF Outstanding
  <2>2. CASE Head0(c).op # "BROADCAST"
    <3>1. relay_wait[c]
      BY <1>0, <1>1, <2>2 DEF Control
    <3>2. relay_wait' = relay_wait
      BY DEF Ring
    <3>3. relay_wait'[c]
      BY <3>1, <3>2
    <3> QED BY <3>1, <3>3 DEF Outstanding
  <2> QED BY <2>1, <2>2
<1> QED BY <1>0, <1>1, <1>2, <1>3, <1>4, OthersHop, PastAside DEF AllLines

\* A step of a core keeps what is past.
LEMMA PastStep ==
  ASSUME Based, AllReceive, AllLines, AllRings, AllLinks, AllPast, NEW c \in Cores, Step(c), History
  PROVE  AllPast'
<1> SUFFICES ASSUME NEW q \in HostCores PROVE Past(q)'
  BY DEF AllPast
<1>0. Frame(c) /\ Past(q) /\ AllLines' /\ AllReceive'
  BY StepFrame, LineStep, ReceivesKept DEF AllPast, AllLines, Line
<1>k. \/ Idle(c)
      \/ c \in HostCores /\ HostKind(c)
      \/ c \notin HostCores /\ RemoteKind(c)
  BY StepKinds
<1>1. CASE Idle(c)
  BY <1>0, <1>1, PastIdle
<1>2. CASE c \notin HostCores /\ RemoteKind(c)
  BY <1>0, <1>2, PastRemote
<1>3. CASE c \in HostCores /\ (Stage(c) \/ Ship(c) \/ Header(c) \/ NextChunk(c) \/ RelayedReply(c) \/ Deposit(c))
  BY <1>0, <1>3, PastHop
<1>4. CASE c \in HostCores /\ Takes(c)
  BY <1>0, <1>4, PastScan
<1>5. CASE c \in HostCores /\ Reply(c)
  BY <1>0, <1>5, PastReplied
<1>6. CASE c \in HostCores /\ (\/ Direct(c) \/ PostRelay(c) \/ Collect(c) \/ Ring(c) \/ StartBroadcast(c)
                               \/ Grid(c) \/ Fanout(c) \/ RelayWait(c) \/ OwnReply(c))
  <2>1. CASE q # c
    <3>1. ~Works(c, q) /\ ~Works(c, q)'
      BY <1>6, <2>1, CommandsAside
    <3>2. ~Accesses(c)
      BY <1>6 DEF Direct, PostRelay, Collect, Ring, StartBroadcast, Grid, Fanout, RelayWait, OwnReply,
                  Replied, Accesses
    <3>3. Silent(q)
      BY <1>0, <2>1, <3>2, StepSilent
    <3> QED BY <1>0, <1>6, <2>1, <3>1, <3>3, OthersHop, PastAside DEF AllLines
  <2>2. CASE q = c
    <3>1. CASE Direct(c) \/ PostRelay(c)
      <4>1. Silent(c)
        <5>1. wr_req' = wr_req /\ pc[c] = "decode"
          BY <3>1 DEF Direct, PostRelay, queueVars
        <5> QED BY <1>0, <1>6, <5>1, StepSilent DEF Accesses
      <4> QED BY <1>0, <1>6, <2>2, <3>1, <4>1, PastDirect, PastPostRelay
    <3>2. CASE Collect(c)
      BY <1>0, <1>6, <2>2, <3>2, PastCollect
    <3>3. CASE Ring(c)
      BY <1>0, <1>6, <2>2, <3>3, PastRing
    <3>4. CASE StartBroadcast(c) \/ Grid(c) \/ RelayWait(c)
      BY <1>0, <1>6, <2>2, <3>4, PastBroadcast
    <3>5. CASE Fanout(c)
      BY <1>0, <1>6, <2>2, <3>5, PastFanout
    <3>6. CASE OwnReply(c)
      BY <1>0, <1>6, <2>2, <3>6, PastOwnReply
    <3> QED BY <1>6, <3>1, <3>2, <3>3, <3>4, <3>5, <3>6
  <2> QED BY <2>1, <2>2
<1> QED BY <1>k, <1>1, <1>2, <1>3, <1>4, <1>5, <1>6 DEF HostKind

\* Nothing that tells how far queue q's command is has changed.
LEMMA PastSame ==
  ASSUME NEW q, Past(q), pc' = pc, job' = job, part' = part, remote' = remote, rdptr' = rdptr,
         access' = access, block_buf' = block_buf, resp_inbox' = resp_inbox, send_seq' = send_seq,
         relay_resp' = relay_resp, relay_resp_block' = relay_resp_block, window' = window,
         resp' = resp, resp_wrptr' = resp_wrptr,
         Outstanding(q)' <=> Outstanding(q), Pending(q)' <=> Pending(q), Head0(q)' = Head0(q),
         resp_rdptr'[q] = resp_rdptr[q], served'[q] = served[q], got'[q] = got[q],
         Responded(q) => waits'[q] = waits[q] /\ data_buffer'[q] = data_buffer[q]
  PROVE  Past(q)'
<1>2. \A e : Works(e, q)' <=> Works(e, q)
  BY DEF Works
<1>5. (Responded(q)' <=> Responded(q)) /\ Before(q)' = Before(q) /\ Egress(q)' = Egress(q)
  BY DEF Responded, Before, Egress
<1>6. /\ Fresh(q)' <=> Fresh(q)
      /\ Relayed(q)' <=> Relayed(q)
  BY <1>5 DEF Fresh, Relayed
<1>7. \A e : HopPast(e, q)' <=> HopPast(e, q)
  <2>1. \A e : Done(e)' = Done(e) /\ Val(e)' = Val(e)
    BY DEF Done, Val, Accessed
  <2> QED BY <1>5, <2>1 DEF HopPast
<1>8. CASE Responded(q)
  <2>1. Read(q)'
    BY <1>8 DEF Past, Read
  <2> QED BY <1>5, <1>8, <2>1 DEF Past
<1>9. CASE ~Responded(q)
  <2>1. /\ Works(q, q)' <=> Works(q, q)
        /\ Works(Egress(q), q)' <=> Works(Egress(q), q)
        /\ HopPast(q, q)' <=> HopPast(q, q)
        /\ HopPast(Egress(q), q)' <=> HopPast(Egress(q), q)
    BY <1>2, <1>5, <1>7
  <2> QED BY <1>5, <1>6, <1>9, <2>1 DEF Past
<1> QED BY <1>8, <1>9

\* A step of the host keeps what is past.
LEMMA PastHost ==
  ASSUME Based, AllLines, AllRings, AllPast, NEW c \in HostCores, Host(c), History
  PROVE  AllPast'
<1> SUFFICES ASSUME NEW q \in HostCores PROVE Past(q)'
  BY DEF AllPast
<1>0. c \in Cores /\ q \in Cores /\ HostFrame(c) /\ Past(q) /\ RingKept(q) /\ Line(q)
  BY Bounds, HostFrames DEF AllPast, AllRings, AllLines
<1>1. /\ pc' = pc /\ job' = job /\ part' = part /\ remote' = remote /\ rdptr' = rdptr
      /\ access' = access /\ block_buf' = block_buf /\ resp_inbox' = resp_inbox /\ send_seq' = send_seq
      /\ relay_resp' = relay_resp /\ relay_resp_block' = relay_resp_block /\ window' = window
      /\ resp' = resp /\ resp_wrptr' = resp_wrptr
      /\ (Outstanding(q)' <=> Outstanding(q)) /\ (Pending(q)' <=> Pending(q))
  BY <1>0, HostOthers
<1>2. \A e : Works(e, q)' <=> Works(e, q)
  BY <1>1 DEF Works
<1>3. CASE q # c \/ rdptr[q] # wrptr[q]
  <2>1. q = c => ~Responded(q) /\ HostPush(c)
    BY <1>0, <1>3, HeadTodo DEF Host, HostTake, Responded
  <2>2. served'[q] = served[q] /\ got'[q] = got[q]
    <3>1. HostPush(c) \/ (HostTake(c) /\ q # c)
      BY <2>1 DEF Host
    <3> QED BY <3>1, PushHistory, TakeHistory
  <2>3. Head0(q)' = Head0(q)
    BY <1>0, <1>3, HostOthers
  <2>4. /\ resp_rdptr'[q] = resp_rdptr[q]
        /\ q # c => waits'[q] = waits[q] /\ data_buffer'[q] = data_buffer[q]
    BY <1>0, <2>1 DEF HostFrame, HostPush
  <2> QED BY <1>0, <1>1, <2>1, <2>2, <2>3, <2>4, PastSame
<1>4. CASE q = c /\ rdptr[c] = wrptr[c]
  <2>1. pc[c] \notin {"grid", "fanout"} /\ ~Outstanding(c) /\ ~Works(c, c)
    BY <1>4, NothingElse
  <2>2. ~Responded(c)' /\ served'[c] = 0 /\ got'[c] = <<>>
    <3>1. CASE HostPush(c)
      <4>1. ~Responded(c)
        BY <1>0, <1>4, <3>1, OpKinds DEF RingKept, HostPush
      <4>2. served[c] = 0 /\ got[c] = <<>>
        BY <1>0, <1>4, <2>1, <4>1 DEF Past
      <4> QED BY <1>1, <3>1, <4>1, <4>2, PushHistory DEF HostPush, Responded
    <3>2. CASE HostTake(c)
      <4>1. Responded(c)
        BY <3>2 DEF HostTake, Responded
      <4>2. resp_wrptr[c] = Inc(resp_rdptr[c])
        BY <1>0, <1>4, <4>1 DEF RingKept
      <4>3. resp_rdptr'[c] = Inc(resp_rdptr[c])
        BY <3>2, AllTypes DEF HostTake
      <4> QED BY <1>1, <3>2, <4>2, <4>3, TakeHistory DEF Responded
    <3> QED BY <3>1, <3>2 DEF Host
  <2> QED BY <1>1, <1>2, <1>4, <2>1, <2>2 DEF Past
<1> QED BY <1>3, <1>4

----------------------------------------------------------------------------
(* The invariant.                                                          *)

\* The history variables are functions of the queue.
LEMMA HistoryFunctions ==
  ASSUME History
  PROVE  /\ todo' = [q \in HostCores |-> todo'[q]]
         /\ served' = [q \in HostCores |-> served'[q]]
         /\ got' = [q \in HostCores |-> got'[q]]
<1> DEFINE T(q) == IF Ends(q) /\ todo[q] # <<>> THEN Tail(todo[q])
                   ELSE IF left'[q] # left[q] THEN Append(todo[q], Head(left[q])) ELSE todo[q]
           S(q) == IF Ends(q) THEN 0 ELSE IF Performs(q) THEN served[q] + 1 ELSE served[q]
           G(q) == IF Ends(q) THEN <<>>
                   ELSE IF \E r \in Cores : Accesses(r) /\ Origin(r) = q /\ req_inbox[r].op \in Reads
                   THEN LET r == CHOOSE r \in Cores : Accesses(r) /\ Origin(r) = q
                        IN Append(got[q], IF req_inbox[r].op = "READ" THEN access'[r] ELSE block_buf'[r])
                   ELSE got[q]
<1>1. /\ todo' = [q \in HostCores |-> T(q)] /\ served' = [q \in HostCores |-> S(q)]
      /\ got' = [q \in HostCores |-> G(q)]
  BY DEF History
<1> HIDE DEF T, S, G
<1> QED BY <1>1

\* The history keeps its types.
LEMMA PastTyped ==
  ASSUME Based, History, DataTypes',
         (\E c \in Cores : Step(c)) \/ (\E c \in HostCores : Host(c))
  PROVE  PastTypes'
<1> SUFFICES ASSUME NEW q \in HostCores
             PROVE  todo'[q] \in Seq(Command) /\ served'[q] \in Nat /\ got'[q] \in Seq(Nat)
  BY HistoryFunctions DEF PastTypes
<1>1. todo[q] \in Seq(Command) /\ served[q] \in Nat /\ served[q] + 1 \in Nat /\ got[q] \in Seq(Nat)
  BY AllTypes
<1>2. todo[q] # <<>> => Tail(todo[q]) \in Seq(Command)
  BY <1>1
<1>3. ASSUME NEW c \in Cores, Step(c)
      PROVE  todo'[q] \in Seq(Command) /\ served'[q] \in Nat /\ got'[q] \in Seq(Nat)
  <2>1. Frame(c)
    BY <1>3, StepFrame
  <2>2. access'[c] \in Nat /\ block_buf'[c] \in Nat
    BY DEF DataTypes
  <2>3. Append(got[q], access'[c]) \in Seq(Nat) /\ Append(got[q], block_buf'[c]) \in Seq(Nat)
    BY <1>1, <2>2
  <2>4. todo'[q] \in Seq(Command)
    BY <1>1, <1>2, <2>1, StepHistory
  <2>5. served'[q] \in Nat
    BY <1>1, <2>1, StepHistory
  <2>6. got'[q] \in Seq(Nat)
    <3>1. <<>> \in Seq(Nat)
      OBVIOUS
    <3> QED BY <1>1, <2>1, <2>3, <3>1, StepHistory
  <2> QED BY <2>4, <2>5, <2>6
<1>4. ASSUME NEW c \in HostCores, HostPush(c)
      PROVE  todo'[q] \in Seq(Command) /\ served'[q] \in Nat /\ got'[q] \in Seq(Nat)
  <2>1. Append(todo[q], Head(left[c])) \in Seq(Command)
    <3>1. Head(left[c]) \in Command
      BY <1>4, PushFacts
    <3> QED BY <1>1, <3>1
  <2> QED BY <1>1, <1>4, <2>1, PushHistory
<1>5. ASSUME NEW c \in HostCores, HostTake(c)
      PROVE  todo'[q] \in Seq(Command) /\ served'[q] \in Nat /\ got'[q] \in Seq(Nat)
  <2>1. <<>> \in Seq(Nat) /\ 0 \in Nat
    OBVIOUS
  <2> QED BY <1>1, <1>2, <1>5, <2>1, TakeHistory
<1> QED BY <1>3, <1>4, <1>5 DEF Host

\* The parts of Settled by name.
LEMMA SettledParts ==
  Settled <=> Based /\ AllReceive /\ AllLinks /\ AllLines /\ AllRings
BY DEF Settled, AllReceive, AllLinks, AllLines, AllRings

\* The invariant is kept by the cores,
LEMMA InvStep ==
  ASSUME Inv, NEW c \in Cores, Step(c), Next, History
  PROVE  Inv'
<1>0. Based /\ AllReceive /\ AllLinks /\ AllLines /\ AllRings /\ AllPast /\ LeftKept
  BY SettledParts DEF Inv
<1>1. RelayInv'
  BY <1>0, RelayInvKept DEF Based
<1>2. DataTypes'
  BY <1>0, StepData
<1>3. PastTypes'
  BY <1>0, <1>2, PastTyped
<1>4. AllReceive' /\ AllLinks' /\ AllLines'
  BY <1>0, ReceivesKept, LinkStep, LineStep DEF AllLines, Line
<1>5. AllRings'
  BY <1>0, RingStep DEF AllRings
<1>6. AllPast'
  BY <1>0, PastStep
<1>7. LeftKept'
  BY <1>0, StepFrame DEF Frame, LeftKept
<1>8. Based'
  BY <1>1, <1>2, <1>3 DEF Based
<1>9. Settled'
  BY <1>4, <1>5, <1>8 DEF Settled, AllReceive, AllLinks, AllLines, AllRings
<1> QED BY <1>6, <1>7, <1>9 DEF Inv

\* by the host,
LEMMA InvHost ==
  ASSUME Inv, NEW c \in HostCores, Host(c), Next, History
  PROVE  Inv'
<1>0. Based /\ AllReceive /\ AllLinks /\ AllLines /\ AllRings /\ AllPast /\ LeftKept
  BY SettledParts DEF Inv
<1>f. HostFrame(c)
  BY <1>0, HostFrames
<1>1. RelayInv'
  BY <1>0, RelayInvKept DEF Based
<1>2. DataTypes'
  BY <1>0, HostData
<1>3. PastTypes'
  BY <1>0, <1>2, PastTyped
<1>4. AllReceive' /\ AllLinks' /\ AllLines'
  BY <1>0, <1>f, ReceivesHost, LinkHost, LineHost
<1>5. AllRings'
  BY <1>0, RingHost DEF AllRings
<1>6. AllPast'
  BY <1>0, PastHost
<1>7. LeftKept'
  <2>1. CASE HostPush(c)
    <3>1. left' = [left EXCEPT ![c] = Tail(@)] /\ left[c] # <<>>
      BY <2>1 DEF HostPush
    <3>2. left[c] \in Seq(AllCommands)
      BY <1>0 DEF LeftKept
    <3>3. Tail(left[c]) \in Seq(AllCommands)
      BY <3>1, <3>2
    <3> QED BY <1>0, <3>1, <3>3 DEF LeftKept
  <2>2. CASE HostTake(c)
    BY <1>0, <2>2 DEF HostTake, LeftKept
  <2> QED BY <2>1, <2>2 DEF Host
<1>8. Based'
  BY <1>1, <1>2, <1>3 DEF Based
<1>9. Settled'
  BY <1>4, <1>5, <1>8 DEF Settled, AllReceive, AllLinks, AllLines, AllRings
<1> QED BY <1>6, <1>7, <1>9 DEF Inv

\* by stuttering,
LEMMA InvStutters ==
  ASSUME Inv, UNCHANGED <<vars, todo, served, got>>
  PROVE  Inv'
<1> USE DEF vars, hostVars, queueVars, relayVars, linkVars, coreVars
<1>0. Based /\ AllReceive /\ AllLinks /\ AllLines /\ AllRings /\ AllPast /\ LeftKept
  BY SettledParts DEF Inv
<1>f. \A c \in HostCores : HostFrame(c)
  BY DEF HostFrame, Head0
<1>1. RelayInv'
  BY <1>0, RelayInvKept DEF Based
<1>2. DataTypes' /\ PastTypes' /\ LeftKept'
  BY <1>0 DEF Based, DataTypes, PastTypes, LeftKept
<1>3. Based'
  BY <1>1, <1>2 DEF Based
<1>4. AllReceive'
  BY <1>0 DEF AllReceive, Receives, InboxFull
<1>5. AllLinks' /\ AllLines'
  <2>1. CASE HostCores = {}
    BY <2>1 DEF AllLinks, AllLines
  <2>2. CASE HostCores # {}
    <3>1. PICK c \in HostCores : TRUE
      BY <2>2
    <3> QED BY <1>0, <1>f, <3>1, LinkHost, LineHost
  <2> QED BY <2>1, <2>2
<1>6. AllRings'
  BY <1>0, RingSame DEF AllRings
<1>7. AllPast'
  <2> SUFFICES ASSUME NEW q \in HostCores PROVE Past(q)'
    BY DEF AllPast
  <2>1. Past(q) /\ (Outstanding(q)' <=> Outstanding(q)) /\ (Pending(q)' <=> Pending(q)) /\ Head0(q)' = Head0(q)
    BY <1>0 DEF AllPast, Outstanding, Pending, Head0
  <2> QED BY <2>1, PastSame
<1>8. Settled'
  BY <1>3, <1>4, <1>5, <1>6 DEF Settled, AllReceive, AllLinks, AllLines, AllRings
<1> QED BY <1>2, <1>7, <1>8 DEF Inv

\* The commands of a program.
LEMMA ProgramCommands ==
  ASSUME NEW c \in HostCores, NEW p \in Programs[c]
  PROVE  p \in Seq(AllCommands) /\ p \in Seq(Command)
<1>1. p \in Seq(Command)
  BY EthAssumption
<1>2. Len(p) \in Nat /\ DOMAIN p = 1 .. Len(p) /\ p = [i \in 1 .. Len(p) |-> p[i]]
  BY <1>1
<1>3. ASSUME NEW i \in 1 .. Len(p) PROVE p[i] \in AllCommands
  <2>1. p[i] \in {p[j] : j \in DOMAIN p}
    BY <1>2
  <2>2. p \in UNION {Programs[d] : d \in HostCores}
    OBVIOUS
  <2> QED BY <2>1, <2>2 DEF AllCommands
<1>4. p \in Seq(AllCommands)
  BY <1>2, <1>3, IsASeq
<1> QED BY <1>1, <1>4

\* and holds at first.
LEMMA InvBegins ==
  ASSUME MCInit
  PROVE  Inv
<1>i. /\ Init /\ todo = [q \in HostCores |-> <<>>] /\ served = [q \in HostCores |-> 0]
      /\ got = [q \in HostCores |-> <<>>]
  BY DEF MCInit
<1>1. RelayInv
  BY <1>i, InitTypes, InitKept, RelayInvParts
<1>2. DataTypes
  <2>1. 1 \in 1 .. Chunks /\ "WRITE" \in Ops
    BY Bounds, OpKinds
  <2>2. <<>> \in Seq(Seq(Nat))
    OBVIOUS
  <2>3. [seq |-> 0, op |-> "WRITE", k |-> 1, data |-> 0] \in [seq : Nat, op : Ops, k : 1 .. Chunks, data : Nat]
    BY <2>1
  <2> QED BY <1>i, <2>2, <2>3 DEF DataTypes, Init, NoData, Word
<1>3. PastTypes
  <2>1. <<>> \in Seq(Command) /\ <<>> \in Seq(Nat)
    OBVIOUS
  <2> QED BY <1>i, <2>1 DEF PastTypes
<1>t. Based
  BY <1>1, <1>2, <1>3 DEF Based
<1>4. ASSUME NEW c \in Cores
      PROVE  /\ pc[c] = "queue" /\ ~relay_wait[c] /\ ~relay_doorbell[c] /\ rdptr[c] = Start /\ wrptr[c] = Start
             /\ req_inbox[c].seq = 0 /\ last_recv_seq[c] = 0 /\ resp_inbox[c].seq = 0 /\ send_seq[c] = 0
             /\ relay_resp[c].seq = 0 /\ relay_send_seq[c] = 0 /\ resp_wrptr[c] = Start
             /\ \A e \in Cores : relay_req[e][c].seq = 0 /\ relay_last_seq[e][c] = 0
  BY <1>i DEF Init, NoJob
<1>5. ASSUME NEW q \in HostCores
      PROVE  /\ waits[q] = "none" /\ resp_rdptr[q] = Start /\ todo[q] = <<>> /\ served[q] = 0
             /\ got[q] = <<>> /\ q \in Cores /\ Link(q) \in Cores
  BY <1>i, EthAssumption DEF Init
<1>6. AllReceive
  BY <1>4 DEF AllReceive, Receives, InboxFull, Polls
<1>7. AllLinks
  BY <1>4, <1>5 DEF AllLinks, LinkKept
<1>w. \A e \in HostCores, q \in HostCores : ~Works(e, q) /\ ~Outstanding(q) /\ ~Pending(q) /\ ~Responded(q)
  BY <1>4, <1>5 DEF Works, Hops, Outstanding, Pending, Responded
<1>8. AllLines
  <2> SUFFICES ASSUME NEW q \in HostCores PROVE Line(q)
    BY DEF AllLines
  <2>1. Control(q)
    <3>1. q \in Cores
      BY <1>5
    <3>2. relay_resp[q].seq = 0 /\ relay_send_seq[q] = 0 /\ pc[q] = "queue" /\ ~relay_wait[q] /\ ~Outstanding(q)
      BY <1>4, <1>w, <3>1
    <3>3. relay_resp[q].seq <= relay_send_seq[q]
      BY <3>2
    <3> HIDE <1>i
    <3> QED BY <3>2, <3>3 DEF Control
  <2>2. ASSUME NEW e \in HostCores PROVE JobKept(e, q) /\ SlotFor(e, q)
    BY <1>4, <1>5, <1>w DEF JobKept, SlotFor
  <2> QED BY <2>1, <2>2 DEF Line
<1>9. AllRings
  <2> SUFFICES ASSUME NEW q \in HostCores PROVE RingKept(q)
    BY DEF AllRings
  <2>1. Upto(q, wrptr[q]) = 0 /\ \A p \in Ptrs : Upto(q, p) \in Nat
    <3>1. wrptr[q] \in Ptrs /\ wrptr[q] = rdptr[q]
      BY <1>4, <1>5, Bounds
    <3> QED BY <1>t, <1>5, <3>1, UptoFacts
  <2>2. Len(todo[q]) = 0
    BY <1>5
  <2> QED BY <1>5, <1>w, <2>1, <2>2 DEF RingKept
<1>10. AllPast
  BY <1>4, <1>5, <1>w DEF AllPast, Past
<1>11. LeftKept
  <2>1. left \in [HostCores -> UNION {Programs[c] : c \in HostCores}] /\ \A c \in HostCores : left[c] \in Programs[c]
    BY <1>i DEF Init
  <2>2. \A c \in HostCores : left[c] \in Seq(AllCommands)
    BY <2>1, ProgramCommands
  <2> HIDE <1>i
  <2> QED BY <2>1, <2>2 DEF LeftKept
<1> QED BY <1>t, <1>6, <1>7, <1>8, <1>9, <1>10, <1>11, SettledParts DEF Inv

----------------------------------------------------------------------------
(* The places of a command.                                                *)

\* Part k of chip r, among n parts to a chip.
LEMMA Division ==
  ASSUME NEW n \in Nat \ {0}, NEW r \in Nat, NEW k \in 1 .. n, NEW x, x = n * r + k
  PROVE  (x - 1) \div n = r /\ ((x - 1) % n) + 1 = k
<1> DEFINE a == x - 1
           d == a \div n
           m == a % n
<1>1. a \in Int /\ d \in Int /\ m \in Int /\ a = n * d + m /\ 0 <= m /\ m < n
  <2>1. n * r \in Int
    OBVIOUS
  <2>2. a \in Int
    BY <2>1
  <2> HIDE DEF a
  <2> QED BY <2>2
<1>2. a = n * r + (k - 1) /\ n * r \in Int
  OBVIOUS
<1> HIDE DEF a, d, m
<1>3. ~(d >= r + 1)
  <2> SUFFICES ASSUME d >= r + 1 PROVE FALSE
    OBVIOUS
  <2>1. n * d >= n * (r + 1)
    BY <1>1
  <2>2. n * (r + 1) = n * r + n /\ n * d \in Int
    BY <1>1
  <2> QED BY <1>1, <1>2, <2>1, <2>2
<1>4. ~(d + 1 <= r)
  <2> SUFFICES ASSUME d + 1 <= r PROVE FALSE
    OBVIOUS
  <2>1. n * (d + 1) <= n * r
    BY <1>1
  <2>2. n * (d + 1) = n * d + n /\ n * d \in Int
    BY <1>1
  <2> QED BY <1>1, <1>2, <2>1, <2>2
<1>5. d = r
  BY <1>1, <1>3, <1>4
<1>6. m = k - 1
  BY <1>1, <1>2, <1>5
<1> QED BY <1>5, <1>6 DEF a, d, m

\* The parts of a command for one chip.
LEMMA PartsAlone ==
  ASSUME NEW q, NEW m, m.op # "BROADCAST"
  PROVE  /\ Len(PartsOf(q, m)) = Last(m.op)
         /\ \A k \in 1 .. Last(m.op) : PartsOf(q, m)[k] = <<m.tc, k>>
<1>1. PartsOf(q, m) = [i \in 1 .. Last(m.op) |-> <<m.tc, i>>]
  BY DEF PartsOf
<1>2. Last(m.op) \in Nat
  BY LastTypes
<1> QED BY <1>1, <1>2

\* The parts of a broadcast: of the host chip first, then of the others in turn.
LEMMA PartsBroadcast ==
  ASSUME NEW q, NEW m, m.op = "BROADCAST"
  PROVE  /\ Len(PartsOf(q, m)) = Chunks * (Len(Bcast) + 1)
         /\ \A k \in 1 .. Chunks : PartsOf(q, m)[k] = <<Chip(q), k>> /\ k <= Chunks * (Len(Bcast) + 1)
         /\ \A r \in DOMAIN Bcast, k \in 1 .. Chunks :
              /\ PartsOf(q, m)[Chunks * r + k] = <<Bcast[r], k>>
              /\ Chunks * r + k <= Chunks * (Len(Bcast) + 1)
<1> DEFINE n == Chunks * (Len(Bcast) + 1)
           P(i) == << IF i <= Chunks THEN Chip(q) ELSE Bcast[(i - 1) \div Chunks], ((i - 1) % Chunks) + 1 >>
<1>0. Chunks \in Nat \ {0} /\ Len(Bcast) \in Nat /\ DOMAIN Bcast = 1 .. Len(Bcast)
  <2>1. \E S : Bcast \in Seq(S)
    BY EthAssumption DEF Forwards
  <2> QED BY <2>1, Bounds
<1>1. n \in Nat
  BY <1>0
<1>2. PartsOf(q, m) = [i \in 1 .. n |-> P(i)]
  BY DEF PartsOf
<1>3. ASSUME NEW r \in 0 .. Len(Bcast), NEW k \in 1 .. Chunks
      PROVE  Chunks * r + k \in 1 .. n /\ Chunks * r + k <= n
  <2>1. r \in Nat /\ r <= Len(Bcast) /\ k \in Nat /\ k >= 1 /\ k <= Chunks
    BY <1>0
  <2>2. Chunks * r <= Chunks * Len(Bcast) /\ Chunks * r >= 0 /\ Chunks * r \in Nat
    BY <1>0, <2>1
  <2>3. n = Chunks * Len(Bcast) + Chunks /\ Chunks * Len(Bcast) \in Nat
    BY <1>0
  <2> HIDE DEF n
  <2> QED BY <1>0, <1>1, <2>1, <2>2, <2>3
<1>4. ASSUME NEW k \in 1 .. Chunks
      PROVE  PartsOf(q, m)[k] = <<Chip(q), k>> /\ k <= n
  <2>1. k \in Nat /\ k >= 1 /\ k <= Chunks /\ 0 \in 0 .. Len(Bcast) /\ Chunks * 0 + k = k
    BY <1>0
  <2>2. k \in 1 .. n /\ k <= n
    BY <1>3, <2>1
  <2>4. ((k - 1) % Chunks) + 1 = k
    <3>1. k - 1 \in Nat /\ k - 1 < Chunks
      BY <1>0, <2>1
    <3>2. (k - 1) % Chunks = k - 1
      BY <1>0, <3>1, SMT
    <3> QED BY <2>1, <3>2
  <2> QED BY <1>2, <2>1, <2>2, <2>4
<1>5. ASSUME NEW r \in DOMAIN Bcast, NEW k \in 1 .. Chunks
      PROVE  /\ PartsOf(q, m)[Chunks * r + k] = <<Bcast[r], k>>
             /\ Chunks * r + k <= n
  <2>1. r \in Nat /\ r >= 1 /\ r \in 0 .. Len(Bcast) /\ k \in Nat /\ k >= 1
    BY <1>0
  <2>2. Chunks * r + k \in 1 .. n /\ Chunks * r + k <= n
    BY <1>3, <2>1
  <2>3. Chunks * r >= Chunks /\ Chunks * r \in Nat
    BY <1>0, <2>1
  <2>4. ~(Chunks * r + k <= Chunks)
    BY <1>0, <2>1, <2>3
  <2>5. PICK x : x = Chunks * r + k
    OBVIOUS
  <2>7. (x - 1) \div Chunks = r /\ ((x - 1) % Chunks) + 1 = k
    <3>1. Chunks \in Nat \ {0} /\ r \in Nat /\ k \in 1 .. Chunks
      BY <1>0, <2>1
    <3> QED BY <2>5, <3>1, Division
  <2>6. P(Chunks * r + k) = <<Bcast[r], k>>
    <3>1. ~(x <= Chunks)
      BY <2>4, <2>5
    <3>2. P(x) = <<Bcast[r], k>>
      BY <2>7, <3>1, Zenon
    <3> HIDE DEF P
    <3> QED BY <2>5, <3>2
  <2> HIDE DEF P, n
  <2> QED BY <1>2, <2>2, <2>6
<1>6. Len(PartsOf(q, m)) = n
  <2> HIDE DEF P, n
  <2> QED BY <1>1, <1>2
<1> QED BY <1>4, <1>5, <1>6

----------------------------------------------------------------------------
(* Every step is one of the memory's, or none.                             *)

\* The parts of the invariant by name.
LEMMA InvParts ==
  ASSUME Inv
  PROVE  Based /\ AllReceive /\ AllLinks /\ AllLines /\ AllRings /\ AllPast /\ LeftKept
BY SettledParts DEF Inv

\* What the history of one queue becomes, the others' staying as it is.
LEMMA Updates ==
  ASSUME Based, History, NEW c \in HostCores, \A q \in HostCores : q # c => Silent(q)
  PROVE  /\ todo' = [todo EXCEPT ![c] = todo'[c]] /\ served' = [served EXCEPT ![c] = served'[c]]
         /\ got' = [got EXCEPT ![c] = got'[c]]
<1>1. /\ todo' = [q \in HostCores |-> todo'[q]] /\ served' = [q \in HostCores |-> served'[q]]
      /\ got' = [q \in HostCores |-> got'[q]]
  BY HistoryFunctions
<1>2. /\ todo \in [HostCores -> Seq(Command)] /\ served \in [HostCores -> Nat]
      /\ got \in [HostCores -> Seq(Nat)]
  BY AllTypes
<1> QED BY <1>1, <1>2 DEF Silent

\* A step of the memory, or none.
Remembers ==
  \/ Remote!Next
  \/ mem' = mem /\ todo' = todo /\ served' = served /\ got' = got /\ answers' = answers

\* Silent steps leave the history as it is.
LEMMA Stutters ==
  ASSUME Based, History, \A q \in HostCores : Silent(q)
  PROVE  todo' = todo /\ served' = served /\ got' = got
<1>1. /\ todo' = [q \in HostCores |-> todo'[q]] /\ served' = [q \in HostCores |-> served'[q]]
      /\ got' = [q \in HostCores |-> got'[q]]
  BY HistoryFunctions
<1>2. /\ todo \in [HostCores -> Seq(Command)] /\ served \in [HostCores -> Nat]
      /\ got \in [HostCores -> Seq(Nat)]
  BY AllTypes
<1>3. todo' = todo /\ served' = served /\ got' = got
  BY <1>1, <1>2 DEF Silent
<1> QED BY <1>3

\* A step that performs nothing and ends nothing is a stutter of the memory.
LEMMA SilentStep ==
  ASSUME Based, NEW c \in Cores, Frame(c), History, mem' = mem, ~Counts(c), ~Accesses(c),
         pc[c] # "grid"
  PROVE  Remembers
<1>1. \A q \in HostCores : Silent(q)
  BY StepSilent DEF Counts
<1>2. answers' = answers
  BY DEF Frame
<1>3. todo' = todo /\ served' = served /\ got' = got
  BY <1>1, Stutters
<1> QED BY <1>2, <1>3 DEF Remembers

\* The write is counted: all of it has taken effect.
LEMMA Counted ==
  ASSUME Based, AllLines, AllRings, NEW c \in HostCores, Frame(c), History, Executes(c),
         Head0(c).op \in Writes, Counts(c), served[c] = Len(PartsOf(c, Head0(c))),
         mem' = mem, ~Accesses(c)
  PROVE  Remote!Answer(c)
<1>0. c \in Cores /\ todo[c] # <<>> /\ Head(todo[c]) = Head0(c) /\ ~CommandRead(Head(todo[c]))
  BY Executing, OpKinds DEF CommandRead
<1>1. todo'[c] = Tail(todo[c]) /\ served'[c] = 0 /\ got'[c] = <<>>
  BY <1>0, StepHistory
<1>2. \A q \in HostCores : q # c => Silent(q)
  BY <1>0, StepSilent
<1>3. /\ todo' = [todo EXCEPT ![c] = Tail(todo[c])] /\ served' = [served EXCEPT ![c] = 0]
      /\ got' = [got EXCEPT ![c] = <<>>]
  BY <1>1, <1>2, Updates
<1>4. answers' = answers
  BY DEF Frame
<1> QED BY <1>0, <1>3, <1>4 DEF Remote!Answer

\* A command that ends has been performed in full.
LEMMA Finished ==
  ASSUME Based, AllLines, AllRings, NEW c \in HostCores, Frame(c), History, Executes(c),
         NEW w, NEW b, Complete(c, w, b), mem' = mem, ~Accesses(c), pc[c] # "grid",
         Head0(c).op \in Writes => served[c] = Len(PartsOf(c, Head0(c)))
  PROVE  Remembers
<1>0. c \in Cores
  BY Bounds
<1>1. \/ Head0(c).op \in Writes /\ Counts(c)
      \/ ~Counts(c)
  BY <1>0, FinishFacts DEF Counts
<1>2. CASE Head0(c).op \in Writes /\ Counts(c)
  BY <1>2, Counted DEF Remote!Next, Remembers
<1>3. CASE ~Counts(c)
  BY <1>0, <1>3, SilentStep
<1> QED BY <1>1, <1>2, <1>3

\* A broadcast that ends has been performed on every chip.
LEMMA FanoutServes ==
  ASSUME Based, AllLines, AllRings, AllPast, NEW c \in HostCores, Frame(c), History, Fanout(c)
  PROVE  Remembers
<1>1. pc[c] = "fanout" /\ Executes(c) /\ mem' = mem
  BY DEF Fanout, Executes, Commands
<1>0. ~Responded(c) /\ Control(c) /\ c \in Cores /\ Past(c)
  BY <1>1, Executing DEF AllPast
<1>2. ~Accesses(c)
  BY <1>1 DEF Accesses
<1>h. Head0(c).op = "BROADCAST"
  BY <1>0, <1>1 DEF Based, RelayInv, HeadKept
<1>3. CASE remote[c] > Len(Bcast) /\ CountWrite(c)
  <2>1. served[c] = Chunks * remote[c]
    BY <1>0, <1>1, <1>h DEF Past, Fresh, Before
  <2>2. remote[c] = Len(Bcast) + 1
    <3>1. \E S : Bcast \in Seq(S)
      BY EthAssumption DEF Forwards
    <3>2. Len(Bcast) \in Nat /\ remote[c] \in Nat
      BY <1>0, <3>1, AllTypes
    <3>3. remote[c] <= Len(Bcast) + 1
      BY <1>0, <1>1 DEF Control
    <3> QED BY <1>3, <3>2, <3>3
  <2>3. served[c] = Len(PartsOf(c, Head0(c)))
    BY <1>h, <2>1, <2>2, PartsBroadcast
  <2>4. Complete(c, 0, 0)
    BY <1>3 DEF Complete
  <2> QED BY <1>1, <1>2, <2>3, <2>4, Finished
<1>4. CASE UNCHANGED queueVars
  <2>1. ~Counts(c)
    BY <1>4 DEF queueVars, Counts
  <2> QED BY <1>0, <1>1, <1>2, <2>1, SilentStep
<1> QED BY <1>3, <1>4 DEF Fanout

\* So has a command that a sibling did.
LEMMA CollectServes ==
  ASSUME Based, AllLines, AllRings, AllPast, NEW c \in HostCores, Frame(c), History, Collect(c)
  PROVE  Remembers
<1>1. /\ pc[c] = "decode" /\ Executes(c) /\ pc[c] \in Commands /\ mem' = mem /\ Head0(c).op # "BROADCAST"
      /\ Complete(c, relay_resp[c].data, relay_resp_block[c])
  BY DEF Collect, Executes, Commands
<1>w. relay_wait[c]
  BY DEF Collect
<1>0. ~Responded(c) /\ Control(c) /\ Past(c) /\ ~Works(c, c)
  BY <1>1, Executing DEF AllPast
<1>2. Outstanding(c) /\ ~Pending(c)
  BY <1>0, <1>1, <1>w DEF Control, Outstanding
<1>3. served[c] = 0 + Last(Head0(c).op)
  BY <1>0, <1>1, <1>2 DEF Past, Relayed, Before
<1>4. served[c] = Len(PartsOf(c, Head0(c)))
  BY <1>1, <1>3, LastTypes, PartsAlone
<1>5. ~Accesses(c) /\ pc[c] # "grid"
  BY <1>1 DEF Accesses
<1> QED BY <1>1, <1>4, <1>5, Finished

\* And one whose hop was of the own link.
LEMMA OwnReplyServes ==
  ASSUME Based, AllLines, AllRings, AllLinks, AllPast, NEW c \in HostCores, Frame(c), History, OwnReply(c)
  PROVE  Remembers
<1>1. /\ Works(c, c) /\ pc[c] = "hop" /\ part[c] = Last(job[c].op) /\ resp_inbox[c].seq = send_seq[c]
      /\ Executes(c) /\ mem' = mem
  BY DEF OwnReply, Replied, Works, Hops, Executes
<1>0. c \in Cores /\ LinkKept(c) /\ Line(c)
  BY Bounds DEF AllLines, AllLinks
<1>2. ~Accesses(c) /\ pc[c] # "grid"
  BY <1>1 DEF Accesses
<1>3. CASE job[c].op = "BROADCAST"
  <2>1. ~Counts(c)
    BY <1>3 DEF OwnReply, queueVars, Counts
  <2> QED BY <1>0, <1>1, <1>2, <2>1, SilentStep
<1>4. CASE job[c].op # "BROADCAST"
  <2>1. Complete(c, resp_inbox[c].data, block_buf[c])
    BY <1>4 DEF OwnReply
  <2>2. job[c].op = Head0(c).op
    BY <1>0, <1>1, OneWorks DEF JobKept
  <2>3. HopPast(c, c)
    BY <1>1, HopIs, HopCasePast DEF AllPast
  <2>4. served[c] = 0 + Last(Head0(c).op)
    BY <1>0, <1>1, <1>4, <2>2, <2>3, RepliedFacts DEF HopPast, Before
  <2>5. served[c] = Len(PartsOf(c, Head0(c)))
    BY <1>4, <2>2, <2>4, LastTypes, PartsAlone
  <2> QED BY <1>1, <1>2, <2>1, <2>5, Finished
<1> QED BY <1>3, <1>4

\* A part of a broadcast takes effect on the host's chip.
LEMMA GridServes ==
  ASSUME Based, AllLines, AllRings, AllPast, NEW c \in HostCores, Frame(c), History, Grid(c)
  PROVE  Remote!Perform(c)
<1>1. pc[c] = "grid" /\ Executes(c)
  BY DEF Grid, Executes, Commands
<1>0. /\ ~Responded(c) /\ c \in Cores /\ Past(c) /\ todo[c] # <<>> /\ Head(todo[c]) = Head0(c)
  BY <1>1, Executing DEF AllPast
<1>p. /\ part[c] \in 1 .. Chunks /\ part[c] \in Nat /\ part[c] >= 1 /\ Chunks \in Nat
  <2>1. part[c] \in 1 .. Chunks
    BY <1>0, AllTypes
  <2> QED BY <2>1, Bounds
<1>h. Head0(c).op = "BROADCAST" /\ ~CommandRead(Head0(c))
  BY <1>0, <1>1, OpKinds DEF Based, RelayInv, HeadKept, CommandRead
<1>2. served[c] = part[c] - 1
  BY <1>0, <1>1 DEF Past
<1>3. served[c] + 1 = part[c] /\ part[c] <= Len(PartsOf(c, Head0(c))) /\ Len(PartsOf(c, Head0(c))) \in Nat
  <2>1. served[c] + 1 = part[c]
    BY <1>2, <1>p
  <2>2. \E S : Bcast \in Seq(S)
    BY EthAssumption DEF Forwards
  <2>3. Len(Bcast) + 1 \in Nat
    BY <2>2
  <2>4. Chunks * (Len(Bcast) + 1) \in Nat
    BY <1>p, <2>3
  <2> QED BY <1>h, <1>p, <2>1, <2>4, PartsBroadcast
<1>4. served[c] < Len(PartsOf(c, Head0(c)))
  <2>1. served[c] \in Nat
    BY AllTypes
  <2> QED BY <1>3, <2>1
<1>5. PartsOf(c, Head0(c))[served[c] + 1] = <<Chip(c), part[c]>>
  <2>1. PartsOf(c, Head0(c))[part[c]] = <<Chip(c), part[c]>>
    BY <1>h, <1>p, PartsBroadcast
  <2> QED BY <1>3, <2>1
<1>6. mem' = [mem EXCEPT ![Chip(c)][part[c]] = Head0(c).data]
  <2>1. block_buf'[c] = Head0(c).data
    BY <1>0, AllTypes DEF Grid
  <2> QED BY <2>1 DEF Grid
<1>7. ~Counts(c) /\ ~Accesses(c)
  BY <1>1 DEF Grid, Counts, Accesses, queueVars
<1>8. PerformsFor(c, c)
  <2>1. pc'[c] # pc[c] \/ part'[c] # part[c]
    <3>1. pc \in [Cores -> Places] /\ part \in [Cores -> 1 .. Chunks]
      BY AllTypes
    <3>2. part[c] + 1 # part[c]
      BY <1>p
    <3> QED BY <1>0, <1>1, <3>1, <3>2 DEF Grid, Go
  <2> QED BY <1>1, <2>1 DEF PerformsFor
<1>9. todo'[c] = todo[c] /\ served'[c] = served[c] + 1 /\ got'[c] = got[c]
  <2>1. todo'[c] = todo[c]
    BY <1>0, <1>7, StepHistory
  <2>2. served'[c] = served[c] + 1
    BY <1>0, <1>7, <1>8, StepHistory
  <2>3. got'[c] = got[c]
    BY <1>0, <1>7, StepHistory
  <2> QED BY <2>1, <2>2, <2>3
<1>10. \A q \in HostCores : q # c => Silent(q)
  BY <1>0, <1>7, StepSilent
<1>11. todo' = todo /\ served' = [served EXCEPT ![c] = served[c] + 1] /\ got' = got
  <2>1. /\ todo' = [todo EXCEPT ![c] = todo[c]] /\ served' = [served EXCEPT ![c] = served[c] + 1]
        /\ got' = [got EXCEPT ![c] = got[c]]
    BY <1>9, <1>10, Updates
  <2>2. todo \in [HostCores -> Seq(Command)] /\ got \in [HostCores -> Seq(Nat)]
    BY AllTypes
  <2> QED BY <2>1, <2>2
<1>12. answers' = answers
  BY DEF Frame
<1>13. CASE TRUE
  <2> DEFINE place == PartsOf(c, Head(todo[c]))[served[c] + 1]
  <2>1. place = <<Chip(c), part[c]>>
    BY <1>0, <1>5
  <2>2. mem' = [mem EXCEPT ![place[1]][place[2]] = Head(todo[c]).data]
    <3>1. place[1] = Chip(c) /\ place[2] = part[c]
      BY <2>1
    <3>2. Head(todo[c]).data = Head0(c).data
      BY <1>0
    <3> HIDE DEF place
    <3> QED BY <1>6, <3>1, <3>2, Zenon
  <2> QED BY <1>0, <1>4, <1>h, <1>11, <1>12, <2>2 DEF Remote!Perform
<1> QED BY <1>13

\* Which part of its queue's command a hop is at, and where it goes.
LEMMA HopPlace ==
  ASSUME Based, AllLines, AllRings, AllPast, NEW e \in HostCores, NEW q \in HostCores,
         Works(e, q), Done(e) = part[e] - 1
  PROVE  /\ served[q] < Len(PartsOf(q, Head0(q)))
         /\ PartsOf(q, Head0(q))[served[q] + 1] = <<Peer(e), part[e]>>
<1>0. /\ e \in Cores /\ q \in Cores /\ JobKept(e, q) /\ HopPast(e, q)
  BY Bounds, HopIs, HopCasePast DEF AllLines, AllPast, Line
<1>p. part[e] \in 1 .. Chunks /\ part[e] \in Nat /\ part[e] >= 1 /\ Chunks \in Nat /\ served[q] \in Nat
  <2>1. part[e] \in 1 .. Chunks /\ served[q] \in Nat
    BY <1>0, AllTypes
  <2> QED BY <2>1, Bounds
<1>1. /\ job[e].op = Head0(q).op /\ Peer(e) = Target(q) /\ part[e] <= Last(Head0(q).op)
      /\ Head0(q).op = "BROADCAST" => remote[q] \in DOMAIN Bcast
  BY <1>0 DEF JobKept
<1>2. served[q] = Before(q) + (part[e] - 1)
  BY <1>0 DEF HopPast
<1>3. CASE Head0(q).op = "BROADCAST"
  <2>1. served[q] + 1 = Chunks * remote[q] + part[e]
    <3>1. Chunks * remote[q] \in Nat
      <4>1. remote[q] \in Nat
        BY <1>0, AllTypes
      <4> QED BY <1>p, <4>1
    <3>2. Before(q) = Chunks * remote[q]
      BY <1>3 DEF Before
    <3> QED BY <1>2, <1>p, <3>1, <3>2
  <2>2. Peer(e) = Bcast[remote[q]]
    BY <1>1, <1>3 DEF Target
  <2>3. /\ PartsOf(q, Head0(q))[Chunks * remote[q] + part[e]] = <<Bcast[remote[q]], part[e]>>
        /\ Chunks * remote[q] + part[e] <= Chunks * (Len(Bcast) + 1)
        /\ Len(PartsOf(q, Head0(q))) = Chunks * (Len(Bcast) + 1)
    BY <1>1, <1>3, <1>p, PartsBroadcast
  <2>4. Chunks * (Len(Bcast) + 1) \in Nat
    <3>1. \E S : Bcast \in Seq(S)
      BY EthAssumption DEF Forwards
    <3>2. Len(Bcast) + 1 \in Nat
      BY <3>1
    <3> QED BY <1>p, <3>2
  <2>5. served[q] < Len(PartsOf(q, Head0(q)))
    BY <1>p, <2>1, <2>3, <2>4
  <2>6. PartsOf(q, Head0(q))[served[q] + 1] = <<Peer(e), part[e]>>
    BY <2>1, <2>2, <2>3, Zenon
  <2> QED BY <2>5, <2>6
<1>4. CASE Head0(q).op # "BROADCAST"
  <2>1. served[q] + 1 = part[e]
    BY <1>2, <1>4, <1>p DEF Before
  <2>2. Peer(e) = Head0(q).tc
    BY <1>1, <1>4 DEF Target
  <2>3. part[e] \in 1 .. Last(Head0(q).op) /\ Last(Head0(q).op) \in Nat
    BY <1>1, <1>p, LastTypes
  <2>4. /\ PartsOf(q, Head0(q))[part[e]] = <<Head0(q).tc, part[e]>>
        /\ Len(PartsOf(q, Head0(q))) = Last(Head0(q).op)
    BY <1>4, <2>3, PartsAlone
  <2>5. served[q] < Len(PartsOf(q, Head0(q)))
    BY <1>1, <1>p, <2>1, <2>3, <2>4
  <2> QED BY <2>1, <2>2, <2>4, <2>5
<1> QED BY <1>3, <1>4

\* The peer's access is the next part of the command that the hop is for.
LEMMA ReceiveServes ==
  ASSUME Based, AllReceive, AllLinks, AllLines, AllRings, AllPast, NEW r \in Cores, r \notin HostCores,
         Frame(r), History, Link(r) \in HostCores, Receive(r), InboxFull(r)
  PROVE  \E q \in HostCores : Remote!Perform(q)
<1>1. PICK e \in HostCores, q \in HostCores :
        /\ e = Link(r) /\ r = Link(e) /\ e # r /\ e \in Cores /\ LinkKept(e) /\ q = job[e].from
        /\ pc[e] = "hop" /\ resp_inbox[e].seq # send_seq[e] /\ req_inbox[r] = HeaderOf(e)
        /\ Works(e, q) /\ Origin(r) = q
  BY PeerHop
<1>2. /\ Accesses(r) /\ pc[r] = "inbox"
      /\ LET m == req_inbox[r] IN
           \/ /\ m.op \in Writes
              /\ mem' = [mem EXCEPT ![Chip(r)][m.k] = IF m.op = "WRITE" THEN m.data ELSE block_buf[r]]
           \/ m.op = "READ" /\ access'[r] = mem[Chip(r)][m.k] /\ mem' = mem
           \/ m.op = "BLOCK_READ" /\ block_buf'[r] = mem[Chip(r)][m.k] /\ mem' = mem
  BY ReceiveFacts
<1>3. Done(e) = part[e] - 1
  BY <1>1, <1>2 DEF Done, Accessed
<1>4. /\ JobKept(e, q) /\ rdptr[q] # wrptr[q] /\ RingKept(q) /\ q \in Cores
  BY <1>1, HopIs, Bounds DEF AllLines, AllRings, Line
<1>h. todo[q] # <<>> /\ Head(todo[q]) = Head0(q)
  BY <1>4, HeadTodo
<1>j. job[e].op = Head0(q).op /\ job[e].data = Head0(q).data /\ job[e].op \in Ops
  <2>1. job[e] \in Job
    BY <1>1, AllTypes
  <2> QED BY <1>1, <1>4, <2>1 DEF JobKept, Job
<1>5. /\ req_inbox[r].op = HopOp(job[e].op) /\ req_inbox[r].k = part[e]
      /\ req_inbox[r].data = job[e].data
  <2>1. req_inbox[r] = HeaderOf(e)
    BY <1>1
  <2> QED BY <2>1 DEF HeaderOf
<1>6. /\ served[q] < Len(PartsOf(q, Head0(q)))
      /\ PartsOf(q, Head0(q))[served[q] + 1] = <<Chip(r), part[e]>>
  <2>1. Peer(e) = Chip(r)
    BY <1>1 DEF Peer
  <2> QED BY <1>1, <1>3, <2>1, HopPlace
<1>7. r # q
  OBVIOUS
<1>8. \A p \in HostCores : p # q => Silent(p)
  BY <1>1, StepSilent
<1>9. /\ todo'[q] = todo[q] /\ served'[q] = served[q] + 1
      /\ req_inbox[r].op \notin Reads => got'[q] = got[q]
      /\ req_inbox[r].op \in Reads =>
           got'[q] = Append(got[q], IF req_inbox[r].op = "READ" THEN access'[r] ELSE block_buf'[r])
  <2>1. PerformsFor(r, q)
    BY <1>1, <1>2 DEF PerformsFor
  <2>2. todo'[q] = todo[q]
    BY <1>7, StepHistory
  <2>3. served'[q] = served[q] + 1
    BY <1>7, <2>1, StepHistory
  <2>4. got'[q] = IF req_inbox[r].op \in Reads
                  THEN Append(got[q], IF req_inbox[r].op = "READ" THEN access'[r] ELSE block_buf'[r])
                  ELSE got[q]
    BY <1>1, <1>2, <1>7, StepHistory
  <2> QED BY <2>2, <2>3, <2>4
<1>10. /\ todo' = todo /\ served' = [served EXCEPT ![q] = served[q] + 1]
       /\ got' = [got EXCEPT ![q] = got'[q]]
  <2>1. /\ todo' = [todo EXCEPT ![q] = todo'[q]] /\ served' = [served EXCEPT ![q] = served'[q]]
        /\ got' = [got EXCEPT ![q] = got'[q]]
    BY <1>8, Updates
  <2>2. todo \in [HostCores -> Seq(Command)]
    BY AllTypes
  <2> QED BY <1>9, <2>1, <2>2
<1>11. answers' = answers
  BY DEF Frame
<1>12. PICK place : /\ place = PartsOf(q, Head(todo[q]))[served[q] + 1]
                    /\ place[1] = Chip(r) /\ place[2] = part[e]
  BY <1>6, <1>h
<1>13. CASE job[e].op \in Reads
  <2>1. CommandRead(Head(todo[q]))
    BY <1>13, <1>h, <1>j DEF CommandRead
  <2>2. req_inbox[r].op \in Reads /\ req_inbox[r].op \notin Writes
    BY <1>5, <1>13, <1>j, HopReads, OpKinds
  <2>3. mem' = mem
    BY <1>2, <2>2
  <2>4. got'[q] = Append(got[q], mem[place[1]][place[2]])
    BY <1>2, <1>5, <1>9, <1>12, <2>2
  <2>5. got' = [got EXCEPT ![q] = Append(got[q], mem[place[1]][place[2]])]
    BY <1>10, <2>4
  <2>6. Remote!Perform(q)
    BY <1>6, <1>h, <1>10, <1>11, <1>12, <2>1, <2>3, <2>5 DEF Remote!Perform
  <2> QED BY <2>6
<1>14. CASE job[e].op \notin Reads
  <2>1. ~CommandRead(Head(todo[q]))
    BY <1>14, <1>h, <1>j DEF CommandRead
  <2>2. req_inbox[r].op \notin Reads /\ req_inbox[r].op \in Writes
    BY <1>5, <1>14, <1>j, HopReads
  <2>3. got' = got
    <3>1. got \in [HostCores -> Seq(Nat)]
      BY AllTypes
    <3> QED BY <1>9, <1>10, <2>2, <3>1
  <2>4. (IF req_inbox[r].op = "WRITE" THEN req_inbox[r].data ELSE block_buf[r]) = Head(todo[q]).data
    <3>1. CASE req_inbox[r].op = "WRITE"
      BY <1>5, <1>h, <1>j, <3>1
    <3>2. CASE req_inbox[r].op # "WRITE"
      <4>1. job[e].op \in Blocks
        BY <1>5, <1>j, <2>2, <3>2, HopReads
      <4>2. block_buf[r] = job[e].data
        BY <1>1, <4>1 DEF LinkKept
      <4> QED BY <1>h, <1>j, <3>2, <4>2
    <3> QED BY <3>1, <3>2
  <2>5. mem' = [mem EXCEPT ![place[1]][place[2]] = Head(todo[q]).data]
    <3>1. PICK w : w = IF req_inbox[r].op = "WRITE" THEN req_inbox[r].data ELSE block_buf[r]
      OBVIOUS
    <3>2. mem' = [mem EXCEPT ![Chip(r)][req_inbox[r].k] = w]
      BY <1>2, <2>2, <3>1, OpKinds
    <3>3. w = Head(todo[q]).data /\ req_inbox[r].k = place[2] /\ Chip(r) = place[1]
      BY <1>5, <1>12, <2>4, <3>1
    <3> QED BY <3>2, <3>3, Zenon
  <2>6. Remote!Perform(q)
    BY <1>6, <1>h, <1>10, <1>11, <1>12, <2>1, <2>3, <2>5 DEF Remote!Perform
  <2> QED BY <2>6
<1> QED BY <1>13, <1>14

\* Every step of a core is a step of the memory, or none.
LEMMA StepServes ==
  ASSUME Based, AllReceive, AllLinks, AllLines, AllRings, AllPast, NEW c \in Cores, Step(c), History
  PROVE  Remembers
<1> USE DEF hostVars, queueVars, relayVars, linkVars, coreVars
<1>0. Frame(c)
  BY StepFrame
<1>t. pc \in [Cores -> Places]
  BY AllTypes
<1>k. \/ Idle(c)
      \/ c \in HostCores /\ HostKind(c)
      \/ c \notin HostCores /\ RemoteKind(c)
  BY StepKinds
<1>1. CASE Idle(c)
  <2>1. mem' = mem /\ ~Counts(c) /\ ~Accesses(c) /\ pc[c] # "grid"
    BY <1>1 DEF Idle, Counts, Accesses, Quiets, Polls
  <2> QED BY <1>0, <2>1, SilentStep
<1>2. CASE c \in HostCores /\ (Fanout(c) \/ Collect(c) \/ OwnReply(c))
  BY <1>0, <1>2, FanoutServes, CollectServes, OwnReplyServes
<1>3. CASE c \in HostCores /\ Grid(c)
  BY <1>0, <1>3, GridServes DEF Remembers, Remote!Next
<1>4. CASE \/ Direct(c) \/ PostRelay(c) \/ Ring(c) \/ StartBroadcast(c) \/ RelayWait(c)
           \/ Stage(c) \/ Ship(c) \/ Header(c) \/ NextChunk(c) \/ RelayedReply(c)
           \/ Takes(c) \/ Deposit(c) \/ Reply(c) \/ SendBack(c) \/ Ack(c)
  <2>1. mem' = mem /\ wr_req' = wr_req
    BY <1>4 DEF Direct, PostRelay, Ring, StartBroadcast, RelayWait, Stage, Ship, Header, NextChunk,
                RelayedReply, Takes, Deposit, Reply, SendBack, Ack
  <2>2. pc[c] # "inbox" /\ pc[c] # "grid"
    BY <1>4 DEF Direct, PostRelay, Ring, StartBroadcast, RelayWait, Stage, Ship, Header, NextChunk,
                RelayedReply, Takes, Deposit, Reply, SendBack, Ack, Replied
  <2>3. ~Counts(c) /\ ~Accesses(c)
    BY <2>1, <2>2 DEF Counts, Accesses
  <2> QED BY <1>0, <2>1, <2>2, <2>3, SilentStep
<1>5. CASE c \notin HostCores /\ Link(c) \in HostCores /\ Receive(c) /\ InboxFull(c)
  BY <1>0, <1>5, ReceiveServes DEF Remembers, Remote!Next
<1> QED BY <1>k, <1>1, <1>2, <1>3, <1>4, <1>5 DEF HostKind, RemoteKind

\* The host issues a command.
LEMMA PushServes ==
  ASSUME Based, LeftKept, NEW c \in HostCores, HostPush(c), History
  PROVE  Remembers
<1> DEFINE m == Head(left[c])
<1>1. m \in AllCommands
  <2>1. left[c] \in Seq(AllCommands) /\ left[c] # <<>>
    BY DEF LeftKept, HostPush
  <2> QED BY <2>1
<1>2. todo'[c] = Append(todo[c], m) /\ \A q \in HostCores : q # c => Silent(q)
  BY PushHistory DEF Silent
<1>3. served'[c] = served[c] /\ got'[c] = got[c]
  BY PushHistory
<1> HIDE DEF m
<1>4. /\ todo' = [todo EXCEPT ![c] = Append(todo[c], m)] /\ served' = served /\ got' = got
  <2>1. /\ todo' = [todo EXCEPT ![c] = todo'[c]] /\ served' = [served EXCEPT ![c] = served'[c]]
        /\ got' = [got EXCEPT ![c] = got'[c]]
    BY <1>2, Updates
  <2>2. served \in [HostCores -> Nat] /\ got \in [HostCores -> Seq(Nat)]
    BY AllTypes
  <2> QED BY <1>2, <1>3, <2>1, <2>2
<1>5. mem' = mem /\ answers' = answers
  BY DEF HostPush
<1>6. Remote!Issue(c, m)
  BY <1>4, <1>5 DEF Remote!Issue
<1> QED BY <1>1, <1>6 DEF Remembers, Remote!Next

\* What the host takes is what the command has read.
LEMMA TakenRead ==
  ASSUME Based, AllPast, NEW c \in HostCores, HostTake(c)
  PROVE  answers' = [answers EXCEPT ![c] = Append(answers[c], got[c])]
<1>0. Responded(c) /\ waits[c] \in Reads /\ got[c] \in Seq(Nat) /\ window[c] \in [1 .. Chunks -> Nat]
  BY AllTypes DEF HostTake, Responded
<1>1. Read(c)
  BY <1>0 DEF AllPast, Past
<1> DEFINE s == SlotOf(resp_rdptr[c])
           a == CASE waits[c] = "READ" -> <<resp[c][s]>>
                  [] waits[c] = "BLOCK_READ" -> <<data_buffer[c][s]>>
                  [] waits[c] = "DRAM_READ" -> window[c]
<1>2. answers' = [answers EXCEPT ![c] = Append(@, a)]
  BY DEF HostTake
<1>3. a = got[c]
  <2>1. CASE waits[c] = "READ"
    <3>1. Len(got[c]) = 1 /\ got[c][1] = resp[c][s]
      BY <1>1, <2>1, OpKinds DEF Read, Last
    <3>2. got[c] = <<resp[c][s]>>
      BY <1>0, <3>1
    <3> QED BY <2>1, <3>2
  <2>2. CASE waits[c] = "BLOCK_READ"
    <3>1. Len(got[c]) = 1 /\ got[c][1] = data_buffer[c][s]
      BY <1>1, <2>2, OpKinds DEF Read, Last
    <3>2. got[c] = <<data_buffer[c][s]>>
      BY <1>0, <3>1
    <3> QED BY <2>2, <3>2
  <2>3. CASE waits[c] = "DRAM_READ"
    <3>1. Len(got[c]) = Chunks /\ \A k \in 1 .. Chunks : window[c][k] = got[c][k]
      BY <1>1, <2>3, OpKinds DEF Read, Last
    <3>2. got[c] = [k \in 1 .. Chunks |-> got[c][k]] /\ window[c] = [k \in 1 .. Chunks |-> window[c][k]]
      BY <1>0, <3>1
    <3>3. got[c] = window[c]
      BY <3>1, <3>2
    <3> QED BY <2>3, <3>3
  <2> QED BY <1>0, <2>1, <2>2, <2>3, OpKinds
<1> HIDE DEF a
<1> QED BY <1>2, <1>3

\* The host takes an answer.
LEMMA TakeServes ==
  ASSUME Based, AllRings, AllPast, NEW c \in HostCores, HostTake(c), History
  PROVE  Remembers
<1>0. Responded(c) /\ waits[c] \in Reads /\ mem' = mem
  BY AllTypes DEF HostTake, Responded
<1>1. Len(todo[c]) = 1 /\ todo[c][1].op = waits[c] /\ todo[c] \in Seq(Command)
  BY <1>0, AllTypes DEF AllRings, RingKept
<1>2. todo[c] # <<>> /\ Head(todo[c]).op = waits[c]
  BY <1>1
<1>3. CommandRead(Head(todo[c])) /\ Head(todo[c]).op # "BROADCAST"
  BY <1>0, <1>2, OpKinds DEF CommandRead
<1>4. served[c] = Len(PartsOf(c, Head(todo[c])))
  <2>1. served[c] = Last(waits[c])
    BY <1>0 DEF AllPast, Past, Read
  <2> QED BY <1>2, <1>3, <2>1, PartsAlone
<1>5. answers' = [answers EXCEPT ![c] = Append(answers[c], got[c])]
  BY TakenRead
<1>6. /\ todo'[c] = Tail(todo[c]) /\ served'[c] = 0 /\ got'[c] = <<>>
      /\ \A q \in HostCores : q # c => Silent(q)
  BY <1>2, TakeHistory DEF Silent
<1>7. /\ todo' = [todo EXCEPT ![c] = Tail(todo[c])] /\ served' = [served EXCEPT ![c] = 0]
      /\ got' = [got EXCEPT ![c] = <<>>]
  BY <1>6, Updates
<1>8. Remote!Answer(c)
  BY <1>0, <1>2, <1>3, <1>4, <1>5, <1>7 DEF Remote!Answer
<1> QED BY <1>8 DEF Remembers, Remote!Next

----------------------------------------------------------------------------

\* Whatever roles of whichever cores interleave (eth_fw.c), on any topology:
\* each part of every command takes effect at its place once, in its queue's
\* order, between the command's issue and its answer; a write is counted when
\* all of it has, and a read is answered with what was read at that moment.
THEOREM CommandsServed == MCSpec => ServesCommands
<1>1. MCInit => Remote!Init /\ Inv
  <2> SUFFICES ASSUME MCInit PROVE Remote!Init /\ Inv
    OBVIOUS
  <2>1. Remote!Init
    BY DEF MCInit, Init, Remote!Init
  <2> QED BY <2>1, InvBegins
<1>2. [MCNext]_<<vars, todo, served, got>> /\ Inv => [Remote!Next]_Remote!vars /\ Inv'
  <2> SUFFICES ASSUME [MCNext]_<<vars, todo, served, got>>, Inv
               PROVE  Remembers /\ Inv'
    BY DEF Remembers, Remote!vars
  <2>0. Based /\ AllReceive /\ AllLinks /\ AllLines /\ AllRings /\ AllPast /\ LeftKept
    BY InvParts
  <2>1. CASE MCNext
    <3>1. Next /\ History
      BY <2>1, NextHistory
    <3>2. ASSUME NEW c \in Cores, Step(c) PROVE Remembers /\ Inv'
      BY <2>0, <3>1, <3>2, InvStep, StepServes
    <3>3. ASSUME NEW c \in HostCores, Host(c) PROVE Remembers /\ Inv'
      BY <2>0, <3>1, <3>3, InvHost, PushServes, TakeServes DEF Host
    <3> QED BY <3>1, <3>2, <3>3 DEF Next
  <2>2. CASE UNCHANGED <<vars, todo, served, got>>
    <3>1. Remembers
      BY <2>2 DEF Remembers, vars, hostVars
    <3> QED BY <2>2, <3>1, InvStutters
  <2> QED BY <2>1, <2>2
<1> QED BY <1>1, <1>2, PTL DEF MCSpec, ServesCommands, Remote!Spec
===============================================================================
