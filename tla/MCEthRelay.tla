------------------------------ MODULE MCEthRelay ------------------------------
(***************************************************************************)
(* EthRelay for TLC: a chip with two Ethernet cores whose links go to two  *)
(* remote chips.  The history variables, for any constants, are those of   *)
(* RemoteMemory which the firmware does not keep.                          *)
(***************************************************************************)
EXTENDS EthRelay

ChipOf(c) == CASE c \in {"e1", "e2"} -> "host" [] c = "r1" -> "R1" [] c = "r2" -> "R2"
LinkOf(c) == CASE c = "e1" -> "r1" [] c = "r1" -> "e1" [] c = "e2" -> "r2" [] c = "r2" -> "e2"
Table     == <<"e1", "e2">>
BcastTable == <<"R1", "R2">>

M(op, tc, data) == [op |-> op, tc |-> tc, data |-> data]

\* Both cores get commands for the chip their link goes to and for the other,
\* so that each relays through the other; the last of e1's has no route.
HostPrograms ==
  [c \in {"e1", "e2"} |->
     IF c = "e1"
     THEN { << M("BLOCK_READ", "R2", 0), M("BLOCK_WRITE", "R1", 11) >>,
            << M("WRITE", "R2", 11), M("READ", "R2", 0) >>,
            << M("BROADCAST", "R1", 11), M("BLOCK_WRITE", "R2", 12) >>,
            << M("DRAM_WRITE", "R1", 11), M("READ", "host", 0) >> }
     ELSE { << M("BLOCK_READ", "R1", 0), M("WRITE", "R2", 21) >>,
            << M("BLOCK_WRITE", "R1", 21), M("READ", "R2", 0) >>,
            << M("DRAM_WRITE", "R1", 21), M("DRAM_READ", "R2", 0) >> }]

AllCommands == UNION {{p[i] : i \in DOMAIN p} : p \in UNION {Programs[c] : c \in HostCores}}

VARIABLES todo, served, got

CommandRead(m) == m.op \in Reads

\* A broadcast goes to the host's chip and then to the remote chips.
PartsOf(q, m) ==
  IF m.op = "BROADCAST"
  THEN [i \in 1 .. Chunks * (Len(Bcast) + 1) |->
          << IF i <= Chunks THEN Chip(q) ELSE Bcast[(i - 1) \div Chunks],
             ((i - 1) % Chunks) + 1 >>]
  ELSE [i \in 1 .. Last(m.op) |-> <<m.tc, i>>]

\* The queue whose command a receiver's access is part of.
Origin(r) == job[Link(r)].from

Accesses(r) == pc[r] = "inbox" /\ pc'[r] \in {"ack", "send back"}
Performs(q) ==
  \/ \E r \in Cores : Accesses(r) /\ Origin(r) = q
  \/ pc[q] = "grid" /\ <<pc[q], part[q]>>' # <<pc[q], part[q]>>

\* A write is answered when it is counted, a read when the host has the response.
Ends(q) == wr_req'[q] # wr_req[q] \/ answers'[q] # answers[q]

MCInit ==
  /\ Init
  /\ todo = [q \in HostCores |-> <<>>]
  /\ served = [q \in HostCores |-> 0]
  /\ got = [q \in HostCores |-> <<>>]

MCNext ==
  /\ Next
  /\ todo' = [q \in HostCores |->
       IF Ends(q) /\ todo[q] # <<>> THEN Tail(todo[q])
       ELSE IF left'[q] # left[q] THEN Append(todo[q], Head(left[q])) ELSE todo[q]]
  /\ served' = [q \in HostCores |->
       IF Ends(q) THEN 0 ELSE IF Performs(q) THEN served[q] + 1 ELSE served[q]]
  /\ got' = [q \in HostCores |->
       IF Ends(q) THEN <<>>
       ELSE IF \E r \in Cores : Accesses(r) /\ Origin(r) = q /\ req_inbox[r].op \in Reads
       THEN LET r == CHOOSE r \in Cores : Accesses(r) /\ Origin(r) = q
            IN Append(got[q], IF req_inbox[r].op = "READ" THEN access'[r] ELSE block_buf'[r])
       ELSE got[q]]

MCSpec == MCInit /\ [][MCNext]_<<vars, todo, served, got>> /\ Fairness

Remote == INSTANCE RemoteMemory WITH
  Queues <- HostCores, Commands <- AllCommands, Parts <- PartsOf, IsRead <- CommandRead,
  InitMem <- [ch \in Chips |-> [k \in 1 .. Chunks |-> NoData]]

\* Whatever roles of whichever cores interleave, the firmware is a memory with
\* one queue of commands per core: every part of a command takes effect once
\* and in order, and a read is answered with what it read.
ServesCommands == Remote!Spec
===============================================================================
