------------------------------- MODULE EthRelay -------------------------------
(***************************************************************************)
(* The Ethernet base firmware (fw/eth/eth_fw.c).  It runs on every Ethernet *)
(* core of every chip and has three roles which its service tick polls in  *)
(* turn: ingress (the host's request queue), receiver (the inbox that the  *)
(* link peer writes) and egress (requests that sibling cores of the chip   *)
(* pass on because this core's link goes to their target).                 *)
(*                                                                         *)
(* A step is what a core does between two accesses to memory that others   *)
(* write.  Ethernet sends and NoC writes take effect at once, as they do   *)
(* in the simulator.  Idle polling is not modelled: a core whose roles     *)
(* have nothing to do stays where it is.                                   *)
(***************************************************************************)
EXTENDS Naturals, Sequences, FiniteSets

CONSTANTS
  Cores,         \* the Ethernet cores
  Chips,
  Chip(_),       \* Chip(c): the chip core c is on
  Link(_),       \* Link(c): the core at the other end of c's link
  HostCores,     \* the cores whose queues the host writes: those of one chip
  MmioChips,     \* the chips that the host reaches over PCIe
  Order,         \* ROUTE_TABLE: the cores of the host's chip, in order
  Bcast,         \* BCAST_ROUTE_TABLE: the chips that a broadcast is passed on to
  NoCore,        \* no core
  BufSize,       \* slots of a ring (CMD_BUF_SIZE_MASK + 1)
  Chunks,        \* chunks that a DRAM transfer or a broadcast is cut into
  Start,         \* where the rings' pointers are at first: anywhere, if earlier commands are done
  Programs       \* Programs[c]: the sequences of commands the host may have for core c

\* A command is a record of its op, the target chip tc, and data.  The ops of the
\* request queue and of the relay slots:
Reads  == {"READ", "BLOCK_READ", "DRAM_READ"}
Writes == {"WRITE", "BLOCK_WRITE", "DRAM_WRITE", "BROADCAST"}
Ops    == Reads \cup Writes

\* The ops that are cut into chunks.
Streams == {"DRAM_WRITE", "DRAM_READ", "BROADCAST"}
Last(op) == IF op \in Streams THEN Chunks ELSE 1

\* A DRAM transfer goes over the link as block writes or block reads.
HopOp(op) == CASE op = "DRAM_WRITE" -> "BLOCK_WRITE"
               [] op = "DRAM_READ"  -> "BLOCK_READ"
               [] OTHER             -> op

Command == [op : Ops, tc : Chips, data : Nat]

Peer(c) == Chip(Link(c))

\* What the simulator writes into the tables: every core of the chip, and the
\* distinct peers that the host does not reach itself.
Routes(table) ==
  /\ table \in Seq(HostCores)
  /\ \A c \in HostCores : \E i \in DOMAIN table : table[i] = c
  /\ \A i, j \in DOMAIN table : table[i] = table[j] => i = j
Forwards(table) ==
  /\ table \in Seq({Peer(c) : c \in HostCores} \ MmioChips)
  /\ \A c \in HostCores : Peer(c) \in MmioChips \/ \E i \in DOMAIN table : table[i] = Peer(c)
  /\ \A i, j \in DOMAIN table : table[i] = table[j] => i = j

ASSUME EthAssumption ==
  /\ HostCores \subseteq Cores
  /\ \A c \in Cores : Link(c) \in Cores /\ Link(Link(c)) = c /\ Chip(c) \in Chips
  /\ BufSize \in Nat \ {0} /\ Start \in 0 .. 2 * BufSize - 1 /\ Chunks \in Nat \ {0}
  /\ NoCore \notin Cores
  /\ Routes(Order) /\ Forwards(Bcast)
  /\ \A c \in HostCores : Programs[c] \subseteq Seq(Command)

\* The links of the host's chip go to other chips: no peer table has one that
\* does not.
ASSUME LinksLeave == \A c \in HostCores : Link(c) \notin HostCores

VARIABLES
  left, waits, resp_rdptr, answers, window,             \* the host
  req, wrptr, rdptr, wr_req, resp, resp_wrptr, data_buffer,    \* the host's queues
  relay_req, relay_last_seq, relay_resp, relay_send_seq, relay_wait,
  relay_doorbell, relay_resp_block,                      \* relays between siblings
  send_seq, req_inbox, last_recv_seq, resp_inbox, block_buf,   \* the links
  pc, job, part, snap, slot, remote, access,             \* a core's program
  mem,                                                   \* mem[chip][k]
  aborted                                                \* sim_error was called

hostVars  == <<left, waits, resp_rdptr, answers>>
queueVars == <<req, wrptr, rdptr, wr_req, resp, resp_wrptr, data_buffer>>
relayVars == <<relay_req, relay_last_seq, relay_resp, relay_send_seq, relay_wait,
               relay_doorbell, relay_resp_block>>
linkVars  == <<send_seq, req_inbox, last_recv_seq, resp_inbox, block_buf>>
coreVars  == <<pc, job, part, snap, slot, remote, access>>
vars == <<hostVars, window, queueVars, relayVars, linkVars, coreVars, mem, aborted>>

Slots == 0 .. BufSize - 1
Ptrs  == 0 .. 2 * BufSize - 1        \* CMD_BUF_PTR_MASK
Inc(p) == (p + 1) % (2 * BufSize)
SlotOf(p) == p % BufSize             \* CMD_BUF_SIZE_MASK

NoData == 0
NoCmd == [op |-> "WRITE", tc |-> CHOOSE x \in Chips : TRUE, data |-> NoData]
NoJob == [from |-> NoCore, op |-> "WRITE", data |-> NoData, block |-> 0, seq |-> 0]

----------------------------------------------------------------------------
(* Routes *)

\* The first core of the table whose link goes to chip tc.
Routable(tc) == \E c \in HostCores : Peer(c) = tc
Route(tc) ==
  Order[CHOOSE i \in DOMAIN Order :
          /\ Peer(Order[i]) = tc
          /\ \A j \in 1 .. i - 1 : Peer(Order[j]) # tc]

Siblings(c) == IF c \in HostCores THEN Order ELSE <<c>>

Init ==
  /\ left \in [HostCores -> UNION {Programs[c] : c \in HostCores}]
  /\ \A c \in HostCores : left[c] \in Programs[c]
  /\ waits = [c \in HostCores |-> "none"]
  /\ resp_rdptr = [c \in HostCores |-> Start]
  /\ answers = [c \in HostCores |-> <<>>]
  /\ window = [c \in HostCores |-> [k \in 1 .. Chunks |-> NoData]]
  /\ req = [c \in Cores |-> [s \in Slots |-> NoCmd]]
  /\ wrptr = [c \in Cores |-> Start] /\ rdptr = [c \in Cores |-> Start]
  /\ wr_req = [c \in Cores |-> 0]
  /\ resp = [c \in Cores |-> [s \in Slots |-> NoData]]
  /\ resp_wrptr = [c \in Cores |-> Start]
  /\ data_buffer = [c \in Cores |-> [s \in Slots |-> NoData]]
  /\ relay_req = [c \in Cores |-> [i \in Cores |-> NoJob]]
  /\ relay_last_seq = [c \in Cores |-> [i \in Cores |-> 0]]
  /\ relay_resp = [c \in Cores |-> [seq |-> 0, data |-> NoData]]
  /\ relay_send_seq = [c \in Cores |-> 0]
  /\ relay_wait = [c \in Cores |-> FALSE]
  /\ relay_doorbell = [c \in Cores |-> FALSE]
  /\ relay_resp_block = [c \in Cores |-> NoData]
  /\ send_seq = [c \in Cores |-> 0]
  /\ req_inbox = [c \in Cores |-> [seq |-> 0, op |-> "WRITE", k |-> 1, data |-> NoData]]
  /\ last_recv_seq = [c \in Cores |-> 0]
  /\ resp_inbox = [c \in Cores |-> [seq |-> 0, data |-> NoData]]
  /\ block_buf = [c \in Cores |-> NoData]
  /\ pc = [c \in Cores |-> "queue"]
  /\ job = [c \in Cores |-> NoJob]
  /\ part = [c \in Cores |-> 1]
  /\ snap = [c \in Cores |-> Start]
  /\ slot = [c \in Cores |-> 1]
  /\ remote = [c \in Cores |-> 1]
  /\ access = [c \in Cores |-> NoData]
  /\ mem = [ch \in Chips |-> [k \in 1 .. Chunks |-> NoData]]
  /\ aborted = FALSE

----------------------------------------------------------------------------
(* Transfers, which take effect at once: over the link to the peer's memory, *)
(* and over the NoC to a core's memory or from it.                           *)

EthSend(buffer, c, data) == [buffer EXCEPT ![Link(c)] = data]
NocPut(buffer, c, data)  == [buffer EXCEPT ![c] = data]

----------------------------------------------------------------------------
(* The host: not in this repository, but the firmware is written for it.   *)

Head0(c) == req[c][SlotOf(rdptr[c])]        \* the command at the head

Full(c) == (wrptr[c] + 2 * BufSize - rdptr[c]) % (2 * BufSize) = BufSize

\* No broadcast of the chip is in flight.
NoBroadcast ==
  \A c \in HostCores : \A p \in Ptrs :
    /\ (p + 2 * BufSize - rdptr[c]) % (2 * BufSize)
         < (wrptr[c] + 2 * BufSize - rdptr[c]) % (2 * BufSize)
    => req[c][SlotOf(p)].op # "BROADCAST"

\* The host writes a command, with its block if it has one, and waits for the
\* answer of a read before it goes on with this queue.
HostPush(c) ==
  /\ left[c] # <<>> /\ waits[c] = "none" /\ ~Full(c)
  /\ Head(left[c]).op = "BROADCAST" => NoBroadcast
  /\ LET m == Head(left[c])
         s == SlotOf(wrptr[c])
     IN /\ req' = [req EXCEPT ![c][s] = m]
        /\ data_buffer' = IF m.op = "BLOCK_WRITE"
                          THEN [data_buffer EXCEPT ![c][s] = m.data] ELSE data_buffer
        /\ waits' = [waits EXCEPT ![c] = IF m.op \in Reads THEN m.op ELSE "none"]
  /\ left' = [left EXCEPT ![c] = Tail(@)]
  /\ wrptr' = [wrptr EXCEPT ![c] = Inc(@)]
  /\ UNCHANGED <<resp_rdptr, answers, window, rdptr, wr_req, resp, resp_wrptr,
                 relayVars, linkVars, coreVars, mem, aborted>>

\* The host takes a response from the ring: the word, the block or the window.
HostTake(c) ==
  /\ waits[c] # "none" /\ resp_rdptr[c] # resp_wrptr[c]
  /\ LET s == SlotOf(resp_rdptr[c])
     IN answers' = [answers EXCEPT ![c] = Append(@,
          CASE waits[c] = "READ"       -> << resp[c][s] >>
            [] waits[c] = "BLOCK_READ" -> << data_buffer[c][s] >>
            [] waits[c] = "DRAM_READ"  -> window[c])]
  /\ resp_rdptr' = [resp_rdptr EXCEPT ![c] = Inc(@)]
  /\ waits' = [waits EXCEPT ![c] = "none"]
  /\ UNCHANGED <<left, window, queueVars, relayVars, linkVars, coreVars, mem, aborted>>

----------------------------------------------------------------------------
(* Polling *)

InboxFull(c) == req_inbox[c].seq # last_recv_seq[c]

\* The queue has work unless the relay posted for its head has no reply yet.
QueueReady(c) ==
  /\ rdptr[c] # wrptr[c]
  /\ relay_wait[c] => relay_resp[c].seq = relay_send_seq[c]

Go(c, to) == pc' = [pc EXCEPT ![c] = to]

PollQueue(c) ==
  /\ pc[c] = "queue"
  /\ \/ /\ QueueReady(c)
        /\ snap' = [snap EXCEPT ![c] = wrptr[c]]
        /\ Go(c, "decode")
     \/ /\ ~QueueReady(c)
        /\ InboxFull(c) \/ relay_doorbell[c]
        /\ Go(c, "inbox")
        /\ UNCHANGED snap
  /\ UNCHANGED <<hostVars, window, queueVars, relayVars, linkVars,
                 job, part, slot, remote, access, mem, aborted>>

\* The doorbell is cleared before the scan.
PollDoorbell(c) ==
  /\ pc[c] = "doorbell"
  /\ Go(c, IF relay_doorbell[c] THEN "scan" ELSE "queue")
  /\ relay_doorbell' = [relay_doorbell EXCEPT ![c] = FALSE]
  /\ slot' = [slot EXCEPT ![c] = 1]
  /\ UNCHANGED <<hostVars, window, queueVars, relay_req, relay_last_seq, relay_resp,
                 relay_send_seq, relay_wait, relay_resp_block, linkVars,
                 job, part, snap, remote, access, mem, aborted>>

----------------------------------------------------------------------------
(* Ingress *)

\* The first step of a hop: get the block, ship it, or send the header alone.
FirstStep(j, c) ==
  CASE j.op \in Streams \ {"DRAM_READ"}          -> "stage"
    [] j.op = "BLOCK_WRITE" /\ j.from # c        -> "stage"
    [] j.op = "BLOCK_WRITE" /\ j.from = c        -> "ship"
    [] OTHER                                     -> "header"

StartHop(c, j) ==
  /\ job' = [job EXCEPT ![c] = j]
  /\ part' = [part EXCEPT ![c] = 1]
  /\ Go(c, FirstStep(j, c))

\* relay_post's first half: the whole slot lands at the egress core in one write.
PutSlot(c, egress, m, block) ==
  /\ relay_send_seq' = [relay_send_seq EXCEPT ![c] = @ + 1]
  /\ relay_req' = NocPut(relay_req, egress, [relay_req[egress] EXCEPT ![c] =
       [from |-> c, op |-> m.op, data |-> m.data, block |-> block,
        seq |-> relay_send_seq[c] + 1]])
  /\ Go(c, "ring")

\* The head command is done: go on, up to the write pointer that was read when
\* this round began.
Advance(c) ==
  /\ rdptr' = [rdptr EXCEPT ![c] = Inc(@)]
  /\ Go(c, IF rdptr'[c] = snap[c] THEN "inbox" ELSE "decode")
  /\ UNCHANGED <<req, wrptr>>

\* The host polls this count for the completion of writes.
CountWrite(c) ==
  /\ Head0(c).op \in Writes
  /\ wr_req' = [wr_req EXCEPT ![c] = @ + 1]
  /\ Advance(c)
  /\ UNCHANGED <<resp, resp_wrptr, data_buffer>>

\* The response ring gets the word, or the block that is at block, or the news
\* that the host window is filled.  Nobody looks at the host's read pointer.
Respond(c, word, block) ==
  /\ Head0(c).op \in Reads
  /\ LET s == SlotOf(resp_wrptr[c])
     IN /\ resp' = IF Head0(c).op = "READ" THEN [resp EXCEPT ![c][s] = word] ELSE resp
        /\ data_buffer' = IF Head0(c).op = "BLOCK_READ"
                          THEN [data_buffer EXCEPT ![c][s] = block] ELSE data_buffer
  /\ resp_wrptr' = [resp_wrptr EXCEPT ![c] = Inc(@)]
  /\ Advance(c)
  /\ UNCHANGED wr_req

Complete(c, word, block) == CountWrite(c) \/ Respond(c, word, block)

\* A command whose target chip this core's link goes to.
Direct(c) ==
  /\ pc[c] = "decode" /\ Head0(c).op # "BROADCAST" /\ Head0(c).tc = Peer(c)
  /\ StartHop(c, [from |-> c, op |-> Head0(c).op, data |-> Head0(c).data,
                  block |-> SlotOf(rdptr[c]), seq |-> 0])
  /\ UNCHANGED <<hostVars, window, queueVars, relayVars, linkVars,
                 snap, slot, remote, access, mem, aborted>>

\* One that a sibling has to pass on: posted, and the queue left until the reply.
PostRelay(c) ==
  /\ pc[c] = "decode" /\ Head0(c).op # "BROADCAST" /\ Head0(c).tc # Peer(c)
  /\ ~relay_wait[c] /\ Routable(Head0(c).tc)
  /\ PutSlot(c, Route(Head0(c).tc), Head0(c), SlotOf(rdptr[c]))
  /\ relay_wait' = [relay_wait EXCEPT ![c] = TRUE]
  /\ UNCHANGED <<hostVars, window, queueVars, relay_last_seq, relay_resp, relay_doorbell,
                 relay_resp_block, linkVars, job, part, snap, slot, remote, access, mem,
                 aborted>>

\* A target chip that no core of this chip has a link to ends the simulation.
Unroutable(c) ==
  /\ pc[c] = "decode" /\ Head0(c).op # "BROADCAST" /\ Head0(c).tc # Peer(c)
  /\ ~relay_wait[c] /\ ~Routable(Head0(c).tc)
  /\ aborted' = TRUE
  /\ UNCHANGED <<hostVars, window, queueVars, relayVars, linkVars, coreVars, mem>>

\* A mutant: RELAY_WAIT stays set.
CollectStillWaiting(c) ==
  /\ pc[c] = "decode" /\ Head0(c).op # "BROADCAST" /\ Head0(c).tc # Peer(c)
  /\ relay_wait[c]
  /\ Complete(c, relay_resp[c].data, relay_resp_block[c])
  /\ UNCHANGED <<hostVars, window, relayVars, linkVars, job, part, snap, slot, remote,
                 access, mem, aborted>>

\* The reply to the posted relay is in.
Collect(c) ==
  /\ pc[c] = "decode" /\ Head0(c).op # "BROADCAST" /\ Head0(c).tc # Peer(c)
  /\ relay_wait[c]
  /\ relay_wait' = [relay_wait EXCEPT ![c] = FALSE]
  /\ Complete(c, relay_resp[c].data, relay_resp_block[c])
  /\ UNCHANGED <<hostVars, window, relay_req, relay_last_seq, relay_resp, relay_send_seq,
                 relay_doorbell, relay_resp_block, linkVars, job, part, snap, slot, remote,
                 access, mem, aborted>>

\* relay_post's second half, which lands after the slot.
Ring(c) ==
  /\ pc[c] = "ring"
  /\ LET m == Head0(c)
         egress == Route(IF m.op = "BROADCAST" THEN Bcast[remote[c]] ELSE m.tc)
     IN /\ relay_doorbell' = NocPut(relay_doorbell, egress, TRUE)
        /\ Go(c, IF m.op = "BROADCAST" THEN "relay wait" ELSE "inbox")
  /\ UNCHANGED <<hostVars, window, queueVars, relay_req, relay_last_seq, relay_resp,
                 relay_send_seq, relay_wait, relay_resp_block, linkVars,
                 job, part, snap, slot, remote, access, mem, aborted>>

----------------------------------------------------------------------------
(* Broadcasts: this chip's grid first, then each remote chip in turn. *)

StartBroadcast(c) ==
  /\ pc[c] = "decode" /\ Head0(c).op = "BROADCAST"
  /\ part' = [part EXCEPT ![c] = 1]
  /\ Go(c, "grid")
  /\ UNCHANGED <<hostVars, window, queueVars, relayVars, linkVars,
                 job, snap, slot, remote, access, mem, aborted>>

\* bcast_to_grid reads a chunk into BLOCK_BUF and multicasts it.
Grid(c) ==
  /\ pc[c] = "grid"
  /\ block_buf' = [block_buf EXCEPT ![c] = Head0(c).data]
  /\ mem' = [mem EXCEPT ![Chip(c)][part[c]] = block_buf'[c]]
  /\ IF part[c] < Chunks
     THEN /\ part' = [part EXCEPT ![c] = @ + 1]
          /\ UNCHANGED <<pc, remote>>
     ELSE /\ remote' = [remote EXCEPT ![c] = 1]
          /\ Go(c, "fanout")
          /\ UNCHANGED part
  /\ UNCHANGED <<hostVars, window, queueVars, relayVars, send_seq, req_inbox,
                 last_recv_seq, resp_inbox, job, snap, slot, access, aborted>>

Fanout(c) ==
  /\ pc[c] = "fanout"
  /\ \/ /\ remote[c] > Len(Bcast)
        /\ CountWrite(c)
        /\ UNCHANGED <<job, part, relay_req, relay_send_seq>>
     \/ /\ remote[c] <= Len(Bcast) /\ Peer(c) = Bcast[remote[c]]
        /\ StartHop(c, [from |-> c, op |-> "BROADCAST", data |-> Head0(c).data,
                        block |-> 0, seq |-> 0])
        /\ UNCHANGED <<queueVars, relay_req, relay_send_seq>>
     \/ /\ remote[c] <= Len(Bcast) /\ Peer(c) # Bcast[remote[c]]
        /\ PutSlot(c, Route(Bcast[remote[c]]), Head0(c), 0)
        /\ UNCHANGED <<queueVars, job, part>>
  /\ UNCHANGED <<hostVars, window, relay_last_seq, relay_resp, relay_wait, relay_doorbell,
                 relay_resp_block, linkVars, snap, slot, remote, access, mem, aborted>>

\* relay_wait: unlike a posted relay, a broadcast waits for its sibling here.
RelayWait(c) ==
  /\ pc[c] = "relay wait"
  /\ relay_resp[c].seq = relay_send_seq[c]
  /\ remote' = [remote EXCEPT ![c] = @ + 1]
  /\ Go(c, "fanout")
  /\ UNCHANGED <<hostVars, window, queueVars, relayVars, linkVars,
                 job, part, snap, slot, access, mem, aborted>>

----------------------------------------------------------------------------
(* A hop over the link *)

\* A chunk comes from the host window, a relayed block from the ingress core.
Stage(c) ==
  /\ pc[c] = "stage"
  /\ block_buf' = [block_buf EXCEPT ![c] =
       IF job[c].op = "BLOCK_WRITE" THEN data_buffer[job[c].from][job[c].block]
       ELSE job[c].data]
  /\ Go(c, "ship")
  /\ UNCHANGED <<hostVars, window, queueVars, relayVars, send_seq, req_inbox, last_recv_seq,
                 resp_inbox, job, part, snap, slot, remote, access, mem, aborted>>

\* eth_send_block: the block goes into the peer's BLOCK_BUF ahead of the header.
Ship(c) ==
  /\ pc[c] = "ship"
  /\ block_buf' = EthSend(block_buf, c,
       IF job[c].op = "BLOCK_WRITE" /\ job[c].from = c THEN data_buffer[c][job[c].block]
       ELSE block_buf[c])
  /\ Go(c, "header")
  /\ UNCHANGED <<hostVars, window, queueVars, relayVars, send_seq, req_inbox, last_recv_seq,
                 resp_inbox, job, part, snap, slot, remote, access, mem, aborted>>

Header(c) ==
  /\ pc[c] = "header"
  /\ send_seq' = [send_seq EXCEPT ![c] = @ + 1]
  /\ req_inbox' = EthSend(req_inbox, c,
       [seq |-> send_seq'[c], op |-> HopOp(job[c].op), k |-> part[c], data |-> job[c].data])
  /\ Go(c, "hop")
  /\ UNCHANGED <<hostVars, window, queueVars, relayVars, last_recv_seq, resp_inbox, block_buf,
                 job, part, snap, slot, remote, access, mem, aborted>>

Replied(c) == pc[c] = "hop" /\ resp_inbox[c].seq = send_seq[c]

\* The chunk of a DRAM read goes on to the host window.
ToWindow(c) ==
  window' = IF job[c].op = "DRAM_READ"
            THEN [window EXCEPT ![job[c].from][part[c]] = block_buf[c]] ELSE window

\* A mutant: one chunk too many.
NextChunkPastEnd(c) ==
  /\ Replied(c) /\ part[c] <= Last(job[c].op)
  /\ ToWindow(c)
  /\ part' = [part EXCEPT ![c] = @ + 1]
  /\ Go(c, FirstStep(job[c], c))
  /\ UNCHANGED <<hostVars, queueVars, relayVars, linkVars,
                 job, snap, slot, remote, access, mem, aborted>>

NextChunk(c) ==
  /\ Replied(c) /\ part[c] < Last(job[c].op)
  /\ ToWindow(c)
  /\ part' = [part EXCEPT ![c] = @ + 1]
  /\ Go(c, FirstStep(job[c], c))
  /\ UNCHANGED <<hostVars, queueVars, relayVars, linkVars,
                 job, snap, slot, remote, access, mem, aborted>>

\* The last reply of a command of this core's own queue ...
OwnReply(c) ==
  /\ Replied(c) /\ part[c] = Last(job[c].op) /\ job[c].from = c
  /\ ToWindow(c)
  /\ IF job[c].op = "BROADCAST"
     THEN /\ remote' = [remote EXCEPT ![c] = @ + 1]
          /\ Go(c, "fanout")
          /\ UNCHANGED queueVars
     ELSE /\ Complete(c, resp_inbox[c].data, block_buf[c])
          /\ UNCHANGED remote
  /\ UNCHANGED <<hostVars, relayVars, linkVars, job, part, snap, slot, access, mem, aborted>>

\* ... and of one it serves for a sibling.
RelayedReply(c) ==
  /\ Replied(c) /\ part[c] = Last(job[c].op) /\ job[c].from # c
  /\ ToWindow(c)
  /\ Go(c, IF job[c].op = "BLOCK_READ" THEN "deposit" ELSE "reply")
  /\ UNCHANGED <<hostVars, queueVars, relayVars, linkVars,
                 job, part, snap, slot, remote, access, mem, aborted>>

----------------------------------------------------------------------------
(* Egress *)

\* A mutant: the doorbell is cleared once more, after the scan.
ScanThenClear(c) ==
  /\ pc[c] = "scan"
  /\ LET i == slot[c]
         new == relay_req[c][Siblings(c)[i]]
     IN \/ /\ i > Len(Siblings(c))
           /\ relay_doorbell' = [relay_doorbell EXCEPT ![c] = FALSE]
           /\ Go(c, "queue")
           /\ UNCHANGED <<job, part, slot>>
        \/ /\ i <= Len(Siblings(c)) /\ new.seq = relay_last_seq[c][Siblings(c)[i]]
           /\ slot' = [slot EXCEPT ![c] = @ + 1]
           /\ UNCHANGED <<pc, job, part, relay_doorbell>>
        \/ /\ i <= Len(Siblings(c)) /\ new.seq # relay_last_seq[c][Siblings(c)[i]]
           /\ StartHop(c, new)
           /\ UNCHANGED <<slot, relay_doorbell>>
  /\ UNCHANGED <<hostVars, window, queueVars, relay_req, relay_last_seq, relay_resp,
                 relay_send_seq, relay_wait, relay_resp_block, linkVars, snap, remote, access,
                 mem, aborted>>

\* Slot i of the scan: a new request of sibling Order[i].
Scan(c) ==
  /\ pc[c] = "scan"
  /\ LET i == slot[c]
         new == relay_req[c][Siblings(c)[i]]
     IN \/ /\ i > Len(Siblings(c))
           /\ Go(c, "queue")
           /\ UNCHANGED <<job, part, slot>>
        \/ /\ i <= Len(Siblings(c)) /\ new.seq = relay_last_seq[c][Siblings(c)[i]]
           /\ slot' = [slot EXCEPT ![c] = @ + 1]
           /\ UNCHANGED <<pc, job, part>>
        \/ /\ i <= Len(Siblings(c)) /\ new.seq # relay_last_seq[c][Siblings(c)[i]]
           /\ StartHop(c, new)
           /\ UNCHANGED slot
  /\ UNCHANGED <<hostVars, window, queueVars, relayVars, linkVars, snap, remote, access, mem,
                 aborted>>

\* A relayed block read lands in a buffer of its own at the ingress core, which
\* goes on using its BLOCK_BUF.
Deposit(c) ==
  /\ pc[c] = "deposit"
  /\ relay_resp_block' = NocPut(relay_resp_block, job[c].from, block_buf[c])
  /\ Go(c, "reply")
  /\ UNCHANGED <<hostVars, window, queueVars, relay_req, relay_last_seq, relay_resp,
                 relay_send_seq, relay_wait, relay_doorbell, linkVars,
                 job, part, snap, slot, remote, access, mem, aborted>>

\* A mutant: the reply carries the link's sequence number.
ReplyWithLinkSeq(c) ==
  /\ pc[c] = "reply"
  /\ relay_last_seq' = [relay_last_seq EXCEPT ![c][job[c].from] = job[c].seq]
  /\ relay_resp' = NocPut(relay_resp, job[c].from,
       [seq |-> send_seq[c],
        data |-> IF job[c].op \in Streams THEN NoData ELSE resp_inbox[c].data])
  /\ slot' = [slot EXCEPT ![c] = @ + 1]
  /\ Go(c, "scan")
  /\ UNCHANGED <<hostVars, window, queueVars, relay_req, relay_send_seq, relay_wait,
                 relay_doorbell, relay_resp_block, linkVars, job, part, snap, remote, access,
                 mem, aborted>>

Reply(c) ==
  /\ pc[c] = "reply"
  /\ relay_last_seq' = [relay_last_seq EXCEPT ![c][job[c].from] = job[c].seq]
  /\ relay_resp' = NocPut(relay_resp, job[c].from,
       [seq |-> job[c].seq,
        data |-> IF job[c].op \in Streams THEN NoData ELSE resp_inbox[c].data])
  /\ slot' = [slot EXCEPT ![c] = @ + 1]
  /\ Go(c, "scan")
  /\ UNCHANGED <<hostVars, window, queueVars, relay_req, relay_send_seq, relay_wait,
                 relay_doorbell, relay_resp_block, linkVars, job, part, snap, remote, access,
                 mem, aborted>>

----------------------------------------------------------------------------
(* Receiver *)

\* service_inbox's access to the memory of its chip.
Receive(c) ==
  /\ pc[c] = "inbox"
  /\ LET m == req_inbox[c]
         ch == Chip(c)
     IN \/ /\ ~InboxFull(c)
           /\ Go(c, "doorbell")
           /\ UNCHANGED <<mem, access, block_buf>>
        \/ /\ InboxFull(c) /\ m.op \in Writes
           /\ mem' = [mem EXCEPT ![ch][m.k] = IF m.op = "WRITE" THEN m.data ELSE block_buf[c]]
           /\ access' = [access EXCEPT ![c] = NoData]
           /\ Go(c, "ack")
           /\ UNCHANGED block_buf
        \/ /\ InboxFull(c) /\ m.op = "READ"
           /\ access' = [access EXCEPT ![c] = mem[ch][m.k]]
           /\ Go(c, "ack")
           /\ UNCHANGED <<mem, block_buf>>
        \/ /\ InboxFull(c) /\ m.op = "BLOCK_READ"
           /\ block_buf' = [block_buf EXCEPT ![c] = mem[ch][m.k]]
           /\ access' = [access EXCEPT ![c] = NoData]
           /\ Go(c, "send back")
           /\ UNCHANGED mem
  /\ UNCHANGED <<hostVars, window, queueVars, relayVars, send_seq, req_inbox, last_recv_seq,
                 resp_inbox, job, part, snap, slot, remote, aborted>>

\* The block that was read goes back ahead of the response.
SendBack(c) ==
  /\ pc[c] = "send back"
  /\ block_buf' = EthSend(block_buf, c, block_buf[c])
  /\ Go(c, "ack")
  /\ UNCHANGED <<hostVars, window, queueVars, relayVars, send_seq, req_inbox, last_recv_seq,
                 resp_inbox, job, part, snap, slot, remote, access, mem, aborted>>

Ack(c) ==
  /\ pc[c] = "ack"
  /\ last_recv_seq' = [last_recv_seq EXCEPT ![c] = req_inbox[c].seq]
  /\ resp_inbox' = EthSend(resp_inbox, c, [seq |-> req_inbox[c].seq, data |-> access[c]])
  /\ Go(c, "doorbell")
  /\ UNCHANGED <<hostVars, window, queueVars, relayVars, send_seq, req_inbox, block_buf,
                 job, part, snap, slot, remote, access, mem, aborted>>

----------------------------------------------------------------------------

Step(c) ==
  \/ PollQueue(c) \/ PollDoorbell(c)
  \/ Direct(c) \/ PostRelay(c) \/ Unroutable(c) \/ Collect(c) \/ Ring(c)
  \/ StartBroadcast(c) \/ Grid(c) \/ Fanout(c) \/ RelayWait(c)
  \/ Stage(c) \/ Ship(c) \/ Header(c) \/ NextChunk(c) \/ OwnReply(c) \/ RelayedReply(c)
  \/ Scan(c) \/ Deposit(c) \/ Reply(c)
  \/ Receive(c) \/ SendBack(c) \/ Ack(c)

Host(c) == HostPush(c) \/ HostTake(c)

Next ==
  /\ ~aborted
  /\ (\E c \in Cores : Step(c)) \/ (\E c \in HostCores : Host(c))

\* The clock steps every core, an application that has the core yields to the
\* firmware, and the host goes on with its program.
Fairness ==
  /\ \A c \in Cores : WF_vars(~aborted /\ Step(c))
  /\ \A c \in HostCores : WF_vars(~aborted /\ Host(c))

Spec == Init /\ [][Next]_vars /\ Fairness

----------------------------------------------------------------------------
(* Properties *)

\* Where a core may be between two steps.
Places == {"queue", "inbox", "doorbell", "decode", "ring", "grid", "fanout", "relay wait",
           "stage", "ship", "header", "hop", "scan", "deposit", "reply", "send back", "ack"}

\* Types.
TypeOK ==
  /\ left \in [HostCores -> Seq(Command)]
  /\ waits \in [HostCores -> Reads \cup {"none"}]
  /\ resp_rdptr \in [HostCores -> Ptrs]
  /\ req \in [Cores -> [Slots -> Command]]
  /\ wrptr \in [Cores -> Ptrs] /\ rdptr \in [Cores -> Ptrs] /\ resp_wrptr \in [Cores -> Ptrs]
  /\ relay_wait \in [Cores -> BOOLEAN] /\ relay_doorbell \in [Cores -> BOOLEAN]
  /\ send_seq \in [Cores -> Nat] /\ relay_send_seq \in [Cores -> Nat]
  /\ snap \in [Cores -> Ptrs]
  /\ part \in [Cores -> 1 .. Chunks]
  /\ pc \in [Cores -> Places]

\* No post is lost between the slot, the doorbell and the scan: a request that
\* its egress core has not served is about to be rung for, is rung for, or
\* lies ahead of the scan.
PostHeard ==
  \A e \in HostCores, i \in DOMAIN Order :
    relay_req[e][Order[i]].seq # relay_last_seq[e][Order[i]] =>
      \/ pc[Order[i]] = "ring"
      \/ relay_doorbell[e]
      \/ job[e].from # e /\ pc[e] \in {"scan", "stage", "ship", "header", "hop", "deposit", "reply"}
            /\ slot[e] <= i
      \/ pc[e] = "scan" /\ slot[e] <= i

\* The host has had every answer.
Answered == \A c \in HostCores : left[c] = <<>> /\ rdptr[c] = wrptr[c] /\ waits[c] = "none"

\* Every command is answered: no cycle of cores waits for one another, though
\* hops and broadcasts wait where they are.
AllAnswered == <>[](aborted \/ Answered)
===============================================================================
