------------------------------ MODULE RvDevices ------------------------------
(***************************************************************************)
(* The devices of the RV64 board (rv64_system.cpp) that raise interrupts:  *)
(* the PLIC, the receive side and the interrupts of the UART, and the      *)
(* virtio block device.  Each is a record, and an access to it a function  *)
(* of that record.                                                         *)
(***************************************************************************)
EXTENDS Naturals, Sequences, FiniteSets

CONSTANTS
  MaxHarts,
  FifoSize,    \* UART_RX_FIFO_SIZE
  QueueSize,   \* vio_queue_num
  IndexMod     \* the indices of the virtio rings are 16 bits: a multiple of QueueSize

ASSUME DevicesAssumption ==
  /\ MaxHarts \in Nat \ {0} /\ FifoSize \in Nat \ {0}
  /\ QueueSize \in Nat \ {0} /\ IndexMod \in Nat \ {0} /\ IndexMod % QueueSize = 0

VIRTIO_BLK_IRQ == 1
UART_IRQ == 10
Sources == {VIRTIO_BLK_IRQ, UART_IRQ}

-----------------------------------------------------------------------------
(* The PLIC: two contexts per hart, for the M and the S external interrupt.  *)

Contexts == (0 .. MaxHarts - 1) \X {"M", "S"}

InitPlic ==
  [priority |-> [s \in Sources |-> 0], pending |-> {}, level |-> {}, claimed |-> {},
   enable |-> [c \in Contexts |-> {}], threshold |-> [c \in Contexts |-> 0]]

PlicType ==
  [priority : [Sources -> Nat], pending : SUBSET Sources, level : SUBSET Sources,
   claimed : SUBSET Sources, enable : [Contexts -> SUBSET Sources], threshold : [Contexts -> Nat]]

Candidates(p, c) ==
  {s \in (p.pending \cap p.enable[c]) \ p.claimed : p.priority[s] > p.threshold[c]}

\* The candidate of the highest priority, the lowest id among equals; 0 for none.
PlicBest(p, c) ==
  LET beats(s, t) == p.priority[s] > p.priority[t] \/ (p.priority[s] = p.priority[t] /\ s <= t)
      cs == Candidates(p, c)
  IN IF cs = {} THEN 0 ELSE CHOOSE s \in cs : \A t \in cs : beats(s, t)

\* Pending stays until it is claimed, even if the line falls.
SetIrq(p, s, level) ==
  IF level THEN [p EXCEPT !.level = @ \cup {s}, !.pending = @ \cup {s}]
           ELSE [p EXCEPT !.level = @ \ {s}]

PlicClaim(p, c) ==
  LET s == PlicBest(p, c)
  IN [p EXCEPT !.pending = @ \ {s}, !.claimed = @ \cup ({s} \ {0})]

\* The gateway pends a source again whose line is still up.
PlicComplete(p, s) ==
  [p EXCEPT !.claimed = @ \ {s}, !.pending = @ \cup (p.level \cap {s})]

-----------------------------------------------------------------------------
(* The UART.  ier holds the enabled interrupts; inject is the scripted input *)
(* that is still to come.                                                    *)

InitUart(inject) ==
  [rx_fifo |-> [i \in 0 .. FifoSize - 1 |-> 0], rx_head |-> 0, rx_tail |-> 0, rx_count |-> 0,
   ier |-> {}, thr_ipending |-> FALSE, inject |-> inject]

UartPending(u) ==
  \/ "rx" \in u.ier /\ u.rx_count > 0
  \/ "thr" \in u.ier /\ u.thr_ipending

UartPush(u, v) ==
  IF u.rx_count = FifoSize THEN u
  ELSE [u EXCEPT !.rx_fifo[u.rx_tail] = v, !.rx_tail = (@ + 1) % FifoSize, !.rx_count = @ + 1]

UartPop(u) ==
  IF u.rx_count = 0 THEN u
  ELSE [u EXCEPT !.rx_head = (@ + 1) % FifoSize, !.rx_count = @ - 1]

\* The byte a read of RBR returns.
UartRbr(u) == IF u.rx_count = 0 THEN 0 ELSE u.rx_fifo[u.rx_head]

\* What is received and not read yet, oldest first.
UartQueued(u) == [i \in 1 .. u.rx_count |-> u.rx_fifo[(u.rx_head + i - 1) % FifoSize]]

\* Reading IIR clears the transmit interrupt unless it reports received data.
UartReadIir(u) ==
  IF ("rx" \in u.ier /\ u.rx_count > 0) \/ ~("thr" \in u.ier) THEN u
  ELSE [u EXCEPT !.thr_ipending = FALSE]

UartWriteThr(u) == [u EXCEPT !.thr_ipending = TRUE]

UartWriteIer(u, val) ==
  [u EXCEPT !.ier = val, !.thr_ipending = @ \/ ("thr" \in val /\ "thr" \notin u.ier)]

\* A mutant: the byte that does not fit is taken from the script all the same.
PumpAll(u) ==
  LET pump[n \in 0 .. Len(u.inject)] ==
        IF n = 0 THEN u
        ELSE LET w == pump[n - 1] IN [UartPush(w, Head(w.inject)) EXCEPT !.inject = Tail(w.inject)]
  IN pump[Len(u.inject)]

\* The script goes into the FIFO as far as there is room.
UartPump(u) ==
  LET room == FifoSize - u.rx_count
      n == IF Len(u.inject) < room THEN Len(u.inject) ELSE room
      pump[k \in 0 .. n] ==
        IF k = 0 THEN u
        ELSE LET w == pump[k - 1] IN [UartPush(w, Head(w.inject)) EXCEPT !.inject = Tail(w.inject)]
  IN pump[n]

-----------------------------------------------------------------------------
(* The virtio block device: one queue, whose rings and buffers are in guest  *)
(* memory.  A request is one chain of descriptors, named by its head; one    *)
(* sector and one value per buffer stand for the data.                       *)

Heads == 0 .. QueueSize - 1

InitDisk ==
  [queue_ready |-> FALSE, last_avail |-> 0, used_idx |-> 0, int_status |-> FALSE, sector |-> 0,
   avail |-> [i \in Heads |-> 0], avail_idx |-> 0, used |-> [i \in Heads |-> 0], used_mem |-> 0,
   type |-> [d \in Heads |-> "IN"], buf |-> [d \in Heads |-> 0]]

\* The driver: a new request in the available ring.
DriverSubmit(d, type, value) ==
  LET head == d.avail_idx % QueueSize
  IN [d EXCEPT !.type[head] = type, !.buf[head] = value,
               !.avail[head] = head, !.avail_idx = (@ + 1) % IndexMod]

Served(d) ==
  LET head == d.avail[d.last_avail % QueueSize]
      n == (d.used_idx + 1) % IndexMod
  IN [d EXCEPT !.sector = IF d.type[head] = "OUT" THEN d.buf[head] ELSE @,
               !.buf[head] = IF d.type[head] = "IN" THEN d.sector ELSE @,
               !.used[d.used_idx % QueueSize] = head,
               !.used_idx = n, !.used_mem = n,
               !.last_avail = (@ + 1) % IndexMod]

\* virtio_blk_process: every request that is available, and one notification.
DiskProcess(d) ==
  LET n == (d.avail_idx + IndexMod - d.last_avail) % IndexMod
      serve[k \in 0 .. n] == IF k = 0 THEN d ELSE Served(serve[k - 1])
  IN IF d.queue_ready THEN [serve[n] EXCEPT !.int_status = TRUE] ELSE d

DiskAck(d) == [d EXCEPT !.int_status = FALSE]

\* Status 0 resets the device.  The driver clears its rings, and makes the queue ready.
DiskReset(d) ==
  [d EXCEPT !.queue_ready = FALSE, !.last_avail = 0, !.used_idx = 0, !.int_status = FALSE]
DriverReady(d) == [d EXCEPT !.queue_ready = TRUE, !.avail_idx = 0, !.used_mem = 0]
=============================================================================
