------------------------------- MODULE RvBoard -------------------------------
(***************************************************************************)
(* The harts of the RV64 board (rv64_system.cpp): the scheduler that gives *)
(* them turns on one thread, virtual time, the CLINT, WFI, and interrupts  *)
(* and traps with their cached deadlines.  A step is one scheduling        *)
(* decision or one instruction of the active hart.                         *)
(*                                                                         *)
(* What the harts run is the guest's and comes in as Code: routines of     *)
(* instructions, of which only those are told apart that these components  *)
(* see.                                                                    *)
(***************************************************************************)
EXTENDS RvDevices

CONSTANTS
  Quanta,       \* the values of hart_quantum
  HartCounts,   \* the values of num_harts
  TicksPer,     \* timer_insns_per_tick
  MaxInsns,     \* max_insns, which ends the run
  Never,        \* UINT64_MAX
  Injects,      \* the scripts of UART input, and
  InjectAts,    \* the instructions after which they start
  Code          \* Code[r]: routine r, a sequence of sets of instructions to choose from

ASSUME BoardAssumption ==
  /\ Quanta \subseteq Nat \ {0} /\ HartCounts \subseteq 1 .. MaxHarts
  /\ TicksPer \in Nat \ {0} /\ MaxInsns \in Nat /\ InjectAts \subseteq Nat /\ Never \in Nat

VARIABLES
  harts, msip, mtimecmp,
  plic, uart, disk,
  visible_icount, insn_count,
  num_harts, hart_quantum, inject_at,
  active_hart, yield_hart, next_hart,
  phase,                   \* "schedule", "run", or "stuck" once all harts sleep for good
  guest                    \* what the guest's drivers know

config == <<num_harts, hart_quantum, inject_at>>
devices == <<plic, uart, disk>>
vars == <<harts, msip, mtimecmp, devices, visible_icount, insn_count, config,
          active_hart, yield_hart, next_hart, phase, guest>>

Irqs == {"MEI", "MSI", "MTI", "SEI", "SSI", "STI"}
Priority == <<"MEI", "MSI", "MTI", "SEI", "SSI", "STI">>
PlatformMask == {"MSI", "MTI", "SEI", "MEI"}          \* MIP_PLATFORM_MASK
U == 0
S == 1
M == 3
NoHart == MaxHarts
Flags == {"SIE", "MIE", "SPIE", "MPIE", "SPP", "MPP0", "MPP1"}
Causes == {"ECALL", "FAULT"}                          \* the exceptions told apart

\* A place in the code; routines are pairs of names.  Traps go to the routine of their mode and cause.
At(r, n) == [in |-> r, at |-> n]
Vector(mode, cause) == At(<<mode, cause>>, 1)
Rom == At(<<"", "rom">>, 1)                                   \* RESET_ROM_BASE
Entry == At(<<"", "entry">>, 1)
Places == [in : DOMAIN Code \cup ({"M", "S"} \X (Irqs \cup Causes)), at : Nat]

\* The guest's instructions, and the operands they may have.
Instructions == UNION {UNION {Code[r][n] : n \in DOMAIN Code[r]} : r \in DOMAIN Code}
Bits(csr) ==
  CASE csr \in {"mstatus", "sstatus"} -> Flags
    [] csr \in {"mie", "sie", "mip", "sip", "mideleg"} -> Irqs
    [] csr = "medeleg" -> Causes
    [] OTHER -> {}
WellFormed(i) ==
  /\ i.op = "csr" => Bits(i.csr) # {} /\ i.set \subseteq Bits(i.csr)
  /\ i.op = "jump" => i.to \in [{0} \cup Sources -> Nat]
  /\ i.op = "epc" => i.to \in Places
  /\ i.op = "mtimecmp" => i.ticks \in Nat
  /\ i.op = "msip" => i.on \in BOOLEAN
  /\ i.op = "enable" => i.priority \in [Sources -> Nat]

ASSUME CodeAssumption ==
  /\ {Rom.in, Entry.in} \subseteq DOMAIN Code
  /\ \A i \in Instructions : WellFormed(i)

Hart(h) ==
  [pc |-> IF h = 0 THEN Entry ELSE Rom, priv |-> M,
   mstatus |-> {}, mie |-> {}, mip |-> {}, mip_seip_sw |-> FALSE, mideleg |-> {}, medeleg |-> {},
   mepc |-> Rom, sepc |-> Rom, x |-> 0,
   irq_deliverable |-> {}, irq_next_check |-> 0, steps_left |-> 0, wfi_sleeping |-> h # 0]

Init ==
  /\ num_harts \in HartCounts /\ hart_quantum \in Quanta /\ inject_at \in InjectAts
  /\ harts = [h \in 0 .. num_harts - 1 |-> Hart(h)]
  /\ msip = [h \in 0 .. num_harts - 1 |-> FALSE]
  /\ mtimecmp = [h \in 0 .. num_harts - 1 |-> Never]
  /\ plic = InitPlic /\ uart \in {InitUart(i) : i \in Injects} /\ disk = InitDisk
  /\ visible_icount = 0 /\ insn_count = 0
  /\ active_hart = NoHart /\ yield_hart = NoHart /\ next_hart = 0
  /\ phase = "schedule"
  /\ guest = [input |-> <<>>, used |-> 0, requests |-> <<>>, written |-> 0]

Harts == 0 .. num_harts - 1
Following(h) == (h + 1) % num_harts

-----------------------------------------------------------------------------
(* Deadlines.  These are functions of a hart's record hr, of its timer cmp,  *)
(* and of the visible instruction count v.                                   *)

Mtime(v) == v \div TicksPer

\* clint_mtip_event_count
EventCount(cmp, v) ==
  IF cmp = Never THEN Never
  ELSE IF Mtime(v) >= cmp THEN v
  ELSE IF cmp > Never \div TicksPer THEN Never ELSE cmp * TicksPer

\* irq_reschedule: when the hart must look at its interrupts again.
Rescheduled(hr, cmp, v) ==
  [hr EXCEPT
     !.irq_next_check =
       IF (hr.mip \cap hr.irq_deliverable) \ {"MTI"} # {} THEN v
       ELSE IF "MTI" \in hr.irq_deliverable THEN EventCount(cmp, v)
       ELSE Never,
     !.steps_left = 0]

\* irq_recompute_deliverable
Recomputed(hr, cmp, v) ==
  LET m == IF hr.priv < M \/ "MIE" \in hr.mstatus THEN hr.mie \ hr.mideleg ELSE {}
      s == IF hr.priv < S \/ (hr.priv = S /\ "SIE" \in hr.mstatus) THEN hr.mie \cap hr.mideleg
           ELSE {}
  IN Rescheduled([hr EXCEPT !.irq_deliverable = m \cup s], cmp, v)

With(set, i, on) == IF on THEN set \cup {i} ELSE set \ {i}

\* clint_refresh_irq
Refreshed(hr, cmp, soft, v) ==
  Rescheduled([hr EXCEPT !.mip = With(With(@, "MTI", Mtime(v) >= cmp), "MSI", soft)], cmp, v)

Refresh(hs, h, v) == Refreshed(hs[h], mtimecmp[h], msip[h], v)

\* A mutant: the deadlines stay when an external interrupt comes.
PlicLatch(hs, p, v) ==
  [h \in Harts |->
     [hs[h] EXCEPT !.mip = With(With(@, "MEI", PlicBest(p, <<h, "M">>) # 0), "SEI",
                                PlicBest(p, <<h, "S">>) # 0 \/ hs[h].mip_seip_sw)]]

\* plic_update
PlicUpdate(hs, p, v) ==
  [h \in Harts |->
     LET mip == With(With(hs[h].mip, "MEI", PlicBest(p, <<h, "M">>) # 0), "SEI",
                     PlicBest(p, <<h, "S">>) # 0 \/ hs[h].mip_seip_sw)
     IN IF mip = hs[h].mip THEN hs[h]
        ELSE Rescheduled([hs[h] EXCEPT !.mip = mip], mtimecmp[h], v)]

-----------------------------------------------------------------------------
(* Traps *)

MPP(hr) == IF "MPP1" \in hr.mstatus THEN M ELSE IF "MPP0" \in hr.mstatus THEN S ELSE U
MppFlags(p) == IF p = M THEN {"MPP0", "MPP1"} ELSE IF p = S THEN {"MPP0"} ELSE {}

\* A mutant: what may be delivered stays as it was before the trap.
TrappedLazily(hr, cause, deleg, cmp, v) ==
  LET toS == hr.priv <= S /\ cause \in deleg
      ms == hr.mstatus
  IN Rescheduled(
       IF toS
       THEN [hr EXCEPT !.sepc = hr.pc, !.priv = S, !.pc = Vector("S", cause),
               !.mstatus = (ms \ {"SIE", "SPIE", "SPP"})
                             \cup (IF "SIE" \in ms THEN {"SPIE"} ELSE {})
                             \cup (IF hr.priv = S THEN {"SPP"} ELSE {})]
       ELSE [hr EXCEPT !.mepc = hr.pc, !.priv = M, !.pc = Vector("M", cause),
               !.mstatus = (ms \ {"MIE", "MPIE", "MPP0", "MPP1"})
                             \cup (IF "MIE" \in ms THEN {"MPIE"} ELSE {})
                             \cup MppFlags(hr.priv)],
       cmp, v)

\* take_trap.  The instruction at pc has not been done.
Trapped(hr, cause, deleg, cmp, v) ==
  LET toS == hr.priv <= S /\ cause \in deleg
      ms == hr.mstatus
  IN Recomputed(
       IF toS
       THEN [hr EXCEPT !.sepc = hr.pc, !.priv = S, !.pc = Vector("S", cause),
               !.mstatus = (ms \ {"SIE", "SPIE", "SPP"})
                             \cup (IF "SIE" \in ms THEN {"SPIE"} ELSE {})
                             \cup (IF hr.priv = S THEN {"SPP"} ELSE {})]
       ELSE [hr EXCEPT !.mepc = hr.pc, !.priv = M, !.pc = Vector("M", cause),
               !.mstatus = (ms \ {"MIE", "MPIE", "MPP0", "MPP1"})
                             \cup (IF "MIE" \in ms THEN {"MPIE"} ELSE {})
                             \cup MppFlags(hr.priv)],
       cmp, v)

\* A mutant: SRET leaves the hart in the trap's interrupt enable.
ReturnedMasked(hr, machine, cmp, v) ==
  Recomputed(
    IF machine
    THEN [hr EXCEPT !.pc = hr.mepc, !.priv = MPP(hr),
            !.mstatus = (@ \ {"MIE", "MPP0", "MPP1"}) \cup {"MPIE"}
                          \cup (IF "MPIE" \in @ THEN {"MIE"} ELSE {})]
    ELSE [hr EXCEPT !.pc = hr.sepc, !.priv = IF "SPP" \in hr.mstatus THEN S ELSE U,
            !.mstatus = (@ \ {"SPP"}) \cup {"SPIE"}],
    cmp, v)

\* rv64_sys_xret
Returned(hr, machine, cmp, v) ==
  Recomputed(
    IF machine
    THEN [hr EXCEPT !.pc = hr.mepc, !.priv = MPP(hr),
            !.mstatus = (@ \ {"MIE", "MPP0", "MPP1"}) \cup {"MPIE"}
                          \cup (IF "MPIE" \in @ THEN {"MIE"} ELSE {})]
    ELSE [hr EXCEPT !.pc = hr.sepc, !.priv = IF "SPP" \in hr.mstatus THEN S ELSE U,
            !.mstatus = (@ \ {"SIE", "SPP"}) \cup {"SPIE"}
                          \cup (IF "SPIE" \in @ THEN {"SIE"} ELSE {})],
    cmp, v)

\* check_interrupts.  Interrupts to M-mode go first.
Checked(hr, cmp, v) ==
  LET mip == IF "MTI" \in hr.irq_deliverable THEN With(hr.mip, "MTI", Mtime(v) >= cmp) ELSE hr.mip
      all == mip \cap hr.irq_deliverable
      first == IF all \ hr.mideleg # {} THEN all \ hr.mideleg ELSE all
      cause == Priority[CHOOSE i \in DOMAIN Priority :
                          Priority[i] \in first /\ \A j \in 1 .. i - 1 : Priority[j] \notin first]
      now == [hr EXCEPT !.mip = mip]
  IN IF all = {} THEN Rescheduled(now, cmp, v)
     ELSE Trapped(now, cause, hr.mideleg, cmp, v)

-----------------------------------------------------------------------------
(* CSRs: those that interrupts depend on.  An instruction sets bits of one, *)
(* or clears them.                                                           *)

SstatusMask == {"SIE", "SPIE", "SPP"}

\* rv64_sys_read_csr, as csrrs and csrrc see it: of SEIP only the software's bit.
ReadCsr(hr, csr) ==
  CASE csr = "mstatus" -> hr.mstatus
    [] csr = "sstatus" -> hr.mstatus \cap SstatusMask
    [] csr = "mie"     -> hr.mie
    [] csr = "sie"     -> hr.mie \cap hr.mideleg
    [] csr = "mip"     -> With(hr.mip, "SEI", hr.mip_seip_sw)
    [] csr = "sip"     -> hr.mip \cap hr.mideleg
    [] csr = "mideleg" -> hr.mideleg
    [] csr = "medeleg" -> hr.medeleg

\* hart_write_mip
WriteMip(hs, h, val, v) ==
  LET hr == Refresh(hs, h, v)
      new == [hr EXCEPT !.mip = (val \ PlatformMask) \cup (@ \cap PlatformMask),
                        !.mip_seip_sw = "SEI" \in val]
      all == PlicUpdate([hs EXCEPT ![h] = new], plic, v)
  IN [all EXCEPT ![h] = Rescheduled(@, mtimecmp[h], v)]

\* A mutant: mstatus takes any value.
AnyMstatus(val) == val

\* H-mode in MPP becomes U.
LegalMstatus(val) ==
  IF "MPP1" \in val /\ "MPP0" \notin val THEN val \ {"MPP1"} ELSE val

\* rv64_sys_write_csr
WriteCsr(hs, h, csr, val, v) ==
  LET hr == hs[h]
      recomputed(new) == [hs EXCEPT ![h] = Recomputed(new, mtimecmp[h], v)]
  IN CASE csr = "mstatus" -> recomputed([hr EXCEPT !.mstatus = LegalMstatus(val)])
       [] csr = "sstatus" ->
            recomputed([hr EXCEPT !.mstatus = (@ \ SstatusMask) \cup (val \cap SstatusMask)])
       [] csr = "mie" -> recomputed([hr EXCEPT !.mie = val])
       [] csr = "sie" ->
            recomputed([hr EXCEPT !.mie = (@ \ hr.mideleg) \cup (val \cap hr.mideleg)])
       [] csr = "mip" -> WriteMip(hs, h, val, v)
       [] csr = "sip" ->
            LET ssi == {"SSI"} \cap hr.mideleg
            IN recomputed([hr EXCEPT !.mip = (@ \ ssi) \cup (val \cap ssi)])
       [] csr = "mideleg" -> recomputed([hr EXCEPT !.mideleg = val \cap {"SSI", "STI", "SEI"}])
       [] csr = "medeleg" -> [hs EXCEPT ![h].medeleg = val]

-----------------------------------------------------------------------------
(* Instructions (the inner loop of rv64_sys_run).  The instruction's effect  *)
(* on the harts is hs, dv what it adds to the visible count, and y the       *)
(* yield it asks for.  The quantum may then ask for another.                 *)

Instr(h, op) ==
  {i \in Instructions : i.op = op /\ i \in Code[harts[h].pc.in][harts[h].pc.at]}

Running(h) == phase = "run" /\ h = active_hart

\* The hart past the instruction.
Fetched(h) ==
  [harts EXCEPT ![h].steps_left = @ - 1, ![h].pc = At(@.in, @.at + 1)]

Retire(h, hs, dv, y) ==
  LET turn == num_harts > 1 /\ (insn_count + 1) % hart_quantum = 0
      left == IF turn THEN 0 ELSE hs[h].steps_left
  IN /\ insn_count' = insn_count + 1 /\ visible_icount' = visible_icount + dv
     /\ yield_hart' = IF turn THEN Following(h) ELSE y
     /\ harts' = [hs EXCEPT ![h].steps_left = left]
     /\ phase' = IF left = 0 THEN "schedule" ELSE "run"
     /\ UNCHANGED <<config, active_hart, next_hart>>

\* rv64_sys_load and rv64_sys_store: after an access to a device the hart gives up
\* the rest of its steps.
RetireAccess(h, hs, y) == Retire(h, [hs EXCEPT ![h].steps_left = 0], 1, y)

\* Computation, and jumps, one on the value of the register.
Compute(h) ==
  /\ Running(h)
  /\ \E i \in Instr(h, "nop") : Retire(h, Fetched(h), 1, yield_hart)
  /\ UNCHANGED <<msip, mtimecmp, devices, guest>>

Jump(h) ==
  /\ Running(h)
  /\ \E i \in Instr(h, "jump") :
       Retire(h, [Fetched(h) EXCEPT ![h].pc = At(@.in, i.to[harts[h].x])], 1, yield_hart)
  /\ UNCHANGED <<msip, mtimecmp, devices, guest>>

\* rv64_sys_pause_yield
Pause(h) ==
  /\ Running(h)
  /\ \E i \in Instr(h, "pause") :
       IF num_harts > 1 THEN Retire(h, [Fetched(h) EXCEPT ![h].steps_left = 0], 1, Following(h))
       ELSE Retire(h, Fetched(h), 1, yield_hart)
  /\ UNCHANGED <<msip, mtimecmp, devices, guest>>

\* csrrs, csrrc: reading mip refreshes it first.  Both bits to set and bits to clear
\* stand for two instructions' operands; a write of nothing is not done.
Csr(h) ==
  /\ Running(h)
  /\ \E i \in Instr(h, "csr") :
       LET now == IF i.csr = "mip"
                  THEN [Fetched(h) EXCEPT ![h] = Refresh(Fetched(h), h, visible_icount)]
                  ELSE Fetched(h)
       IN Retire(h, WriteCsr(now, h, i.csr, (ReadCsr(now[h], i.csr) \cup i.set) \ i.clear,
                             visible_icount), 1, yield_hart)
  /\ UNCHANGED <<msip, mtimecmp, devices, guest>>

\* mepc and sepc: where to return, or one instruction further.
SetEpc(h) ==
  /\ Running(h)
  /\ \E i \in Instr(h, "epc") :
       LET next(pc) == IF i.skip THEN At(pc.in, pc.at + 1) ELSE i.to
       IN Retire(h, IF i.mode = "M" THEN [Fetched(h) EXCEPT ![h].mepc = next(@)]
                                    ELSE [Fetched(h) EXCEPT ![h].sepc = next(@)], 1, yield_hart)
  /\ UNCHANGED <<msip, mtimecmp, devices, guest>>

\* clint_write: an IPI to another hart gives it the next turn.
WriteMsip(h) ==
  /\ Running(h)
  /\ \E i \in Instr(h, "msip") :
       LET t == IF i.other THEN Following(h) ELSE h
           ipi == i.on /\ t # h
       IN /\ msip' = [msip EXCEPT ![t] = i.on]
          /\ RetireAccess(h, [Fetched(h) EXCEPT
                                ![t] = Refreshed(@, mtimecmp[t], i.on, visible_icount)],
                          IF ipi THEN t ELSE yield_hart)
  /\ UNCHANGED <<mtimecmp, devices, guest>>

WriteMtimecmp(h) ==
  /\ Running(h)
  /\ \E i \in Instr(h, "mtimecmp") :
       LET cmp == IF i.ticks = Never THEN Never ELSE Mtime(visible_icount) + i.ticks
       IN /\ mtimecmp' = [mtimecmp EXCEPT ![h] = cmp]
          /\ RetireAccess(h, [Fetched(h) EXCEPT
                                ![h] = Refreshed(@, cmp, msip[h], visible_icount)], yield_hart)
  /\ UNCHANGED <<msip, devices, guest>>

\* A register of the PLIC: p is the PLIC after the access.
PlicAccess(h, p, x) ==
  /\ plic' = p
  /\ RetireAccess(h, PlicUpdate([Fetched(h) EXCEPT ![h].x = x], p, visible_icount), yield_hart)
  /\ UNCHANGED <<msip, mtimecmp, uart, disk, guest>>

Enable(h) ==
  /\ Running(h)
  /\ \E i \in Instr(h, "enable") :
       PlicAccess(h, [plic EXCEPT !.enable[<<h, "S">>] = Sources, !.priority = i.priority],
                  harts[h].x)

Claim(h) ==
  /\ Running(h)
  /\ \E i \in Instr(h, "claim") :
       PlicAccess(h, PlicClaim(plic, <<h, "S">>), PlicBest(plic, <<h, "S">>))

Complete(h) ==
  /\ Running(h)
  /\ \E i \in Instr(h, "complete") :
       PlicAccess(h, IF harts[h].x \in Sources THEN PlicComplete(plic, harts[h].x) ELSE plic,
                  harts[h].x)

\* A register of the UART: u is the UART after the access, and its interrupt
\* follows if the access looks at it.
UartAccess(h, u, follows) ==
  LET p == IF follows THEN SetIrq(plic, UART_IRQ, UartPending(u)) ELSE plic
  IN /\ uart' = u /\ plic' = p
     /\ RetireAccess(h, IF follows THEN PlicUpdate(Fetched(h), p, visible_icount)
                        ELSE Fetched(h), yield_hart)
     /\ UNCHANGED <<msip, mtimecmp, disk>>

ReadRbr(h) ==
  /\ Running(h) /\ Instr(h, "rbr") # {}
  /\ UartAccess(h, UartPop(uart), uart.rx_count > 0)
  /\ guest' = IF uart.rx_count = 0 THEN guest
              ELSE [guest EXCEPT !.input = Append(@, UartRbr(uart))]

ReadIir(h) ==
  /\ Running(h) /\ Instr(h, "iir") # {}
  /\ UartAccess(h, UartReadIir(uart), UartReadIir(uart) # uart)
  /\ UNCHANGED guest

WriteThr(h) ==
  /\ Running(h) /\ Instr(h, "thr") # {}
  /\ UartAccess(h, UartWriteThr(uart), TRUE)
  /\ UNCHANGED guest

WriteIer(h) ==
  /\ Running(h)
  /\ \E i \in Instr(h, "ier") : UartAccess(h, UartWriteIer(uart, i.val), TRUE)
  /\ UNCHANGED guest

\* A register of the disk.
DiskAccess(h, d, follows) ==
  LET p == IF follows THEN SetIrq(plic, VIRTIO_BLK_IRQ, d.int_status) ELSE plic
  IN /\ disk' = d /\ plic' = p
     /\ RetireAccess(h, IF follows THEN PlicUpdate(Fetched(h), p, visible_icount)
                        ELSE Fetched(h), yield_hart)
     /\ UNCHANGED <<msip, mtimecmp, uart>>

\* The driver's memory, where the rings of the disk's queue are.
DriverAccess(h, d) ==
  /\ disk' = d
  /\ Retire(h, Fetched(h), 1, yield_hart)
  /\ UNCHANGED <<msip, mtimecmp, plic, uart>>

Outstanding(d) == (d.avail_idx + IndexMod - guest.used) % IndexMod

\* A request, unless all are out.  What a read must return is what was written last.
Submit(h) ==
  /\ Running(h)
  /\ \E i \in Instr(h, "submit") :
       LET free == disk.queue_ready /\ Outstanding(disk) < QueueSize
           value == IF i.type = "OUT" THEN i.value ELSE 0
       IN /\ DriverAccess(h, IF free THEN DriverSubmit(disk, i.type, value) ELSE disk)
          /\ guest' = IF ~free THEN guest
                      ELSE [guest EXCEPT !.requests = Append(@,
                              [head |-> disk.avail_idx % QueueSize,
                               value |-> IF i.type = "OUT" THEN value ELSE guest.written]),
                              !.written = IF i.type = "OUT" THEN value ELSE @]

Notify(h) ==
  /\ Running(h) /\ Instr(h, "notify") # {}
  /\ DiskAccess(h, DiskProcess(disk), disk.queue_ready)
  /\ UNCHANGED guest

Ack(h) ==
  /\ Running(h) /\ Instr(h, "ack") # {}
  /\ DiskAccess(h, DiskAck(disk), TRUE)
  /\ UNCHANGED guest

\* The driver takes the oldest used buffer, if there is one.
Reap(h) ==
  /\ Running(h) /\ Instr(h, "reap") # {}
  /\ DriverAccess(h, disk)
  /\ guest' = IF guest.used = disk.used_mem THEN guest
              ELSE [guest EXCEPT !.used = (@ + 1) % IndexMod, !.requests = Tail(@)]

\* The driver resets an idle device, and starts it.
Reset(h) ==
  /\ Running(h) /\ Instr(h, "reset") # {}
  /\ DiskAccess(h, IF guest.requests = <<>> THEN DiskReset(disk) ELSE disk, FALSE)
  /\ UNCHANGED guest

Ready(h) ==
  /\ Running(h) /\ Instr(h, "ready") # {}
  /\ DiskAccess(h, IF disk.queue_ready THEN disk ELSE DriverReady(disk), FALSE)
  /\ guest' = IF disk.queue_ready THEN guest ELSE [guest EXCEPT !.used = 0]

\* rv64_sys_raise for ECALL and EBREAK, which count as visible instructions, and fault
\* for a load, which does not: fault takes back what the loop will add.
Trap(h, cause, dv) ==
  /\ Retire(h, [harts EXCEPT ![h] =
                  Trapped(@, cause, @.medeleg, mtimecmp[h], visible_icount)], dv, yield_hart)
  /\ UNCHANGED <<msip, mtimecmp, devices, guest>>

Ecall(h) == Running(h) /\ Instr(h, "ecall") # {} /\ Trap(h, "ECALL", 1)
LoadFault(h) == Running(h) /\ Instr(h, "load fault") # {} /\ Trap(h, "FAULT", 0)

\* A fetch that faults leaves the loop before anything is counted.
FetchFault(h) ==
  /\ Running(h) /\ Instr(h, "fetch fault") # {}
  /\ harts' = [harts EXCEPT ![h] = Trapped(@, "FAULT", @.medeleg, mtimecmp[h], visible_icount)]
  /\ phase' = "schedule"
  /\ UNCHANGED <<msip, mtimecmp, devices, visible_icount, insn_count, config,
                 active_hart, yield_hart, next_hart, guest>>

Xret(h) ==
  /\ Running(h)
  /\ \E i \in Instr(h, "xret") :
       Retire(h, [harts EXCEPT ![h] = Returned(@, i.mode = "M", mtimecmp[h], visible_icount)], 1,
              yield_hart)
  /\ UNCHANGED <<msip, mtimecmp, devices, guest>>

-----------------------------------------------------------------------------
(* Input, WFI and the scheduler (the outer loop of rv64_sys_run)             *)

\* uart_inject_pump after n instructions, and what it does to the PLIC and to the harts.
Pumped(n) == IF n >= inject_at THEN UartPump(uart) ELSE uart
PumpedPlic(n) ==
  IF Pumped(n) = uart THEN plic ELSE SetIrq(plic, UART_IRQ, UartPending(Pumped(n)))
PumpedHarts(hs, n, v) == IF Pumped(n) = uart THEN hs ELSE PlicUpdate(hs, PumpedPlic(n), v)
Pump(n) == uart' = Pumped(n) /\ plic' = PumpedPlic(n) /\ UNCHANGED <<msip, mtimecmp, disk, guest>>

\* wfi_advance_virtual_time
WfiTime(cmp, v) ==
  LET most == Never \div TicksPer
      to == (IF cmp > most THEN most ELSE cmp) * TicksPer
  IN IF cmp = Never \/ Mtime(v) >= cmp \/ to <= v THEN v ELSE to

\* WFI retires, and the hart sleeps unless it has an interrupt to take.
Wfi(h) ==
  LET v == visible_icount + 1
      n == insn_count + 1
      hs == PumpedHarts([Fetched(h) EXCEPT ![h].steps_left = 0], n, v)
      sleeps == hs[h].irq_next_check > v
      to == IF sleeps /\ num_harts = 1 THEN WfiTime(mtimecmp[h], v) ELSE v
  IN /\ Running(h) /\ Instr(h, "wfi") # {}
     /\ Pump(n)
     /\ Retire(h, [hs EXCEPT ![h].wfi_sleeping = sleeps], to - visible_icount, yield_hart)

\* The first of the harts in turn from `start', in the set ok.
First(start, ok) ==
  LET i == CHOOSE i \in 0 .. num_harts - 1 :
             /\ (start + i) % num_harts \in ok
             /\ \A j \in 0 .. i - 1 : (start + j) % num_harts \notin ok
  IN (start + i) % num_harts

\* Harts looked at on the way to h: those that sleep were refreshed.
Until(start, h) == {(start + j) % num_harts : j \in 0 .. (h + num_harts - start) % num_harts}
Looked(hs, set, v) ==
  [h \in Harts |-> IF h \in set /\ hs[h].wfi_sleeping THEN Refresh(hs, h, v) ELSE hs[h]]

\* hart_has_wfi_wake_event
Wakes(hs, h, v) == Refresh(hs, h, v).mip \cap PlatformMask # {}
Asleep == {h \in Harts : harts[h].wfi_sleeping}

\* The rest of a turn of rv64_sys_run once hart h was chosen at count v, with the harts hs:
\* input, the interrupt check, and how many instructions until the next one.
Dispatch(h, hs, v) ==
  LET pumped == PumpedHarts([hs EXCEPT ![h].wfi_sleeping = FALSE], insn_count, v)
      hr == IF v >= pumped[h].irq_next_check THEN Checked(pumped[h], mtimecmp[h], v)
            ELSE pumped[h]
      left == MaxInsns - insn_count
      steps == IF hr.irq_next_check <= v THEN 1
               ELSE IF hr.irq_next_check - v < left THEN hr.irq_next_check - v ELSE left
  IN /\ harts' = [pumped EXCEPT ![h] = [hr EXCEPT !.steps_left = steps]]
     /\ active_hart' = h /\ visible_icount' = v /\ phase' = "run"
     /\ Pump(insn_count)
     /\ UNCHANGED <<insn_count, config>>

Scheduling == phase = "schedule" /\ insn_count < MaxInsns

\* A yield goes to the hart named, or the next that can run.
CanRun == {h \in Harts : ~harts[h].wfi_sleeping \/ Wakes(harts, h, visible_icount)}
Yielded == yield_hart # NoHart /\ CanRun # {}

ScheduleYield ==
  /\ Scheduling /\ Yielded
  /\ LET h == First(yield_hart, CanRun)
     IN /\ Dispatch(h, Looked(harts, Until(yield_hart, h), visible_icount), visible_icount)
        /\ yield_hart' = NoHart /\ next_hart' = Following(h)

\* Without one, the active hart goes on.  (A yield that nobody could take is dropped.)
ScheduleCurrent ==
  /\ Scheduling /\ ~Yielded /\ active_hart # NoHart /\ active_hart \notin Asleep
  /\ Dispatch(active_hart, harts, visible_icount)
  /\ yield_hart' = NoHart /\ UNCHANGED next_hart

\* When it sleeps, the next hart that is awake, woken, or still waits in the reset ROM.
InRom == IF active_hart = NoHart THEN {} ELSE {h \in Asleep : harts[h].pc = Rom}
Eligible == CanRun \cup InRom
NoneGoesOn == ~Yielded /\ (active_hart = NoHart \/ active_hart \in Asleep)

ScheduleNext ==
  /\ Scheduling /\ NoneGoesOn /\ Eligible # {}
  /\ LET h == First(next_hart, Eligible)
         set == IF yield_hart = NoHart THEN Until(next_hart, h) \ InRom ELSE Harts
         hs == Looked(harts, set, visible_icount)
     IN /\ Dispatch(h, hs, visible_icount)
        /\ yield_hart' = NoHart /\ next_hart' = Following(h)

\* When all sleep, time goes on to the first timer.
Deadlines == {EventCount(mtimecmp[h], visible_icount) : h \in Harts} \ {Never}

\* A mutant: time goes on to the last timer.
JumpToLast ==
  IF Deadlines = {} THEN visible_icount
  ELSE CHOOSE d \in Deadlines : \A e \in Deadlines : e <= d

JumpTo ==
  IF Deadlines = {} THEN visible_icount
  ELSE CHOOSE d \in Deadlines : \A e \in Deadlines : d <= e

WokenAt(v) == {h \in Harts : Wakes(harts, h, v)}

ScheduleJump ==
  /\ Scheduling /\ NoneGoesOn /\ Eligible = {} /\ WokenAt(JumpTo) # {}
  /\ LET h == First(next_hart, WokenAt(JumpTo))
         seen == Looked(harts, Harts, visible_icount)
     IN /\ Dispatch(h, Looked(seen, Until(next_hart, h), JumpTo), JumpTo)
        /\ yield_hart' = NoHart /\ next_hart' = Following(h)

\* "all harts sleeping with no scheduled interrupt" ends the simulation.
ScheduleStuck ==
  /\ Scheduling /\ NoneGoesOn /\ Eligible = {} /\ WokenAt(JumpTo) = {}
  /\ phase' = "stuck"
  /\ UNCHANGED <<harts, msip, mtimecmp, devices, visible_icount, insn_count, config,
                 active_hart, yield_hart, next_hart, guest>>

Schedule ==
  \/ ScheduleYield \/ ScheduleCurrent \/ ScheduleNext \/ ScheduleJump \/ ScheduleStuck

Execute(h) ==
  \/ Compute(h) \/ Jump(h) \/ Pause(h) \/ Csr(h) \/ SetEpc(h)
  \/ WriteMsip(h) \/ WriteMtimecmp(h) \/ Enable(h) \/ Claim(h) \/ Complete(h)
  \/ ReadRbr(h) \/ ReadIir(h) \/ WriteThr(h) \/ WriteIer(h)
  \/ Submit(h) \/ Notify(h) \/ Ack(h) \/ Reap(h) \/ Reset(h) \/ Ready(h)
  \/ Ecall(h) \/ LoadFault(h) \/ FetchFault(h) \/ Xret(h) \/ Wfi(h)

Next == Schedule \/ \E h \in Harts : Execute(h)

Spec == Init /\ [][Next]_vars

-----------------------------------------------------------------------------
(* What the architecture says of interrupts, with no caches.                 *)

Pending(h, p, v) ==
  (harts[h].mip \cap {"SSI", "STI"})
    \cup (IF Mtime(v) >= mtimecmp[h] THEN {"MTI"} ELSE {})
    \cup (IF msip[h] THEN {"MSI"} ELSE {})
    \cup (IF Candidates(p, <<h, "M">>) # {} THEN {"MEI"} ELSE {})
    \cup (IF Candidates(p, <<h, "S">>) # {} \/ harts[h].mip_seip_sw THEN {"SEI"} ELSE {})

Takes(hr, i) ==
  /\ i \in hr.mie
  /\ IF i \in hr.mideleg THEN hr.priv = U \/ (hr.priv = S /\ "SIE" \in hr.mstatus)
     ELSE hr.priv # M \/ "MIE" \in hr.mstatus

Due(h, p, v) == {i \in Pending(h, p, v) : Takes(harts[h], i)}

HartType ==
  [pc : Places,
   priv : {U, S, M}, mstatus : SUBSET Flags,
   mie : SUBSET Irqs, mip : SUBSET Irqs, mip_seip_sw : BOOLEAN,
   mideleg : SUBSET {"SSI", "STI", "SEI"}, medeleg : SUBSET Causes,
   mepc : Places, sepc : Places,
   x : {0} \cup Sources, irq_deliverable : SUBSET Irqs, irq_next_check : Nat,
   steps_left : 0 .. MaxInsns, wfi_sleeping : BOOLEAN]

\* Besides the types: the MPP field is never H, the active hart runs while instructions
\* are left, and no other count is left behind.
TypeOK ==
  /\ harts \in [Harts -> HartType]
  /\ msip \in [Harts -> BOOLEAN] /\ mtimecmp \in [Harts -> Nat] /\ plic \in PlicType
  /\ visible_icount \in Nat /\ insn_count \in 0 .. MaxInsns
  /\ active_hart \in Harts \cup {NoHart} /\ yield_hart \in Harts \cup {NoHart}
  /\ next_hart \in Harts
  /\ \A h \in Harts : "MPP1" \in harts[h].mstatus => "MPP0" \in harts[h].mstatus
  /\ phase = "run" => harts[active_hart].steps_left > 0 /\ ~harts[active_hart].wfi_sleeping

\* No interrupt is missed, though the code looks at them only at cached deadlines: a
\* hart executes an instruction only when, by the state of the devices and of its CSRs,
\* it has no interrupt to take.  And the simulation gives up only when no hart could
\* ever be woken: nothing is pending, and no timer is armed that the count can reach.
NoneMissed ==
  /\ phase = "run" => Due(active_hart, plic, visible_icount) = {}
  /\ phase = "stuck" =>
       \A h \in Harts : /\ harts[h].wfi_sleeping /\ mtimecmp[h] * TicksPer >= Never
                        /\ Pending(h, plic, visible_icount) \cap PlatformMask = {}

\* An interrupt is taken only when it is there, of the devices as they are then.
Interrupted(h) == phase = "schedule" /\ harts'[h].pc # harts[h].pc
TakenWhenDue ==
  [][\A h \in Harts : Interrupted(h) =>
       harts'[h].pc.in[2] \in Due(h, plic', visible_icount')]_vars

\* Virtual time jumps only while every hart sleeps, and never past a timer.
TimeKept ==
  [][visible_icount' > visible_icount + 1 =>
       /\ \A h \in Harts \ {active_hart'} : harts[h].wfi_sleeping
       /\ \A h \in Harts : visible_icount' <= mtimecmp[h] * TicksPer]_vars

\* The guest gets the scripted bytes in order, none lost and none twice, and of the disk
\* its requests in order: a used buffer is the oldest request's, with its data.  When
\* the simulation gives up, no device still holds its line.
DevicesServe ==
  /\ uart.rx_count \in 0 .. FifoSize /\ Outstanding(disk) \in 0 .. QueueSize
  /\ phase = "stuck" => plic.level = {}
  /\ guest.input \o UartQueued(uart) \o uart.inject \in Injects
  /\ \A i \in 1 .. (disk.used_mem + IndexMod - guest.used) % IndexMod :
       /\ i \in DOMAIN guest.requests
       /\ disk.used[(guest.used + i - 1) % QueueSize] = guest.requests[i].head
       /\ disk.buf[guest.requests[i].head] = guest.requests[i].value
=============================================================================
