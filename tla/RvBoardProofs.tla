---------------------------- MODULE RvBoardProofs ----------------------------
(***************************************************************************)
(* Theorems about RvBoard, for any number of harts and any guest whose     *)
(* instructions are well formed.                                           *)
(***************************************************************************)
EXTENDS RvBoard, WellFoundedInduction, TLAPS

\* What a hart's record must be at count v, given its software interrupt, its timer and
\* the PLIC.  The interrupts it would take are cached exactly,
Exact(hr) == hr.irq_deliverable = {i \in Irqs : Takes(hr, i)}

\* the pending bits follow the devices,
Wired(h, hr, soft, p) ==
  /\ "MSI" \in hr.mip <=> soft
  /\ "MEI" \in hr.mip <=> Candidates(p, <<h, "M">>) # {}
  /\ "SEI" \in hr.mip <=> (Candidates(p, <<h, "S">>) # {} \/ hr.mip_seip_sw)

\* and the deadline is not later than an interrupt that it would take.
Timely(hr, cmp, v) ==
  /\ (hr.mip \cap hr.irq_deliverable) \ {"MTI"} # {} => hr.irq_next_check <= v
  /\ "MTI" \in hr.irq_deliverable =>
       hr.irq_next_check <= v \/ hr.irq_next_check <= cmp * TicksPer

Legal(hr) == hr \in HartType /\ ("MPP1" \in hr.mstatus => "MPP0" \in hr.mstatus)

Kept(h, hr, soft, cmp, p, v) ==
  Legal(hr) /\ Exact(hr) /\ Wired(h, hr, soft, p) /\ Timely(hr, cmp, v)

\* The hart has no interrupt to take.
Quiet(hr, cmp, v) ==
  /\ (hr.mip \cap hr.irq_deliverable) \ {"MTI"} = {}
  /\ "MTI" \in hr.irq_deliverable => Mtime(v) < cmp

LEMMA Bounds ==
  /\ MaxHarts \in Nat /\ MaxHarts > 0 /\ TicksPer \in Nat /\ TicksPer > 0
  /\ MaxInsns \in Nat /\ Never \in Nat /\ HartCounts \subseteq 1 .. MaxHarts
  /\ Quanta \subseteq Nat
BY BoardAssumption, DevicesAssumption

LEMMA Ticks ==
  ASSUME NEW v \in Nat, NEW cmp \in Nat
  PROVE  /\ Mtime(v) \in Nat /\ cmp * TicksPer \in Nat
         /\ Mtime(v) >= cmp <=> v >= cmp * TicksPer
         /\ cmp > Never \div TicksPer => cmp * TicksPer > Never
BY Bounds DEF Mtime

\* The code's count never comes later than the timer.
LEMMA EventInTime ==
  ASSUME NEW v \in Nat, NEW cmp \in Nat
  PROVE  /\ EventCount(cmp, v) \in Nat
         /\ EventCount(cmp, v) <= v \/ EventCount(cmp, v) <= cmp * TicksPer
         /\ Mtime(v) < cmp => EventCount(cmp, v) > v \/ EventCount(cmp, v) = Never
<1>1. cmp * TicksPer >= cmp
  BY Bounds
<1> QED BY Bounds, Ticks, <1>1 DEF EventCount

\* A hart's record but for the cached deadline, the cached interrupts, and mip.
Same(r, hr) ==
  /\ r.pc = hr.pc /\ r.priv = hr.priv /\ r.mstatus = hr.mstatus /\ r.mie = hr.mie
  /\ r.mip_seip_sw = hr.mip_seip_sw /\ r.mideleg = hr.mideleg
  /\ r.wfi_sleeping = hr.wfi_sleeping

\* What irq_reschedule leaves: the record hr with the deadline set anew.
Renewed(r, hr, cmp, v) ==
  /\ Legal(r) /\ Timely(r, cmp, v) /\ r.steps_left = 0
  /\ Same(r, hr) /\ r.mip = hr.mip /\ r.irq_deliverable = hr.irq_deliverable

LEMMA RescheduledKeeps ==
  ASSUME NEW hr, Legal(hr), NEW cmp \in Nat, NEW v \in Nat,
         NEW r, r = Rescheduled(hr, cmp, v)
  PROVE  Renewed(r, hr, cmp, v)
<1> DEFINE next == IF (hr.mip \cap hr.irq_deliverable) \ {"MTI"} # {} THEN v
                   ELSE IF "MTI" \in hr.irq_deliverable THEN EventCount(cmp, v)
                   ELSE Never
<1>1. next \in Nat
  BY EventInTime, Bounds
<1>2. r = [hr EXCEPT !.irq_next_check = next, !.steps_left = 0]
  BY DEF Rescheduled
<1>3. /\ (hr.mip \cap hr.irq_deliverable) \ {"MTI"} # {} => next <= v
      /\ "MTI" \in hr.irq_deliverable => next <= v \/ next <= cmp * TicksPer
  <2>1. CASE (hr.mip \cap hr.irq_deliverable) \ {"MTI"} # {}
    BY <2>1
  <2>2. CASE (hr.mip \cap hr.irq_deliverable) \ {"MTI"} = {} /\ "MTI" \in hr.irq_deliverable
    BY <2>2, EventInTime
  <2>3. CASE (hr.mip \cap hr.irq_deliverable) \ {"MTI"} = {} /\ "MTI" \notin hr.irq_deliverable
    BY <2>3
  <2> QED BY <2>1, <2>2, <2>3
<1> HIDE DEF next
<1>4. /\ r.irq_next_check = next /\ r.steps_left = 0
      /\ Same(r, hr) /\ r.mip = hr.mip /\ r.irq_deliverable = hr.irq_deliverable
  BY <1>2 DEF Legal, HartType, Same
<1>5. r \in HartType
  <2>1. 0 \in 0 .. MaxInsns
    BY Bounds
  <2>2. hr \in HartType
    BY DEF Legal
  <2> QED BY <2>1, <2>2, <1>1, <1>2 DEF HartType
<1> QED BY <1>3, <1>4, <1>5 DEF Renewed, Legal, Timely, Same


LEMMA RecomputedKeeps ==
  ASSUME NEW hr, Legal(hr), NEW cmp \in Nat, NEW v \in Nat,
         NEW r, r = Recomputed(hr, cmp, v)
  PROVE  /\ Legal(r) /\ Timely(r, cmp, v) /\ Exact(r) /\ r.steps_left = 0
         /\ Same(r, hr) /\ r.mip = hr.mip
<1> DEFINE m == IF hr.priv < M \/ "MIE" \in hr.mstatus THEN hr.mie \ hr.mideleg ELSE {}
           s == IF hr.priv < S \/ (hr.priv = S /\ "SIE" \in hr.mstatus)
                THEN hr.mie \cap hr.mideleg ELSE {}
           d == [hr EXCEPT !.irq_deliverable = m \cup s]
<1>1. /\ hr.priv \in {U, S, M} /\ hr.mie \subseteq Irqs /\ hr \in HartType
  BY DEF Legal, HartType
<1>2. m \cup s = {i \in Irqs : Takes(hr, i)}
  BY <1>1 DEF Takes, U, S, M
<1>3. m \cup s \in SUBSET Irqs
  BY <1>1
<1> HIDE DEF m, s
<1>4. /\ d.irq_deliverable = m \cup s /\ Same(d, hr) /\ d.mip = hr.mip
  BY <1>1 DEF HartType, Same
<1>5. d \in HartType
  BY <1>1, <1>3 DEF HartType
<1> HIDE DEF d
<1>6. Legal(d)
  BY <1>4, <1>5 DEF Legal, Same
<1>7. r = Rescheduled(d, cmp, v)
  BY DEF Recomputed, m, s, d
<1>8. Renewed(r, d, cmp, v)
  BY <1>6, <1>7, RescheduledKeeps
<1>9. \A i : Takes(r, i) <=> Takes(hr, i)
  BY <1>4, <1>8 DEF Takes, Renewed, Same
<1> QED BY <1>2, <1>4, <1>8, <1>9 DEF Exact, Renewed, Same

LEMMA RefreshedKeeps ==
  ASSUME NEW hr, Legal(hr), NEW cmp \in Nat, NEW v \in Nat, NEW soft \in BOOLEAN,
         NEW r, r = Refreshed(hr, cmp, soft, v)
  PROVE  /\ Legal(r) /\ Timely(r, cmp, v) /\ r.steps_left = 0
         /\ Same(r, hr) /\ r.irq_deliverable = hr.irq_deliverable
         /\ "MSI" \in r.mip <=> soft
         /\ "MTI" \in r.mip <=> Mtime(v) >= cmp
         /\ \A i \in Irqs \ {"MSI", "MTI"} : i \in r.mip <=> i \in hr.mip
<1> DEFINE mip == With(With(hr.mip, "MTI", Mtime(v) >= cmp), "MSI", soft)
           d == [hr EXCEPT !.mip = mip]
<1>1. hr \in HartType /\ hr.mip \subseteq Irqs
  BY DEF Legal, HartType
<1>2. mip \in SUBSET Irqs
  BY <1>1 DEF With, Irqs
<1>3. /\ "MSI" \in mip <=> soft
      /\ "MTI" \in mip <=> Mtime(v) >= cmp
      /\ \A i \in Irqs \ {"MSI", "MTI"} : i \in mip <=> i \in hr.mip
  BY DEF With
<1> HIDE DEF mip
<1>4. d.mip = mip /\ Same(d, hr) /\ d.irq_deliverable = hr.irq_deliverable
  BY <1>1 DEF HartType, Same
<1>5. d \in HartType
  BY <1>1, <1>2 DEF HartType
<1> HIDE DEF d
<1>6. Legal(d)
  BY <1>4, <1>5 DEF Legal, Same
<1>7. r = Rescheduled(d, cmp, v)
  BY DEF Refreshed, mip, d
<1>8. Renewed(r, d, cmp, v)
  BY <1>6, <1>7, RescheduledKeeps
<1> QED BY <1>3, <1>4, <1>8 DEF Renewed, Same


-----------------------------------------------------------------------------
(* All harts, and the invariant.                                           *)

AllKept(hs, soft, cmp, p, v) ==
  /\ hs \in [Harts -> HartType]
  /\ \A h \in Harts : Kept(h, hs[h], soft[h], cmp[h], p, v)

\* While a hart runs it has no interrupt to take, and it is looked at again when, or
\* before, it may have one.
RunKept ==
  phase = "run" =>
    LET hr == harts[active_hart]
    IN /\ active_hart \in Harts /\ insn_count + hr.steps_left <= MaxInsns
       /\ Quiet(hr, mtimecmp[active_hart], visible_icount)
       /\ hr.steps_left > 1 => visible_icount + hr.steps_left <= hr.irq_next_check

StuckKept ==
  phase = "stuck" =>
    \A h \in Harts : /\ harts[h].wfi_sleeping /\ mtimecmp[h] * TicksPer >= Never
                     /\ Pending(h, plic, visible_icount) \cap PlatformMask = {}

BoardInv ==
  /\ TypeOK /\ num_harts \in HartCounts
  /\ AllKept(harts, msip, mtimecmp, plic, visible_icount)
  /\ RunKept /\ StuckKept

LEMMA HartsBound ==
  ASSUME num_harts \in HartCounts
  PROVE  /\ num_harts \in Nat /\ num_harts > 0 /\ Harts \subseteq 0 .. MaxHarts - 1
         /\ \A h \in Harts : h \in Nat /\ Following(h) \in Harts /\ h # NoHart
BY Bounds DEF Harts, Following, NoHart

\* A deadline that was right stays right as time goes on.
LEMMA TimelyLater ==
  ASSUME NEW hr, Legal(hr), NEW cmp, NEW v \in Nat, NEW w \in Nat, v <= w, Timely(hr, cmp, v)
  PROVE  Timely(hr, cmp, w)
<1>1. hr.irq_next_check \in Nat
  BY DEF Legal, HartType
<1>2. hr.irq_next_check <= v => hr.irq_next_check <= w
  BY <1>1
<1> QED BY <1>2 DEF Timely

LEMMA AllLater ==
  ASSUME NEW hs, NEW soft, NEW cmp, NEW p, NEW v \in Nat, NEW w \in Nat, v <= w,
         AllKept(hs, soft, cmp, p, v)
  PROVE  AllKept(hs, soft, cmp, p, w)
BY TimelyLater DEF AllKept, Kept

\* Before its deadline a hart has no interrupt to take.
LEMMA BeforeDeadline ==
  ASSUME NEW hr, Legal(hr), NEW cmp \in Nat, NEW v \in Nat, Timely(hr, cmp, v),
         v < hr.irq_next_check
  PROVE  Quiet(hr, cmp, v)
<1>1. hr.irq_next_check \in Nat
  BY DEF Legal, HartType
<1>2. ~(hr.irq_next_check <= v)
  BY <1>1
<1>3. cmp * TicksPer \in Nat /\ (Mtime(v) >= cmp <=> v >= cmp * TicksPer) /\ Mtime(v) \in Nat
  BY Ticks
<1>4. (hr.mip \cap hr.irq_deliverable) \ {"MTI"} = {}
  BY <1>2 DEF Timely
<1>5. "MTI" \in hr.irq_deliverable => v < cmp * TicksPer
  BY <1>1, <1>2, <1>3 DEF Timely
<1>6. "MTI" \in hr.irq_deliverable => Mtime(v) < cmp
  BY <1>3, <1>5
<1> QED BY <1>4, <1>6 DEF Quiet

\* A quiet hart has no interrupt due, by the state of the devices.
LEMMA QuietNotDue ==
  ASSUME NEW h \in Harts, Kept(h, harts[h], msip[h], mtimecmp[h], plic, visible_icount),
         mtimecmp[h] \in Nat, visible_icount \in Nat,
         Quiet(harts[h], mtimecmp[h], visible_icount)
  PROVE  Due(h, plic, visible_icount) = {}
<1> SUFFICES ASSUME NEW i \in Due(h, plic, visible_icount) PROVE FALSE
  OBVIOUS
<1>1. i \in Pending(h, plic, visible_icount) /\ Takes(harts[h], i)
  BY DEF Due
<1>2. i \in Irqs
  BY <1>1 DEF Pending, Irqs
<1>3. i \in harts[h].irq_deliverable
  BY <1>1, <1>2 DEF Kept, Exact
<1>4. i # "MTI" => i \in harts[h].mip
  BY <1>1 DEF Pending, Kept, Wired
<1>5. i = "MTI" => Mtime(visible_icount) >= mtimecmp[h]
  BY <1>1 DEF Pending
<1>6. Mtime(visible_icount) \in Nat
  BY Ticks
<1> QED BY <1>3, <1>4, <1>5, <1>6 DEF Quiet


-----------------------------------------------------------------------------
(* The PLIC, and the instructions' effects on the harts.                   *)

LEMMA BestFound ==
  ASSUME NEW p \in PlicType, NEW c \in Contexts
  PROVE  /\ PlicBest(p, c) \in {0} \cup Sources
         /\ PlicBest(p, c) # 0 <=> Candidates(p, c) # {}
<1> DEFINE beats(s, t) == \/ p.priority[s] > p.priority[t]
                          \/ (p.priority[s] = p.priority[t] /\ s <= t)
           cs == Candidates(p, c)
<1>1. /\ p.priority[1] \in Nat /\ p.priority[10] \in Nat
  BY DEF PlicType, Sources, VIRTIO_BLK_IRQ, UART_IRQ
<1>2. cs \subseteq {1, 10}
  BY DEF Candidates, PlicType, Sources, VIRTIO_BLK_IRQ, UART_IRQ
<1>3. cs # {} => \E s \in cs : \A t \in cs : beats(s, t)
  <2>1. CASE 1 \in cs /\ 10 \in cs
    <3>1. beats(1, 1) /\ beats(10, 10) /\ (beats(1, 10) \/ beats(10, 1))
      BY <1>1
    <3> QED BY <2>1, <1>2, <3>1
  <2>2. CASE cs = {1}
    BY <2>2, <1>1
  <2>3. CASE cs = {10}
    BY <2>3, <1>1
  <2> QED BY <1>2, <2>1, <2>2, <2>3
<1> DEFINE best == CHOOSE s \in cs : \A t \in cs : beats(s, t)
<1>4. cs # {} => best \in cs
  BY <1>3
<1>5. PlicBest(p, c) = IF cs = {} THEN 0 ELSE best
  BY DEF PlicBest
<1> HIDE DEF best
<1> QED BY <1>2, <1>4, <1>5 DEF Sources, VIRTIO_BLK_IRQ, UART_IRQ

\* The hart's interrupts are as they were.
Unmoved(r, hr) ==
  /\ r.mip = hr.mip /\ r.irq_deliverable = hr.irq_deliverable
  /\ r.irq_next_check = hr.irq_next_check
  /\ r.priv = hr.priv /\ r.mstatus = hr.mstatus /\ r.mie = hr.mie /\ r.mideleg = hr.mideleg
  /\ r.mip_seip_sw = hr.mip_seip_sw /\ r.wfi_sleeping = hr.wfi_sleeping

LEMMA UnmovedKept ==
  ASSUME NEW h, NEW hr, NEW soft, NEW cmp, NEW p, NEW v,
         Kept(h, hr, soft, cmp, p, v), NEW r, r \in HartType, Unmoved(r, hr)
  PROVE  Kept(h, r, soft, cmp, p, v)
<1>1. \A i : Takes(r, i) <=> Takes(hr, i)
  BY DEF Takes, Unmoved
<1>2. Legal(r)
  BY DEF Kept, Legal, Unmoved
<1> QED BY <1>1, <1>2 DEF Kept, Exact, Wired, Timely, Unmoved

\* plic_update brings a hart in step with the PLIC p, and its deadline stays in time.
LEMMA PlicUpdateHart ==
  ASSUME NEW p \in PlicType, NEW v \in Nat, NEW h \in Harts, NEW hs, NEW soft,
         num_harts \in HartCounts, mtimecmp[h] \in Nat, Legal(hs[h]),
         NEW new, new = PlicUpdate(hs, p, v)
  PROVE  /\ Legal(new[h]) /\ Same(new[h], hs[h])
         /\ new[h].irq_deliverable = hs[h].irq_deliverable
         /\ new[h].mip \ {"MEI", "SEI"} = hs[h].mip \ {"MEI", "SEI"}
         /\ new[h] = hs[h] \/ new[h].steps_left = 0
         /\ ("MSI" \in hs[h].mip <=> soft) => Wired(h, new[h], soft, p)
         /\ Timely(hs[h], mtimecmp[h], v) => Timely(new[h], mtimecmp[h], v)
<1> DEFINE hr == hs[h]
           mip == With(With(hr.mip, "MEI", PlicBest(p, <<h, "M">>) # 0), "SEI",
                       PlicBest(p, <<h, "S">>) # 0 \/ hr.mip_seip_sw)
           d == [hr EXCEPT !.mip = mip]
<1>1. hr \in HartType /\ hr.mip \subseteq Irqs
  BY DEF Legal, HartType
<1>2. mip \in SUBSET Irqs
  BY <1>1 DEF With, Irqs
<1>3. <<h, "M">> \in Contexts /\ <<h, "S">> \in Contexts
  BY HartsBound DEF Contexts
<1>4. /\ "MEI" \in mip <=> Candidates(p, <<h, "M">>) # {}
      /\ "SEI" \in mip <=> (Candidates(p, <<h, "S">>) # {} \/ hr.mip_seip_sw)
  BY <1>3, BestFound DEF With
<1>5. mip \ {"MEI", "SEI"} = hr.mip \ {"MEI", "SEI"}
  BY DEF With
<1>6. new[h] = IF mip = hr.mip THEN hr ELSE Rescheduled(d, mtimecmp[h], v)
  BY DEF PlicUpdate
<1> HIDE DEF mip
<1>7. CASE mip = hr.mip
  BY <1>4, <1>6, <1>7 DEF Wired, Same
<1>8. CASE mip # hr.mip
  <2>1. d.mip = mip /\ Same(d, hr) /\ d.irq_deliverable = hr.irq_deliverable /\ d \in HartType
    BY <1>1, <1>2 DEF HartType, Same
  <2> HIDE DEF d
  <2>2. Legal(d)
    BY <2>1 DEF Legal, Same
  <2>3. Renewed(new[h], d, mtimecmp[h], v)
    BY <1>6, <1>8, <2>2, RescheduledKeeps
  <2> QED BY <1>4, <1>5, <2>1, <2>3 DEF Renewed, Same, Wired
<1> QED BY <1>7, <1>8

\* The interrupts that a hart would take are the same if the CSRs are.
LEMMA SameTakes ==
  ASSUME NEW r, NEW hr, Same(r, hr), r.irq_deliverable = hr.irq_deliverable, Exact(hr)
  PROVE  Exact(r)
<1>1. \A i : Takes(r, i) <=> Takes(hr, i)
  BY DEF Takes, Same
<1> QED BY <1>1 DEF Exact

\* What plic_update may change of the harts.
Updated(new, hs) ==
  \A h \in Harts : /\ Same(new[h], hs[h])
                   /\ new[h] = hs[h] \/ new[h].steps_left = 0
                   /\ new[h].mip \ {"MEI", "SEI"} = hs[h].mip \ {"MEI", "SEI"}
                   /\ new[h].irq_deliverable = hs[h].irq_deliverable

LEMMA PlicUpdateKeeps ==
  ASSUME NEW p \in PlicType, NEW q, NEW soft, NEW v \in Nat, NEW hs,
         num_harts \in HartCounts, mtimecmp \in [Harts -> Nat],
         AllKept(hs, soft, mtimecmp, q, v),
         NEW new, new = PlicUpdate(hs, p, v)
  PROVE  AllKept(new, soft, mtimecmp, p, v) /\ Updated(new, hs)
<1>1. ASSUME NEW h \in Harts
      PROVE  /\ Kept(h, new[h], soft[h], mtimecmp[h], p, v)
             /\ Same(new[h], hs[h])
             /\ new[h] = hs[h] \/ new[h].steps_left = 0
             /\ new[h].mip \ {"MEI", "SEI"} = hs[h].mip \ {"MEI", "SEI"}
             /\ new[h].irq_deliverable = hs[h].irq_deliverable
  <2>1. Kept(h, hs[h], soft[h], mtimecmp[h], q, v) /\ mtimecmp[h] \in Nat
    BY <1>1 DEF AllKept
  <2>2. Legal(hs[h]) /\ Exact(hs[h]) /\ ("MSI" \in hs[h].mip <=> soft[h])
        /\ Timely(hs[h], mtimecmp[h], v)
    BY <2>1 DEF Kept, Wired
  <2>3. /\ Legal(new[h]) /\ Same(new[h], hs[h])
        /\ new[h].irq_deliverable = hs[h].irq_deliverable
        /\ new[h].mip \ {"MEI", "SEI"} = hs[h].mip \ {"MEI", "SEI"}
        /\ new[h] = hs[h] \/ new[h].steps_left = 0
        /\ Wired(h, new[h], soft[h], p)
        /\ Timely(new[h], mtimecmp[h], v)
    BY <1>1, <2>1, <2>2, PlicUpdateHart
  <2>4. Exact(new[h])
    BY <2>2, <2>3, SameTakes
  <2> QED BY <2>3, <2>4 DEF Kept
<1>2. \A h \in Harts : new[h] \in HartType
  BY <1>1 DEF Kept, Legal
<1>3. new = [h \in Harts |-> new[h]]
  BY DEF PlicUpdate
<1> QED BY <1>1, <1>2, <1>3 DEF AllKept, Updated

-----------------------------------------------------------------------------
(* Traps                                                                   *)

\* What irq_recompute_deliverable leaves of the record hr.
Settled(r, hr, cmp, v) ==
  /\ Legal(r) /\ Exact(r) /\ Timely(r, cmp, v) /\ r.steps_left = 0
  /\ Same(r, hr) /\ r.mip = hr.mip

LEMMA RecomputedSettles ==
  ASSUME NEW hr, Legal(hr), NEW cmp \in Nat, NEW v \in Nat,
         NEW r, r = Recomputed(hr, cmp, v)
  PROVE  Settled(r, hr, cmp, v)
BY RecomputedKeeps DEF Settled

\* A trap leaves mip alone and disables interrupts in the mode it enters.
LEMMA TrappedKeeps ==
  ASSUME NEW hr, Legal(hr), NEW cmp \in Nat, NEW v \in Nat, NEW deleg,
         NEW cause \in Irqs \cup Causes,
         NEW r, r = Trapped(hr, cause, deleg, cmp, v)
  PROVE  /\ Legal(r) /\ Exact(r) /\ Timely(r, cmp, v) /\ r.steps_left = 0
         /\ r.mip = hr.mip /\ r.mip_seip_sw = hr.mip_seip_sw /\ r.mie = hr.mie
         /\ r.mideleg = hr.mideleg /\ r.wfi_sleeping = hr.wfi_sleeping
         /\ r.pc.in[2] = cause
         /\ IF hr.priv <= S /\ cause \in deleg THEN r.priv = S /\ "SIE" \notin r.mstatus
            ELSE r.priv = M /\ "MIE" \notin r.mstatus
<1> DEFINE ms == hr.mstatus
           sms == (ms \ {"SIE", "SPIE", "SPP"})
                    \cup (IF "SIE" \in ms THEN {"SPIE"} ELSE {})
                    \cup (IF hr.priv = S THEN {"SPP"} ELSE {})
           mms == (ms \ {"MIE", "MPIE", "MPP0", "MPP1"})
                    \cup (IF "MIE" \in ms THEN {"MPIE"} ELSE {})
                    \cup MppFlags(hr.priv)
           s == [hr EXCEPT !.sepc = hr.pc, !.priv = S, !.pc = Vector("S", cause), !.mstatus = sms]
           m == [hr EXCEPT !.mepc = hr.pc, !.priv = M, !.pc = Vector("M", cause), !.mstatus = mms]
<1>1. /\ hr \in HartType /\ ms \subseteq Flags /\ hr.pc \in Places /\ hr.priv \in {U, S, M}
      /\ ("MPP1" \in ms => "MPP0" \in ms)
  BY DEF Legal, HartType
<1>2. \A mode \in {"M", "S"} : Vector(mode, cause) \in Places /\ Vector(mode, cause).in[2] = cause
  BY DEF Vector, At, Places
<1>3. /\ sms \in SUBSET Flags /\ "SIE" \notin sms /\ ("MPP1" \in sms => "MPP0" \in sms)
  BY <1>1 DEF Flags
<1>4. /\ mms \in SUBSET Flags /\ "MIE" \notin mms /\ ("MPP1" \in mms => "MPP0" \in mms)
  BY <1>1 DEF Flags, MppFlags
<1> HIDE DEF sms, mms
<1>5. /\ s \in HartType /\ s.mstatus = sms /\ s.priv = S /\ s.pc = Vector("S", cause)
      /\ s.mip = hr.mip /\ s.mip_seip_sw = hr.mip_seip_sw /\ s.mie = hr.mie
      /\ s.mideleg = hr.mideleg /\ s.wfi_sleeping = hr.wfi_sleeping
  <2>1. S \in {U, S, M}
    OBVIOUS
  <2> QED BY <1>1, <1>2, <1>3, <2>1 DEF HartType
<1>6. /\ m \in HartType /\ m.mstatus = mms /\ m.priv = M /\ m.pc = Vector("M", cause)
      /\ m.mip = hr.mip /\ m.mip_seip_sw = hr.mip_seip_sw /\ m.mie = hr.mie
      /\ m.mideleg = hr.mideleg /\ m.wfi_sleeping = hr.wfi_sleeping
  <2>1. M \in {U, S, M}
    OBVIOUS
  <2> QED BY <1>1, <1>2, <1>4, <2>1 DEF HartType
<1>7. r = Recomputed(IF hr.priv <= S /\ cause \in deleg THEN s ELSE m, cmp, v)
  BY DEF Trapped, sms, mms
<1> HIDE DEF s, m
<1>8. Legal(s) /\ Legal(m)
  BY <1>3, <1>4, <1>5, <1>6 DEF Legal
<1>9. CASE hr.priv <= S /\ cause \in deleg
  <2>1. Settled(r, s, cmp, v)
    BY <1>7, <1>8, <1>9, RecomputedSettles
  <2> QED BY <1>2, <1>3, <1>5, <1>9, <2>1 DEF Settled, Same
<1>10. CASE ~(hr.priv <= S /\ cause \in deleg)
  <2>1. Settled(r, m, cmp, v)
    BY <1>7, <1>8, <1>10, RecomputedSettles
  <2> QED BY <1>2, <1>4, <1>6, <1>10, <2>1 DEF Settled, Same
<1> QED BY <1>9, <1>10

\* MRET and SRET.
Mret(hr, cmp, v) == Returned(hr, TRUE, cmp, v)
Sret(hr, cmp, v) == Returned(hr, FALSE, cmp, v)

LEMMA ReturnedKeeps ==
  ASSUME NEW hr, Legal(hr), NEW cmp \in Nat, NEW v \in Nat, NEW r,
         r = Mret(hr, cmp, v) \/ r = Sret(hr, cmp, v)
  PROVE  /\ Legal(r) /\ Exact(r) /\ Timely(r, cmp, v) /\ r.steps_left = 0
         /\ r.mip = hr.mip /\ r.mip_seip_sw = hr.mip_seip_sw
<1> DEFINE ms == hr.mstatus
           mms == (ms \ {"MIE", "MPP0", "MPP1"}) \cup {"MPIE"}
                    \cup (IF "MPIE" \in ms THEN {"MIE"} ELSE {})
           sms == (ms \ {"SIE", "SPP"}) \cup {"SPIE"}
                    \cup (IF "SPIE" \in ms THEN {"SIE"} ELSE {})
           spp == IF "SPP" \in ms THEN S ELSE U
           s == [hr EXCEPT !.pc = hr.sepc, !.priv = spp, !.mstatus = sms]
           m == [hr EXCEPT !.pc = hr.mepc, !.priv = MPP(hr), !.mstatus = mms]
<1>1. /\ hr \in HartType /\ ms \subseteq Flags /\ hr.mepc \in Places /\ hr.sepc \in Places
      /\ ("MPP1" \in ms => "MPP0" \in ms)
  BY DEF Legal, HartType
<1>2. spp \in {U, S, M} /\ MPP(hr) \in {U, S, M}
  BY DEF MPP
<1>3. /\ sms \in SUBSET Flags /\ ("MPP1" \in sms => "MPP0" \in sms)
      /\ mms \in SUBSET Flags /\ ("MPP1" \in mms => "MPP0" \in mms)
  BY <1>1 DEF Flags
<1> HIDE DEF sms, mms, spp
<1>4. s \in HartType /\ s.mstatus = sms /\ s.mip = hr.mip /\ s.mip_seip_sw = hr.mip_seip_sw
  BY <1>1, <1>2, <1>3 DEF HartType
<1>5. m \in HartType /\ m.mstatus = mms /\ m.mip = hr.mip /\ m.mip_seip_sw = hr.mip_seip_sw
  BY <1>1, <1>2, <1>3 DEF HartType
<1>6. r = Recomputed(m, cmp, v) \/ r = Recomputed(s, cmp, v)
  BY <1>1 DEF Mret, Sret, Returned, sms, mms, spp, HartType
<1> HIDE DEF s, m
<1>7. Legal(s) /\ Legal(m)
  BY <1>3, <1>4, <1>5 DEF Legal
<1>8. CASE r = Recomputed(m, cmp, v)
  <2>1. Settled(r, m, cmp, v)
    BY <1>6, <1>7, <1>8, RecomputedSettles
  <2> QED BY <1>5, <2>1 DEF Settled, Same
<1>9. CASE r = Recomputed(s, cmp, v)
  <2>1. Settled(r, s, cmp, v)
    BY <1>6, <1>7, <1>9, RecomputedSettles
  <2> QED BY <1>4, <2>1 DEF Settled, Same
<1> QED BY <1>6, <1>8, <1>9


\* The interrupt that check_interrupts finds is one of them.
LEMMA FirstFound ==
  ASSUME NEW first \in SUBSET Irqs, first # {},
         NEW i, i = CHOOSE k \in DOMAIN Priority :
                      Priority[k] \in first /\ \A j \in 1 .. k - 1 : Priority[j] \notin first
  PROVE  Priority[i] \in first
<1> DEFINE Least(k) == /\ k \in DOMAIN Priority /\ Priority[k] \in first
                       /\ \A j \in 1 .. k - 1 : Priority[j] \notin first
<1>1. DOMAIN Priority = 1 .. 6
  BY DEF Priority
<1>2. /\ Priority[1] = "MEI" /\ Priority[2] = "MSI" /\ Priority[3] = "MTI"
      /\ Priority[4] = "SEI" /\ Priority[5] = "SSI" /\ Priority[6] = "STI"
  BY DEF Priority
<1>3. \E k : Least(k)
  <2>1. \A n \in 1 .. 6 : (\A j \in 1 .. n - 1 : Priority[j] \notin first) /\ Priority[n] \in first
                            => Least(n)
    BY <1>1
  <2>2. \E n \in 1 .. 6 : Priority[n] \in first
    <3>1. PICK x \in first : TRUE
      OBVIOUS
    <3>2. x \in {"MEI", "MSI", "MTI", "SEI", "SSI", "STI"}
      BY DEF Irqs
    <3>3. x = Priority[1] \/ x = Priority[2] \/ x = Priority[3]
          \/ x = Priority[4] \/ x = Priority[5] \/ x = Priority[6]
      BY <1>2, <3>2
    <3> QED BY <3>3
  <2>3. \E n \in 1 .. 6 : Priority[n] \in first /\ \A j \in 1 .. n - 1 : Priority[j] \notin first
    BY <2>2
  <2> QED BY <2>1, <2>3
<1> QED BY <1>3

\* After check_interrupts a hart has none to take: it took the first, which disables the
\* others of its mode and finds no other for M, or there was none.
LEMMA CheckedKeeps ==
  ASSUME NEW h, NEW hr, NEW soft, NEW cmp \in Nat, NEW p, NEW v \in Nat,
         Kept(h, hr, soft, cmp, p, v),
         NEW r, r = Checked(hr, cmp, v)
  PROVE  /\ Kept(h, r, soft, cmp, p, v) /\ Quiet(r, cmp, v)
         /\ r.wfi_sleeping = hr.wfi_sleeping
         /\ \/ r.pc = hr.pc
            \/ /\ r.pc.in[2] \in hr.irq_deliverable
               /\ r.pc.in[2] \in hr.mip \/ r.pc.in[2] = "MTI"
               /\ r.pc.in[2] = "MTI" => Mtime(v) >= cmp
<1> DEFINE deliv == hr.irq_deliverable
           mip == IF "MTI" \in deliv THEN With(hr.mip, "MTI", Mtime(v) >= cmp) ELSE hr.mip
           all == mip \cap deliv
           first == IF all \ hr.mideleg # {} THEN all \ hr.mideleg ELSE all
           i == CHOOSE k \in DOMAIN Priority :
                  Priority[k] \in first /\ \A j \in 1 .. k - 1 : Priority[j] \notin first
           cause == Priority[i]
           now == [hr EXCEPT !.mip = mip]
<1>1. /\ hr \in HartType /\ Legal(hr) /\ hr.mip \subseteq Irqs /\ deliv \subseteq Irqs
      /\ hr.priv \in {U, S, M} /\ hr.mie \subseteq Irqs
  BY DEF Kept, Legal, HartType
<1>2. Mtime(v) \in Nat
  BY Ticks
<1>3. /\ mip \in SUBSET Irqs
      /\ "MTI" \in deliv => ("MTI" \in mip <=> Mtime(v) >= cmp)
      /\ \A k : k # "MTI" => (k \in mip <=> k \in hr.mip)
  BY <1>1 DEF With, Irqs
<1> HIDE DEF mip
<1>4. /\ now \in HartType /\ now.mip = mip /\ Same(now, hr) /\ now.irq_deliverable = deliv
  BY <1>1, <1>3 DEF HartType, Same
<1>5. r = IF all = {} THEN Rescheduled(now, cmp, v)
          ELSE Trapped(now, cause, hr.mideleg, cmp, v)
  BY DEF Checked, mip
<1>6. Wired(h, now, soft, p) /\ Exact(now) /\ Legal(now)
  <2>1. \A k : Takes(now, k) <=> Takes(hr, k)
    BY <1>4 DEF Takes, Same
  <2> QED BY <1>1, <1>3, <1>4, <2>1 DEF Kept, Wired, Exact, Legal, Same
<1> HIDE DEF now
<1>7. CASE all = {}
  <2>1. Renewed(r, now, cmp, v)
    BY <1>5, <1>6, <1>7, RescheduledKeeps
  <2>2. \A k : Takes(r, k) <=> Takes(now, k)
    BY <2>1 DEF Takes, Renewed, Same
  <2>3. Kept(h, r, soft, cmp, p, v)
    BY <1>6, <2>1, <2>2 DEF Renewed, Kept, Wired, Exact, Same
  <2>4. Quiet(r, cmp, v)
    BY <1>2, <1>3, <1>4, <1>7, <2>1 DEF Renewed, Quiet
  <2> QED BY <1>4, <2>1, <2>3, <2>4 DEF Renewed, Same
<1>8. CASE all # {}
  <2>1. first \in SUBSET Irqs /\ first # {}
    BY <1>1, <1>8
  <2>2. cause \in first
    BY <2>1, FirstFound
  <2>3. /\ cause \in all
        /\ cause \in hr.mideleg => all \subseteq hr.mideleg
    BY <2>2
  <2> HIDE DEF cause, first
  <2>4. /\ r = Trapped(now, cause, hr.mideleg, cmp, v) /\ cause \in Irqs \cup Causes
    BY <1>1, <1>5, <1>8, <2>3
  <2>5. /\ Legal(r) /\ Exact(r) /\ Timely(r, cmp, v)
        /\ r.mip = mip /\ r.mip_seip_sw = now.mip_seip_sw /\ r.mie = hr.mie
        /\ r.mideleg = hr.mideleg /\ r.wfi_sleeping = hr.wfi_sleeping
        /\ r.pc.in[2] = cause
        /\ IF hr.priv <= S /\ cause \in hr.mideleg THEN r.priv = S /\ "SIE" \notin r.mstatus
           ELSE r.priv = M /\ "MIE" \notin r.mstatus
    <3>1. now.priv = hr.priv /\ now.mie = hr.mie /\ now.mideleg = hr.mideleg
          /\ now.wfi_sleeping = hr.wfi_sleeping
      BY <1>4 DEF Same
    <3> QED BY <1>4, <1>6, <2>4, <3>1, TrappedKeeps
  <2>6. Kept(h, r, soft, cmp, p, v)
    BY <1>4, <1>6, <2>5 DEF Kept, Wired
  <2>7. mip \cap r.irq_deliverable = {} /\ ("MTI" \in r.irq_deliverable => "MTI" \in deliv)
    <3>1. CASE hr.priv <= S /\ cause \in hr.mideleg
      <4>1. \A k \in r.irq_deliverable : k \in Irqs /\ k \in hr.mie /\ k \notin hr.mideleg
        BY <2>5, <3>1 DEF Exact, Takes, S, U
      <4>2. \A k \in Irqs : k \in hr.mie /\ k \notin hr.mideleg => k \in deliv
        BY <1>1, <3>1 DEF Kept, Exact, Takes, S, U, M
      <4> QED BY <2>3, <3>1, <4>1, <4>2
    <3>2. CASE ~(hr.priv <= S /\ cause \in hr.mideleg)
      <4>1. r.irq_deliverable = {}
        BY <2>5, <3>2 DEF Exact, Takes, S, U, M
      <4> QED BY <4>1
    <3> QED BY <3>1, <3>2
  <2>8. Quiet(r, cmp, v)
    BY <1>2, <1>3, <2>5, <2>7 DEF Quiet
  <2>9. cause \in deliv /\ cause \in mip
    BY <2>3
  <2> QED BY <1>2, <1>3, <2>5, <2>6, <2>8, <2>9
<1> QED BY <1>7, <1>8


-----------------------------------------------------------------------------
(* CSRs                                                                    *)

LEMMA ReadBits ==
  ASSUME NEW hr \in HartType, NEW csr, Bits(csr) # {}
  PROVE  ReadCsr(hr, csr) \subseteq Bits(csr)
<1>1. /\ hr.mstatus \subseteq Flags /\ hr.mie \subseteq Irqs /\ hr.mip \subseteq Irqs
      /\ hr.mideleg \subseteq {"SSI", "STI", "SEI"} /\ hr.medeleg \subseteq Causes
  BY DEF HartType
<1>2. {"SSI", "STI", "SEI"} \subseteq Irqs
  BY DEF Irqs
<1>3. CASE csr \in {"mstatus", "sstatus"}
  <2>1. Bits(csr) = Flags
    BY <1>3 DEF Bits
  <2> QED BY <1>1, <1>3, <2>1 DEF ReadCsr
<1>4. CASE csr \in {"mie", "sie", "mip", "sip", "mideleg"}
  <2>1. Bits(csr) = Irqs
    BY <1>4 DEF Bits
  <2>2. With(hr.mip, "SEI", hr.mip_seip_sw) \subseteq Irqs
    BY <1>1 DEF With, Irqs
  <2> QED BY <1>1, <1>2, <1>4, <2>1, <2>2 DEF ReadCsr
<1>5. CASE csr = "medeleg"
  <2>1. Bits(csr) = Causes
    BY <1>5 DEF Bits
  <2> QED BY <1>1, <1>5, <2>1 DEF ReadCsr
<1>6. CASE csr \notin {"mstatus", "sstatus", "mie", "sie", "mip", "sip", "mideleg", "medeleg"}
  BY <1>6 DEF Bits
<1> QED BY <1>3, <1>4, <1>5, <1>6

\* The devices' bits of mip, and the software's.
SameLines(d, hr) ==
  /\ \A i \in {"MSI", "MEI", "SEI"} : i \in d.mip <=> i \in hr.mip
  /\ d.mip_seip_sw = hr.mip_seip_sw

\* A hart that gets a record whose deadlines were recomputed.
LEMMA RecomputedAt ==
  ASSUME NEW hs, NEW h \in Harts, NEW soft, NEW p, NEW v \in Nat, mtimecmp[h] \in Nat,
         AllKept(hs, soft, mtimecmp, p, v), NEW d, Legal(d), SameLines(d, hs[h]),
         NEW new, new[h] = Recomputed(d, mtimecmp[h], v), \A g \in Harts \ {h} : new[g] = hs[g],
         new = [g \in DOMAIN hs |-> new[g]]
  PROVE  AllKept(new, soft, mtimecmp, p, v) /\ new[h].steps_left = 0
<1>1. Settled(new[h], d, mtimecmp[h], v)
  BY RecomputedSettles
<1>2. Wired(h, hs[h], soft[h], p)
  BY DEF AllKept, Kept
<1>3. Wired(h, new[h], soft[h], p)
  BY <1>1, <1>2 DEF Settled, Same, SameLines, Wired
<1>4. Kept(h, new[h], soft[h], mtimecmp[h], p, v)
  BY <1>1, <1>3 DEF Settled, Kept
<1>5. new \in [Harts -> HartType]
  <2>1. \A g \in Harts : new[g] \in HartType
    BY <1>4 DEF Kept, Legal, AllKept
  <2>2. DOMAIN hs = Harts
    BY DEF AllKept
  <2> QED BY <2>1, <2>2
<1> QED BY <1>1, <1>4, <1>5 DEF AllKept, Settled

LEMMA WriteMipKeeps ==
  ASSUME NEW hs, NEW h \in Harts, NEW v \in Nat, num_harts \in HartCounts,
         mtimecmp \in [Harts -> Nat], msip \in [Harts -> BOOLEAN], plic \in PlicType,
         AllKept(hs, msip, mtimecmp, plic, v), NEW val, val \subseteq Irqs,
         NEW new, new = WriteMip(hs, h, val, v)
  PROVE  AllKept(new, msip, mtimecmp, plic, v) /\ new[h].steps_left = 0
<1> DEFINE hr == Refresh(hs, h, v)
           mip == (val \ PlatformMask) \cup (hr.mip \cap PlatformMask)
           sw == "SEI" \in val
           d == [hr EXCEPT !.mip = mip, !.mip_seip_sw = sw]
           mid == [hs EXCEPT ![h] = d]
           all == PlicUpdate(mid, plic, v)
<1>1. /\ mtimecmp[h] \in Nat /\ msip[h] \in BOOLEAN /\ DOMAIN hs = Harts
      /\ Kept(h, hs[h], msip[h], mtimecmp[h], plic, v)
  BY DEF AllKept
<1>2. /\ Legal(hr) /\ Same(hr, hs[h]) /\ hr.irq_deliverable = hs[h].irq_deliverable
      /\ "MSI" \in hr.mip <=> msip[h]
  <2>1. hr = Refreshed(hs[h], mtimecmp[h], msip[h], v)
    BY DEF Refresh
  <2> QED BY <1>1, <2>1, RefreshedKeeps DEF Kept
<1>3. Exact(hr)
  BY <1>1, <1>2, SameTakes DEF Kept
<1>4. new = [all EXCEPT ![h] = Rescheduled(all[h], mtimecmp[h], v)]
  BY DEF WriteMip, PlicUpdate
<1> HIDE DEF hr
<1>5. mip \in SUBSET Irqs /\ ("MSI" \in mip <=> msip[h])
  BY <1>2 DEF PlatformMask, Irqs, Legal, HartType
<1>a. sw \in BOOLEAN
  OBVIOUS
<1> HIDE DEF mip, sw
<1>6. hr \in HartType
  BY <1>2 DEF Legal
<1>7. /\ d \in HartType /\ d.mip = mip /\ d.mstatus = hr.mstatus /\ d.priv = hr.priv
      /\ d.mie = hr.mie /\ d.mideleg = hr.mideleg /\ d.irq_deliverable = hr.irq_deliverable
  BY <1>5, <1>6, <1>a DEF HartType
<1> HIDE DEF d
<1>8. Legal(d) /\ Exact(d)
  <2>1. \A i : Takes(d, i) <=> Takes(hr, i)
    BY <1>7 DEF Takes
  <2> QED BY <1>2, <1>3, <1>7, <2>1 DEF Legal, Exact
<1>9. mid[h] = d /\ \A g \in Harts \ {h} : mid[g] = hs[g]
  BY <1>1
<1> HIDE DEF mid
<1>10. /\ Legal(all[h]) /\ Exact(all[h]) /\ Wired(h, all[h], msip[h], plic)
  <2>1. Legal(mid[h]) /\ ("MSI" \in mid[h].mip <=> msip[h])
    BY <1>5, <1>7, <1>8, <1>9
  <2>2. /\ Legal(all[h]) /\ Same(all[h], mid[h])
        /\ all[h].irq_deliverable = mid[h].irq_deliverable
        /\ Wired(h, all[h], msip[h], plic)
    BY <1>1, <2>1, PlicUpdateHart
  <2> QED BY <1>8, <1>9, <2>2, SameTakes
<1>11. ASSUME NEW g \in Harts \ {h}
       PROVE  Kept(g, all[g], msip[g], mtimecmp[g], plic, v)
  <2>1. Kept(g, mid[g], msip[g], mtimecmp[g], plic, v) /\ mtimecmp[g] \in Nat
    BY <1>9 DEF AllKept
  <2>2. Legal(mid[g]) /\ Exact(mid[g]) /\ ("MSI" \in mid[g].mip <=> msip[g])
        /\ Timely(mid[g], mtimecmp[g], v)
    BY <2>1 DEF Kept, Wired
  <2>3. /\ Legal(all[g]) /\ Same(all[g], mid[g])
        /\ all[g].irq_deliverable = mid[g].irq_deliverable
        /\ Wired(g, all[g], msip[g], plic) /\ Timely(all[g], mtimecmp[g], v)
    BY <2>1, <2>2, PlicUpdateHart
  <2> QED BY <2>2, <2>3, SameTakes DEF Kept
<1>12. all = [g \in Harts |-> all[g]]
  BY DEF PlicUpdate
<1> HIDE DEF all
<1>13. new[h] = Rescheduled(all[h], mtimecmp[h], v) /\ \A g \in Harts \ {h} : new[g] = all[g]
  BY <1>4, <1>12
<1>14. Renewed(new[h], all[h], mtimecmp[h], v)
  BY <1>1, <1>10, <1>13, RescheduledKeeps
<1>15. Kept(h, new[h], msip[h], mtimecmp[h], plic, v)
  <2>1. Exact(new[h])
    BY <1>10, <1>14, SameTakes DEF Renewed
  <2> QED BY <1>10, <1>14, <2>1 DEF Renewed, Kept, Wired, Same
<1>16. new \in [Harts -> HartType]
  <2>1. \A g \in Harts : new[g] \in HartType
    BY <1>11, <1>13, <1>15 DEF Kept, Legal
  <2>2. new = [g \in Harts |-> new[g]]
    BY <1>4, <1>12
  <2> QED BY <2>1, <2>2
<1> QED BY <1>11, <1>13, <1>14, <1>15, <1>16 DEF AllKept, Renewed


\* A write of a CSR leaves every hart as it should be; what interrupts depend on makes
\* the hart look at them again.
LEMMA WriteCsrKeeps ==
  ASSUME NEW hs, NEW h \in Harts, NEW v \in Nat, num_harts \in HartCounts,
         mtimecmp \in [Harts -> Nat], msip \in [Harts -> BOOLEAN], plic \in PlicType,
         AllKept(hs, msip, mtimecmp, plic, v),
         NEW csr, Bits(csr) # {}, NEW val, val \subseteq Bits(csr),
         NEW new, new = WriteCsr(hs, h, csr, val, v)
  PROVE  /\ AllKept(new, msip, mtimecmp, plic, v)
         /\ \/ new[h].steps_left = 0
            \/ Unmoved(new[h], hs[h]) /\ new[h].steps_left = hs[h].steps_left
<1> DEFINE hr == hs[h]
           kept(d) == Legal(d) /\ SameLines(d, hr)
           at(d) == [hs EXCEPT ![h] = Recomputed(d, mtimecmp[h], v)]
<1>1. /\ mtimecmp[h] \in Nat /\ DOMAIN hs = Harts /\ hr \in HartType
      /\ Kept(h, hr, msip[h], mtimecmp[h], plic, v)
  BY DEF AllKept
<1>2. /\ hr.mstatus \subseteq Flags /\ hr.mie \subseteq Irqs /\ hr.mip \subseteq Irqs
      /\ hr.mideleg \subseteq {"SSI", "STI", "SEI"} /\ Legal(hr)
      /\ ("MPP1" \in hr.mstatus => "MPP0" \in hr.mstatus)
  BY <1>1 DEF Kept, Legal, HartType
<1>3. ASSUME NEW d, kept(d), new = at(d)
      PROVE  AllKept(new, msip, mtimecmp, plic, v) /\ new[h].steps_left = 0
  <2>1. /\ new[h] = Recomputed(d, mtimecmp[h], v) /\ \A g \in Harts \ {h} : new[g] = hs[g]
        /\ new = [g \in DOMAIN hs |-> new[g]]
    BY <1>1, <1>3
  <2>2. Legal(d) /\ SameLines(d, hs[h])
    BY <1>3
  <2> QED BY <1>1, <2>1, <2>2, RecomputedAt
<1>4. ASSUME NEW d, d \in HartType, d.mip_seip_sw = hr.mip_seip_sw, d.mip = hr.mip,
             "MPP1" \in d.mstatus => "MPP0" \in d.mstatus
      PROVE  kept(d)
  BY <1>4 DEF Legal, SameLines
<1> HIDE DEF kept
<1>5. CASE csr = "mstatus"
  <2> DEFINE ms == LegalMstatus(val)
             d == [hr EXCEPT !.mstatus = ms]
  <2>1. ms \in SUBSET Flags /\ ("MPP1" \in ms => "MPP0" \in ms)
    BY <1>5 DEF LegalMstatus, Bits
  <2> HIDE DEF ms
  <2>2. d \in HartType /\ d.mstatus = ms /\ d.mip = hr.mip /\ d.mip_seip_sw = hr.mip_seip_sw
    BY <1>1, <2>1 DEF HartType
  <2>3. new = at(d)
    BY <1>5 DEF WriteCsr, ms
  <2> HIDE DEF d
  <2>4. kept(d)
    BY <1>4, <2>1, <2>2
  <2> QED BY <1>3, <2>3, <2>4
<1>6. CASE csr = "sstatus"
  <2> DEFINE ms == (hr.mstatus \ SstatusMask) \cup (val \cap SstatusMask)
             d == [hr EXCEPT !.mstatus = ms]
  <2>1. ms \in SUBSET Flags /\ ("MPP1" \in ms => "MPP0" \in ms)
    BY <1>2, <1>6 DEF SstatusMask, Bits, Flags
  <2>2. new = at(d)
    BY <1>6 DEF WriteCsr
  <2> HIDE DEF ms
  <2>3. d \in HartType /\ d.mstatus = ms /\ d.mip = hr.mip /\ d.mip_seip_sw = hr.mip_seip_sw
    BY <1>1, <2>1 DEF HartType
  <2> HIDE DEF d
  <2>4. kept(d)
    BY <1>4, <2>1, <2>3
  <2> QED BY <1>3, <2>2, <2>4
<1>7. CASE csr \in {"mie", "sie"}
  <2> DEFINE mie == IF csr = "mie" THEN val ELSE (hr.mie \ hr.mideleg) \cup (val \cap hr.mideleg)
             d == [hr EXCEPT !.mie = mie]
  <2>1. mie \in SUBSET Irqs
    BY <1>2, <1>7 DEF Bits
  <2>2. new = at(d)
    BY <1>7 DEF WriteCsr
  <2> HIDE DEF mie
  <2>3. d \in HartType /\ d.mstatus = hr.mstatus /\ d.mip = hr.mip
        /\ d.mip_seip_sw = hr.mip_seip_sw
    BY <1>1, <2>1 DEF HartType
  <2> HIDE DEF d
  <2>4. kept(d)
    BY <1>2, <1>4, <2>3
  <2> QED BY <1>3, <2>2, <2>4
<1>8. CASE csr = "mip"
  <2>1. val \subseteq Irqs
    BY <1>8 DEF Bits
  <2>2. new = WriteMip(hs, h, val, v)
    BY <1>8 DEF WriteCsr
  <2> QED BY <2>1, <2>2, WriteMipKeeps
<1>9. CASE csr = "sip"
  <2> DEFINE ssi == {"SSI"} \cap hr.mideleg
             mip == (hr.mip \ ssi) \cup (val \cap ssi)
             d == [hr EXCEPT !.mip = mip]
  <2>1. /\ mip \in SUBSET Irqs
        /\ \A i \in {"MSI", "MEI", "SEI"} : i \in mip <=> i \in hr.mip
    BY <1>2, <1>9 DEF Bits
  <2>2. new = at(d)
    BY <1>9 DEF WriteCsr
  <2> HIDE DEF mip
  <2>3. d \in HartType /\ d.mstatus = hr.mstatus /\ d.mip = mip
        /\ d.mip_seip_sw = hr.mip_seip_sw
    BY <1>1, <2>1 DEF HartType
  <2> HIDE DEF d
  <2>4. kept(d)
    BY <1>2, <2>1, <2>3 DEF kept, Legal, SameLines
  <2> QED BY <1>3, <2>2, <2>4
<1>10. CASE csr = "mideleg"
  <2> DEFINE deleg == val \cap {"SSI", "STI", "SEI"}
             d == [hr EXCEPT !.mideleg = deleg]
  <2>1. deleg \in SUBSET {"SSI", "STI", "SEI"}
    OBVIOUS
  <2>2. new = at(d)
    BY <1>10 DEF WriteCsr
  <2> HIDE DEF deleg
  <2>3. d \in HartType /\ d.mstatus = hr.mstatus /\ d.mip = hr.mip
        /\ d.mip_seip_sw = hr.mip_seip_sw
    BY <1>1, <2>1 DEF HartType
  <2> HIDE DEF d
  <2>4. kept(d)
    BY <1>2, <1>4, <2>3
  <2> QED BY <1>3, <2>2, <2>4
<1>11. CASE csr = "medeleg"
  <2> DEFINE d == [hr EXCEPT !.medeleg = val]
  <2>1. val \in SUBSET Causes
    BY <1>11 DEF Bits
  <2>2. new = [hs EXCEPT ![h] = d]
    BY <1>11 DEF WriteCsr
  <2>3. d \in HartType /\ Unmoved(d, hr) /\ d.steps_left = hr.steps_left
    BY <1>1, <2>1 DEF HartType, Unmoved
  <2> HIDE DEF d
  <2>4. Kept(h, d, msip[h], mtimecmp[h], plic, v)
    BY <1>1, <2>3, UnmovedKept
  <2>5. new[h] = d /\ \A g \in Harts \ {h} : new[g] = hs[g]
    BY <1>1, <2>2
  <2>6. new \in [Harts -> HartType]
    BY <2>2, <2>3 DEF AllKept
  <2> QED BY <2>3, <2>4, <2>5, <2>6 DEF AllKept
<1>12. csr \in {"mstatus", "sstatus", "mie", "sie", "mip", "sip", "mideleg", "medeleg"}
  BY DEF Bits
<1> QED BY <1>5, <1>6, <1>7, <1>8, <1>9, <1>10, <1>11, <1>12


-----------------------------------------------------------------------------
(* The instructions                                                        *)

\* An instruction of the active hart h has led to the harts hs at count v: each is as
\* it should be with the devices there are then, and if h goes on then nothing has
\* changed that its interrupts depend on.
Effect(h, hs, v) ==
  /\ AllKept(hs, msip', mtimecmp', plic', v)
  /\ msip' \in [Harts -> BOOLEAN] /\ mtimecmp' \in [Harts -> Nat] /\ plic' \in PlicType
  /\ \/ hs[h].steps_left = 0
     \/ Unmoved(hs[h], harts[h]) /\ hs[h].steps_left = harts[h].steps_left - 1

LEMMA RetireKeeps ==
  ASSUME BoardInv, NEW h \in Harts, Running(h),
         NEW hs, NEW v \in Nat, Effect(h, hs, v),
         NEW dv \in Nat, v <= visible_icount + dv, dv = 1 \/ hs[h].steps_left = 0,
         NEW y \in Harts \cup {NoHart}, Retire(h, hs, dv, y)
  PROVE  BoardInv'
<1> DEFINE hr == harts[h]
           turn == num_harts > 1 /\ (insn_count + 1) % hart_quantum = 0
           left == IF turn THEN 0 ELSE hs[h].steps_left
           w == visible_icount + dv
<1>1. /\ active_hart = h /\ phase = "run" /\ num_harts \in HartCounts /\ TypeOK
      /\ insn_count \in Nat /\ visible_icount \in Nat /\ insn_count + hr.steps_left <= MaxInsns
      /\ hr.steps_left > 0 /\ hr.steps_left \in Nat /\ ~hr.wfi_sleeping
      /\ hr.steps_left > 1 => visible_icount + hr.steps_left <= hr.irq_next_check
  BY Bounds DEF Running, BoardInv, RunKept, TypeOK, HartType
<1>2. /\ insn_count' = insn_count + 1 /\ visible_icount' = w
      /\ yield_hart' = IF turn THEN Following(h) ELSE y
      /\ harts' = [hs EXCEPT ![h] = [hs[h] EXCEPT !.steps_left = left]]
      /\ phase' = IF left = 0 THEN "schedule" ELSE "run"
      /\ UNCHANGED <<config, active_hart, next_hart>>
  BY DEF Retire
<1>3. Harts' = Harts /\ num_harts' = num_harts
  BY <1>2 DEF Harts, config
<1>4. hs \in [Harts -> HartType] /\ w \in Nat
  BY <1>1 DEF Effect, AllKept
<1>5. hs[h].steps_left \in 0 .. MaxInsns /\ hs[h].irq_next_check \in Nat
      /\ left \in 0 .. MaxInsns /\ (left = 0 \/ left = hs[h].steps_left)
  BY <1>4, Bounds DEF HartType
<1> HIDE DEF left, turn
<1>6. /\ harts'[h] \in HartType /\ Unmoved(harts'[h], hs[h]) /\ harts'[h].steps_left = left
      /\ harts' \in [Harts -> HartType]
      /\ \A g \in Harts \ {h} : harts'[g] = hs[g]
  <2> DEFINE r == [hs[h] EXCEPT !.steps_left = left]
  <2>1. hs[h] \in HartType
    BY <1>4
  <2>2. r \in HartType /\ Unmoved(r, hs[h]) /\ r.steps_left = left
    BY <2>1, <1>5 DEF HartType, Unmoved
  <2>3. harts' = [hs EXCEPT ![h] = r]
    BY <1>2
  <2> HIDE DEF r
  <2> QED BY <1>4, <2>2, <2>3
<1>7. AllKept(hs, msip', mtimecmp', plic', w)
  BY <1>4, AllLater DEF Effect
<1>8. AllKept(harts', msip', mtimecmp', plic', w)
  <2>1. Kept(h, harts'[h], msip'[h], mtimecmp'[h], plic', w)
    BY <1>6, <1>7, UnmovedKept DEF AllKept
  <2> QED BY <1>6, <1>7, <2>1 DEF AllKept
<1>9. ASSUME left # 0
      PROVE  /\ Unmoved(hs[h], hr) /\ left = hr.steps_left - 1 /\ dv = 1
             /\ ~harts'[h].wfi_sleeping
  <2>1. hs[h].steps_left # 0
    BY <1>5, <1>9
  <2>2. Unmoved(hs[h], hr) /\ hs[h].steps_left = hr.steps_left - 1
    BY <2>1 DEF Effect
  <2> QED BY <1>1, <1>5, <1>6, <1>9, <2>1, <2>2 DEF Unmoved
<1>10. insn_count + 1 <= MaxInsns
  BY <1>1, Bounds
<1>11. TypeOK'
  <2>1. harts' \in [Harts -> HartType] /\ \A g \in Harts : Legal(harts'[g])
    BY <1>6, <1>8 DEF AllKept, Kept
  <2>2. phase' = "run" => harts'[h].steps_left > 0 /\ ~harts'[h].wfi_sleeping
    BY <1>2, <1>5, <1>6, <1>9
  <2>3. yield_hart' \in Harts \cup {NoHart}
    BY <1>1, <1>2, HartsBound
  <2>4. /\ active_hart' = h /\ next_hart' \in Harts /\ visible_icount' \in Nat
        /\ insn_count' \in 0 .. MaxInsns
    BY <1>1, <1>2, <1>4, <1>10 DEF TypeOK
  <2> QED BY <1>3, <2>1, <2>2, <2>3, <2>4 DEF TypeOK, Legal, Effect
<1>12. RunKept'
  <2> SUFFICES ASSUME phase' = "run"
               PROVE  /\ active_hart' \in Harts'
                      /\ insn_count' + harts'[active_hart'].steps_left <= MaxInsns
                      /\ Quiet(harts'[active_hart'], mtimecmp'[active_hart'], visible_icount')
                      /\ harts'[active_hart'].steps_left > 1 =>
                           visible_icount' + harts'[active_hart'].steps_left
                             <= harts'[active_hart'].irq_next_check
    BY DEF RunKept
  <2>1. left # 0 /\ active_hart' = h
    BY <1>1, <1>2
  <2>2. Unmoved(hs[h], hr) /\ left = hr.steps_left - 1 /\ dv = 1
    BY <1>9, <2>1
  <2>3. harts'[h].irq_next_check = hr.irq_next_check /\ hr.irq_next_check \in Nat
    BY <1>5, <1>6, <2>2 DEF Unmoved
  <2>4. w + left <= hr.irq_next_check /\ w < hr.irq_next_check
    BY <1>1, <1>5, <2>1, <2>2, <2>3
  <2>5. Quiet(harts'[h], mtimecmp'[h], w)
    <3>1. Legal(harts'[h]) /\ Timely(harts'[h], mtimecmp'[h], w)
      BY <1>8 DEF AllKept, Kept
    <3>2. mtimecmp'[h] \in Nat
      BY DEF Effect
    <3> QED BY <1>4, <2>3, <2>4, <3>1, <3>2, BeforeDeadline
  <2> QED BY <1>1, <1>2, <1>3, <1>5, <1>6, <2>1, <2>2, <2>3, <2>4, <2>5, Bounds
<1>13. StuckKept'
  BY <1>2 DEF StuckKept
<1>14. AllKept(harts, msip, mtimecmp, plic, visible_icount)'
  BY <1>2, <1>3, <1>8 DEF AllKept
<1> QED BY <1>1, <1>3, <1>11, <1>12, <1>13, <1>14 DEF BoardInv


LEMMA InstrFormed ==
  ASSUME NEW h, NEW op, NEW i \in Instr(h, op)
  PROVE  i.op = op /\ WellFormed(i)
BY CodeAssumption DEF Instr

\* The hart that runs has left the instruction behind it, and nothing else has changed.
Ahead(h, hs) ==
  /\ AllKept(hs, msip, mtimecmp, plic, visible_icount)
  /\ Unmoved(hs[h], harts[h]) /\ hs[h].steps_left = harts[h].steps_left - 1

LEMMA FetchedAhead ==
  ASSUME BoardInv, NEW h \in Harts, Running(h), NEW hs, hs = Fetched(h)
  PROVE  Ahead(h, hs) /\ hs[h].mip_seip_sw = harts[h].mip_seip_sw
<1> DEFINE hr == harts[h]
           pc == At(hr.pc.in, hr.pc.at + 1)
           left == hr.steps_left - 1
           r == [hr EXCEPT !.steps_left = left, !.pc = pc]
<1>1. /\ harts \in [Harts -> HartType] /\ hr \in HartType /\ hr.steps_left > 0
      /\ AllKept(harts, msip, mtimecmp, plic, visible_icount)
  BY DEF BoardInv, TypeOK, Running
<1>2. pc \in Places /\ left \in 0 .. MaxInsns
  <2>1. hr.pc \in Places /\ hr.steps_left \in 0 .. MaxInsns
    BY <1>1 DEF HartType
  <2>2. left \in 0 .. MaxInsns
    BY <2>1, <1>1, Bounds
  <2> QED BY <2>1, <2>2 DEF Places, At
<1>3. hs = [harts EXCEPT ![h] = r]
  BY <1>1 DEF Fetched, HartType
<1> HIDE DEF pc, left
<1>4. r \in HartType /\ Unmoved(r, hr) /\ r.steps_left = left
  BY <1>1, <1>2 DEF HartType, Unmoved
<1> HIDE DEF r
<1>5. /\ hs \in [Harts -> HartType] /\ hs[h] = r
      /\ \A g \in Harts \ {h} : hs[g] = harts[g]
  BY <1>1, <1>3, <1>4
<1>6. Kept(h, r, msip[h], mtimecmp[h], plic, visible_icount)
  BY <1>1, <1>4, UnmovedKept DEF AllKept
<1>7. AllKept(hs, msip, mtimecmp, plic, visible_icount)
  BY <1>1, <1>5, <1>6 DEF AllKept
<1> QED BY <1>4, <1>5, <1>7 DEF Ahead, Unmoved, left

\* So it is with a jump, a return address or a register.
LEMMA StillAhead ==
  ASSUME NEW h \in Harts, NEW hs, Ahead(h, hs), NEW new,
         new[h] \in HartType, Unmoved(new[h], hs[h]), new[h].steps_left = hs[h].steps_left,
         \A g \in Harts \ {h} : new[g] = hs[g], new = [g \in DOMAIN hs |-> new[g]]
  PROVE  Ahead(h, new)
<1>1. Kept(h, new[h], msip[h], mtimecmp[h], plic, visible_icount)
  BY UnmovedKept DEF Ahead, AllKept
<1>2. new \in [Harts -> HartType]
  BY DEF Ahead, AllKept
<1>3. Unmoved(new[h], harts[h])
  BY DEF Ahead, Unmoved
<1> QED BY <1>1, <1>2, <1>3 DEF Ahead, AllKept

LEMMA AheadEffect ==
  ASSUME BoardInv, NEW h \in Harts, NEW hs, Ahead(h, hs), UNCHANGED <<msip, mtimecmp, plic>>
  PROVE  Effect(h, hs, visible_icount)
BY DEF Ahead, Effect, BoardInv, TypeOK

\* Computation, jumps, and what has no effect on interrupts.
LEMMA PlainKeeps ==
  ASSUME BoardInv, NEW h \in Harts, Running(h), NEW hs, Ahead(h, hs),
         UNCHANGED <<msip, mtimecmp, plic>>, Retire(h, hs, 1, yield_hart)
  PROVE  BoardInv'
<1>1. visible_icount \in Nat /\ yield_hart \in Harts \cup {NoHart}
  BY DEF BoardInv, TypeOK
<1>2. Effect(h, hs, visible_icount)
  BY AheadEffect
<1> QED BY <1>1, <1>2, RetireKeeps

LEMMA ComputeKeeps ==
  ASSUME BoardInv, NEW h \in Harts, Compute(h)
  PROVE  BoardInv'
BY FetchedAhead, PlainKeeps DEF Compute, devices

LEMMA JumpKeeps ==
  ASSUME BoardInv, NEW h \in Harts, Jump(h)
  PROVE  BoardInv'
<1> DEFINE hs == Fetched(h)
<1>1. PICK i \in Instr(h, "jump") :
        Retire(h, [hs EXCEPT ![h].pc = At(@.in, i.to[harts[h].x])], 1, yield_hart)
  BY DEF Jump
<1>2. Running(h) /\ UNCHANGED <<msip, mtimecmp, plic>>
  BY DEF Jump, devices
<1>3. Ahead(h, hs)
  BY <1>2, FetchedAhead
<1> HIDE DEF hs
<1> DEFINE pc == At(hs[h].pc.in, i.to[harts[h].x])
           r == [hs[h] EXCEPT !.pc = pc]
           new == [hs EXCEPT ![h] = r]
<1>4. hs \in [Harts -> HartType] /\ hs[h].pc \in Places
  BY <1>3 DEF Ahead, AllKept, HartType
<1>5. pc \in Places
  <2>1. i.to[harts[h].x] \in Nat
    BY <1>1, InstrFormed DEF WellFormed, BoardInv, TypeOK, HartType
  <2> QED BY <1>4, <2>1 DEF Places, At
<1>6. Retire(h, new, 1, yield_hart)
  BY <1>1
<1> HIDE DEF pc
<1>7. r \in HartType /\ Unmoved(r, hs[h]) /\ r.steps_left = hs[h].steps_left
  BY <1>4, <1>5 DEF HartType, Unmoved
<1> HIDE DEF r
<1>8. new[h] = r /\ (\A g \in Harts \ {h} : new[g] = hs[g]) /\ new = [g \in DOMAIN hs |-> new[g]]
  BY <1>4
<1> HIDE DEF new
<1>9. Ahead(h, new)
  BY <1>3, <1>7, <1>8, StillAhead
<1> QED BY <1>2, <1>6, <1>9, PlainKeeps


\* A hart that refreshes the bits of its timer and of its software interrupt.
LEMMA RefreshedKept ==
  ASSUME NEW h, NEW hr, NEW soft, NEW cmp, NEW p, NEW v \in Nat, Kept(h, hr, soft, cmp, p, v),
         NEW on \in BOOLEAN, NEW c \in Nat, NEW r, r = Refreshed(hr, c, on, v)
  PROVE  Kept(h, r, on, c, p, v) /\ r.steps_left = 0 /\ Same(r, hr)
<1>1. /\ Legal(r) /\ Timely(r, c, v) /\ r.steps_left = 0
      /\ Same(r, hr) /\ r.irq_deliverable = hr.irq_deliverable
      /\ "MSI" \in r.mip <=> on
      /\ \A i \in Irqs \ {"MSI", "MTI"} : i \in r.mip <=> i \in hr.mip
  BY RefreshedKeeps DEF Kept
<1>2. Exact(r)
  BY <1>1, SameTakes DEF Kept
<1>3. Wired(h, r, on, p)
  BY <1>1 DEF Kept, Wired, Same, Irqs
<1> QED BY <1>1, <1>2, <1>3 DEF Kept

\* f is g but at hart t, and new is hs but for the refresh of t.
Elsewhere(t, f, g) == \A h \in Harts \ {t} : f[h] = g[h]
RefreshOf(new, hs, t, soft, cmp, v) ==
  /\ new[t] = Refreshed(hs[t], cmp[t], soft[t], v) /\ Elsewhere(t, new, hs)
  /\ new = [g \in DOMAIN hs |-> new[g]]

LEMMA RefreshedAt ==
  ASSUME NEW hs, NEW soft, NEW cmp, NEW p, NEW v \in Nat, AllKept(hs, soft, cmp, p, v),
         NEW t \in Harts, NEW soft2, NEW cmp2, soft2[t] \in BOOLEAN, cmp2[t] \in Nat,
         Elsewhere(t, soft2, soft), Elsewhere(t, cmp2, cmp),
         NEW new, RefreshOf(new, hs, t, soft2, cmp2, v)
  PROVE  AllKept(new, soft2, cmp2, p, v) /\ new[t].steps_left = 0 /\ Same(new[t], hs[t])
<1>1. Kept(t, hs[t], soft[t], cmp[t], p, v)
  BY DEF AllKept
<1>2. Kept(t, new[t], soft2[t], cmp2[t], p, v) /\ new[t].steps_left = 0 /\ Same(new[t], hs[t])
  BY <1>1, RefreshedKept DEF RefreshOf
<1>3. \A g \in Harts : new[g] \in HartType
  BY <1>2 DEF AllKept, Kept, Legal, RefreshOf, Elsewhere
<1>4. new \in [Harts -> HartType]
  BY <1>3 DEF AllKept, RefreshOf
<1> QED BY <1>2, <1>4 DEF AllKept, RefreshOf, Elsewhere

LEMMA SetEpcKeeps ==
  ASSUME BoardInv, NEW h \in Harts, SetEpc(h)
  PROVE  BoardInv'
<1> DEFINE hs == Fetched(h)
           next(i, pc) == IF i.skip THEN At(pc.in, pc.at + 1) ELSE i.to
<1>1. PICK i \in Instr(h, "epc") :
        Retire(h, IF i.mode = "M" THEN [hs EXCEPT ![h].mepc = next(i, @)]
                                  ELSE [hs EXCEPT ![h].sepc = next(i, @)], 1, yield_hart)
  BY DEF SetEpc
<1>2. Running(h) /\ UNCHANGED <<msip, mtimecmp, plic>>
  BY DEF SetEpc, devices
<1>3. Ahead(h, hs)
  BY <1>2, FetchedAhead
<1> HIDE DEF hs
<1>4. hs \in [Harts -> HartType] /\ hs[h].mepc \in Places /\ hs[h].sepc \in Places
  BY <1>3 DEF Ahead, AllKept, HartType
<1>5. \A pc \in Places : next(i, pc) \in Places
  BY <1>1, InstrFormed DEF WellFormed, Places, At
<1> DEFINE mepc == next(i, hs[h].mepc)
           sepc == next(i, hs[h].sepc)
           m == [hs[h] EXCEPT !.mepc = mepc]
           s == [hs[h] EXCEPT !.sepc = sepc]
           r == IF i.mode = "M" THEN m ELSE s
           new == [hs EXCEPT ![h] = r]
<1>6. mepc \in Places /\ sepc \in Places
  BY <1>4, <1>5
<1>7. Retire(h, new, 1, yield_hart)
  <2>1. CASE i.mode = "M"
    BY <1>1, <2>1
  <2>2. CASE i.mode # "M"
    BY <1>1, <2>2
  <2> QED BY <2>1, <2>2
<1> HIDE DEF mepc, sepc
<1>8. m \in HartType /\ Unmoved(m, hs[h]) /\ m.steps_left = hs[h].steps_left
  BY <1>4, <1>6 DEF HartType, Unmoved
<1>9. s \in HartType /\ Unmoved(s, hs[h]) /\ s.steps_left = hs[h].steps_left
  BY <1>4, <1>6 DEF HartType, Unmoved
<1> HIDE DEF m, s
<1>10. r \in HartType /\ Unmoved(r, hs[h]) /\ r.steps_left = hs[h].steps_left
  BY <1>8, <1>9
<1> HIDE DEF r
<1>11. new[h] = r /\ (\A g \in Harts \ {h} : new[g] = hs[g]) /\ new = [g \in DOMAIN hs |-> new[g]]
  BY <1>4
<1> HIDE DEF new
<1>12. Ahead(h, new)
  BY <1>3, <1>10, <1>11, StillAhead
<1> QED BY <1>2, <1>7, <1>12, PlainKeeps

\* An instruction that makes the hart look at its interrupts, or ends its turn.
LEMMA HaltKeeps ==
  ASSUME BoardInv, NEW h \in Harts, Running(h), NEW hs,
         AllKept(hs, msip', mtimecmp', plic', visible_icount), hs[h].steps_left = 0,
         msip' \in [Harts -> BOOLEAN], mtimecmp' \in [Harts -> Nat], plic' \in PlicType,
         NEW dv \in Nat, NEW y \in Harts \cup {NoHart}, Retire(h, hs, dv, y)
  PROVE  BoardInv'
<1>1. visible_icount \in Nat /\ visible_icount <= visible_icount + dv
  BY DEF BoardInv, TypeOK
<1>2. Effect(h, hs, visible_icount)
  BY DEF Effect
<1> QED BY <1>1, <1>2, RetireKeeps

LEMMA PauseKeeps ==
  ASSUME BoardInv, NEW h \in Harts, Pause(h)
  PROVE  BoardInv'
<1> DEFINE hs == Fetched(h)
           r == [hs[h] EXCEPT !.steps_left = 0]
           new == [hs EXCEPT ![h] = r]
<1>1. /\ Running(h) /\ UNCHANGED <<msip, mtimecmp, plic>>
      /\ IF num_harts > 1 THEN Retire(h, new, 1, Following(h)) ELSE Retire(h, hs, 1, yield_hart)
  BY DEF Pause, devices
<1>2. Ahead(h, hs)
  BY <1>1, FetchedAhead
<1> HIDE DEF hs
<1>3. hs \in [Harts -> HartType] /\ hs[h] \in HartType
  BY <1>2 DEF Ahead, AllKept
<1>4. r \in HartType /\ Unmoved(r, hs[h]) /\ r.steps_left = 0
  BY <1>3, Bounds DEF HartType, Unmoved
<1> HIDE DEF r
<1>5. new[h] = r /\ (\A g \in Harts \ {h} : new[g] = hs[g]) /\ new \in [Harts -> HartType]
  BY <1>3, <1>4
<1> HIDE DEF new
<1>6. CASE num_harts > 1
  <2>1. Kept(h, new[h], msip[h], mtimecmp[h], plic, visible_icount)
    BY <1>2, <1>4, <1>5, UnmovedKept DEF Ahead, AllKept
  <2>2. AllKept(new, msip, mtimecmp, plic, visible_icount)
    BY <1>2, <1>5, <2>1 DEF Ahead, AllKept
  <2>3. Following(h) \in Harts
    BY HartsBound DEF BoardInv
  <2>4. msip \in [Harts -> BOOLEAN] /\ mtimecmp \in [Harts -> Nat] /\ plic \in PlicType
    BY DEF BoardInv, TypeOK
  <2>5. Retire(h, new, 1, Following(h))
    BY <1>1, <1>6
  <2> QED BY <1>1, <1>4, <1>5, <2>2, <2>3, <2>4, <2>5, HaltKeeps
<1>7. CASE ~(num_harts > 1)
  BY <1>1, <1>2, <1>7, PlainKeeps
<1> QED BY <1>6, <1>7


LEMMA CsrKeeps ==
  ASSUME BoardInv, NEW h \in Harts, Csr(h)
  PROVE  BoardInv'
<1> DEFINE hs == Fetched(h)
           refreshed == [hs EXCEPT ![h] = Refresh(hs, h, visible_icount)]
           now(i) == IF i.csr = "mip" THEN refreshed ELSE hs
           val(i) == (ReadCsr(now(i)[h], i.csr) \cup i.set) \ i.clear
           new(i) == WriteCsr(now(i), h, i.csr, val(i), visible_icount)
<1>1. PICK i \in Instr(h, "csr") : Retire(h, new(i), 1, yield_hart)
  BY DEF Csr
<1>2. Running(h) /\ UNCHANGED <<msip, mtimecmp, plic>>
  BY DEF Csr, devices
<1>3. Ahead(h, hs)
  BY <1>2, FetchedAhead
<1>4. /\ visible_icount \in Nat /\ yield_hart \in Harts \cup {NoHart} /\ num_harts \in HartCounts
      /\ msip \in [Harts -> BOOLEAN] /\ mtimecmp \in [Harts -> Nat] /\ plic \in PlicType
      /\ msip[h] \in BOOLEAN /\ mtimecmp[h] \in Nat
  BY DEF BoardInv, TypeOK
<1>5. Bits(i.csr) # {} /\ i.set \subseteq Bits(i.csr)
  BY <1>1, InstrFormed DEF WellFormed
<1> HIDE DEF hs
<1>6. AllKept(hs, msip, mtimecmp, plic, visible_icount)
  BY <1>3 DEF Ahead
<1>7. AllKept(refreshed, msip, mtimecmp, plic, visible_icount)
  <2>1. refreshed[h] = Refreshed(hs[h], mtimecmp[h], msip[h], visible_icount)
    BY <1>6 DEF Refresh, AllKept
  <2>2. (\A g \in Harts \ {h} : refreshed[g] = hs[g]) /\ refreshed = [g \in DOMAIN hs |-> refreshed[g]]
    BY <1>6 DEF AllKept
  <2> HIDE DEF refreshed
  <2>3. /\ Elsewhere(h, msip, msip) /\ Elsewhere(h, mtimecmp, mtimecmp)
        /\ RefreshOf(refreshed, hs, h, msip, mtimecmp, visible_icount)
    BY <2>1, <2>2 DEF Elsewhere, RefreshOf
  <2> QED BY <1>4, <1>6, <2>3, RefreshedAt
<1> HIDE DEF refreshed
<1>8. AllKept(now(i), msip, mtimecmp, plic, visible_icount) /\ (i.csr # "mip" => now(i) = hs)
  BY <1>6, <1>7
<1> HIDE DEF now
<1>9. val(i) \subseteq Bits(i.csr)
  <2>1. now(i)[h] \in HartType
    BY <1>8 DEF AllKept
  <2> QED BY <1>5, <2>1, ReadBits
<1> HIDE DEF val
<1>10. /\ AllKept(new(i), msip, mtimecmp, plic, visible_icount)
       /\ \/ new(i)[h].steps_left = 0
          \/ Unmoved(new(i)[h], now(i)[h]) /\ new(i)[h].steps_left = now(i)[h].steps_left
  BY <1>4, <1>5, <1>8, <1>9, WriteCsrKeeps
<1>11. i.csr = "mip" => new(i)[h].steps_left = 0
  <2>1. i.csr = "mip" => val(i) \subseteq Irqs
    BY <1>9 DEF Bits
  <2>2. i.csr = "mip" => new(i) = WriteMip(now(i), h, val(i), visible_icount)
    BY DEF WriteCsr
  <2> QED BY <1>4, <1>8, <2>1, <2>2, WriteMipKeeps
<1> HIDE DEF new
<1>12. \/ new(i)[h].steps_left = 0
       \/ Unmoved(new(i)[h], harts[h]) /\ new(i)[h].steps_left = harts[h].steps_left - 1
  BY <1>3, <1>8, <1>10, <1>11 DEF Ahead, Unmoved
<1>13. Effect(h, new(i), visible_icount)
  BY <1>2, <1>4, <1>10, <1>12 DEF Effect
<1> QED BY <1>1, <1>2, <1>4, <1>13, RetireKeeps

\* The turn of hart h ends.
Stopped(hs, h) == [hs EXCEPT ![h].steps_left = 0]

LEMMA StoppedKept ==
  ASSUME NEW h \in Harts, NEW hs, NEW soft, NEW cmp, NEW p, NEW v,
         AllKept(hs, soft, cmp, p, v), NEW new, new = Stopped(hs, h)
  PROVE  /\ AllKept(new, soft, cmp, p, v)
         /\ new[h].steps_left = 0 /\ Unmoved(new[h], hs[h])
         /\ \A g \in Harts \ {h} : new[g] = hs[g]
<1> DEFINE r == [hs[h] EXCEPT !.steps_left = 0]
<1>1. hs \in [Harts -> HartType] /\ hs[h] \in HartType
  BY DEF AllKept
<1>2. r \in HartType /\ Unmoved(r, hs[h]) /\ r.steps_left = 0
  BY <1>1, Bounds DEF HartType, Unmoved
<1>3. new = [hs EXCEPT ![h] = r]
  BY DEF Stopped
<1> HIDE DEF r
<1>4. new[h] = r /\ (\A g \in Harts \ {h} : new[g] = hs[g]) /\ new \in [Harts -> HartType]
  BY <1>1, <1>2, <1>3
<1>5. Kept(h, new[h], soft[h], cmp[h], p, v)
  BY <1>2, <1>4, UnmovedKept DEF AllKept
<1> QED BY <1>2, <1>4, <1>5 DEF AllKept

\* An access to a device ends the turn of the hart.
LEMMA AccessKeeps ==
  ASSUME BoardInv, NEW h \in Harts, Running(h), NEW hs,
         AllKept(hs, msip', mtimecmp', plic', visible_icount),
         msip' \in [Harts -> BOOLEAN], mtimecmp' \in [Harts -> Nat], plic' \in PlicType,
         NEW y \in Harts \cup {NoHart}, RetireAccess(h, hs, y)
  PROVE  BoardInv'
<1> DEFINE new == Stopped(hs, h)
<1>1. Retire(h, new, 1, y)
  BY DEF RetireAccess, Stopped
<1>2. AllKept(new, msip', mtimecmp', plic', visible_icount) /\ new[h].steps_left = 0
  BY StoppedKept
<1> HIDE DEF new
<1> QED BY <1>1, <1>2, HaltKeeps

LEMMA WriteMsipKeeps ==
  ASSUME BoardInv, NEW h \in Harts, WriteMsip(h)
  PROVE  BoardInv'
<1> DEFINE hs == Fetched(h)
           T(i) == IF i.other THEN Following(h) ELSE h
           ipi(i) == i.on /\ T(i) # h
           new(i) == [hs EXCEPT ![T(i)] = Refreshed(hs[T(i)], mtimecmp[T(i)], i.on, visible_icount)]
<1>1. PICK i \in Instr(h, "msip") :
        /\ msip' = [msip EXCEPT ![T(i)] = i.on]
        /\ RetireAccess(h, new(i), IF ipi(i) THEN T(i) ELSE yield_hart)
  BY DEF WriteMsip
<1>2. Running(h) /\ UNCHANGED <<mtimecmp, plic>>
  BY DEF WriteMsip, devices
<1>3. AllKept(hs, msip, mtimecmp, plic, visible_icount)
  BY <1>2, FetchedAhead DEF Ahead
<1>4. /\ visible_icount \in Nat /\ yield_hart \in Harts \cup {NoHart} /\ num_harts \in HartCounts
      /\ msip \in [Harts -> BOOLEAN] /\ mtimecmp \in [Harts -> Nat] /\ plic \in PlicType
  BY DEF BoardInv, TypeOK
<1>5. i.on \in BOOLEAN
  BY <1>1, InstrFormed DEF WellFormed
<1> HIDE DEF hs
<1> DEFINE t == T(i)
<1>6. t \in Harts
  BY <1>4, HartsBound
<1> HIDE DEF t
<1> DEFINE n == new(i)
           y == IF ipi(i) THEN t ELSE yield_hart
<1>7. n = [hs EXCEPT ![t] = Refreshed(hs[t], mtimecmp[t], i.on, visible_icount)]
  BY DEF t
<1>8. RetireAccess(h, n, y) /\ msip' = [msip EXCEPT ![t] = i.on]
  BY <1>1 DEF t
<1>9. y \in Harts \cup {NoHart}
  BY <1>4, <1>6
<1> HIDE DEF n, y
<1>10. /\ msip' \in [Harts -> BOOLEAN] /\ msip'[t] = i.on /\ mtimecmp[t] \in Nat
       /\ \A g \in Harts \ {t} : msip'[g] = msip[g]
  BY <1>4, <1>5, <1>6, <1>8
<1>11. /\ n[t] = Refreshed(hs[t], mtimecmp[t], msip'[t], visible_icount)
       /\ \A g \in Harts \ {t} : n[g] = hs[g]
       /\ n = [g \in DOMAIN hs |-> n[g]]
  BY <1>3, <1>6, <1>7, <1>10 DEF AllKept
<1>12. AllKept(n, msip', mtimecmp, plic, visible_icount)
  <2>1. /\ Elsewhere(t, msip', msip) /\ Elsewhere(t, mtimecmp, mtimecmp)
        /\ RefreshOf(n, hs, t, msip', mtimecmp, visible_icount)
    BY <1>10, <1>11 DEF Elsewhere, RefreshOf
  <2> QED BY <1>3, <1>4, <1>5, <1>6, <1>10, <2>1, RefreshedAt
<1> QED BY <1>2, <1>4, <1>8, <1>9, <1>10, <1>12, AccessKeeps

LEMMA WriteMtimecmpKeeps ==
  ASSUME BoardInv, NEW h \in Harts, WriteMtimecmp(h)
  PROVE  BoardInv'
<1> DEFINE hs == Fetched(h)
           cmp(i) == IF i.ticks = Never THEN Never ELSE Mtime(visible_icount) + i.ticks
           new(i) == [hs EXCEPT ![h] = Refreshed(hs[h], cmp(i), msip[h], visible_icount)]
<1>1. PICK i \in Instr(h, "mtimecmp") :
        mtimecmp' = [mtimecmp EXCEPT ![h] = cmp(i)] /\ RetireAccess(h, new(i), yield_hart)
  BY DEF WriteMtimecmp
<1>2. Running(h) /\ UNCHANGED <<msip, plic>>
  BY DEF WriteMtimecmp, devices
<1>3. AllKept(hs, msip, mtimecmp, plic, visible_icount)
  BY <1>2, FetchedAhead DEF Ahead
<1>4. /\ visible_icount \in Nat /\ yield_hart \in Harts \cup {NoHart}
      /\ msip \in [Harts -> BOOLEAN] /\ mtimecmp \in [Harts -> Nat] /\ plic \in PlicType
  BY DEF BoardInv, TypeOK
<1>5. cmp(i) \in Nat
  BY <1>1, <1>4, InstrFormed, Ticks, Bounds DEF WellFormed
<1> HIDE DEF hs, cmp
<1> DEFINE n == new(i)
<1>6. /\ mtimecmp' \in [Harts -> Nat] /\ mtimecmp'[h] = cmp(i) /\ msip[h] \in BOOLEAN
      /\ \A g \in Harts \ {h} : mtimecmp'[g] = mtimecmp[g]
  BY <1>1, <1>4, <1>5
<1>7. /\ n[h] = Refreshed(hs[h], mtimecmp'[h], msip[h], visible_icount)
      /\ \A g \in Harts \ {h} : n[g] = hs[g]
      /\ n = [g \in DOMAIN hs |-> n[g]]
  BY <1>3, <1>6 DEF AllKept
<1>8. RetireAccess(h, n, yield_hart)
  BY <1>1
<1> HIDE DEF n
<1>9. AllKept(n, msip, mtimecmp', plic, visible_icount)
  <2>1. /\ Elsewhere(h, msip, msip) /\ Elsewhere(h, mtimecmp', mtimecmp)
        /\ RefreshOf(n, hs, h, msip, mtimecmp', visible_icount)
    BY <1>6, <1>7 DEF Elsewhere, RefreshOf
  <2> QED BY <1>3, <1>4, <1>5, <1>6, <2>1, RefreshedAt
<1> QED BY <1>2, <1>4, <1>6, <1>8, <1>9, AccessKeeps

\* An access to a device that ends in plic_update.
LEMMA UpdatedKeeps ==
  ASSUME BoardInv, NEW h \in Harts, Running(h), NEW hs, Ahead(h, hs),
         UNCHANGED <<msip, mtimecmp>>, plic' \in PlicType,
         RetireAccess(h, PlicUpdate(hs, plic', visible_icount), yield_hart)
  PROVE  BoardInv'
<1> DEFINE new == PlicUpdate(hs, plic', visible_icount)
<1>1. /\ visible_icount \in Nat /\ yield_hart \in Harts \cup {NoHart} /\ num_harts \in HartCounts
      /\ msip \in [Harts -> BOOLEAN] /\ mtimecmp \in [Harts -> Nat]
  BY DEF BoardInv, TypeOK
<1>2. AllKept(hs, msip, mtimecmp, plic, visible_icount)
  BY DEF Ahead
<1>3. AllKept(new, msip, mtimecmp, plic', visible_icount)
  BY <1>1, <1>2, PlicUpdateKeeps
<1>4. RetireAccess(h, new, yield_hart)
  OBVIOUS
<1> HIDE DEF new
<1> QED BY <1>1, <1>3, <1>4, AccessKeeps

LEMMA PlicAccessKeeps ==
  ASSUME BoardInv, NEW h \in Harts, Running(h), NEW p \in PlicType, NEW x \in {0} \cup Sources,
         PlicAccess(h, p, x)
  PROVE  BoardInv'
<1> DEFINE hs == Fetched(h)
           r == [hs[h] EXCEPT !.x = x]
           new == [hs EXCEPT ![h] = r]
<1>1. Ahead(h, hs)
  BY FetchedAhead
<1>2. /\ plic' = p /\ UNCHANGED <<msip, mtimecmp>>
      /\ RetireAccess(h, PlicUpdate(new, plic', visible_icount), yield_hart)
  BY DEF PlicAccess
<1> HIDE DEF hs
<1>3. hs \in [Harts -> HartType]
  BY <1>1 DEF Ahead, AllKept
<1>4. r \in HartType /\ Unmoved(r, hs[h]) /\ r.steps_left = hs[h].steps_left
  <2>1. hs[h] \in HartType
    BY <1>3
  <2>2. r \in HartType
    BY <2>1 DEF HartType
  <2> QED BY <2>1, <2>2 DEF HartType, Unmoved
<1> HIDE DEF r
<1>5. new[h] = r /\ (\A g \in Harts \ {h} : new[g] = hs[g]) /\ new = [g \in DOMAIN hs |-> new[g]]
  BY <1>3
<1> HIDE DEF new
<1>6. Ahead(h, new)
  BY <1>1, <1>4, <1>5, StillAhead
<1> QED BY <1>2, <1>6, UpdatedKeeps

LEMMA PlicTyped ==
  ASSUME NEW p \in PlicType, NEW s \in Sources, NEW c \in Contexts
  PROVE  /\ \A level : SetIrq(p, s, level) \in PlicType
         /\ PlicClaim(p, c) \in PlicType /\ PlicComplete(p, s) \in PlicType
         /\ \A priority \in [Sources -> Nat] :
              [p EXCEPT !.enable[c] = Sources, !.priority = priority] \in PlicType
<1>1. PlicBest(p, c) \in {0} \cup Sources
  BY BestFound
<1>2. 0 \notin Sources
  BY DEF Sources, VIRTIO_BLK_IRQ, UART_IRQ
<1>3. /\ p.pending \subseteq Sources /\ p.level \subseteq Sources /\ p.claimed \subseteq Sources
      /\ p.enable \in [Contexts -> SUBSET Sources] /\ p.threshold \in [Contexts -> Nat]
      /\ p.priority \in [Sources -> Nat]
  BY DEF PlicType
<1>4. \A level : SetIrq(p, s, level) \in PlicType
  BY <1>3 DEF SetIrq, PlicType
<1>5. PlicClaim(p, c) \in PlicType
  BY <1>1, <1>3 DEF PlicClaim, PlicType
<1>6. PlicComplete(p, s) \in PlicType
  BY <1>3 DEF PlicComplete, PlicType
<1>7. ASSUME NEW priority \in [Sources -> Nat]
      PROVE  [p EXCEPT !.enable[c] = Sources, !.priority = priority] \in PlicType
  <2> DEFINE enable == [p.enable EXCEPT ![c] = Sources]
  <2>1. enable \in [Contexts -> SUBSET Sources]
    BY <1>3
  <2>2. [p EXCEPT !.enable[c] = Sources, !.priority = priority]
          = [p EXCEPT !.enable = enable, !.priority = priority]
    OBVIOUS
  <2> HIDE DEF enable
  <2> QED BY <1>3, <2>1, <2>2 DEF PlicType
<1> QED BY <1>4, <1>5, <1>6, <1>7

LEMMA EnableKeeps ==
  ASSUME BoardInv, NEW h \in Harts, Enable(h)
  PROVE  BoardInv'
<1> DEFINE p(i) == [plic EXCEPT !.enable[<<h, "S">>] = Sources, !.priority = i.priority]
<1>1. PICK i \in Instr(h, "enable") : PlicAccess(h, p(i), harts[h].x)
  BY DEF Enable
<1>2. Running(h)
  BY DEF Enable
<1>3. i.priority \in [Sources -> Nat]
  BY <1>1, InstrFormed DEF WellFormed
<1>4. plic \in PlicType /\ harts[h].x \in {0} \cup Sources /\ <<h, "S">> \in Contexts
  BY HartsBound DEF BoardInv, TypeOK, HartType, Contexts
<1>5. UART_IRQ \in Sources
  BY DEF Sources
<1>6. p(i) \in PlicType
  BY <1>3, <1>4, <1>5, PlicTyped
<1> HIDE DEF p
<1> QED BY <1>1, <1>2, <1>4, <1>6, PlicAccessKeeps

LEMMA ClaimKeeps ==
  ASSUME BoardInv, NEW h \in Harts, Claim(h)
  PROVE  BoardInv'
<1>1. Running(h) /\ PlicAccess(h, PlicClaim(plic, <<h, "S">>), PlicBest(plic, <<h, "S">>))
  BY DEF Claim
<1>2. plic \in PlicType /\ <<h, "S">> \in Contexts /\ UART_IRQ \in Sources
  BY HartsBound DEF BoardInv, TypeOK, Contexts, Sources
<1>3. PlicClaim(plic, <<h, "S">>) \in PlicType
  BY <1>2, PlicTyped
<1>4. PlicBest(plic, <<h, "S">>) \in {0} \cup Sources
  BY <1>2, BestFound
<1> QED BY <1>1, <1>3, <1>4, PlicAccessKeeps

LEMMA CompleteKeeps ==
  ASSUME BoardInv, NEW h \in Harts, Complete(h)
  PROVE  BoardInv'
<1> DEFINE p == IF harts[h].x \in Sources THEN PlicComplete(plic, harts[h].x) ELSE plic
<1>1. Running(h) /\ PlicAccess(h, p, harts[h].x)
  BY DEF Complete
<1>2. plic \in PlicType /\ harts[h].x \in {0} \cup Sources /\ <<h, "S">> \in Contexts
  BY HartsBound DEF BoardInv, TypeOK, HartType, Contexts
<1>3. p \in PlicType
  BY <1>2, PlicTyped
<1> HIDE DEF p
<1> QED BY <1>1, <1>2, <1>3, PlicAccessKeeps

\* A register of the UART or of the disk.
LEMMA FollowedKeeps ==
  ASSUME BoardInv, NEW h \in Harts, Running(h), UNCHANGED <<msip, mtimecmp>>,
         NEW follows, NEW level, NEW s \in Sources,
         plic' = IF follows THEN SetIrq(plic, s, level) ELSE plic,
         RetireAccess(h, IF follows THEN PlicUpdate(Fetched(h), plic', visible_icount)
                         ELSE Fetched(h), yield_hart)
  PROVE  BoardInv'
<1>1. Ahead(h, Fetched(h))
  BY FetchedAhead
<1>2. plic \in PlicType /\ <<h, "S">> \in Contexts
  BY HartsBound DEF BoardInv, TypeOK, Contexts
<1>3. CASE follows
  <2>1. plic' \in PlicType
    BY <1>2, <1>3, PlicTyped
  <2> QED BY <1>1, <1>3, <2>1, UpdatedKeeps
<1>4. CASE ~follows
  <2>1. AllKept(Fetched(h), msip', mtimecmp', plic', visible_icount)
    BY <1>1, <1>4 DEF Ahead
  <2>2. /\ msip' \in [Harts -> BOOLEAN] /\ mtimecmp' \in [Harts -> Nat] /\ plic' \in PlicType
        /\ yield_hart \in Harts \cup {NoHart}
    BY <1>2, <1>4 DEF BoardInv, TypeOK
  <2>3. RetireAccess(h, Fetched(h), yield_hart)
    BY <1>4
  <2> QED BY <2>1, <2>2, <2>3, AccessKeeps
<1> QED BY <1>3, <1>4

LEMMA UartKeeps ==
  ASSUME BoardInv, NEW h \in Harts, Running(h), NEW u, NEW follows, UartAccess(h, u, follows)
  PROVE  BoardInv'
<1>1. UART_IRQ \in Sources
  BY DEF Sources
<1> QED BY <1>1, FollowedKeeps DEF UartAccess

LEMMA DiskKeeps ==
  ASSUME BoardInv, NEW h \in Harts, Running(h), NEW d, NEW follows, DiskAccess(h, d, follows)
  PROVE  BoardInv'
<1>1. VIRTIO_BLK_IRQ \in Sources
  BY DEF Sources
<1> QED BY <1>1, FollowedKeeps DEF DiskAccess

LEMMA DriverKeeps ==
  ASSUME BoardInv, NEW h \in Harts, Running(h), NEW d, DriverAccess(h, d)
  PROVE  BoardInv'
BY FetchedAhead, PlainKeeps DEF DriverAccess

LEMMA DevicesKeep ==
  ASSUME BoardInv, NEW h \in Harts,
         \/ ReadRbr(h) \/ ReadIir(h) \/ WriteThr(h) \/ WriteIer(h)
         \/ Submit(h) \/ Notify(h) \/ Ack(h) \/ Reap(h) \/ Reset(h) \/ Ready(h)
  PROVE  BoardInv'
<1>1. ASSUME ReadRbr(h) PROVE BoardInv'
  BY <1>1, UartKeeps DEF ReadRbr
<1>2. ASSUME ReadIir(h) PROVE BoardInv'
  BY <1>2, UartKeeps DEF ReadIir
<1>3. ASSUME WriteThr(h) PROVE BoardInv'
  BY <1>3, UartKeeps DEF WriteThr
<1>4. ASSUME WriteIer(h) PROVE BoardInv'
  BY <1>4, UartKeeps DEF WriteIer
<1>5. ASSUME Submit(h) PROVE BoardInv'
  BY <1>5, DriverKeeps DEF Submit
<1>6. ASSUME Notify(h) PROVE BoardInv'
  BY <1>6, DiskKeeps DEF Notify
<1>7. ASSUME Ack(h) PROVE BoardInv'
  BY <1>7, DiskKeeps DEF Ack
<1>8. ASSUME Reap(h) PROVE BoardInv'
  BY <1>8, DriverKeeps DEF Reap
<1>9. ASSUME Reset(h) PROVE BoardInv'
  BY <1>9, DiskKeeps DEF Reset
<1>10. ASSUME Ready(h) PROVE BoardInv'
  BY <1>10, DiskKeeps DEF Ready
<1> QED BY <1>1, <1>2, <1>3, <1>4, <1>5, <1>6, <1>7, <1>8, <1>9, <1>10

\* new is hs with the record r for hart h.
Put(new, hs, h, r) ==
  new[h] = r /\ Elsewhere(h, new, hs) /\ new = [g \in DOMAIN hs |-> new[g]]

LEMMA PutKept ==
  ASSUME NEW h \in Harts, NEW hs, NEW soft, NEW cmp, NEW p, NEW v,
         AllKept(hs, soft, cmp, p, v), NEW r, Kept(h, r, soft[h], cmp[h], p, v),
         NEW new, Put(new, hs, h, r)
  PROVE  AllKept(new, soft, cmp, p, v)
<1>1. \A g \in Harts : Kept(g, new[g], soft[g], cmp[g], p, v)
  BY DEF AllKept, Put, Elsewhere
<1>2. \A g \in Harts : new[g] \in HartType
  BY <1>1 DEF Kept, Legal
<1>3. new \in [Harts -> HartType]
  BY <1>2 DEF AllKept, Put
<1> QED BY <1>1, <1>3 DEF AllKept

LEMMA TrapKept ==
  ASSUME BoardInv, NEW h \in Harts, NEW cause \in Causes, NEW new,
         Put(new, harts, h, Trapped(harts[h], cause, harts[h].medeleg, mtimecmp[h],
                                    visible_icount))
  PROVE  AllKept(new, msip, mtimecmp, plic, visible_icount) /\ new[h].steps_left = 0
<1> DEFINE hr == harts[h]
           r == Trapped(hr, cause, hr.medeleg, mtimecmp[h], visible_icount)
<1>1. /\ Kept(h, hr, msip[h], mtimecmp[h], plic, visible_icount)
      /\ AllKept(harts, msip, mtimecmp, plic, visible_icount)
      /\ mtimecmp[h] \in Nat /\ visible_icount \in Nat
  BY DEF BoardInv, TypeOK, AllKept
<1>2. Legal(hr) /\ cause \in Irqs \cup Causes
  BY <1>1 DEF Kept
<1> HIDE DEF hr
<1>3. /\ Legal(r) /\ Exact(r) /\ Timely(r, mtimecmp[h], visible_icount) /\ r.steps_left = 0
      /\ r.mip = hr.mip /\ r.mip_seip_sw = hr.mip_seip_sw
  BY <1>1, <1>2, TrappedKeeps
<1>4. Put(new, harts, h, r)
  BY DEF hr
<1> HIDE DEF r
<1>5. Kept(h, r, msip[h], mtimecmp[h], plic, visible_icount)
  BY <1>1, <1>3 DEF Kept, Wired
<1>6. AllKept(new, msip, mtimecmp, plic, visible_icount)
  BY <1>1, <1>4, <1>5, PutKept
<1> QED BY <1>3, <1>4, <1>6 DEF Put

LEMMA TrapKeeps ==
  ASSUME BoardInv, NEW h \in Harts, Running(h), NEW cause \in Causes, NEW dv \in Nat,
         Trap(h, cause, dv)
  PROVE  BoardInv'
<1> DEFINE r == Trapped(harts[h], cause, harts[h].medeleg, mtimecmp[h], visible_icount)
           new == [harts EXCEPT ![h] = r]
<1>1. Retire(h, new, dv, yield_hart) /\ UNCHANGED <<msip, mtimecmp, plic>>
  BY DEF Trap, devices
<1>2. /\ yield_hart \in Harts \cup {NoHart} /\ DOMAIN harts = Harts
      /\ msip \in [Harts -> BOOLEAN] /\ mtimecmp \in [Harts -> Nat] /\ plic \in PlicType
  BY DEF BoardInv, TypeOK
<1>3. Put(new, harts, h, r)
  BY <1>2 DEF Put, Elsewhere
<1> HIDE DEF new
<1>4. AllKept(new, msip, mtimecmp, plic, visible_icount) /\ new[h].steps_left = 0
  BY <1>3, TrapKept
<1> QED BY <1>1, <1>2, <1>4, HaltKeeps

LEMMA FetchFaultKeeps ==
  ASSUME BoardInv, NEW h \in Harts, FetchFault(h)
  PROVE  BoardInv'
<1> DEFINE r == Trapped(harts[h], "FAULT", harts[h].medeleg, mtimecmp[h], visible_icount)
           new == [harts EXCEPT ![h] = r]
<1>1. /\ harts' = new /\ phase' = "schedule"
      /\ UNCHANGED <<msip, mtimecmp, plic, visible_icount, insn_count, num_harts,
                     active_hart, yield_hart, next_hart>>
  BY DEF FetchFault, devices, config
<1>2. DOMAIN harts = Harts /\ Harts' = Harts /\ "FAULT" \in Causes
  BY <1>1 DEF BoardInv, TypeOK, Harts, Causes
<1>3. Put(new, harts, h, r)
  BY <1>2 DEF Put, Elsewhere
<1> HIDE DEF new
<1>4. AllKept(new, msip, mtimecmp, plic, visible_icount)
  BY <1>2, <1>3, TrapKept
<1>5. new \in [Harts -> HartType] /\ \A g \in Harts : Legal(new[g])
  BY <1>4 DEF AllKept, Kept
<1>6. TypeOK'
  BY <1>1, <1>2, <1>5 DEF BoardInv, TypeOK, Legal
<1>7. AllKept(harts, msip, mtimecmp, plic, visible_icount)'
  BY <1>1, <1>2, <1>4 DEF AllKept
<1> QED BY <1>1, <1>6, <1>7 DEF BoardInv, RunKept, StuckKept

LEMMA XretKeeps ==
  ASSUME BoardInv, NEW h \in Harts, Xret(h)
  PROVE  BoardInv'
<1> DEFINE hr == harts[h]
           ret(i) == Returned(hr, i.mode = "M", mtimecmp[h], visible_icount)
           new(i) == [harts EXCEPT ![h] = ret(i)]
<1>1. PICK i \in Instr(h, "xret") : Retire(h, new(i), 1, yield_hart)
  BY DEF Xret
<1>2. Running(h) /\ UNCHANGED <<msip, mtimecmp, plic>>
  BY DEF Xret, devices
<1>3. /\ Kept(h, hr, msip[h], mtimecmp[h], plic, visible_icount) /\ Legal(hr)
      /\ AllKept(harts, msip, mtimecmp, plic, visible_icount) /\ DOMAIN harts = Harts
      /\ mtimecmp[h] \in Nat /\ visible_icount \in Nat /\ yield_hart \in Harts \cup {NoHart}
      /\ msip \in [Harts -> BOOLEAN] /\ mtimecmp \in [Harts -> Nat] /\ plic \in PlicType
  BY DEF BoardInv, TypeOK, AllKept, Kept
<1> HIDE DEF hr
<1> DEFINE r == ret(i)
           n == [harts EXCEPT ![h] = r]
<1>4. Retire(h, n, 1, yield_hart)
  BY <1>1
<1>5. /\ Legal(r) /\ Exact(r) /\ Timely(r, mtimecmp[h], visible_icount) /\ r.steps_left = 0
      /\ r.mip = hr.mip /\ r.mip_seip_sw = hr.mip_seip_sw
  <2>1. Legal(hr) /\ mtimecmp[h] \in Nat /\ visible_icount \in Nat
    BY <1>3
  <2>2. CASE i.mode = "M"
    <3>1. r = Mret(hr, mtimecmp[h], visible_icount)
      BY <2>2 DEF Returned, Mret
    <3> HIDE DEF r
    <3> QED BY <2>1, <3>1, ReturnedKeeps
  <2>3. CASE i.mode # "M"
    <3>1. r = Sret(hr, mtimecmp[h], visible_icount)
      BY <2>3 DEF Returned, Sret
    <3> HIDE DEF r
    <3> QED BY <2>1, <3>1, ReturnedKeeps
  <2> QED BY <2>2, <2>3
<1> HIDE DEF r
<1>6. Put(n, harts, h, r)
  BY <1>3 DEF Put, Elsewhere
<1> HIDE DEF n
<1>7. Kept(h, r, msip[h], mtimecmp[h], plic, visible_icount)
  BY <1>3, <1>5 DEF Kept, Wired
<1>8. AllKept(n, msip, mtimecmp, plic, visible_icount)
  BY <1>3, <1>6, <1>7, PutKept
<1>9. n[h].steps_left = 0
  BY <1>5, <1>6 DEF Put
<1> QED BY <1>2, <1>3, <1>4, <1>8, <1>9, HaltKeeps

\* Input that arrives: the PLIC stays one, and the harts follow it.
LEMMA PumpKept ==
  ASSUME num_harts \in HartCounts, mtimecmp \in [Harts -> Nat], plic \in PlicType,
         NEW hs, NEW n, NEW v \in Nat, NEW soft, AllKept(hs, soft, mtimecmp, plic, v),
         NEW new, new = PumpedHarts(hs, n, v)
  PROVE  /\ PumpedPlic(n) \in PlicType /\ AllKept(new, soft, mtimecmp, PumpedPlic(n), v)
         /\ Updated(new, hs)
<1>1. CASE Pumped(n) = uart
  <2>1. new = hs /\ PumpedPlic(n) = plic
    BY <1>1 DEF PumpedHarts, PumpedPlic
  <2> QED BY <2>1 DEF Same, Updated
<1>2. CASE Pumped(n) # uart
  <2>1. new = PlicUpdate(hs, PumpedPlic(n), v)
    BY <1>2 DEF PumpedHarts
  <2>2. PumpedPlic(n) \in PlicType
    <3>1. UART_IRQ \in Sources /\ <<0, "S">> \in Contexts
      BY Bounds DEF Sources, Contexts
    <3>2. PumpedPlic(n) = SetIrq(plic, UART_IRQ, UartPending(Pumped(n)))
      BY <1>2 DEF PumpedPlic
    <3> QED BY <3>1, <3>2, PlicTyped
  <2>3. AllKept(new, soft, mtimecmp, PumpedPlic(n), v) /\ Updated(new, hs)
    BY <2>1, <2>2, PlicUpdateKeeps
  <2> QED BY <2>2, <2>3
<1> QED BY <1>1, <1>2

LEMMA WfiTimeLater ==
  ASSUME NEW cmp \in Nat, NEW v \in Nat
  PROVE  WfiTime(cmp, v) \in Nat /\ WfiTime(cmp, v) >= v
<1> DEFINE most == Never \div TicksPer
           to == (IF cmp > most THEN most ELSE cmp) * TicksPer
<1>1. most \in Nat
  BY Bounds
<1>2. to \in Nat
  BY <1>1, Bounds
<1>3. WfiTime(cmp, v) = IF cmp = Never \/ Mtime(v) >= cmp \/ to <= v THEN v ELSE to
  BY DEF WfiTime
<1> HIDE DEF to
<1> QED BY <1>2, <1>3

\* A hart may sleep, or wake.
LEMMA SleepKept ==
  ASSUME NEW h, NEW hr, NEW soft, NEW cmp, NEW p, NEW v, Kept(h, hr, soft, cmp, p, v),
         NEW sleeps \in BOOLEAN, NEW r, r = [hr EXCEPT !.wfi_sleeping = sleeps]
  PROVE  /\ Kept(h, r, soft, cmp, p, v) /\ r.wfi_sleeping = sleeps /\ r.pc = hr.pc
         /\ r.steps_left = hr.steps_left /\ r.mip = hr.mip
         /\ r.irq_deliverable = hr.irq_deliverable /\ r.irq_next_check = hr.irq_next_check
<1>1. hr \in HartType
  BY DEF Kept, Legal
<1>2. /\ r \in HartType /\ r.wfi_sleeping = sleeps /\ r.pc = hr.pc
      /\ r.steps_left = hr.steps_left /\ r.mip = hr.mip
      /\ r.irq_deliverable = hr.irq_deliverable /\ r.irq_next_check = hr.irq_next_check
      /\ r.priv = hr.priv /\ r.mstatus = hr.mstatus /\ r.mie = hr.mie /\ r.mideleg = hr.mideleg
      /\ r.mip_seip_sw = hr.mip_seip_sw
  BY <1>1 DEF HartType
<1>3. \A i : Takes(r, i) <=> Takes(hr, i)
  BY <1>2 DEF Takes
<1> QED BY <1>2, <1>3 DEF Kept, Legal, Exact, Wired, Timely

LEMMA WfiKeeps ==
  ASSUME BoardInv, NEW h \in Harts, Wfi(h)
  PROVE  BoardInv'
<1> DEFINE v == visible_icount + 1
           n == insn_count + 1
           F == Fetched(h)
           S0 == Stopped(F, h)
           hs == PumpedHarts(S0, n, v)
           sleeps == hs[h].irq_next_check > v
           to == IF sleeps /\ num_harts = 1 THEN WfiTime(mtimecmp[h], v) ELSE v
           dv == to - visible_icount
           r == [hs[h] EXCEPT !.wfi_sleeping = sleeps]
           new == [hs EXCEPT ![h] = r]
<1>1. /\ Running(h) /\ plic' = PumpedPlic(n) /\ UNCHANGED <<msip, mtimecmp>>
      /\ Retire(h, new, dv, yield_hart)
  BY DEF Wfi, Pump, Stopped
<1>2. /\ visible_icount \in Nat /\ yield_hart \in Harts \cup {NoHart} /\ num_harts \in HartCounts
      /\ msip \in [Harts -> BOOLEAN] /\ mtimecmp \in [Harts -> Nat] /\ plic \in PlicType
      /\ mtimecmp[h] \in Nat
  BY DEF BoardInv, TypeOK
<1>3. v \in Nat /\ visible_icount <= v
  BY <1>2
<1>4. dv \in Nat /\ v <= visible_icount + dv
  <2> HIDE DEF v, sleeps
  <2>1. WfiTime(mtimecmp[h], v) \in Nat /\ WfiTime(mtimecmp[h], v) >= v
    BY <1>2, <1>3, WfiTimeLater
  <2>2. to \in Nat /\ to >= v
    BY <1>3, <2>1
  <2> HIDE DEF to
  <2> QED BY <1>2, <1>3, <2>2
<1> HIDE DEF dv
<1>5. AllKept(F, msip, mtimecmp, plic, visible_icount)
  BY <1>1, FetchedAhead DEF Ahead
<1> HIDE DEF F
<1>6. AllKept(S0, msip, mtimecmp, plic, visible_icount) /\ S0[h].steps_left = 0
  BY <1>5, StoppedKept
<1> HIDE DEF S0
<1> HIDE DEF v
<1>7. AllKept(S0, msip, mtimecmp, plic, v)
  BY <1>2, <1>3, <1>6, AllLater
<1>8. /\ plic' \in PlicType /\ AllKept(hs, msip, mtimecmp, plic', v) /\ hs[h].steps_left = 0
  <2>1. /\ PumpedPlic(n) \in PlicType /\ AllKept(hs, msip, mtimecmp, PumpedPlic(n), v)
        /\ Updated(hs, S0)
    BY <1>2, <1>3, <1>7, PumpKept
  <2> QED BY <1>1, <1>6, <2>1 DEF Updated
<1> HIDE DEF hs
<1>9. Kept(h, hs[h], msip[h], mtimecmp[h], plic', v) /\ DOMAIN hs = Harts /\ sleeps \in BOOLEAN
  BY <1>8 DEF AllKept
<1> HIDE DEF sleeps
<1>10. Kept(h, r, msip[h], mtimecmp[h], plic', v) /\ r.steps_left = 0
  BY <1>8, <1>9, SleepKept
<1> HIDE DEF r
<1>11. Put(new, hs, h, r)
  BY <1>9 DEF Put, Elsewhere
<1> HIDE DEF new
<1>12. AllKept(new, msip, mtimecmp, plic', v)
  BY <1>8, <1>10, <1>11, PutKept
<1>13. new[h].steps_left = 0
  BY <1>10, <1>11 DEF Put
<1>14. Effect(h, new, v)
  BY <1>1, <1>2, <1>8, <1>12, <1>13 DEF Effect
<1> QED BY <1>1, <1>2, <1>3, <1>4, <1>13, <1>14, RetireKeeps

-----------------------------------------------------------------------------
(* The scheduler                                                           *)

LEMMA LeastIn ==
  ASSUME NEW T \in SUBSET Nat, T # {}
  PROVE  \E i \in T : \A j \in T : i <= j
<1> DEFINE R == OpToRel(<, Nat)
<1>1. PICK i \in T : \A j \in T : ~(<<j, i>> \in R)
  <2>1. IsWellFoundedOn(R, Nat)
    BY NatLessThanWellFounded
  <2> HIDE DEF R
  <2> QED BY <2>1, WFMin
<1> SUFFICES ASSUME NEW j \in T PROVE i <= j
  BY <1>1
<1>2. ~(j < i)
  BY <1>1 DEF OpToRel
<1> QED BY <1>2

\* The hart whose turn it is, if any can have it.
LEMMA FirstIn ==
  ASSUME num_harts \in HartCounts, NEW start \in Harts, NEW ok \in SUBSET Harts, ok # {}
  PROVE  First(start, ok) \in ok
<1> DEFINE n == num_harts
           T == {i \in 0 .. n - 1 : (start + i) % n \in ok}
           Best(i) == /\ (start + i) % n \in ok
                      /\ \A j \in 0 .. i - 1 : (start + j) % n \notin ok
<1>1. n \in Nat /\ n > 0 /\ Harts = 0 .. n - 1
  BY HartsBound DEF Harts
<1>2. T \in SUBSET Nat
  BY <1>1
<1>3. T # {}
  <2>1. PICK h \in ok : TRUE
    OBVIOUS
  <2>2. h \in 0 .. n - 1 /\ start \in 0 .. n - 1
    BY <1>1, <2>1
  <2> DEFINE i == (h + n - start) % n
  <2>3. i \in 0 .. n - 1 /\ (start + i) % n = h
    BY <1>1, <2>2
  <2> QED BY <2>1, <2>3
<1>4. PICK i \in T : \A j \in T : i <= j
  BY <1>2, <1>3, LeastIn
<1>5. i \in 0 .. n - 1 /\ Best(i)
  <2>1. ASSUME NEW j \in 0 .. i - 1 PROVE (start + j) % n \notin ok
    <3>1. j \in 0 .. n - 1 /\ ~(i <= j)
      BY <1>1, <1>4, <2>1
    <3> QED BY <1>4, <3>1
  <2> QED BY <1>4, <2>1
<1> DEFINE k == CHOOSE k \in 0 .. n - 1 : Best(k)
<1>6. Best(k)
  <2> HIDE DEF Best
  <2> QED BY <1>5
<1>7. First(start, ok) = (start + k) % n
  BY DEF First
<1> HIDE DEF k
<1> QED BY <1>6, <1>7

\* What the refreshes on the way to a hart may change.
Seen(new, hs) ==
  \A h \in Harts : /\ Same(new[h], hs[h])
                   /\ new[h].mip \cap {"SSI", "STI"} = hs[h].mip \cap {"SSI", "STI"}

LEMMA LookedKept ==
  ASSUME NEW hs, NEW set, NEW v \in Nat, AllKept(hs, msip, mtimecmp, plic, v),
         msip \in [Harts -> BOOLEAN], mtimecmp \in [Harts -> Nat],
         NEW new, new = Looked(hs, set, v)
  PROVE  AllKept(new, msip, mtimecmp, plic, v) /\ Seen(new, hs)
<1>1. ASSUME NEW h \in Harts
      PROVE  /\ Kept(h, new[h], msip[h], mtimecmp[h], plic, v)
             /\ Same(new[h], hs[h])
             /\ new[h].mip \cap {"SSI", "STI"} = hs[h].mip \cap {"SSI", "STI"}
  <2>1. Kept(h, hs[h], msip[h], mtimecmp[h], plic, v)
    BY DEF AllKept
  <2>2. CASE new[h] = hs[h]
    BY <2>1, <2>2 DEF Same
  <2>3. CASE new[h] = Refreshed(hs[h], mtimecmp[h], msip[h], v)
    <3>1. msip[h] \in BOOLEAN /\ mtimecmp[h] \in Nat
      OBVIOUS
    <3>2. Kept(h, new[h], msip[h], mtimecmp[h], plic, v) /\ Same(new[h], hs[h])
      BY <2>1, <2>3, <3>1, RefreshedKept
    <3>3. \A i \in Irqs \ {"MSI", "MTI"} : i \in new[h].mip <=> i \in hs[h].mip
      BY <2>1, <2>3, <3>1, RefreshedKeeps DEF Kept
    <3> QED BY <3>2, <3>3 DEF Irqs
  <2> QED BY <2>2, <2>3 DEF Looked, Refresh
<1>2. new \in [Harts -> HartType]
  <2>1. \A h \in Harts : new[h] \in HartType
    BY <1>1 DEF Kept, Legal
  <2>2. new = [h \in Harts |-> new[h]]
    BY DEF Looked
  <2> QED BY <2>1, <2>2
<1> QED BY <1>1, <1>2 DEF AllKept, Seen

\* A hart gets its turn at count v: it takes an interrupt that is due, or has none, and
\* runs no further than its deadline.
LEMMA DispatchKeeps ==
  ASSUME BoardInv, NEW h \in Harts, NEW hs, NEW v \in Nat, insn_count < MaxInsns,
         AllKept(hs, msip, mtimecmp, plic, v), Dispatch(h, hs, v), Seen(hs, harts),
         yield_hart' = NoHart, next_hart' \in Harts
  PROVE  /\ BoardInv'
         /\ \A g \in Harts : harts'[g].pc # harts[g].pc =>
                               harts'[g].pc.in[2] \in Due(g, plic', v)
<1> DEFINE no == FALSE
           a == [hs[h] EXCEPT !.wfi_sleeping = no]
           awake == [hs EXCEPT ![h] = a]
           pumped == PumpedHarts(awake, insn_count, v)
           hr == IF v >= pumped[h].irq_next_check THEN Checked(pumped[h], mtimecmp[h], v)
                 ELSE pumped[h]
           left == MaxInsns - insn_count
           steps == IF hr.irq_next_check <= v THEN 1
                    ELSE IF hr.irq_next_check - v < left THEN hr.irq_next_check - v ELSE left
           r == [hr EXCEPT !.steps_left = steps]
<1>1. /\ harts' = [pumped EXCEPT ![h] = r]
      /\ active_hart' = h /\ visible_icount' = v /\ phase' = "run"
      /\ plic' = PumpedPlic(insn_count)
      /\ UNCHANGED <<msip, mtimecmp, insn_count, num_harts>>
  BY DEF Dispatch, Pump, config
<1>2. /\ num_harts \in HartCounts /\ insn_count \in Nat /\ left \in Nat /\ left > 0
      /\ msip \in [Harts -> BOOLEAN] /\ mtimecmp \in [Harts -> Nat] /\ plic \in PlicType
      /\ mtimecmp[h] \in Nat /\ Harts' = Harts /\ left <= MaxInsns /\ insn_count + left = MaxInsns
  <2>1. /\ num_harts \in HartCounts /\ insn_count \in 0 .. MaxInsns
        /\ msip \in [Harts -> BOOLEAN] /\ mtimecmp \in [Harts -> Nat] /\ plic \in PlicType
    BY DEF BoardInv, TypeOK
  <2>2. Harts' = Harts
    BY <1>1 DEF Harts
  <2>3. left \in Nat /\ left > 0 /\ left <= MaxInsns /\ insn_count + left = MaxInsns
    BY <2>1, Bounds
  <2> QED BY <2>1, <2>2, <2>3
<1>3. /\ a.wfi_sleeping = FALSE /\ a.pc = hs[h].pc
      /\ AllKept(awake, msip, mtimecmp, plic, v) /\ Put(awake, hs, h, a)
  <2>1. Kept(h, hs[h], msip[h], mtimecmp[h], plic, v) /\ DOMAIN hs = Harts
    BY DEF AllKept
  <2>2. Kept(h, a, msip[h], mtimecmp[h], plic, v) /\ a.wfi_sleeping = FALSE /\ a.pc = hs[h].pc
    <3>1. no \in BOOLEAN /\ no = FALSE
      OBVIOUS
    <3> HIDE DEF no
    <3>2. /\ Kept(h, a, msip[h], mtimecmp[h], plic, v) /\ a.wfi_sleeping = no
          /\ a.pc = hs[h].pc
      BY <2>1, <3>1, SleepKept
    <3> QED BY <3>1, <3>2
  <2> HIDE DEF a
  <2>3. Put(awake, hs, h, a)
    BY <2>1 DEF Put, Elsewhere
  <2> HIDE DEF awake
  <2>4. AllKept(awake, msip, mtimecmp, plic, v)
    BY <2>2, <2>3, PutKept
  <2> QED BY <2>2, <2>3, <2>4
<1>4. \A g \in Harts :
        /\ awake[g].pc = hs[g].pc /\ awake[g].mip = hs[g].mip /\ awake[g].priv = hs[g].priv
        /\ awake[g].mstatus = hs[g].mstatus /\ awake[g].mie = hs[g].mie
        /\ awake[g].mideleg = hs[g].mideleg /\ awake[g].mip_seip_sw = hs[g].mip_seip_sw
  <2>1. hs[h] \in HartType
    BY DEF AllKept
  <2>2. /\ a.pc = hs[h].pc /\ a.mip = hs[h].mip /\ a.priv = hs[h].priv
        /\ a.mstatus = hs[h].mstatus /\ a.mie = hs[h].mie
        /\ a.mideleg = hs[h].mideleg /\ a.mip_seip_sw = hs[h].mip_seip_sw
    BY <2>1 DEF HartType
  <2> HIDE DEF a
  <2>3. awake[h] = a /\ \A g \in Harts \ {h} : awake[g] = hs[g]
    BY <1>3 DEF Put, Elsewhere
  <2> HIDE DEF awake
  <2> QED BY <2>2, <2>3
<1> HIDE DEF a, awake
<1>5. /\ plic' \in PlicType /\ AllKept(pumped, msip, mtimecmp, plic', v) /\ Updated(pumped, awake)
  BY <1>1, <1>2, <1>3, PumpKept
<1>6. \A g \in Harts :
        /\ pumped[g].pc = harts[g].pc
        /\ pumped[g].mip \cap {"SSI", "STI"} = harts[g].mip \cap {"SSI", "STI"}
        /\ pumped[g].mip_seip_sw = harts[g].mip_seip_sw
        /\ \A i : Takes(pumped[g], i) <=> Takes(harts[g], i)
  BY <1>4, <1>5 DEF Updated, Same, Seen, Takes
<1>7. Kept(h, pumped[h], msip[h], mtimecmp[h], plic', v) /\ pumped[h].wfi_sleeping = FALSE
  BY <1>3, <1>5 DEF AllKept, Updated, Same, Put
<1> HIDE DEF pumped
<1>8. /\ Kept(h, hr, msip[h], mtimecmp[h], plic', v) /\ Quiet(hr, mtimecmp[h], v)
      /\ hr.wfi_sleeping = FALSE
      /\ \/ hr.pc = pumped[h].pc
         \/ /\ hr.pc.in[2] \in pumped[h].irq_deliverable
            /\ hr.pc.in[2] \in pumped[h].mip \/ hr.pc.in[2] = "MTI"
            /\ hr.pc.in[2] = "MTI" => Mtime(v) >= mtimecmp[h]
  <2>1. CASE v >= pumped[h].irq_next_check
    <3>1. hr = Checked(pumped[h], mtimecmp[h], v)
      BY <2>1
    <3> HIDE DEF hr
    <3>2. /\ Kept(h, hr, msip[h], mtimecmp[h], plic', v) /\ Quiet(hr, mtimecmp[h], v)
          /\ hr.wfi_sleeping = pumped[h].wfi_sleeping
          /\ \/ hr.pc = pumped[h].pc
             \/ /\ hr.pc.in[2] \in pumped[h].irq_deliverable
                /\ hr.pc.in[2] \in pumped[h].mip \/ hr.pc.in[2] = "MTI"
                /\ hr.pc.in[2] = "MTI" => Mtime(v) >= mtimecmp[h]
      BY <1>2, <1>7, <3>1, CheckedKeeps
    <3> QED BY <1>7, <3>2
  <2>2. CASE ~(v >= pumped[h].irq_next_check)
    <3>1. hr = pumped[h]
      BY <2>2
    <3>2. Legal(pumped[h]) /\ Timely(pumped[h], mtimecmp[h], v) /\ pumped[h].irq_next_check \in Nat
      BY <1>7 DEF Kept, Legal, HartType
    <3>3. Quiet(pumped[h], mtimecmp[h], v)
      BY <1>2, <2>2, <3>2, BeforeDeadline
    <3> QED BY <1>7, <3>1, <3>3
  <2> QED BY <2>1, <2>2
<1> HIDE DEF hr, left
<1>9. /\ hr \in HartType /\ hr.irq_next_check \in Nat /\ Legal(hr)
  BY <1>8 DEF Kept, Legal, HartType
<1>10. /\ steps \in Nat /\ steps > 0 /\ steps <= left
       /\ steps > 1 => v + steps <= hr.irq_next_check
  BY <1>2, <1>9
<1> HIDE DEF steps
<1>11. /\ r \in HartType /\ Unmoved(r, hr) /\ r.steps_left = steps /\ r.pc = hr.pc
  <2>1. steps \in 0 .. MaxInsns
    BY <1>2, <1>10, Bounds
  <2> QED BY <1>9, <2>1 DEF HartType, Unmoved
<1> HIDE DEF r
<1>12. Put(harts', pumped, h, r)
  BY <1>1, <1>5 DEF Put, Elsewhere, AllKept
<1>13. AllKept(harts', msip, mtimecmp, plic', v)
  <2>1. Kept(h, r, msip[h], mtimecmp[h], plic', v)
    BY <1>8, <1>11, UnmovedKept
  <2> QED BY <1>5, <1>12, <2>1, PutKept
<1>14. harts'[h] = r /\ \A g \in Harts \ {h} : harts'[g] = pumped[g]
  BY <1>12 DEF Put, Elsewhere
<1>15. TypeOK'
  <2>1. harts' \in [Harts -> HartType] /\ \A g \in Harts : Legal(harts'[g])
    BY <1>13 DEF AllKept, Kept
  <2>2. harts'[h].steps_left > 0 /\ ~harts'[h].wfi_sleeping
    BY <1>8, <1>10, <1>11, <1>14 DEF Unmoved
  <2>3. insn_count \in 0 .. MaxInsns
    BY DEF BoardInv, TypeOK
  <2> QED BY <1>1, <1>2, <1>5, <2>1, <2>2, <2>3 DEF TypeOK, Legal
<1>16. RunKept'
  <2>1. /\ h \in Harts' /\ insn_count' + steps <= MaxInsns
    BY <1>1, <1>2, <1>10, Bounds
  <2>2. Quiet(harts'[h], mtimecmp'[h], visible_icount')
    BY <1>1, <1>8, <1>11, <1>14 DEF Quiet, Unmoved
  <2>3. steps > 1 => visible_icount' + steps <= harts'[h].irq_next_check
    BY <1>1, <1>10, <1>11, <1>14 DEF Unmoved
  <2> QED BY <1>1, <1>11, <1>14, <2>1, <2>2, <2>3 DEF RunKept
<1>17. AllKept(harts, msip, mtimecmp, plic, visible_icount)'
  BY <1>1, <1>2, <1>13 DEF AllKept
<1>18. BoardInv'
  BY <1>1, <1>2, <1>15, <1>16, <1>17 DEF BoardInv, StuckKept
<1>19. ASSUME NEW g \in Harts, harts'[g].pc # harts[g].pc
       PROVE  harts'[g].pc.in[2] \in Due(g, plic', v)
  <2>1. g = h
    BY <1>6, <1>14, <1>19
  <2> DEFINE i == hr.pc.in[2]
  <2>2. /\ harts'[g].pc.in[2] = i
        /\ i \in pumped[h].irq_deliverable
        /\ i \in pumped[h].mip \/ i = "MTI"
        /\ i = "MTI" => Mtime(v) >= mtimecmp[h]
    BY <1>6, <1>8, <1>11, <1>14, <1>19, <2>1
  <2> HIDE DEF i
  <2>3. i \in Irqs /\ Takes(harts[h], i)
    BY <1>6, <1>7, <2>2 DEF Kept, Exact
  <2>4. i \in Pending(h, plic', v)
    BY <1>6, <1>7, <2>2, <2>3 DEF Kept, Wired, Pending, Irqs
  <2> QED BY <2>1, <2>2, <2>3, <2>4 DEF Due
<1> QED BY <1>18, <1>19

LEMMA Given ==
  ASSUME BoardInv
  PROVE  /\ num_harts \in HartCounts /\ visible_icount \in Nat /\ plic \in PlicType
         /\ msip \in [Harts -> BOOLEAN] /\ mtimecmp \in [Harts -> Nat]
         /\ AllKept(harts, msip, mtimecmp, plic, visible_icount)
         /\ next_hart \in Harts /\ yield_hart \in Harts \cup {NoHart}
         /\ active_hart \in Harts \cup {NoHart}
BY DEF BoardInv, TypeOK

\* What wakes a hart.
LEMMA WhatWakes ==
  ASSUME BoardInv, NEW h \in Harts, NEW v \in Nat, ~Wakes(harts, h, v)
  PROVE  ~(Mtime(v) >= mtimecmp[h]) /\ ~msip[h] /\ "MEI" \notin harts[h].mip
         /\ "SEI" \notin harts[h].mip
<1> DEFINE r == Refresh(harts, h, v)
<1>1. /\ Legal(harts[h]) /\ mtimecmp[h] \in Nat /\ msip[h] \in BOOLEAN
  BY Given DEF AllKept, Kept
<1>2. r = Refreshed(harts[h], mtimecmp[h], msip[h], v)
  BY DEF Refresh
<1>3. r.mip \cap PlatformMask = {}
  BY DEF Wakes
<1> HIDE DEF r
<1>4. /\ "MSI" \in r.mip <=> msip[h]
      /\ "MTI" \in r.mip <=> Mtime(v) >= mtimecmp[h]
      /\ \A i \in Irqs \ {"MSI", "MTI"} : i \in r.mip <=> i \in harts[h].mip
  BY <1>1, <1>2, RefreshedKeeps
<1> QED BY <1>3, <1>4 DEF PlatformMask, Irqs

\* Where a timer's count lies.
LEMMA EventAt ==
  ASSUME NEW v \in Nat, NEW cmp \in Nat, NEW e, e = EventCount(cmp, v)
  PROVE  /\ e \in Nat
         /\ e # Never => v <= e /\ Mtime(e) >= cmp
         /\ e # Never => e = v \/ (e = cmp * TicksPer /\ e <= Never)
         /\ e = Never => Mtime(v) >= cmp \/ cmp * TicksPer >= Never
<1>1. cmp * TicksPer \in Nat /\ cmp * TicksPer >= cmp
  BY Bounds
<1>2. (Mtime(v) >= cmp <=> v >= cmp * TicksPer) /\ Mtime(v) \in Nat
  BY Ticks
<1>3. Mtime(cmp * TicksPer) >= cmp
  BY <1>1, Ticks
<1>4. cmp > Never \div TicksPer => cmp * TicksPer > Never
  BY Ticks
<1>5. ~(cmp > Never \div TicksPer) => cmp * TicksPer <= Never
  <2>1. (Never \div TicksPer) \in Nat /\ (Never \div TicksPer) * TicksPer <= Never
    BY Bounds
  <2> DEFINE q == Never \div TicksPer
  <2>2. q \in Nat /\ q * TicksPer <= Never
    BY <2>1
  <2> HIDE DEF q
  <2>3. cmp <= q => cmp * TicksPer <= q * TicksPer
    BY <2>2, Bounds
  <2>4. ~(cmp > q) => cmp <= q
    BY <2>2
  <2>5. cmp <= q => cmp * TicksPer <= Never
    BY <1>1, <2>2, <2>3, Bounds
  <2> QED BY <2>4, <2>5 DEF q
<1>6. e = IF cmp = Never THEN Never
          ELSE IF Mtime(v) >= cmp THEN v
          ELSE IF cmp > Never \div TicksPer THEN Never ELSE cmp * TicksPer
  BY DEF EventCount
<1> QED BY <1>1, <1>2, <1>3, <1>4, <1>5, <1>6, Bounds

\* The first timer.
LEMMA FirstTimer ==
  ASSUME BoardInv
  PROVE  /\ JumpTo \in Nat /\ JumpTo >= visible_icount
         /\ Deadlines # {} => JumpTo \in Deadlines /\ \A e \in Deadlines : JumpTo <= e
<1>1. visible_icount \in Nat /\ mtimecmp \in [Harts -> Nat]
  BY Given
<1>2. Deadlines \in SUBSET Nat /\ \A e \in Deadlines : visible_icount <= e
  BY <1>1, EventAt DEF Deadlines
<1>3. CASE Deadlines = {}
  BY <1>1, <1>3 DEF JumpTo
<1>4. CASE Deadlines # {}
  <2>1. \E d \in Deadlines : \A e \in Deadlines : d <= e
    BY <1>2, <1>4, LeastIn
  <2>2. JumpTo \in Deadlines /\ \A e \in Deadlines : JumpTo <= e
    BY <1>4, <2>1 DEF JumpTo
  <2> QED BY <1>1, <1>2, <2>2
<1> QED BY <1>3, <1>4

\* When the simulation gives up, no timer is armed and no interrupt pends.
LEMMA StuckForGood ==
  ASSUME BoardInv, ScheduleStuck, NEW h \in Harts
  PROVE  /\ harts[h].wfi_sleeping /\ mtimecmp[h] * TicksPer >= Never
         /\ Pending(h, plic, visible_icount) \cap PlatformMask = {}
<1>1. /\ visible_icount \in Nat /\ mtimecmp \in [Harts -> Nat] /\ mtimecmp[h] \in Nat
      /\ Kept(h, harts[h], msip[h], mtimecmp[h], plic, visible_icount)
  BY Given DEF AllKept
<1>2. \A g \in Harts : harts[g].wfi_sleeping /\ ~Wakes(harts, g, visible_icount)
                       /\ ~Wakes(harts, g, JumpTo)
  BY DEF ScheduleStuck, Eligible, CanRun, WokenAt
<1>3. Deadlines = {}
  <2> SUFFICES ASSUME Deadlines # {} PROVE FALSE
    OBVIOUS
  <2>1. JumpTo \in Deadlines
    BY FirstTimer
  <2>2. PICK g \in Harts : JumpTo = EventCount(mtimecmp[g], visible_icount) /\ JumpTo # Never
    BY <2>1 DEF Deadlines
  <2>3. Mtime(JumpTo) >= mtimecmp[g] /\ JumpTo \in Nat
    BY <1>1, <2>2, EventAt
  <2> QED BY <1>2, <2>3, WhatWakes
<1>4. /\ ~(Mtime(visible_icount) >= mtimecmp[h]) /\ ~msip[h] /\ "MEI" \notin harts[h].mip
      /\ "SEI" \notin harts[h].mip
  BY <1>1, <1>2, WhatWakes
<1>5. EventCount(mtimecmp[h], visible_icount) = Never
  BY <1>3 DEF Deadlines
<1>6. mtimecmp[h] * TicksPer >= Never
  BY <1>1, <1>4, <1>5, EventAt
<1>7. Pending(h, plic, visible_icount) \cap PlatformMask = {}
  BY <1>1, <1>4 DEF Pending, PlatformMask, Kept, Wired
<1> QED BY <1>2, <1>6, <1>7

\* A scheduling decision keeps the invariant, and interrupts only harts that have one due.
Interrupts ==
  \A g \in Harts : harts'[g].pc # harts[g].pc =>
                     harts'[g].pc.in[2] \in Due(g, plic', visible_icount')

LEMMA LookedDispatched ==
  ASSUME BoardInv, NEW h \in Harts, NEW set, insn_count < MaxInsns,
         Dispatch(h, Looked(harts, set, visible_icount), visible_icount),
         yield_hart' = NoHart, next_hart' \in Harts
  PROVE  BoardInv' /\ Interrupts
<1> DEFINE hs == Looked(harts, set, visible_icount)
<1>1. AllKept(hs, msip, mtimecmp, plic, visible_icount) /\ Seen(hs, harts)
  BY Given, LookedKept
<1>2. Dispatch(h, hs, visible_icount) /\ visible_icount \in Nat
      /\ visible_icount' = visible_icount
  BY Given DEF Dispatch
<1> HIDE DEF hs
<1> QED BY <1>1, <1>2, DispatchKeeps DEF Interrupts

LEMMA ScheduleKeeps ==
  ASSUME BoardInv, Schedule
  PROVE  BoardInv' /\ Interrupts
<1> USE Given
<1>1. CASE ScheduleYield
  <2> DEFINE h == First(yield_hart, CanRun)
  <2>1. CanRun \in SUBSET Harts /\ CanRun # {} /\ yield_hart \in Harts /\ insn_count < MaxInsns
    BY <1>1 DEF ScheduleYield, Scheduling, Yielded, CanRun
  <2>2. h \in Harts
    BY <2>1, FirstIn
  <2>3. /\ Dispatch(h, Looked(harts, Until(yield_hart, h), visible_icount), visible_icount)
        /\ yield_hart' = NoHart /\ next_hart' = Following(h)
    BY <1>1 DEF ScheduleYield
  <2> HIDE DEF h
  <2>4. Following(h) \in Harts
    BY <2>2, HartsBound
  <2> QED BY <2>1, <2>2, <2>3, <2>4, LookedDispatched
<1>2. CASE ScheduleCurrent
  <2>1. /\ active_hart \in Harts /\ insn_count < MaxInsns
        /\ Dispatch(active_hart, harts, visible_icount)
        /\ yield_hart' = NoHart /\ next_hart' \in Harts
    BY <1>2 DEF ScheduleCurrent, Scheduling
  <2>2. Seen(harts, harts)
    BY DEF Seen, Same
  <2>3. visible_icount' = visible_icount
    BY <2>1 DEF Dispatch
  <2> QED BY <2>1, <2>2, <2>3, DispatchKeeps DEF Interrupts
<1>3. CASE ScheduleNext
  <2> DEFINE h == First(next_hart, Eligible)
             set == IF yield_hart = NoHart THEN Until(next_hart, h) \ InRom ELSE Harts
  <2>1. Eligible \in SUBSET Harts /\ Eligible # {} /\ insn_count < MaxInsns
    BY <1>3 DEF ScheduleNext, Scheduling, Eligible, CanRun, InRom, Asleep
  <2>2. h \in Harts
    BY <2>1, FirstIn
  <2>3. /\ Dispatch(h, Looked(harts, set, visible_icount), visible_icount)
        /\ yield_hart' = NoHart /\ next_hart' = Following(h)
    BY <1>3 DEF ScheduleNext
  <2> HIDE DEF set
  <2> HIDE DEF h
  <2>4. Following(h) \in Harts
    BY <2>2, HartsBound
  <2> QED BY <2>1, <2>2, <2>3, <2>4, LookedDispatched
<1>4. CASE ScheduleJump
  <2> DEFINE h == First(next_hart, WokenAt(JumpTo))
             seen == Looked(harts, Harts, visible_icount)
             hs == Looked(seen, Until(next_hart, h), JumpTo)
  <2>1. WokenAt(JumpTo) \in SUBSET Harts /\ WokenAt(JumpTo) # {} /\ insn_count < MaxInsns
    BY <1>4 DEF ScheduleJump, Scheduling, WokenAt
  <2>2. h \in Harts
    BY <2>1, FirstIn
  <2>3. Dispatch(h, hs, JumpTo) /\ yield_hart' = NoHart /\ next_hart' = Following(h)
    BY <1>4 DEF ScheduleJump
  <2>4. AllKept(seen, msip, mtimecmp, plic, visible_icount) /\ Seen(seen, harts)
    BY LookedKept
  <2> HIDE DEF seen
  <2>5. JumpTo \in Nat /\ visible_icount <= JumpTo
    BY FirstTimer
  <2>6. AllKept(seen, msip, mtimecmp, plic, JumpTo)
    BY <2>4, <2>5, AllLater
  <2>7. AllKept(hs, msip, mtimecmp, plic, JumpTo) /\ Seen(hs, seen)
    BY <2>5, <2>6, LookedKept
  <2> HIDE DEF hs
  <2>8. Seen(hs, harts)
    BY <2>4, <2>7 DEF Seen, Same
  <2> HIDE DEF h
  <2>9. Following(h) \in Harts /\ visible_icount' = JumpTo
    BY <2>2, <2>3, HartsBound DEF Dispatch
  <2> QED BY <2>1, <2>2, <2>3, <2>5, <2>7, <2>8, <2>9, DispatchKeeps DEF Interrupts
<1>5. CASE ScheduleStuck
  <2>1. /\ phase' = "stuck"
        /\ UNCHANGED <<harts, msip, mtimecmp, plic, visible_icount, insn_count, num_harts,
                       active_hart, yield_hart, next_hart>>
    BY <1>5 DEF ScheduleStuck, devices, config
  <2>2. Harts' = Harts
    BY <2>1 DEF Harts
  <2>3. TypeOK'
    BY <2>1, <2>2 DEF BoardInv, TypeOK
  <2>4. AllKept(harts, msip, mtimecmp, plic, visible_icount)'
    BY <2>1, <2>2 DEF AllKept
  <2>5. \A h \in Harts : /\ harts[h].wfi_sleeping /\ mtimecmp[h] * TicksPer >= Never
                         /\ Pending(h, plic, visible_icount) \cap PlatformMask = {}
    BY <1>5, StuckForGood
  <2>6. \A h \in Harts : Pending(h, plic, visible_icount)' = Pending(h, plic, visible_icount)
    BY <2>1 DEF Pending
  <2>7. StuckKept'
    BY <2>1, <2>2, <2>5, <2>6 DEF StuckKept
  <2> QED BY <2>1, <2>3, <2>4, <2>7 DEF BoardInv, RunKept, Interrupts
<1> QED BY <1>1, <1>2, <1>3, <1>4, <1>5 DEF Schedule

LEMMA ExecuteKeeps ==
  ASSUME BoardInv, NEW h \in Harts, Execute(h)
  PROVE  BoardInv'
<1>1. CASE Compute(h) \/ Jump(h) \/ Pause(h) \/ Csr(h) \/ SetEpc(h)
  BY <1>1, ComputeKeeps, JumpKeeps, PauseKeeps, CsrKeeps, SetEpcKeeps
<1>2. CASE WriteMsip(h) \/ WriteMtimecmp(h) \/ Enable(h) \/ Claim(h) \/ Complete(h)
  BY <1>2, WriteMsipKeeps, WriteMtimecmpKeeps, EnableKeeps, ClaimKeeps, CompleteKeeps
<1>3. CASE \/ ReadRbr(h) \/ ReadIir(h) \/ WriteThr(h) \/ WriteIer(h)
           \/ Submit(h) \/ Notify(h) \/ Ack(h) \/ Reap(h) \/ Reset(h) \/ Ready(h)
  BY <1>3, DevicesKeep
<1>4. CASE Ecall(h) \/ LoadFault(h)
  <2>1. "ECALL" \in Causes /\ "FAULT" \in Causes
    BY DEF Causes
  <2> QED BY <1>4, <2>1, TrapKeeps DEF Ecall, LoadFault
<1>5. CASE FetchFault(h) \/ Xret(h) \/ Wfi(h)
  BY <1>5, FetchFaultKeeps, XretKeeps, WfiKeeps
<1> QED BY <1>1, <1>2, <1>3, <1>4, <1>5 DEF Execute

LEMMA NextKeeps ==
  ASSUME BoardInv, [Next]_vars
  PROVE  BoardInv'
<1>1. CASE Schedule
  BY <1>1, ScheduleKeeps
<1>2. ASSUME NEW h \in Harts, Execute(h) PROVE BoardInv'
  BY <1>2, ExecuteKeeps
<1>3. CASE UNCHANGED vars
  <2>1. /\ UNCHANGED <<harts, msip, mtimecmp, plic, visible_icount, insn_count, num_harts,
                       active_hart, yield_hart, next_hart, phase>>
    BY <1>3 DEF vars, devices, config
  <2>2. Harts' = Harts
    BY <2>1 DEF Harts
  <2> QED BY <2>1, <2>2 DEF BoardInv, TypeOK, RunKept, StuckKept, AllKept, Pending
<1> QED BY <1>1, <1>2, <1>3 DEF Next

LEMMA InitKept ==
  ASSUME Init
  PROVE  BoardInv
<1>1. /\ num_harts \in HartCounts /\ num_harts \in Nat /\ num_harts > 0 /\ 0 \in Harts
      /\ Harts = 0 .. num_harts - 1
  BY HartsBound DEF Init, Harts
<1>2. Rom \in Places /\ Entry \in Places
  <2>1. Rom.in \in DOMAIN Code /\ Entry.in \in DOMAIN Code
    BY CodeAssumption
  <2>2. /\ Rom = [in |-> Rom.in, at |-> 1] /\ Entry = [in |-> Entry.in, at |-> 1]
    BY DEF Rom, Entry, At
  <2> HIDE DEF Rom, Entry
  <2> QED BY <2>1, <2>2 DEF Places
<1>3. ASSUME NEW h \in Harts PROVE Hart(h) \in HartType
  <2> DEFINE asleep == h # 0
             pc == IF h = 0 THEN Entry ELSE Rom
  <2>1. asleep \in BOOLEAN /\ FALSE \in BOOLEAN /\ pc \in Places /\ M \in {U, S, M}
        /\ 0 \in 0 .. MaxInsns
    BY <1>2, Bounds
  <2>2. Hart(h) =
          [pc |-> pc, priv |-> M,
           mstatus |-> {}, mie |-> {}, mip |-> {}, mip_seip_sw |-> FALSE, mideleg |-> {},
           medeleg |-> {}, mepc |-> Rom, sepc |-> Rom, x |-> 0,
           irq_deliverable |-> {}, irq_next_check |-> 0, steps_left |-> 0,
           wfi_sleeping |-> asleep]
    BY DEF Hart
  <2> HIDE DEF asleep, pc
  <2> QED BY <1>2, <2>1, <2>2 DEF HartType
<1>4. ASSUME NEW h \in Harts
      PROVE  Kept(h, harts[h], msip[h], mtimecmp[h], plic, visible_icount)
  <2>1. harts[h] = Hart(h) /\ ~msip[h] /\ plic = InitPlic
    BY <1>4 DEF Init, Harts
  <2>2. /\ Hart(h).mip = {} /\ Hart(h).mie = {} /\ Hart(h).mstatus = {}
        /\ Hart(h).irq_deliverable = {} /\ ~Hart(h).mip_seip_sw
    BY DEF Hart
  <2>3. \A c : Candidates(InitPlic, c) = {}
    BY DEF Candidates, InitPlic
  <2>4. Legal(harts[h])
    BY <1>3, <2>1, <2>2 DEF Legal
  <2> QED BY <2>1, <2>2, <2>3, <2>4 DEF Kept, Exact, Takes, Wired, Timely
<1>5. harts \in [Harts -> HartType]
  BY <1>3 DEF Init, Harts
<1>6. plic \in PlicType
  BY DEF Init, InitPlic, PlicType
<1>7. msip \in [Harts -> BOOLEAN] /\ mtimecmp \in [Harts -> Nat]
  BY Bounds DEF Init, Harts
<1>8. \A h \in Harts : "MPP1" \in harts[h].mstatus => "MPP0" \in harts[h].mstatus
  BY <1>4 DEF Kept, Legal
<1>9. /\ visible_icount = 0 /\ insn_count = 0 /\ active_hart = NoHart /\ yield_hart = NoHart
      /\ next_hart = 0 /\ phase = "schedule"
  BY DEF Init
<1>10. TypeOK
  BY <1>1, <1>5, <1>6, <1>7, <1>8, <1>9, Bounds DEF TypeOK
<1>11. AllKept(harts, msip, mtimecmp, plic, visible_icount)
  BY <1>4, <1>5 DEF AllKept
<1> QED BY <1>1, <1>9, <1>10, <1>11 DEF BoardInv, RunKept, StuckKept

\* Every state is of its types: the PLIC's registers, the harts' CSRs with an MPP that is
\* never H, and the scheduler's variables, of which the active hart has instructions left
\* while it runs (the state of rv64_system.cpp that take_trap, rv64_sys_write_csr and
\* rv64_sys_run change).
THEOREM BoardTypes == Spec => []TypeOK
<1>1. BoardInv => TypeOK
  BY DEF BoardInv
<1> QED BY <1>1, InitKept, NextKeeps, PTL DEF Spec

\* No interrupt is missed: though irq_reschedule lets a hart run on without a look at its
\* interrupts until irq_next_check, it has none due by the state of the devices at any
\* instruction, and rv64_sys_run gives up only when nothing can wake a hart.
THEOREM InterruptsInTime == Spec => []NoneMissed
<1>1. ASSUME BoardInv PROVE NoneMissed
  <2>1. ASSUME phase = "run" PROVE Due(active_hart, plic, visible_icount) = {}
    <3>1. /\ active_hart \in Harts
          /\ Quiet(harts[active_hart], mtimecmp[active_hart], visible_icount)
      BY <1>1, <2>1 DEF BoardInv, RunKept
    <3>2. /\ Kept(active_hart, harts[active_hart], msip[active_hart], mtimecmp[active_hart],
                  plic, visible_icount)
          /\ mtimecmp[active_hart] \in Nat /\ visible_icount \in Nat
      BY <1>1, <3>1, Given DEF AllKept
    <3> QED BY <3>1, <3>2, QuietNotDue
  <2> QED BY <1>1, <2>1 DEF NoneMissed, BoardInv, StuckKept
<1> QED BY <1>1, InitKept, NextKeeps, PTL DEF Spec

\* check_interrupts makes a hart take an interrupt only when it is there, of the devices
\* as they are then and the hart's CSRs.
THEOREM InterruptsWhenDue == Spec => TakenWhenDue
<1> DEFINE A == \A h \in Harts : Interrupted(h) =>
                  harts'[h].pc.in[2] \in Due(h, plic', visible_icount')
<1>1. ASSUME BoardInv, [Next]_vars PROVE [A]_vars
  <2> SUFFICES ASSUME ~UNCHANGED vars, NEW h \in Harts, Interrupted(h)
               PROVE  harts'[h].pc.in[2] \in Due(h, plic', visible_icount')
    OBVIOUS
  <2>1. phase = "schedule" /\ harts'[h].pc # harts[h].pc
    BY DEF Interrupted
  <2>2. ASSUME NEW g \in Harts, Execute(g) PROVE FALSE
    <3>1. Running(g)
      BY <2>2 DEF Execute, Compute, Jump, Pause, Csr, SetEpc, WriteMsip, WriteMtimecmp, Enable,
                  Claim, Complete, ReadRbr, ReadIir, WriteThr, WriteIer, Submit, Notify, Ack,
                  Reap, Reset, Ready, Ecall, LoadFault, FetchFault, Xret, Wfi
    <3> QED BY <2>1, <3>1 DEF Running
  <2>3. Schedule
    BY <1>1, <2>2 DEF Next
  <2> QED BY <1>1, <2>1, <2>3, ScheduleKeeps DEF Interrupts
<1> QED BY <1>1, InitKept, NextKeeps, PTL DEF Spec, TakenWhenDue

\* An instruction but WFI counts once or not at all.
LEMMA StepCounts ==
  ASSUME BoardInv, NEW h \in Harts, Execute(h), ~Wfi(h)
  PROVE  visible_icount' <= visible_icount + 1
<1>1. visible_icount \in Nat
  BY Given
<1>2. ASSUME NEW hs, NEW dv \in {0, 1}, NEW y, Retire(h, hs, dv, y)
      PROVE  visible_icount' <= visible_icount + 1
  BY <1>1, <1>2 DEF Retire
<1>a. ASSUME NEW hs, NEW y, RetireAccess(h, hs, y)
      PROVE  visible_icount' <= visible_icount + 1
  BY <1>2, <1>a DEF RetireAccess
<1>3. CASE Compute(h)
  BY <1>2, <1>3 DEF Compute
<1>4. CASE Jump(h)
  BY <1>2, <1>4 DEF Jump
<1>5. CASE Pause(h)
  BY <1>2, <1>5 DEF Pause
<1>6. CASE Csr(h)
  BY <1>2, <1>6 DEF Csr
<1>7. CASE SetEpc(h)
  BY <1>2, <1>7 DEF SetEpc
<1>8. CASE WriteMsip(h)
  BY <1>a, <1>8 DEF WriteMsip
<1>9. CASE WriteMtimecmp(h)
  BY <1>a, <1>9 DEF WriteMtimecmp
<1>10. CASE Enable(h)
  BY <1>a, <1>10 DEF Enable, PlicAccess
<1>11. CASE Claim(h)
  BY <1>a, <1>11 DEF Claim, PlicAccess
<1>12. CASE Complete(h)
  BY <1>a, <1>12 DEF Complete, PlicAccess
<1>13. CASE ReadRbr(h)
  BY <1>a, <1>13 DEF ReadRbr, UartAccess
<1>14. CASE ReadIir(h)
  BY <1>a, <1>14 DEF ReadIir, UartAccess
<1>15. CASE WriteThr(h)
  BY <1>a, <1>15 DEF WriteThr, UartAccess
<1>16. CASE WriteIer(h)
  BY <1>a, <1>16 DEF WriteIer, UartAccess
<1>17. CASE Submit(h)
  BY <1>2, <1>17 DEF Submit, DriverAccess
<1>18. CASE Notify(h)
  BY <1>a, <1>18 DEF Notify, DiskAccess
<1>19. CASE Ack(h)
  BY <1>a, <1>19 DEF Ack, DiskAccess
<1>20. CASE Reap(h)
  BY <1>2, <1>20 DEF Reap, DriverAccess
<1>21. CASE Reset(h)
  BY <1>a, <1>21 DEF Reset, DiskAccess
<1>22. CASE Ready(h)
  BY <1>a, <1>22 DEF Ready, DiskAccess
<1>23. CASE Ecall(h)
  BY <1>2, <1>23 DEF Ecall, Trap
<1>24. CASE LoadFault(h)
  BY <1>2, <1>24 DEF LoadFault, Trap
<1>25. CASE Xret(h)
  BY <1>2, <1>25 DEF Xret
<1>26. CASE FetchFault(h)
  <2>1. visible_icount' = visible_icount
    BY <1>26 DEF FetchFault
  <2> QED BY <1>1, <2>1
<1> QED BY <1>3, <1>4, <1>5, <1>6, <1>7, <1>8, <1>9, <1>10, <1>11, <1>12, <1>13, <1>14,
           <1>15, <1>16, <1>17, <1>18, <1>19, <1>20, <1>21, <1>22, <1>23, <1>24, <1>25,
           <1>26 DEF Execute

\* The clock of the board jumps, by rv64_sys_run's look for the first timer or by
\* wfi_advance_virtual_time, only while every other hart sleeps, and to no count that lies
\* after a timer.
THEOREM TimeInOrder == Spec => TimeKept
<1> DEFINE A == visible_icount' > visible_icount + 1 =>
                  /\ \A h \in Harts \ {active_hart'} : harts[h].wfi_sleeping
                  /\ \A h \in Harts : visible_icount' <= mtimecmp[h] * TicksPer
<1>1. ASSUME BoardInv, [Next]_vars PROVE A
  <2> SUFFICES ASSUME visible_icount' > visible_icount + 1
               PROVE  /\ \A h \in Harts \ {active_hart'} : harts[h].wfi_sleeping
                      /\ \A h \in Harts : visible_icount' <= mtimecmp[h] * TicksPer
    OBVIOUS
  <2>1. visible_icount \in Nat /\ mtimecmp \in [Harts -> Nat]
    BY <1>1, Given
  <2>2. ASSUME NEW h \in Harts, Wfi(h)
        PROVE  /\ \A g \in Harts \ {active_hart'} : harts[g].wfi_sleeping
               /\ \A g \in Harts : visible_icount' <= mtimecmp[g] * TicksPer
    <3> DEFINE v == visible_icount + 1
               sleeps == PumpedHarts([Fetched(h) EXCEPT ![h].steps_left = 0], insn_count + 1,
                                     v)[h].irq_next_check > v
               to == IF sleeps /\ num_harts = 1 THEN WfiTime(mtimecmp[h], v) ELSE v
    <3>1. visible_icount' = visible_icount + (to - visible_icount) /\ active_hart' = h
      BY <2>2 DEF Wfi, Retire, Running
    <3> HIDE DEF sleeps
    <3>2. num_harts = 1 /\ visible_icount' = WfiTime(mtimecmp[h], v) /\ WfiTime(mtimecmp[h], v) > v
      <4>1. v \in Nat /\ mtimecmp[h] \in Nat
        BY <2>1
      <4>2. WfiTime(mtimecmp[h], v) \in Nat
        BY <4>1, WfiTimeLater
      <4> QED BY <2>1, <3>1, <4>2
    <3>3. Harts = {h}
      BY <3>2 DEF Harts
    <3>4. WfiTime(mtimecmp[h], v) <= mtimecmp[h] * TicksPer
      <4> DEFINE most == Never \div TicksPer
                 m == IF mtimecmp[h] > most THEN most ELSE mtimecmp[h]
      <4>1. WfiTime(mtimecmp[h], v) = v \/ WfiTime(mtimecmp[h], v) = m * TicksPer
        BY DEF WfiTime
      <4>2. m \in Nat /\ m <= mtimecmp[h] /\ mtimecmp[h] \in Nat
        BY <2>1, Bounds
      <4> HIDE DEF m
      <4>3. m * TicksPer <= mtimecmp[h] * TicksPer
        BY <4>2, Bounds
      <4>4. WfiTime(mtimecmp[h], v) # v
        BY <2>1, <3>2
      <4> QED BY <4>1, <4>3, <4>4
    <3> QED BY <3>1, <3>2, <3>3, <3>4
  <2>3. CASE ScheduleJump
    <3>1. visible_icount' = JumpTo
      BY <2>3 DEF ScheduleJump, Dispatch
    <3>2. \A h \in Harts : harts[h].wfi_sleeping
      BY <2>3 DEF ScheduleJump, Eligible, CanRun
    <3>3. Deadlines # {}
      BY <2>1, <3>1 DEF JumpTo
    <3>4. JumpTo \in Deadlines /\ \A e \in Deadlines : JumpTo <= e
      BY <1>1, <3>3, FirstTimer
    <3>5. JumpTo <= Never
      <4>1. PICK g \in Harts : JumpTo = EventCount(mtimecmp[g], visible_icount) /\ JumpTo # Never
        BY <3>4 DEF Deadlines
      <4>2. JumpTo = visible_icount \/ JumpTo <= Never
        BY <2>1, <4>1, EventAt
      <4> QED BY <2>1, <3>1, <4>2
    <3>6. ASSUME NEW h \in Harts
          PROVE  JumpTo <= mtimecmp[h] * TicksPer
      <4> DEFINE e == EventCount(mtimecmp[h], visible_icount)
      <4>1. mtimecmp[h] \in Nat /\ mtimecmp[h] * TicksPer \in Nat /\ JumpTo \in Nat
        BY <1>1, <2>1, Ticks, FirstTimer
      <4>2. /\ e # Never => e = visible_icount \/ e = mtimecmp[h] * TicksPer
            /\ e = Never => Mtime(visible_icount) >= mtimecmp[h]
                              \/ mtimecmp[h] * TicksPer >= Never
        BY <2>1, <4>1, EventAt
      <4>3. e # Never => JumpTo <= e
        BY <3>4 DEF Deadlines
      <4>4. Mtime(visible_icount) >= mtimecmp[h] /\ mtimecmp[h] # Never => e = visible_icount
        BY DEF EventCount
      <4>5. e \in Nat
        BY <2>1, <4>1, EventAt
      <4> HIDE DEF e
      <4>6. CASE e # Never
        BY <2>1, <3>1, <4>1, <4>2, <4>3, <4>6
      <4>7. CASE e = Never /\ mtimecmp[h] * TicksPer >= Never
        BY <3>5, <4>1, <4>7, Bounds
      <4>8. CASE e = Never /\ mtimecmp[h] = Never
        <5>1. Never * TicksPer >= Never
          BY Bounds
        <5> QED BY <3>5, <4>1, <4>8, <5>1, Bounds
      <4>9. CASE e = Never /\ e = visible_icount
        BY <2>1, <3>1, <3>5, <4>1, <4>9
      <4> QED BY <4>2, <4>4, <4>6, <4>7, <4>8, <4>9
    <3> QED BY <3>1, <3>2, <3>6
  <2>4. CASE ScheduleYield \/ ScheduleCurrent \/ ScheduleNext \/ ScheduleStuck
    <3>1. visible_icount' = visible_icount
      <4>1. CASE ScheduleYield
        BY <4>1 DEF ScheduleYield, Dispatch
      <4>2. CASE ScheduleCurrent
        BY <4>2 DEF ScheduleCurrent, Dispatch
      <4>3. CASE ScheduleNext
        BY <4>3 DEF ScheduleNext, Dispatch
      <4>4. CASE ScheduleStuck
        BY <4>4 DEF ScheduleStuck
      <4> QED BY <2>4, <4>1, <4>2, <4>3, <4>4
    <3> QED BY <2>1, <3>1
  <2>5. CASE UNCHANGED vars
    BY <2>1, <2>5 DEF vars
  <2>6. ASSUME NEW h \in Harts, Execute(h), ~Wfi(h) PROVE FALSE
    <3>1. visible_icount' <= visible_icount + 1
      BY <1>1, <2>6, StepCounts
    <3>2. visible_icount' \in Nat
      BY <1>1, NextKeeps, Given DEF BoardInv, TypeOK
    <3> QED BY <2>1, <3>1, <3>2
  <2> QED BY <1>1, <2>2, <2>3, <2>4, <2>5, <2>6 DEF Next, Schedule
<1> QED BY <1>1, InitKept, NextKeeps, PTL DEF Spec, TimeKept
===============================================================================
