------------------------------- MODULE RvMemory -------------------------------
(***************************************************************************)
(* Memory as the harts of the RV64 board see it: physical memory           *)
(* protection, the page-table walk, the two levels of TLB, and LR/SC       *)
(* reservations kept exact although most stores go straight to memory      *)
(* through the first-level TLB.  Source: src/src/rv64_system.cpp,          *)
(* riscv_impl.h.                                                           *)
(*                                                                         *)
(* Addresses count units of four bytes.  A page has PageUnits of them and  *)
(* a page-table entry takes two, so a table has Fan entries; tables have   *)
(* Levels levels (4096 bytes, 512 entries and 3 levels in the code).  A    *)
(* unit of memory holds a record with the flags and the page number it     *)
(* would have as a page-table entry; data are records without flags.  One  *)
(* step is one instruction.                                                *)
(***************************************************************************)
EXTENDS Integers, Sequences, FiniteSets, FiniteSetsExt

CONSTANTS
  NumHarts,
  Levels, VpnBits,      \* the levels of a page table, and the address bits each one takes
  DramBase, DramPages,  \* the pages that are memory; those below are devices
  Top,                  \* the last unit there is, beyond what any PMP entry matches
  PmpN,                 \* PMP entries
  DTLB_N, L2TLB_N,      \* entries of the first-level data TLBs and of the second level
  Delegations,          \* whether faults may be delegated to S
  InitMem,              \* memory as the loader leaves it
  Programs              \* guests: what hart h may do as its k-th instruction is at [guest][h][k]

Harts == 1..NumHarts
Fan == 2^VpnBits
PageUnits == 2 * Fan
PageOf(a) == a \div PageUnits
Base(page) == page * PageUnits
DramPageSet == DramBase..(DramBase + DramPages - 1)
Units == Base(DramBase)..(Base(DramBase + DramPages) - 1)
LastVpn == 2^(VpnBits * Levels) - 1     \* beyond it an address is not canonical
None == -1

Bits == {"R", "W", "X"}
Flags == Bits \cup {"V", "U", "A", "D"}
Word(flags, ppn) == [flags |-> flags, ppn |-> ppn]
Data(n) == Word({}, n)

Words == [flags : SUBSET Flags, ppn : Nat]
Privs == {"U", "S", "M"}
PmpEntry == [kind : {"OFF", "TOR", "NA4", "NAPOT"}, perm : SUBSET Bits, lock : BOOLEAN]
Status == [mprv : BOOLEAN, mpp : Privs, sum : BOOLEAN, mxr : BOOLEAN]

\* The operands that instructions have.
WellFormed(o) ==
  /\ o.op \in {"load", "store", "lr", "sc", "amo"} => o.va \in Nat /\ o.size \in {1, 2} /\ o.word \in Words
  /\ o.op = "fetch" => o.va \in Nat /\ o.wide \in BOOLEAN
  /\ o.op = "pmpcfg" => o.cfg \in [1..PmpN -> PmpEntry]
  /\ o.op = "pmpaddr" => o.i \in 1..PmpN /\ o.addr \in Nat
  /\ o.op = "mstatus" => o.s \in Status
  /\ o.op = "satp" => o.root \in Nat \cup {None}
  /\ o.op = "xret" => o.from \in {"M", "S"}

ASSUME ShapeAssumption ==
  /\ NumHarts \in Nat \ {0} /\ Levels \in Nat \ {0} /\ VpnBits \in Nat /\ PmpN \in Nat
  /\ DTLB_N \in Nat \ {0} /\ L2TLB_N \in Nat \ {0} /\ DramBase \in Nat /\ DramPages \in Nat \ {0}
  /\ Top \in Nat /\ Top >= Base(DramBase + DramPages) + PageUnits
  /\ Delegations \subseteq BOOLEAN

ASSUME GuestAssumption ==
  /\ InitMem \in [Units -> Words]
  /\ \A p \in DOMAIN Programs : \A h \in Harts : \A k \in 1..Len(Programs[p][h]) :
       \A o \in Programs[p][h][k] : WellFormed(o)

VARIABLES harts, mem, ended, program, at
vars == <<harts, mem, ended, program, at>>

\* What an instruction works on; an error of the simulator ends the run.
Machine == [harts |-> harts, mem |-> mem, ended |-> ended]

InDram(pa, size) == pa \in Units /\ pa + size - 1 \in Units

-----------------------------------------------------------------------------
\* Physical memory protection: the entries, flattened into segments.

TrailingOnes(a) == CHOOSE k \in 0..a : (a \div 2^k) % 2 = 0 /\ \A j \in 0..(k - 1) : (a \div 2^j) % 2 = 1

RuleLo(addr, i, kind) ==
  CASE kind = "TOR"   -> IF i = 1 THEN 0 ELSE addr[i - 1]
    [] kind = "NA4"   -> addr[i]
    [] kind = "NAPOT" -> addr[i] - (addr[i] % 2^(TrailingOnes(addr[i]) + 1))
    [] OTHER          -> 0
RuleHi(addr, i, kind) ==
  CASE kind = "TOR"   -> addr[i]
    [] kind = "NA4"   -> addr[i] + 1
    [] kind = "NAPOT" -> RuleLo(addr, i, kind) + 2^(TrailingOnes(addr[i]) + 1)
    [] OTHER          -> 0

Rules(cfg, addr) ==
  [i \in 1..PmpN |-> [lo |-> RuleLo(addr, i, cfg[i].kind), hi |-> RuleHi(addr, i, cfg[i].kind),
                      perm |-> cfg[i].perm, lock |-> cfg[i].lock]]

\* The entries that can match: an empty range matches nothing.
CanMatch(rules) == {i \in 1..PmpN : rules[i].lo < rules[i].hi}
Covers(rule, a) == rule.lo <= a /\ a < rule.hi
FirstRule(rules, a) == Min({i \in 1..PmpN : Covers(rules[i], a)} \cup {PmpN + 1})

SegmentOf(rules, i, lo, last) ==
  [lo |-> lo, last |-> last,
   su |-> IF i > PmpN THEN {} ELSE rules[i].perm,
   m  |-> IF i > PmpN THEN Bits ELSE IF rules[i].lock THEN rules[i].perm ELSE Bits]

\* A mutant: a segment starts where some rule does, and none where one ends.
StartsOnly(rules) == {0} \cup {rules[i].lo : i \in CanMatch(rules)}

Bounds(rules) == {0} \cup {rules[i].lo : i \in CanMatch(rules)} \cup {rules[i].hi : i \in CanMatch(rules)}

\* A segment starts at each of the bounds where the first rule changes.
Starts(rules) ==
  {b \in Bounds(rules) : b = 0 \/ FirstRule(rules, b) # FirstRule(rules, b - 1)}
LastOf(rules, b) == Min({n - 1 : n \in {x \in Starts(rules) : x > b}} \cup {Top})
Segments(rules) == {SegmentOf(rules, FirstRule(rules, b), b, LastOf(rules, b)) : b \in Starts(rules)}

\* No rule binds M, or splits eight bytes.
AllOpen(rules) ==
  \A i \in CanMatch(rules) : ~rules[i].lock /\ rules[i].lo % 2 = 0 /\ rules[i].hi % 2 = 0

SegmentAt(hr, pa) == CHOOSE s \in hr.segs : s.lo <= pa /\ pa <= s.last
Need(acc) == CASE acc = "Fetch" -> "X" [] acc = "Store" -> "W" [] acc = "Load" -> "R"

PmpOk(hr, pa, len, acc, priv) ==
  LET s == SegmentAt(hr, pa)
  IN  pa + len - 1 <= s.last /\ Need(acc) \in IF priv = "M" THEN s.m ELSE s.su

PmpPageAllows(hr, page) ==
  LET s == SegmentAt(hr, Base(page)) IN IF Base(page) + PageUnits - 1 <= s.last THEN s.su ELSE {}

-----------------------------------------------------------------------------
\* The TLBs of a hart.

NoEntry == [vpn |-> None, page |-> None]
NoL2 == [vpn |-> 0, tag |-> None, page |-> 0, flags |-> {}, allow |-> {}]

Entries(n) == 0..(n - 1)
NoEntries == [e \in Entries(DTLB_N) |-> NoEntry]
NoL2Entries == [e \in Entries(L2TLB_N) |-> NoL2]

FlushL1(hr) == [hr EXCEPT !.itlb = NoEntry, !.load = NoEntries, !.store = NoEntries]
Flush(hr) == [FlushL1(hr) EXCEPT !.l2 = NoL2Entries]

PmpUpdate(hr) ==
  LET rules == Rules(hr.cfg, hr.addr)
  IN  Flush([hr EXCEPT
        !.segs = Segments(rules), !.nrules = Cardinality(CanMatch(rules)),
        !.mFast = AllOpen(rules)])

\* The privilege an access is made with: loads and stores honor MPRV.
EffPriv(hr, acc) == IF acc # "Fetch" /\ hr.mprv THEN hr.mpp ELSE hr.priv

\* take_trap, as far as memory sees it.
Trapped(hr) ==
  LET toS == hr.priv # "M" /\ hr.deleg
      to == IF toS THEN "S" ELSE "M"
      saved == IF toS THEN [hr EXCEPT !.spp = hr.priv] ELSE [hr EXCEPT !.mpp = hr.priv]
      in == [saved EXCEPT !.priv = to, !.resv.valid = FALSE]
  IN  IF to # hr.priv THEN FlushL1(in) ELSE in

Raised(m, h) == [m EXCEPT !.harts[h] = Trapped(@)]

Overlaps(r, pa, len) == r.valid /\ pa < r.pa + r.size /\ r.pa < pa + len

ClearReservations(m, storer, pa, len) ==
  IF NumHarts = 1 THEN m
  ELSE [m EXCEPT !.harts = [i \in Harts |->
         IF i # storer /\ Overlaps(@[i].resv, pa, len) THEN [@[i] EXCEPT !.resv.valid = FALSE]
         ELSE @[i]]]

PageReserved(m, page) ==
  \E i \in Harts : m.harts[i].resv.valid /\ PageOf(m.harts[i].resv.pa) = page

-----------------------------------------------------------------------------
\* translate: a walk of the page table, and what it leaves in the TLBs.

Permits(flags, hr, acc, priv) ==
  /\ CASE acc = "Fetch" -> "X" \in flags
       [] acc = "Store" -> "W" \in flags
       [] acc = "Load"  -> "R" \in flags \/ (hr.mxr /\ "X" \in flags)
  /\ CASE priv = "U" -> "U" \in flags
       [] priv = "S" -> "U" \notin flags \/ (acc # "Fetch" /\ hr.sum)

PteAccessOk(flags, hr, acc, priv) ==
  "A" \in flags /\ (acc = "Store" => "D" \in flags) /\ Permits(flags, hr, acc, priv)

Malformed(pte) ==
  \/ "V" \notin pte.flags
  \/ "R" \notin pte.flags /\ "W" \in pte.flags
  \/ pte.flags \cap {"R", "X"} = {} /\ pte.flags \cap {"D", "A", "U"} # {}

IsLeaf(pte) == pte.flags \cap {"R", "X"} # {}
Span(lv) == 2^(VpnBits * lv)    \* the pages of a leaf at level lv
Index(vpn, lv) == (vpn \div Span(lv)) % Fan
\* The page of such a leaf: a superpage takes its low bits from the address.
LeafPage(ppn, lv, vpn) == ((ppn \div Span(lv)) * Span(lv)) + (vpn % Span(lv))

Readable(m, h, a) == InDram(a, 2) /\ PmpOk(m.harts[h], a, 2, "Load", "S")

\* The walk ends at the first entry that is no pointer to a table, or has no levels left.
Walk(m, h, vpn) ==
  LET walk[lv \in -1..(Levels - 1), table \in Nat] ==
        LET a == Base(table) + 2 * Index(vpn, lv)
        IN  IF lv = -1 THEN [at |-> 0, lv |-> -1]
            ELSE IF Readable(m, h, a) /\ ~Malformed(m.mem[a]) /\ ~IsLeaf(m.mem[a])
            THEN walk[lv - 1, m.mem[a].ppn]
            ELSE [at |-> a, lv |-> lv]
  IN  walk[Levels - 1, m.harts[h].root]

\* Whether a walk that ended so has found a leaf.
Found(m, h, end) ==
  /\ end.lv \in 0..(Levels - 1) /\ Readable(m, h, end.at)
  /\ ~Malformed(m.mem[end.at]) /\ IsLeaf(m.mem[end.at]) /\ m.mem[end.at].ppn % Span(end.lv) = 0

\* What translate returns: the machine after it, where the access goes, whether the
\* whole page may be accessed so, and a fault.
Fault(m, h) == [m |-> Raised(m, h), pa |-> 0, pageOk |-> FALSE, fault |-> TRUE]
Result(m, pa, pageOk) == [m |-> m, pa |-> pa, pageOk |-> pageOk, fault |-> FALSE]

\* A mutant: the page of a device is cached like one of memory.
FillDevices(m, h, vpn, page, acc, pageOk) ==
  LET entry == IF pageOk THEN [vpn |-> vpn, page |-> page] ELSE NoEntry
  IN  CASE acc = "Fetch" -> [m EXCEPT !.harts[h].itlb = entry]
        [] acc = "Load"  -> [m EXCEPT !.harts[h].load[vpn % DTLB_N] = entry]
        [] acc = "Store" -> [m EXCEPT !.harts[h].store[vpn % DTLB_N] = entry]

\* A mutant: a store may be cached whatever is reserved in its page.
FillAnyway(m, h, vpn, page, acc, pageOk) ==
  LET entry == IF page \in DramPageSet /\ pageOk THEN [vpn |-> vpn, page |-> page] ELSE NoEntry
  IN  CASE acc = "Fetch" -> [m EXCEPT !.harts[h].itlb = entry]
        [] acc = "Load"  -> [m EXCEPT !.harts[h].load[vpn % DTLB_N] = entry]
        [] acc = "Store" -> [m EXCEPT !.harts[h].store[vpn % DTLB_N] = entry]

\* The first-level entry of an access, which stays as it was for a store into a page
\* with a reservation.
FillL1(m, h, vpn, page, acc, pageOk) ==
  LET entry == IF page \in DramPageSet /\ pageOk THEN [vpn |-> vpn, page |-> page] ELSE NoEntry
  IN  CASE acc = "Fetch" -> [m EXCEPT !.harts[h].itlb = entry]
        [] acc = "Load"  -> [m EXCEPT !.harts[h].load[vpn % DTLB_N] = entry]
        [] acc = "Store" -> IF NumHarts > 1 /\ PageReserved(m, page) THEN m
                            ELSE [m EXCEPT !.harts[h].store[vpn % DTLB_N] = entry]

\* An access to a page whose translation is known.
Reach(m, h, va, acc, size, page, allow) ==
  LET pa == Base(page) + (va % PageUnits)
      pageOk == Need(acc) \in allow
  IN  IF pageOk \/ PmpOk(m.harts[h], pa, size, acc, EffPriv(m.harts[h], acc))
      THEN Result(FillL1(m, h, PageOf(va), page, acc, pageOk), pa, pageOk)
      ELSE Fault(m, h)

\* A and D are set in memory, by what counts as a store for other harts.
Mark(m, h, a, flags) ==
  IF m.mem[a].flags = flags THEN m
  ELSE ClearReservations([m EXCEPT !.mem[a].flags = flags], h, a, 2)

\* The second level takes a leaf whose page is memory.
Cache(m, h, vpn, page, flags, allow) ==
  LET entry == IF page \notin DramPageSet THEN [m.harts[h].l2[vpn % L2TLB_N] EXCEPT !.tag = None]
               ELSE [vpn |-> vpn, tag |-> m.harts[h].root, page |-> page,
                     flags |-> flags, allow |-> allow]
  IN  [m EXCEPT !.harts[h].l2[vpn % L2TLB_N] = entry]

\* The leaf of a walk: used, if there is one and it permits the access.
UseLeaf(m, h, va, acc, size, leaf) ==
  LET old == m.mem[leaf.at]
      flags == old.flags \cup {"A"} \cup (IF acc = "Store" THEN {"D"} ELSE {})
      page == LeafPage(old.ppn, leaf.lv, PageOf(va))
      allow == PmpPageAllows(m.harts[h], page)
  IN  IF /\ Found(m, h, leaf) /\ Permits(old.flags, m.harts[h], acc, EffPriv(m.harts[h], acc))
         /\ flags = old.flags \/ PmpOk(m.harts[h], leaf.at, 2, "Store", "S")
      THEN Reach(Cache(Mark(m, h, leaf.at, flags), h, PageOf(va), page, flags, allow),
                 h, va, acc, size, page, allow)
      ELSE Fault(m, h)

TranslateSlow(m, h, va, acc, size) ==
  LET hr == m.harts[h]
      vpn == PageOf(va)
      l2 == hr.l2[vpn % L2TLB_N]
  IN  IF l2.tag = hr.root /\ l2.vpn = vpn /\ PteAccessOk(l2.flags, hr, acc, EffPriv(hr, acc))
      THEN Reach(m, h, va, acc, size, l2.page, l2.allow)
      ELSE IF vpn > LastVpn THEN Fault(m, h)
      ELSE UseLeaf(m, h, va, acc, size, Walk(m, h, vpn))

Translate(m, h, va, acc, size) ==
  LET hr == m.harts[h]
      priv == EffPriv(hr, acc)
      pageOk == /\ acc = "Fetch"
                /\ \/ priv = "M" /\ hr.nrules = 0
                   \/ PmpOk(hr, Base(PageOf(va)), PageUnits, acc, priv)
      fast == priv = "M" /\ hr.mFast /\ (va % 2) + size <= 2
  IN  IF priv # "M" /\ hr.root # None THEN TranslateSlow(m, h, va, acc, size)
      ELSE IF pageOk \/ fast \/ PmpOk(hr, va, size, acc, priv) THEN Result(m, va, pageOk)
      ELSE Fault(m, h)

-----------------------------------------------------------------------------
\* Loads and stores: through the first-level TLB if it has an entry for them.

Written(m, pa, size, word) ==
  [m EXCEPT !.mem = [u \in Units |-> IF pa <= u /\ u < pa + size THEN word ELSE @[u]]]

\* rv64_dtlb_host: aligned, and the entry is there.
Hits(entries, va, size) == va % size = 0 /\ entries[PageOf(va) % DTLB_N].vpn = PageOf(va)

\* A device answers, or there is none and the simulator reports the address.
Device(m, pa, size) == [m EXCEPT !.ended = @ \/ PageOf(pa) >= DramBase]

\* The access that follows translation t.
Accessed(t, h, acc, size, word) ==
  IF t.fault THEN t
  ELSE IF ~InDram(t.pa, size) THEN [t EXCEPT !.m = Device(@, t.pa, size)]
  ELSE IF acc = "Load" THEN t
  ELSE [t EXCEPT !.m = ClearReservations(Written(@, t.pa, size, word), h, t.pa, size)]

SysAccess(m, h, va, acc, size, word) == Accessed(Translate(m, h, va, acc, size), h, acc, size, word)

\* rv64_sys_load and rv64_sys_store: an access that crosses pages is made in two parts,
\* and its first part stays made when its second one faults.
Room(va) == PageUnits - (va % PageUnits)
Rest(first, h, va, acc, size, word) ==
  IF first.fault \/ size = 0 THEN first ELSE SysAccess(first.m, h, va, acc, size, word)
Access(m, h, va, acc, size, word) ==
  LET part == Min({Room(va), size})
  IN  Rest(SysAccess(m, h, va, acc, part, word), h, va + part, acc, size - part, word)

MemRd(m, h, va, size) ==
  IF Hits(m.harts[h].load, va, size) THEN m ELSE Access(m, h, va, "Load", size, Data(0)).m
MemWr(m, h, va, size, word) ==
  LET e == m.harts[h].store[PageOf(va) % DTLB_N]
  IN  IF Hits(m.harts[h].store, va, size)
      THEN Written(m, Base(e.page) + (va % PageUnits), size, word)
      ELSE Access(m, h, va, "Store", size, word).m

-----------------------------------------------------------------------------
\* LR, SC and AMO.

\* rv64_sys_atomic_dram: only memory will do.
OnlyDram(t, h, size) == IF t.fault \/ InDram(t.pa, size) THEN t ELSE Fault(t.m, h)
AtomicDram(m, h, va, size, acc) ==
  IF va % size # 0 THEN Fault(m, h) ELSE OnlyDram(Translate(m, h, va, acc, size), h, size)

\* No hart stores into the page of a reservation through its first-level TLB.
Evicted(hr, page) ==
  [hr EXCEPT !.store = [e \in DOMAIN @ |-> IF @[e].page = page THEN NoEntry ELSE @[e]]]
EvictAll(m, page) == [m EXCEPT !.harts = [i \in Harts |-> Evicted(@[i], page)]]

\* rv64_sys_lr_reserve, where the word was translated to again; an assertion says that
\* this cannot fault.
Reserve(t, h) ==
  IF NumHarts = 1 THEN t.m
  ELSE IF t.fault THEN [t.m EXCEPT !.ended = TRUE]
  ELSE EvictAll([t.m EXCEPT !.harts[h].resv.pa = t.pa], PageOf(t.pa))
Reserved(read, h, va, size) ==
  [read.m EXCEPT !.harts[h].sc = "", !.harts[h].resv =
     [@ EXCEPT !.valid = TRUE, !.va = va, !.size = size, !.value = read.m.mem[read.pa]]]
LoadReserved(checked, h, va, size) ==
  IF checked.fault THEN checked.m
  ELSE Reserve(Translate(Reserved(Access(checked.m, h, va, "Load", size, Data(0)), h, va, size),
                         h, va, "Load", size), h)

\* SC once the word has been read again, if there was a reservation for it.
Conclude(read, here, h, va, size, word) ==
  LET hit == here /\ read.m.mem[read.pa] = read.m.harts[h].resv.value
      done == [read.m EXCEPT !.harts[h].resv.valid = FALSE,
                             !.harts[h].sc = IF hit THEN "done" ELSE "failed"]
  IN  IF read.fault THEN read.m
      ELSE IF hit THEN Access(done, h, va, "Store", size, word).m
      ELSE done
StoreConditional(checked, h, va, size, word) ==
  LET r == checked.m.harts[h].resv
      here == r.valid /\ r.va = va /\ r.size = size
  IN  IF checked.fault THEN checked.m
      ELSE Conclude(IF here THEN Access(checked.m, h, va, "Load", size, Data(0)) ELSE checked,
                    here, h, va, size, word)

\* An AMO: what is read, whatever is done with it, and then what is stored.
Update(read, h, va, size, word) ==
  IF read.fault THEN read.m ELSE Access(read.m, h, va, "Store", size, word).m
Amo(checked, h, va, size, word) ==
  IF checked.fault THEN checked.m
  ELSE Update(Access(checked.m, h, va, "Load", size, Data(0)), h, va, size, word)

-----------------------------------------------------------------------------
\* Fetches.  An instruction at the last unit of a page may have its second half in the
\* next page; wide says that it reaches into the next unit.

Executable(t) == ~t.fault /\ PageOf(t.pa) \in DramPageSet

\* translate_host_cached, for translation t.
FillItlb(t, h, va, wide) ==
  LET hr == t.m.harts[h]
      partly == /\ ~t.pageOk /\ wide /\ Room(va) # 1
                /\ ~PmpOk(hr, t.pa + 1, 1, "Fetch", hr.priv)
  IN  IF t.fault THEN t
      ELSE IF ~Executable(t) \/ partly THEN Fault([t.m EXCEPT !.harts[h].itlb = NoEntry], h)
      ELSE [t EXCEPT !.m.harts[h].itlb = [vpn |-> PageOf(va), page |-> PageOf(t.pa)]]
FetchPage(m, h, va, wide) == FillItlb(Translate(m, h, va, "Fetch", 1), h, va, wide)

\* What is left of an entry that served one instruction.
OnceOnly(t, h, once) == IF once THEN [t.m EXCEPT !.harts[h].itlb = NoEntry] ELSE t.m

Crossed(first, h, va, wide) ==
  IF first.fault \/ ~wide \/ Room(va) # 1 THEN first ELSE FetchPage(first.m, h, va + 1, FALSE)
Finish(first, last, h) ==
  IF first.fault THEN first.m ELSE OnceOnly(last, h, ~first.pageOk \/ (~last.fault /\ ~last.pageOk))
FetchFrom(first, h, va, wide) == Finish(first, Crossed(first, h, va, wide), h)
FetchAt(m, h, va, wide) ==
  FetchFrom(IF m.harts[h].itlb.vpn = PageOf(va) THEN Result(m, 0, TRUE)
            ELSE FetchPage(m, h, va, wide), h, va, wide)

-----------------------------------------------------------------------------
\* Writes to CSRs that memory depends on.

LegalCfg(c) == IF "R" \in c.perm THEN c ELSE [c EXCEPT !.perm = @ \ {"W"}]

WritePmpCfg(hr, cfg) ==
  PmpUpdate([hr EXCEPT !.cfg = [i \in DOMAIN @ |-> IF @[i].lock THEN @[i] ELSE LegalCfg(cfg[i])]])

WritePmpAddr(hr, i, addr) ==
  IF hr.cfg[i].lock \/ (i < PmpN /\ hr.cfg[i + 1].lock /\ hr.cfg[i + 1].kind = "TOR") THEN hr
  ELSE PmpUpdate([hr EXCEPT !.addr[i] = addr])

\* A mutant: the caches outlive the mode they were filled in.
WriteStatusOnly(hr, s) ==
  [hr EXCEPT !.mprv = s.mprv, !.mpp = s.mpp, !.sum = s.sum, !.mxr = s.mxr]

WriteMstatus(hr, s) ==
  FlushL1([hr EXCEPT !.mprv = s.mprv, !.mpp = s.mpp, !.sum = s.sum, !.mxr = s.mxr])

WriteSatp(hr, root) == Flush([hr EXCEPT !.root = root])
SfenceVma(hr) == [Flush(hr) EXCEPT !.resv.valid = FALSE]

Returned(hr, from) ==
  LET to == IF from = "M" THEN hr.mpp ELSE hr.spp
      popped == IF from = "M" THEN [hr EXCEPT !.mpp = "U"] ELSE [hr EXCEPT !.spp = "U"]
  IN  FlushL1([popped EXCEPT !.priv = to, !.mprv = @ /\ to = "M", !.resv.valid = FALSE])

-----------------------------------------------------------------------------
\* The instructions.

OneEntry == [kind |-> "OFF", perm |-> {}, lock |-> FALSE]
Reset(deleg) ==
  PmpUpdate([priv |-> "M", mprv |-> FALSE, mpp |-> "U", spp |-> "U", sum |-> FALSE,
             mxr |-> FALSE, root |-> None, deleg |-> deleg, sc |-> "",
             cfg |-> [i \in 1..PmpN |-> OneEntry], addr |-> [i \in 1..PmpN |-> 0],
             segs |-> {}, nrules |-> 0, mFast |-> TRUE, itlb |-> NoEntry,
             load |-> NoEntries, store |-> NoEntries, l2 |-> NoL2Entries,
             resv |-> [valid |-> FALSE, va |-> 0, pa |-> 0, size |-> 1, value |-> Data(0)]])

Init ==
  /\ \E deleg \in Delegations : harts = [h \in Harts |-> Reset(deleg)]
  /\ mem = InitMem /\ ended = FALSE
  /\ program \in DOMAIN Programs /\ at = [h \in Harts |-> 1]

Become(h, m) ==
  /\ harts' = m.harts /\ mem' = m.mem /\ ended' = m.ended
  /\ at' = [at EXCEPT ![h] = @ + 1]
  /\ UNCHANGED program

Can(h, op) == {o \in Programs[program][h][at[h]] : o.op = op}
Ready(h) == ~ended /\ at[h] <= Len(Programs[program][h])
Own(h, hr) == Become(h, [Machine EXCEPT !.harts[h] = hr])

Load(h) == \E o \in Can(h, "load") : Become(h, MemRd(Machine, h, o.va, o.size))
Store(h) == \E o \in Can(h, "store") : Become(h, MemWr(Machine, h, o.va, o.size, o.word))
Lr(h) == \E o \in Can(h, "lr") :
  Become(h, LoadReserved(AtomicDram(Machine, h, o.va, o.size, "Load"), h, o.va, o.size))
Sc(h) == \E o \in Can(h, "sc") :
  Become(h, StoreConditional(AtomicDram(Machine, h, o.va, o.size, "Store"), h, o.va, o.size, o.word))
AmoSwap(h) == \E o \in Can(h, "amo") :
  Become(h, Amo(AtomicDram(Machine, h, o.va, o.size, "Store"), h, o.va, o.size, o.word))
Fetch(h) == \E o \in Can(h, "fetch") : Become(h, FetchAt(Machine, h, o.va, o.wide))
PmpCfg(h) == \E o \in Can(h, "pmpcfg") : Own(h, WritePmpCfg(harts[h], o.cfg))
PmpAddr(h) == \E o \in Can(h, "pmpaddr") : Own(h, WritePmpAddr(harts[h], o.i, o.addr))
Mstatus(h) == \E o \in Can(h, "mstatus") : Own(h, WriteMstatus(harts[h], o.s))
Satp(h) == \E o \in Can(h, "satp") : Own(h, WriteSatp(harts[h], o.root))
Sfence(h) == Can(h, "sfence") # {} /\ Own(h, SfenceVma(harts[h]))
Xret(h) == \E o \in Can(h, "xret") : Own(h, Returned(harts[h], o.from))
Trap(h) == Can(h, "trap") # {} /\ Own(h, Trapped(harts[h]))

Step(h) ==
  /\ Ready(h)
  /\ \/ Load(h) \/ Store(h) \/ Lr(h) \/ Sc(h) \/ AmoSwap(h) \/ Fetch(h) \/ Sfence(h)
     \/ Satp(h) \/ Mstatus(h) \/ PmpCfg(h) \/ PmpAddr(h) \/ Xret(h) \/ Trap(h)

Next == \E h \in Harts : Step(h)
Spec == Init /\ [][Next]_vars

-----------------------------------------------------------------------------
L1Entry == {NoEntry} \cup [vpn : Nat, page : DramPageSet]
L2Entry == [vpn : Nat, tag : Nat \cup {None}, page : Nat, flags : SUBSET Flags, allow : SUBSET Bits]
Segment == [lo : Nat, last : Nat, su : SUBSET Bits, m : SUBSET Bits]
Reservation == [valid : BOOLEAN, va : Nat, pa : Nat, size : {1, 2}, value : Words]
HartState ==
  [priv : Privs, mprv : BOOLEAN, mpp : Privs, spp : {"U", "S"}, sum : BOOLEAN, mxr : BOOLEAN,
   root : Nat \cup {None}, deleg : BOOLEAN, sc : {"", "done", "failed"},
   cfg : [1..PmpN -> PmpEntry], addr : [1..PmpN -> Nat],
   segs : SUBSET Segment, nrules : Nat, mFast : BOOLEAN,
   itlb : L1Entry, load : [Entries(DTLB_N) -> L1Entry], store : [Entries(DTLB_N) -> L1Entry],
   l2 : [Entries(L2TLB_N) -> L2Entry], resv : Reservation]

\* Besides the types: the first-level TLBs have pages of memory only, and one segment
\* each has the first unit and the last.
TypeOK ==
  /\ harts \in [Harts -> HartState] /\ mem \in [Units -> Words] /\ ended \in BOOLEAN
  /\ program \in DOMAIN Programs /\ at \in [Harts -> Nat \ {0}]
  /\ \A h \in Harts, a \in {0, Top} :
       \E s \in harts[h].segs : /\ s.lo <= a /\ a <= s.last
                                /\ \A r \in harts[h].segs : r.lo <= a /\ a <= r.last => r = s

\* The segments decide as the entries do: the first entry with a byte of the access
\* decides, and must have all of them; with none, M may and the others may not.  Where
\* translate does not look at the segments, M may.
Ranges(hr) == [i \in 1..PmpN |-> RuleLo(hr.addr, i, hr.cfg[i].kind)..(RuleHi(hr.addr, i, hr.cfg[i].kind) - 1)]
PmpAllows(hr, bytes, acc, priv) ==
  LET ranges == Ranges(hr)
      first == Min({i \in 1..PmpN : ranges[i] \cap bytes # {}} \cup {PmpN + 1})
  IN  IF first > PmpN THEN priv = "M"
      ELSE /\ bytes \subseteq ranges[first]
           /\ Need(acc) \in hr.cfg[first].perm \/ (priv = "M" /\ ~hr.cfg[first].lock)
Exact(hr) ==
  \A a \in 0..Base(DramBase + DramPages), len \in {1, 2, PageUnits}, acc \in {"Fetch", "Load", "Store"} :
    LET bytes == a..(a + len - 1)
    IN  /\ \A priv \in Privs : PmpOk(hr, a, len, acc, priv) = PmpAllows(hr, bytes, acc, priv)
        /\ hr.nrules = 0 \/ (hr.mFast /\ (a % 2) + len <= 2) => PmpAllows(hr, bytes, acc, "M")
Protection(hr) == <<hr.cfg, hr.addr, hr.segs>>
PmpExact ==
  [][\A h \in Harts : Protection(harts'[h]) # Protection(harts[h]) => Exact(harts'[h])]_vars

\* What a hart has cached of a page is what PMP lets it do with the whole page: its fetches
\* at its privilege, loads and stores below M through a page table, and what the second
\* level says of a page for S and U.
PageBytes(page) == Base(page)..(Base(page) + PageUnits - 1)
Granted(hr, e, acc) == PmpAllows(hr, PageBytes(e.page), acc, EffPriv(hr, acc))
\* A trap taken in M with MPRV set: see MprvHonored.
Nested(hr) == hr.mprv /\ hr.mpp = "M"
DataGranted(hr, e, acc) ==
  e.vpn # None /\ ~Nested(hr) => EffPriv(hr, acc) # "M" /\ hr.root # None /\ Granted(hr, e, acc)
CachesGranted ==
  \A h \in Harts :
    LET hr == harts[h]
    IN  /\ hr.itlb.vpn # None => Granted(hr, hr.itlb, "Fetch")
        /\ \A e \in Entries(DTLB_N) :
             DataGranted(hr, hr.load[e], "Load") /\ DataGranted(hr, hr.store[e], "Store")
        /\ \A e \in Entries(L2TLB_N), acc \in {"Fetch", "Load", "Store"} :
             hr.l2[e].tag # None /\ Need(acc) \in hr.l2[e].allow =>
               PmpAllows(hr, PageBytes(hr.l2[e].page), acc, "U")

\* No hart can store into the page of a valid reservation without being seen to.
ReservedPagesGuarded ==
  NumHarts > 1 =>
    \A i, h \in Harts : \A e \in Entries(DTLB_N) :
      harts[i].resv.valid => harts[h].store[e].page # PageOf(harts[i].resv.pa)

\* So, as long as a reservation is valid, what it reserves stays as it was, whatever the
\* other harts do.
Reserves(r) == r.pa..(r.pa + r.size - 1)
ReservationsHold ==
  [][\A i \in Harts : NumHarts > 1 /\ at'[i] = at[i] /\ harts'[i].resv.valid =>
       /\ harts'[i].resv = harts[i].resv
       /\ \A u \in Reserves(harts[i].resv) : mem'[u] = mem[u]]_vars

\* The assertion of rv64_sys_lr_reserve: a word that LR has just loaded is translated
\* again without a fault.
LrReserves == [][\A h \in Harts : Ready(h) /\ Lr(h) => ended' = ended]_vars
=============================================================================
