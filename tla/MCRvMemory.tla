----------------------------- MODULE MCRvMemory -----------------------------
(***************************************************************************)
(* RvMemory for TLC: two tables (pages 1 and 2) that map two virtual pages *)
(* to page 3, one for S and one for U, and a superpage to pages 4 and 5;   *)
(* guests that race for a word with LR and SC, that change the tables      *)
(* under each other's feet, and that fence memory off with PMP.            *)
(***************************************************************************)
EXTENDS RvMemory

At(op, va, size) == [op |-> op, va |-> va, size |-> size, word |-> Data(1)]
Put(op, va, size, word) == [op |-> op, va |-> va, size |-> size, word |-> word]
Do(op) == [op |-> op]
Root(r) == [op |-> "satp", root |-> r]
WriteStatus(mprv, mpp, sum, mxr) ==
  [op |-> "mstatus", s |-> [mprv |-> mprv, mpp |-> mpp, sum |-> sum, mxr |-> mxr]]
Ret(from) == [op |-> "xret", from |-> from]
Run(va, wide) == [op |-> "fetch", va |-> va, wide |-> wide]
Entry(kind, perm, lock) == [kind |-> kind, perm |-> perm, lock |-> lock]
Cfg(a, b) == [op |-> "pmpcfg", cfg |-> <<a, b>>]
Addr(i, a) == [op |-> "pmpaddr", i |-> i, addr |-> a]

All == Entry("NAPOT", Bits, FALSE)    \* with an address of 31, all of memory
Off == Entry("OFF", {}, FALSE)

S == {"V", "R", "W", "X"}
Table == Word({"V"}, 2)
LeafS == Word(S, 3)
LeafU == Word({"V", "R", "W", "U"}, 3)
Super == Word({"V", "R", "W", "A", "D"}, 4)
MCInitMem ==
  [u \in Units |-> CASE u \in {4, 5} -> Table [] u \in {6, 7} -> Super
                     [] u \in {8, 9} -> LeafS [] u \in {10, 11} -> LeafU [] OTHER -> Data(0)]

\* The way into S: PMP open, the page table on.
Enter(sum) ==
  << {Addr(2, 31)}, {Cfg(Off, All)}, {Root(1)}, {WriteStatus(FALSE, "S", sum, FALSE)}, {Ret("M")} >>

Nothing == <<>>

Racer1 == Enter(TRUE) \o
  << {At("lr", 0, 2)}, {At("load", 0, 1), Put("store", 0, 2, Data(0)), Put("store", 2, 1, Data(2))},
     {Put("sc", 0, 2, Data(1)), Do("trap")}, {Put("sc", 0, 2, Data(1))} >>
Racer2 == Enter(TRUE) \o
  << {Put("store", 0, 2, Data(0)), Put("store", 4, 2, Data(0)), Put("store", 2, 1, Data(0))},
     {Put("store", 0, 2, Data(3)), Put("amo", 4, 2, Data(3)), At("lr", 0, 2)},
     {Put("store", 0, 2, Data(0)), Put("store", 1, 2, Data(0)), Put("sc", 0, 2, Data(0))} >>

Kernel == Enter(FALSE) \o
  << {At("load", 0, 1), At("store", 0, 1), Run(0, FALSE)},
     {At("load", 4, 1), At("store", 10, 2), Run(3, TRUE), At("load", 16, 1), At("load", 7, 2)},
     {Do("sfence"), Do("trap")}, {Do("sfence"), WriteStatus(TRUE, "U", TRUE, TRUE), Ret("M")},
     {At("load", 0, 1), At("store", 4, 1), At("load", 4, 1), At("load", 10, 1)} >>
Pager ==
  << {Put("store", 8, 2, Word(S \ {"W"}, 5)), Put("store", 6, 2, Word({"V"}, 2)),
      Put("lr", 8, 2, Data(0)), Put("lr", 9, 2, Data(0))},
     {Put("store", 10, 2, Word({"V", "R", "U"}, 0)), Put("sc", 8, 2, Data(0)),
      At("load", 0, 1), At("store", 24, 1)} >>

Part == Entry("NA4", {"R"}, FALSE)
Locked == Entry("TOR", {"R", "X"}, TRUE)
Fenced ==
  << {Addr(1, 13)}, {Addr(2, 31), Addr(2, 17)},
     {Cfg(Part, All), Cfg(Off, All), Cfg(Locked, All),
      Cfg(Entry("TOR", {"W", "X"}, FALSE), Entry("TOR", Bits, FALSE))},
     {Root(1)}, {WriteStatus(TRUE, "S", TRUE, TRUE), WriteStatus(FALSE, "S", FALSE, FALSE), Run(13, FALSE)},
     {Ret("M"), At("store", 0, 2)},
     {At("load", 0, 1), At("store", 2, 2), Run(0, FALSE), Run(0, TRUE), At("lr", 2, 2)},
     {At("load", 1, 1), Addr(1, 9), Cfg(Off, Off), Do("trap"), At("amo", 2, 2)},
     {At("load", 0, 1), At("store", 2, 1), Run(2, TRUE), Run(0, FALSE), Run(3, TRUE), Addr(1, 14)} >>

MCPrograms == << <<Racer1, Racer2>>, <<Kernel, Pager>>, <<Fenced, Nothing>> >>

VARIABLES
  seen,    \* seen[h]: the translations there were since hart h last flushed its TLBs
  broken   \* broken[h]: another hart has changed what hart h has reserved

\* The leaves of the table at root: a virtual page, its page and the flags.
Slots == 0..(Fan - 1)
Leaves(m, root) ==
  LET top(i) == m[Base(root) + 2 * i]
      low(i, j) == m[Base(top(i).ppn) + 2 * j]
      super == {i \in Slots : IsLeaf(top(i)) /\ top(i).ppn % Fan = 0}
      small == {p \in {i \in Slots : ~Malformed(top(i)) /\ ~IsLeaf(top(i)) /\ top(i).ppn \in DramPageSet} \X Slots :
                  IsLeaf(low(p[1], p[2]))}
      leaf(i, j, page, flags) == [vpn |-> i * Fan + j, page |-> page, flags |-> flags]
  IN  {leaf(p[1], p[2], top(p[1]).ppn + p[2], top(p[1]).flags) : p \in super \X Slots}
      \cup {leaf(p[1], p[2], low(p[1], p[2]).ppn, low(p[1], p[2]).flags) : p \in small}

Seen(h) == IF harts'[h].root = None THEN {} ELSE Leaves(mem', harts'[h].root)
Flushes(h) == \/ Sfence(h)
              \/ harts'[h].root # harts[h].root \/ harts'[h].cfg # harts[h].cfg
              \/ harts'[h].addr # harts[h].addr

MCInit ==
  /\ Init
  /\ seen = [h \in Harts |-> {}] /\ broken = [h \in Harts |-> FALSE]
Moves(h) == at'[h] # at[h]
MCNext ==
  /\ Next
  /\ seen' = [h \in Harts |-> Seen(h) \cup IF Moves(h) /\ Flushes(h) THEN {} ELSE seen[h]]
  /\ broken' = [h \in Harts |->
       IF Moves(h) THEN broken[h] /\ harts'[h].resv = harts[h].resv
       ELSE broken[h] \/ \E u \in Units : /\ mem'[u] # mem[u] /\ harts[h].resv.valid
                                          /\ u - harts[h].resv.pa \in 0..(harts[h].resv.size - 1)]

\* What a hart has cached of a page PMP lets it have whole (CachesGranted), and it is a
\* translation there was since its last flush, that lets it make that access as it is now.
Translates(h, e, acc) ==
  LET hr == harts[h]
      priv == EffPriv(hr, acc)
  IN  IF priv = "M" \/ hr.root = None THEN acc = "Fetch" /\ e.page = e.vpn
      ELSE \E t \in seen[h] : /\ t.vpn = e.vpn /\ t.page = e.page
                             /\ "A" \in t.flags /\ (acc = "Store" => "D" \in t.flags)
                             /\ Permits(t.flags, hr, acc, priv)
Valid(entries) == {e \in Range(entries) : e.vpn # None}
CachesFresh ==
  /\ CachesGranted
  /\ \A h \in Harts :
       /\ harts[h].itlb.vpn # None => Translates(h, harts[h].itlb, "Fetch")
       /\ \A e \in Valid(harts[h].load) : Nested(harts[h]) \/ Translates(h, e, "Load")
       /\ \A e \in Valid(harts[h].store) : Nested(harts[h]) \/ Translates(h, e, "Store")
       /\ \A e \in Range(harts[h].l2) : e.tag # None =>
            [vpn |-> e.vpn, page |-> e.page, flags |-> e.flags] \in seen[h]

\* Loads and stores honor MPRV: made with the privilege of M, they hit no translation.
MprvHonored ==
  \A h \in Harts : EffPriv(harts[h], "Load") = "M" =>
    Valid(harts[h].load) = {} /\ Valid(harts[h].store) = {}

\* SC stores where LR read, and only what no other hart has changed since.
Succeeds(h) == harts[h].sc = "" /\ harts'[h].sc = "done"
ScExact ==
  [][\A h \in Harts : Succeeds(h) =>
       /\ harts[h].resv.valid /\ ~broken[h]
       /\ \E o \in Can(h, "sc") : mem'[harts[h].resv.pa] = o.word]_<<vars, seen, broken>>

MCSpec == MCInit /\ [][MCNext]_<<vars, seen, broken>>
=============================================================================
