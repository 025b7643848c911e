-------------------------------- MODULE MCNiu --------------------------------
(***************************************************************************)
(* The chips of the boards the simulator knows, a Tensix and an Ethernet   *)
(* tile on each, and programs that sweep the grid: multicasts to every     *)
(* span of columns and rows in use on either NoC, requests to every kind   *)
(* of tile by the names software has for it, and the tiles whose clock is  *)
(* off, before and after software turns it on.                             *)
(***************************************************************************)
EXTENDS Niu

\* A set in some order.
Listed(S) == FoldSet(LAMBDA x, seq : Append(seq, x), <<>>, S)

Bits(m) == {i \in 0 .. 13 : (m \div 2^i) % 2 = 1}

\* The masks of N150, N300 and T3000 in Wormhole; of P150, P300, QuietBox 2
\* and some of a Galaxy in Blackhole (bits 6 and 7, 7 and 13, and so on).
WormholeMasks  == {0, 64, 65, 5, 544, 513}
BlackholeMasks == {192, 8320, 272, 513, 18, 2304, 1}
MCBoards == {<<TRUE, Bits(m)>> : m \in WormholeMasks} \cup {<<FALSE, Bits(m)>> : m \in BlackholeMasks}

UsedColumns(b) == SelectSeq(TENSIX_COLUMNS(b[1]), LAMBDA x : x \notin HarvestedColumns(b[1], b[2]))
UsedRows(b)    == SelectSeq(TENSIX_ROWS(b[1]), LAMBDA y : y \notin HarvestedRows(b[1], b[2]))

\* The tiles whose programs are looked at.
MCSenders(b) == {<<"T", <<UsedColumns(b)[3], UsedRows(b)[4]>> >>, <<"E", 5>>}

-----------------------------------------------------------------------------
(* Requests.                                                               *)

Id(b, n, t) == Ids(b[1], b[2], n)[t]
StoreOf(v) == [op |-> "store", data |-> v]

\* To the tiles between columns i and j, and rows k and l, of those in use.
ToTiles(b, me1, n, c, r, include, posted) ==
  LET low  == Id(b, n, <<"T", <<UsedColumns(b)[c[1]], UsedRows(b)[r[1]]>> >>)
      high == Id(b, n, <<"T", <<UsedColumns(b)[c[2]], UsedRows(b)[r[2]]>> >>)
  IN [op |-> "multicast", noc |-> n, own |-> Id(b, n, me1), include |-> include, posted |-> posted,
      start |-> IF n = 1 THEN high ELSE low, at |-> IF n = 1 THEN low ELSE high]

Spans(k) == Listed({<<i, j>> \in (1 .. k) \X (1 .. k) : i <= j})

\* Every span of the columns or rows that may be harvested, and one of the others.
Sweep(b, me1, n, other, include) ==
  LET spans == Spans(Len(IF b[1] THEN UsedRows(b) ELSE UsedColumns(b)))
      req(i) == IF b[1] THEN ToTiles(b, me1, n, other, spans[i], include, ~include)
                ELSE ToTiles(b, me1, n, spans[i], other, include, ~include)
  IN FlattenSeq([i \in 1 .. Len(spans) |-> <<StoreOf(i), req(i)>>])

\* Software skips a column and a row more on one NoC.
Skip(b, n) ==
  [op |-> "router cfg", noc |-> n,
   columns |-> NonTensixColumns(b[1]) \cup HarvestedColumns(b[1], b[2]) \cup {UsedColumns(b)[4]},
   rows |-> NonTensixRows(b[1]) \cup HarvestedRows(b[1], b[2]) \cup {UsedRows(b)[5]}]

Unicast(b, me1, n, op, at, own, posted, v) ==
  [op |-> op, noc |-> n, at |-> at, start |-> own, own |-> own, posted |-> posted, data |-> v]

\* A write and a read, and for tiles with registers an inline write and atomics.
Touch(b, me1, n, at, own, regs, v) ==
  << StoreOf(v), Unicast(b, me1, n, "write", at, own, FALSE, 0),
     Unicast(b, me1, n, "read", at, own, FALSE, 0) >>
  \o IF ~regs THEN <<>>
     ELSE << Unicast(b, me1, n, "inline", at, own, TRUE, v + 500),
             Unicast(b, me1, n, "atomic", at, own, FALSE, 1),
             Unicast(b, me1, n, "atomic", at, own, TRUE, 1) >>

\* A cross of the Tensix tiles, and all other tiles with a NIU of their own.
AllProbes(b) ==
  {<<"T", <<x, UsedRows(b)[2]>> >> : x \in ToSet(TENSIX_COLUMNS(b[1]))}
  \cup {<<"T", <<UsedColumns(b)[3], y>> >> : y \in ToSet(TENSIX_ROWS(b[1]))}
  \cup {<<"E", i>> : i \in EthIds(b[1])}
  \cup {<<"P", 0>>, <<"A", 0>>}

\* Those that boot leaves with their clock off, and the others.
Dark(b) == {t \in AllProbes(b) :
              ~b[1] /\ \/ t[1] = "T" /\ t[2][1] \in HarvestedColumns(FALSE, b[2])
                       \/ t[1] = "E" /\ t[2] >= LiveEth}
Probes(b) == AllProbes(b) \ Dark(b)

\* By NOC_ID_LOGICAL.
Visit(b, me1, n) ==
  LET to == Listed(Probes(b)) IN
  FlattenSeq([i \in 1 .. Len(to) |->
    Touch(b, me1, n, Id(b, n, to[i]), Id(b, n, me1), to[i][1] \in {"T", "E"}, i)])

NiuCfg(n, on) == [op |-> "niu cfg", noc |-> n, on |-> on, off |-> FALSE]

\* By NOC_NODE_ID, with translation off in Blackhole.
VisitRaw(b, me1, n) ==
  LET to == Listed(Probes(b)) IN
  (IF b[1] THEN <<>> ELSE <<NiuCfg(n, FALSE)>>)
  \o FlattenSeq([i \in 1 .. Len(to) |->
       Touch(b, me1, n, NodeId(b[1], n, to[i]), NodeId(b[1], n, me1), to[i][1] \in {"T", "E"}, i)])

\* The other names: DRAM, and Blackhole's rows whose columns are not translated.
DramNames(b, n) ==
  IF b[1] THEN UNION {{<<MirrorX(TRUE, n, p[1]), MirrorY(n, p[2])>> : p \in Ports(TRUE)[c]} : c \in 1 .. 6}
  ELSE {17, 18} \X (12 .. 23)
RowsAsTheyAre(b) == {<<"E", i>> : i \in 0 .. LiveEth - 1} \cup {<<"P", 0>>, <<"A", 0>>}
VisitOthers(b, me1, n) ==
  LET names == Listed(DramNames(b, n) \cup
                        IF ~b[1] /\ n = 0 THEN {NodeId(FALSE, 0, t) : t \in RowsAsTheyAre(b)} ELSE {}) IN
  FlattenSeq([i \in 1 .. Len(names) |-> Touch(b, me1, n, names[i], Id(b, n, me1), FALSE, i)])

\* An inline write to NIU_CFG_0 of NIU m of another tile.
ConfigOf(b, me1, n, m, at, own, off) ==
  [op |-> "config", noc |-> n, at |-> at, start |-> own, own |-> own, posted |-> FALSE,
   reg |-> m, on |-> TRUE, off |-> off]

\* Every operation on a tile while its clock is off; then with that of one NIU
\* turned on, with both, and with one turned off again.
OnDark(b, me1, n, m, before, at, own) ==
  LET turn(k, off) == ConfigOf(b, me1, n, k, at, own, off)
      probe(op) == Unicast(b, me1, n, op, at, own, FALSE, 7)
      touch == Touch(b, me1, n, at, own, TRUE, 5)
  IN {before \o <<probe(op)>> : op \in {"read", "write", "inline", "atomic"}}
     \cup {before \o <<turn(m, FALSE), probe("write")>>,
           before \o <<turn(0, FALSE), turn(1, FALSE)>> \o touch
                  \o <<turn(m, TRUE), probe("read")>>}

\* By their ids or, where it is not translated, their place on the chip, and by
\* their coordinates without translation.
VisitDark(b, me1, n) ==
  UNION {
    (IF t[1] = "T" \/ n = 0 THEN OnDark(b, me1, n, n, <<>>, Id(b, n, t), Id(b, n, me1)) ELSE {})
    \cup OnDark(b, me1, n, 1 - n, <<NiuCfg(n, FALSE)>>,
                NodeId(b[1], n, t), NodeId(b[1], n, me1)) : t \in Dark(b)}

Wide(b) == IF b[1] THEN <<1, 8>> ELSE <<1, 10>>
Narrow(b) == IF b[1] THEN <<3, 5>> ELSE <<4, 6>>

\* A multicast over a tile whose clock software has turned off, over its own
\* tile with the clock off, and over columns that were harvested but are no
\* longer skipped; and the same writes of NIU_CFG_0 in Wormhole, where they
\* turn no clock off.
MulticastDark(b, me1, n) ==
  LET id(i, j) == Id(b, n, <<"T", <<UsedColumns(b)[i], UsedRows(b)[j]>> >>)
      off(at) == ConfigOf(b, me1, n, 1 - n, at, Id(b, n, me1), TRUE)
      all(include) == ToTiles(b, me1, n, Wide(b), <<3, 5>>, include, FALSE)
  IN { << off(id(2, 3)), all(FALSE) >>,
       << off(id(2, 3)), ConfigOf(b, me1, n, 1 - n, id(2, 3), Id(b, n, me1), FALSE), all(FALSE) >>,
       << off(Id(b, n, me1)), all(FALSE), all(TRUE) >>,
       << off(id(2, 3)) >> \o Touch(b, me1, n, id(2, 3), Id(b, n, me1), TRUE, 3),
       << [op |-> "router cfg", noc |-> n, columns |-> NonTensixColumns(b[1]),
           rows |-> NonTensixRows(b[1])], all(FALSE) >>,
       << ConfigOf(b, me1, n, n, Id(b, n, <<"P", 0>>), Id(b, n, me1), FALSE) >> }

\* A multicast of a span that ends before it starts, a row that is cleared from
\* ROUTER_CFG_3, and the counter of outstanding requests cleared.
Wrong(b, me1, n) ==
  { << ToTiles(b, me1, n, <<5, 2>>, <<1, 3>>, FALSE, FALSE) >>,
    << ToTiles(b, me1, n, <<2, 5>>, <<1, 3>>, FALSE, FALSE), [op |-> "clear", noc |-> n],
       [op |-> "router cfg", noc |-> n, columns |-> {}, rows |-> {}] >>,
    << Unicast(b, me1, n, "inline", Id(b, n, <<"P", 0>>), Id(b, n, me1), TRUE, 1) >>,
    << Unicast(b, me1, n, "atomic", Id(b, n, <<"A", 0>>), Id(b, n, me1), TRUE, 1) >>,
    << Unicast(b, me1, n, "write", Id(b, n, me1), Id(b, n, <<"P", 0>>), TRUE, 1) >>,
    << Unicast(b, me1, n, "write", <<31, 31>>, Id(b, n, me1), TRUE, 1),
       Unicast(b, me1, n, "write", <<29, 29>>, Id(b, n, me1), TRUE, 1) >> }

MCPrograms ==
  [b \in MCBoards |-> [t \in MCSenders(b) |->
    UNION {
      {Sweep(b, t, n, Wide(b), TRUE), Visit(b, t, n)}
      \cup (IF t[1] = "E" THEN {}
            ELSE {Sweep(b, t, n, Narrow(b), FALSE), <<Skip(b, n)>> \o Sweep(b, t, n, Wide(b), FALSE),
                  VisitRaw(b, t, n), VisitOthers(b, t, n)}
                 \cup Wrong(b, t, n) \cup VisitDark(b, t, n) \cup MulticastDark(b, t, n)) : n \in Nocs}]]
=============================================================================
