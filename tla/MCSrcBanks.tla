------------------------------ MODULE MCSrcBanks ------------------------------
(***************************************************************************)
(* SrcBanks for TLC with a history of each bank, and what a race is in     *)
(* terms of the history.                                                   *)
(***************************************************************************)
EXTENDS SrcBanks, FiniteSets

CONSTANTS
  t0, t1,
  MaxEvents    \* bound on the events in all histories

\* Thread t1 keeps the banks it releases valid.
KeptByT1 == {<<t1, "A">>}

VARIABLE history      \* history[s][b]: what befell the bank since its release

Write(p)  == <<"an unpack of this thread wrote the bank", p>>
Synced(p) == <<"this thread waited for the unpacker", p>>
Moved     == <<"a move wrote the bank">>
Has       == <<"the Matrix Unit waited to have the bank">>

HistoryInit == history = [s \in Srcs |-> [b \in Banks |-> <<>>]]

\* Each bank's history, with what befalls it now.
HistoryGoes(Befalls(_, _, _)) ==
  history' = [s \in Srcs |-> [b \in Banks |-> Befalls(history[s][b], s, b)]]

AtUnpackers(s, b)  == b = unpack_bank[s]
AtMatrixUnit(s, b) == b = matrix_bank[s]

Unpacks(p, s) ==
  HistoryGoes(LAMBDA h, r, b : IF r = s /\ AtUnpackers(r, b) THEN Append(h, Write(p)) ELSE h)

\* The Matrix Unit writes the bank it is at of the Srcs of M and has waited to have
\* those of W.
Works(M, W) ==
  HistoryGoes(LAMBDA h, s, b : IF s \in M /\ AtMatrixUnit(s, b) THEN Append(h, Moved)
                               ELSE IF s \in W /\ AtMatrixUnit(s, b) THEN Append(h, Has)
                               ELSE h)

\* It has waited to have those of W and releases those of S.
Frees(W, S) ==
  HistoryGoes(LAMBDA h, s, b : IF s \in S /\ AtMatrixUnit(s, b) THEN <<>>
                               ELSE IF s \in W /\ AtMatrixUnit(s, b) THEN Append(h, Has)
                               ELSE h)

Waits(p, unpacks, have) ==
  HistoryGoes(LAMBDA h, s, b :
    LET g == IF s \in unpacks THEN Append(h, Synced(p)) ELSE h
    IN  IF s \in have /\ AtMatrixUnit(s, b) THEN Append(g, Has) ELSE g)

HistoryNext ==
  \/ \E s \in Srcs, v \in Data, p \in Pipes, set \in BOOLEAN :
       /\ UNPACR(p, s, v, set) \/ \E b \in Banks : UNPACR_NOP(p, s, v, b, set)
       /\ Unpacks(p, s)
  \/ \E s \in Srcs, v \in Data : MOVD2Src(s, v) /\ Works({s}, {})
  \/ \E s \in Srcs : ReadSrc(s) /\ Works({}, {s})
  \/ \E v \in Data : TRNSPSRCB(v) /\ Works({}, {"B"})
  \/ \E v \in Data : MOVB2A(v) /\ Works({"A"}, {"B"})
  \/ \E p \in Pipes, clear \in SUBSET Srcs : Compute(p, clear) /\ Frees(Srcs, clear)
  \/ \E p \in Pipes, clear \in SUBSET Srcs : SETRWC(p, clear) /\ Frees({}, clear)
  \/ \E clear \in SUBSET Srcs : CLEARDVALID(clear) /\ Frees({}, clear)
  \* (A STALLWAIT that waits for a bank to be free and finds it taken is like one that
  \* waits for no bank to have.)
  \/ \E p \in Pipes, unpacks, have \in SUBSET Srcs :
       STALLWAIT(p, unpacks, {}, have) /\ Waits(p, unpacks, Seen({}, have))
  \/ /\ \/ \E s \in Srcs : UNPACR_ToDst(s) \/ SetDvalid(s)
        \/ \E both \in BOOLEAN, S \in SUBSET Srcs : ZEROSRC(both, S)
     /\ UNCHANGED history

Events == UNION {{<<s, b, n>> : n \in DOMAIN history[s][b]} : s \in Srcs, b \in Banks}

\* The simulation has ended, or the histories are full.
Stopped ==
  /\ error # "none" \/ Cardinality(Events) = MaxEvents
  /\ UNCHANGED <<vars, history>>

RaceNext ==
  \/ HistoryNext /\ Cardinality(Events') <= MaxEvents
  \/ Stopped

RaceSpec == Init /\ HistoryInit /\ [][RaceNext]_<<vars, history>>

\* A move and an unpack of the same bank are not ordered by anything: the
\* move came before the Matrix Unit waited to have the bank, and the unpack
\* came later, or before and its thread did not wait for the unpacker.
Unordered(h) ==
  \E m, w \in DOMAIN h, p \in Pipes :
    /\ h[m] = Moved /\ h[w] = Write(p)
    /\ \A n \in 1 .. m - 1 : h[n] # Has
    /\ \A n \in w + 1 .. m - 1 : h[n] # Synced(p)

\* The simulation ends with a race exactly when there is one.  (The comment
\* at math_src_waited; the code goes by three bits per bank and thread.)
RaceCaught ==
  error \in {"none", "race"} =>
    (error = "race" <=> \E s \in Srcs, b \in Banks : Unordered(history[s][b]))
=============================================================================
