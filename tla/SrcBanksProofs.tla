---------------------------- MODULE SrcBanksProofs ----------------------------
(***************************************************************************)
(* Proofs about SrcBanks, for any Srcs, threads and data.  While no thread *)
(* keeps released banks valid: the types, that the bank pointers and the   *)
(* valid bits agree, and that the banks of each Src are a queue of two.    *)
(* With the histories of MCSrcBanks and without that condition: that the   *)
(* races it reports are those there are.                                   *)
(***************************************************************************)
EXTENDS MCSrcBanks, SequenceTheorems, TLAPS

Inv == TypeOK /\ BanksInStep

LEMMA BankFacts ==
  /\ 0 \in Banks /\ 1 \in Banks
  /\ \A b \in Banks : Other(b) \in Banks /\ Other(b) # b /\ Other(Other(b)) = b
  /\ \A b, c \in Banks : c = b \/ c = Other(b)
  /\ \A b \in Banks : Banks = {b, Other(b)}
BY DEF Banks, Other

-----------------------------------------------------------------------------
(* What an instruction can do to the banks and their handover.             *)

Fills(s, v) ==
  /\ UnpackerMayFill(s)
  /\ HandOver(s)
  /\ bank' = [bank EXCEPT ![s][unpack_bank[s]] = v]

Releases(S) ==
  /\ \A s \in S : MatrixUnitHas(s)
  /\ valid' = [s \in Srcs |-> IF s \in S THEN valid[s] \ {matrix_bank[s]} ELSE valid[s]]
  /\ matrix_bank' = [s \in Srcs |-> IF s \in S THEN Other(matrix_bank[s]) ELSE matrix_bank[s]]
  /\ UNCHANGED <<bank, unpack_bank>>

MatrixUnitWrites(s, v) ==
  UNCHANGED handover /\ bank' = [bank EXCEPT ![s][matrix_bank[s]] = v]

UnpackerWrites(s, v) ==
  /\ UNCHANGED handover
  /\ UnpackerMayFill(s)
  /\ bank' = [bank EXCEPT ![s][unpack_bank[s]] = v]

Zeroes(both, S) ==
  /\ UNCHANGED handover
  /\ bank' = [s \in Srcs |-> [b \in Banks |->
                IF both \/ (s \in S /\ b = matrix_bank[s]) THEN ZeroData ELSE bank[s][b]]]

Effect ==
  \/ \E s \in Srcs, v \in Data : Fills(s, v) \/ MatrixUnitWrites(s, v) \/ UnpackerWrites(s, v)
  \/ \E S \in SUBSET Srcs : Releases(S) \/ \E both \in BOOLEAN : Zeroes(both, S)
  \/ UNCHANGED <<bank, handover>>

\* A handover without a write is one that writes what the bank holds.
LEMMA HandOverFills ==
  ASSUME TypeOK, NEW s \in Srcs, UnpackerMayFill(s), HandOver(s), UNCHANGED bank
  PROVE  \E v \in Data : Fills(s, v)
<1>1. unpack_bank[s] \in Banks BY DEF TypeOK
<1>2. bank[s][unpack_bank[s]] \in Data BY <1>1 DEF TypeOK
<1>3. bank' = [bank EXCEPT ![s][unpack_bank[s]] = bank[s][unpack_bank[s]]]
  BY <1>1 DEF TypeOK
<1> QED BY <1>2, <1>3 DEF Fills

\* UNPACR_NOP may wait for the Matrix Unit's bank: if that one is not valid
\* the unpackers' bank is not valid either.
LEMMA WaitEither ==
  ASSUME Inv, NEW s \in Srcs, NEW b \in {unpack_bank[s], matrix_bank[s]}, b \notin valid[s]
  PROVE  UnpackerMayFill(s)
<1>1. unpack_bank[s] \in Banks /\ matrix_bank[s] \in Banks BY DEF Inv, TypeOK
<1>2. CASE unpack_bank[s] = matrix_bank[s]
  BY <1>2 DEF UnpackerMayFill
<1>3. CASE unpack_bank[s] # matrix_bank[s]
  BY <1>3 DEF Inv, BanksInStep, UnpackerMayFill
<1> QED BY <1>2, <1>3

LEMMA StepHasEffect ==
  ASSUME Inv, Next, ClrDisabled = {}
  PROVE  Effect
<1> USE DEF Inv, handover
<1>0. ZeroData \in Data BY SrcAssumption
<1>1. ASSUME NEW p \in Pipes, NEW s \in Srcs, NEW v \in Data, NEW set \in BOOLEAN,
             UNPACR(p, s, v, set)
      PROVE  Effect
  <2>1. CASE UnpackRaces(s) BY <2>1 DEF UnpackRaces, Fail, Effect
  <2>2. CASE /\ UnpackWrite(p, s, v)
             /\ IF set THEN HandOver(s) ELSE UNCHANGED handover
    <3>1. Fills(s, v) \/ UnpackerWrites(s, v)
      BY <1>1, <2>2 DEF UNPACR, UnpackWrite, Fills, UnpackerWrites
    <3> QED BY <3>1 DEF Effect
  <2> QED BY <1>1, <2>1, <2>2 DEF UNPACR
<1>2. ASSUME NEW p \in Pipes, NEW s \in Srcs, NEW v \in Data, NEW b \in Banks,
             NEW set \in BOOLEAN, UNPACR_NOP(p, s, v, b, set)
      PROVE  Effect
  <2>0. UnpackerMayFill(s) BY <1>2, WaitEither DEF UNPACR_NOP
  <2>1. CASE UNCHANGED <<bank, handover>> BY <2>1 DEF Effect
  <2>2. CASE /\ UnpackWrite(p, s, v)
             /\ IF set THEN HandOver(s) ELSE UNCHANGED handover
    <3>1. Fills(s, v) \/ UnpackerWrites(s, v)
      BY <2>0, <2>2 DEF UnpackWrite, Fills, UnpackerWrites
    <3> QED BY <3>1 DEF Effect
  <2> QED BY <1>2, <2>1, <2>2 DEF UNPACR_NOP, UnpackRaces, Fail
<1>3. ASSUME NEW s \in Srcs, UNPACR_ToDst(s) \/ SetDvalid(s)
      PROVE  Effect
  <2>1. CASE UNCHANGED <<bank, handover>> BY <2>1 DEF Effect
  <2>2. CASE UnpackerMayFill(s) /\ HandOver(s) /\ UNCHANGED bank
    BY <2>2, HandOverFills DEF Effect
  <2> QED BY <1>3, <2>1, <2>2 DEF UNPACR_ToDst, SetDvalid, Fail
<1>4. ASSUME NEW S \in SUBSET Srcs, \A s \in S : MatrixUnitHas(s), Release(S, {}),
             UNCHANGED <<bank, unpack_bank>>
      PROVE  Effect
  <2>1. Releases(S) BY <1>4 DEF Release, Releases
  <2> QED BY <2>1 DEF Effect
<1>5. ASSUME NEW p \in Pipes, NEW clear \in SUBSET Srcs,
             Compute(p, clear) \/ SETRWC(p, clear)
      PROVE  Effect
  <2>1. Kept(p, clear) = {} BY <1>5 DEF Kept
  <2>2. CASE UNCHANGED <<bank, handover>> BY <2>2 DEF Effect
  <2>3. CASE /\ \A s \in clear : MatrixUnitHas(s)
             /\ Release(clear, {})
             /\ UNCHANGED <<bank, unpack_bank>>
    BY <2>3, <1>4
  <2> QED BY <1>5, <2>1, <2>2, <2>3 DEF Compute, SETRWC, Fail
<1>6. ASSUME NEW s \in Srcs, NEW v \in Data, Move(s, v)
      PROVE  Effect
  <2>1. MatrixUnitWrites(s, v) \/ UNCHANGED <<bank, handover>>
    BY <1>6 DEF Move, Fail, MatrixUnitWrites
  <2> QED BY <2>1 DEF Effect
<1>7. ASSUME NEW v \in Data, TRNSPSRCB(v)
      PROVE  Effect
  <2>1. "B" \in Srcs /\ MatrixUnitWrites("B", v)
    BY <1>7 DEF TRNSPSRCB, MatrixUnitWrites
  <2> QED BY <2>1 DEF Effect
<1>8. ASSUME NEW both \in BOOLEAN, NEW S \in SUBSET Srcs, ZEROSRC(both, S)
      PROVE  Effect
  <2>1. Zeroes(both, S) BY <1>8 DEF ZEROSRC, Zeroes
  <2> QED BY <2>1 DEF Effect
<1>9. ASSUME NEW s \in Srcs, NEW v \in Data, MOVD2Src(s, v) PROVE Effect
  BY <1>9, <1>6 DEF MOVD2Src
<1>10. ASSUME NEW v \in Data, MOVB2A(v) PROVE Effect
  <2>1. "A" \in Srcs BY <1>10 DEF MOVB2A
  <2> QED BY <1>10, <2>1, <1>6 DEF MOVB2A
<1>11. ASSUME NEW clear \in SUBSET Srcs, CLEARDVALID(clear) PROVE Effect
  <2>1. CASE UNCHANGED <<bank, handover>> BY <2>1 DEF Effect
  <2>2. CASE /\ \A s \in clear : MatrixUnitHas(s)
             /\ Release(clear, {})
             /\ UNCHANGED <<bank, unpack_bank>>
    BY <2>2, <1>4
  <2> QED BY <1>11, <2>1, <2>2 DEF CLEARDVALID, Fail
<1>12. ASSUME \/ \E s \in Srcs : ReadSrc(s)
              \/ \E p \in Pipes, unpacks, free, have \in SUBSET Srcs :
                   STALLWAIT(p, unpacks, free, have)
              \/ Ended
       PROVE  Effect
  BY <1>12 DEF ReadSrc, STALLWAIT, Ended, vars, Effect
<1> QED BY <1>1, <1>2, <1>3, <1>5, <1>7, <1>8, <1>9, <1>10, <1>11, <1>12 DEF Next

-----------------------------------------------------------------------------
(* The invariant.                                                          *)

BankTypes ==
  /\ bank \in [Srcs -> [Banks -> Data]]
  /\ valid \in [Srcs -> SUBSET Banks]
  /\ unpack_bank \in [Srcs -> Banks]
  /\ matrix_bank \in [Srcs -> Banks]

RaceTypes ==
  /\ src_waited \in [Srcs -> SUBSET Banks]
  /\ src_unpacked \in [Srcs -> [Pipes -> SUBSET Banks]]
  /\ src_moved \in [Srcs -> SUBSET Banks]
  /\ error \in {"none", "already valid", "not valid", "race"}

\* A write to one bank keeps the type of the banks.
LEMMA BankWrite ==
  ASSUME bank \in [Srcs -> [Banks -> Data]],
         NEW s \in Srcs, NEW b \in Banks, NEW v \in Data
  PROVE  [bank EXCEPT ![s][b] = v] \in [Srcs -> [Banks -> Data]]
OBVIOUS

LEMMA HandOverTypes ==
  ASSUME BankTypes, NEW s \in Srcs, HandOver(s)
  PROVE  /\ valid' \in [Srcs -> SUBSET Banks]
         /\ unpack_bank' \in [Srcs -> Banks]
         /\ matrix_bank' \in [Srcs -> Banks]
<1>1. unpack_bank[s] \in Banks /\ Other(unpack_bank[s]) \in Banks
  BY BankFacts DEF BankTypes
<1> QED BY <1>1 DEF BankTypes, HandOver

LEMMA EffectKeepsTypes ==
  ASSUME BankTypes, Effect
  PROVE  BankTypes'
<1>0. ZeroData \in Data BY SrcAssumption
<1>1. ASSUME NEW s \in Srcs, NEW v \in Data,
             Fills(s, v) \/ MatrixUnitWrites(s, v) \/ UnpackerWrites(s, v)
      PROVE  BankTypes'
  <2>1. unpack_bank[s] \in Banks /\ matrix_bank[s] \in Banks BY DEF BankTypes
  <2>2. bank' \in [Srcs -> [Banks -> Data]]
    <3>1. /\ [bank EXCEPT ![s][unpack_bank[s]] = v] \in [Srcs -> [Banks -> Data]]
          /\ [bank EXCEPT ![s][matrix_bank[s]] = v] \in [Srcs -> [Banks -> Data]]
      BY <2>1, BankWrite DEF BankTypes
    <3> QED BY <1>1, <3>1 DEF Fills, MatrixUnitWrites, UnpackerWrites
  <2>3. CASE HandOver(s) BY <2>2, <2>3, HandOverTypes DEF BankTypes
  <2>4. CASE UNCHANGED handover BY <2>2, <2>4 DEF BankTypes, handover
  <2> QED BY <1>1, <2>3, <2>4 DEF Fills, MatrixUnitWrites, UnpackerWrites
<1>2. ASSUME NEW S \in SUBSET Srcs, Releases(S) PROVE BankTypes'
  BY <1>2, BankFacts DEF Releases, BankTypes
<1>3. ASSUME NEW S \in SUBSET Srcs, NEW both \in BOOLEAN, Zeroes(both, S) PROVE BankTypes'
  <2>1. bank' \in [Srcs -> [Banks -> Data]]
    BY <1>0, <1>3 DEF Zeroes, BankTypes
  <2> QED BY <1>3, <2>1 DEF Zeroes, BankTypes, handover
<1>4. CASE UNCHANGED <<bank, handover>> BY <1>4 DEF BankTypes, handover
<1> QED BY <1>1, <1>2, <1>3, <1>4 DEF Effect

LEMMA ReleaseTypes ==
  ASSUME RaceTypes, NEW W \in SUBSET Srcs, NEW S \in SUBSET Srcs, NEW K, BankTypes,
         Release(S, K), WaitedThenReleased(W, S), UNCHANGED error
  PROVE  RaceTypes'
<1>1. \A s \in Srcs : matrix_bank[s] \in Banks BY DEF BankTypes
<1>2. src_waited' \in [Srcs -> SUBSET Banks]
  BY <1>1 DEF RaceTypes, WaitedThenReleased
<1>3. src_unpacked' \in [Srcs -> [Pipes -> SUBSET Banks]]
  BY <1>1 DEF RaceTypes, Release
<1>4. src_moved' \in [Srcs -> SUBSET Banks]
  BY <1>1 DEF RaceTypes, Release
<1> QED BY <1>2, <1>3, <1>4 DEF RaceTypes

LEMMA WaitedTypes ==
  ASSUME src_waited \in [Srcs -> SUBSET Banks], BankTypes, NEW S, Waited(S)
  PROVE  src_waited' \in [Srcs -> SUBSET Banks]
<1>1. \A s \in Srcs : matrix_bank[s] \in Banks BY DEF BankTypes
<1> QED BY <1>1 DEF Waited

LEMMA StepKeepsRaceTypes ==
  ASSUME BankTypes, RaceTypes, Next
  PROVE  RaceTypes'
<1>0. ASSUME NEW e \in {"already valid", "not valid", "race"}, Fail(e) PROVE RaceTypes'
  BY <1>0 DEF Fail, races, RaceTypes
<1>1. ASSUME NEW p \in Pipes, NEW s \in Srcs, NEW v \in Data, UnpackWrite(p, s, v),
             UNCHANGED error
      PROVE  RaceTypes'
  <2>1. unpack_bank[s] \in Banks BY DEF BankTypes
  <2>2. src_unpacked' \in [Srcs -> [Pipes -> SUBSET Banks]]
    BY <1>1, <2>1 DEF UnpackWrite, RaceTypes
  <2> QED BY <1>1, <2>2 DEF UnpackWrite, RaceTypes
<1>2. ASSUME NEW p \in Pipes, NEW s \in Srcs, NEW v \in Data, NEW set \in BOOLEAN,
             \/ UNPACR(p, s, v, set)
             \/ \E b \in Banks : UNPACR_NOP(p, s, v, b, set)
      PROVE  RaceTypes'
  BY <1>0, <1>1, <1>2 DEF UNPACR, UNPACR_NOP, UnpackRaces
<1>3. ASSUME NEW s \in Srcs, UNPACR_ToDst(s) \/ SetDvalid(s)
      PROVE  RaceTypes'
  BY <1>0, <1>3 DEF UNPACR_ToDst, SetDvalid, races, RaceTypes
<1>4. ASSUME NEW S, Waited(S), UNCHANGED <<src_unpacked, src_moved, error>>
      PROVE  RaceTypes'
  BY <1>4, WaitedTypes DEF RaceTypes
<1>5. ASSUME NEW s \in Srcs, ReadSrc(s) PROVE RaceTypes'
  BY <1>4, <1>5 DEF ReadSrc
<1>6. ASSUME NEW v \in Data, TRNSPSRCB(v) PROVE RaceTypes'
  BY <1>4, <1>6 DEF TRNSPSRCB
<1>7. ASSUME NEW clear \in SUBSET Srcs,
             (\E p \in Pipes : Compute(p, clear) \/ SETRWC(p, clear)) \/ CLEARDVALID(clear)
      PROVE  RaceTypes'
  <2>1. {} \in SUBSET Srcs /\ Srcs \in SUBSET Srcs OBVIOUS
  <2> QED BY <1>0, <1>7, <2>1, ReleaseTypes DEF Compute, SETRWC, CLEARDVALID
<1>8. ASSUME NEW s \in Srcs, NEW v \in Data, Move(s, v)
      PROVE  /\ src_unpacked' \in [Srcs -> [Pipes -> SUBSET Banks]]
             /\ src_moved' \in [Srcs -> SUBSET Banks]
             /\ error' \in {"none", "already valid", "not valid", "race"}
             /\ error' = error \/ RaceTypes'
  <2>1. matrix_bank[s] \in Banks BY DEF BankTypes
  <2>2. CASE Fail("race") BY <1>0, <2>2 DEF RaceTypes
  <2>3. CASE ~Fail("race")
    <3>1. \/ src_moved' = src_moved
          \/ src_moved' = [src_moved EXCEPT ![s] = @ \cup {matrix_bank[s]}]
      BY <1>8, <2>3 DEF Move
    <3>2. src_moved' \in [Srcs -> SUBSET Banks] BY <2>1, <3>1 DEF RaceTypes
    <3> QED BY <1>8, <2>3, <3>2 DEF Move, RaceTypes
  <2> QED BY <2>2, <2>3
<1>9. ASSUME NEW s \in Srcs, NEW v \in Data, MOVD2Src(s, v) PROVE RaceTypes'
  BY <1>8, <1>9 DEF MOVD2Src, RaceTypes
<1>10. ASSUME NEW v \in Data, MOVB2A(v) PROVE RaceTypes'
  <2>1. "A" \in Srcs /\ Move("A", v) /\ error = "none" BY <1>10 DEF MOVB2A
  <2>2. CASE error' = "none"
    BY <1>10, <2>1, <2>2, <1>8, WaitedTypes DEF MOVB2A, RaceTypes
  <2>3. CASE error' # "none" BY <2>1, <2>3, <1>8
  <2> QED BY <2>2, <2>3
<1>11. ASSUME \/ \E both \in BOOLEAN, S \in SUBSET Srcs : ZEROSRC(both, S)
              \/ Ended
       PROVE  RaceTypes'
  BY <1>11 DEF ZEROSRC, Ended, vars, races, RaceTypes
<1>12. ASSUME NEW p \in Pipes, NEW unpacks \in SUBSET Srcs, NEW free \in SUBSET Srcs,
              NEW have \in SUBSET Srcs, STALLWAIT(p, unpacks, free, have)
       PROVE  RaceTypes'
  <2>1. src_unpacked' \in [Srcs -> [Pipes -> SUBSET Banks]]
    BY <1>12 DEF STALLWAIT, RaceTypes
  <2>2. src_waited' \in [Srcs -> SUBSET Banks]
    BY <1>12, WaitedTypes DEF STALLWAIT, RaceTypes
  <2> QED BY <1>12, <2>1, <2>2 DEF STALLWAIT, RaceTypes
<1> QED BY <1>2, <1>3, <1>5, <1>6, <1>7, <1>9, <1>10, <1>11, <1>12 DEF Next

LEMMA EffectKeepsStep ==
  ASSUME Inv, Effect
  PROVE  BanksInStep'
<1>0. BankTypes BY DEF Inv, TypeOK, BankTypes
<1>1. ASSUME NEW s \in Srcs, NEW v \in Data, Fills(s, v), NEW q \in Srcs
      PROVE  IF unpack_bank'[q] = matrix_bank'[q] THEN valid'[q] \in {{}, Banks}
                                                  ELSE valid'[q] = {matrix_bank'[q]}
  <2> DEFINE u == unpack_bank[s]  m == matrix_bank[s]
  <2>1. u \in Banks /\ m \in Banks BY <1>0 DEF BankTypes
  <2>2. CASE q # s
    BY <1>0, <1>1, <2>2 DEF Fills, HandOver, BankTypes, Inv, BanksInStep
  <2>3. /\ valid'[s] = valid[s] \cup {u}
        /\ unpack_bank'[s] = Other(u)
        /\ matrix_bank'[s] = m
        /\ u \notin valid[s]
    BY <1>0, <1>1 DEF Fills, HandOver, BankTypes, UnpackerMayFill
  <2>4. IF u = m THEN valid[s] \in {{}, Banks} ELSE valid[s] = {m}
    BY DEF Inv, BanksInStep
  <2>5. CASE u = m
    BY <2>1, <2>2, <2>3, <2>4, <2>5, BankFacts
  <2>6. CASE u # m
    <3>1. m = Other(u) /\ Banks = {u, Other(u)} BY <2>1, <2>6, BankFacts
    <3> QED BY <2>2, <2>3, <2>4, <2>6, <3>1
  <2> QED BY <2>5, <2>6
<1>2. ASSUME NEW S \in SUBSET Srcs, Releases(S), NEW q \in Srcs
      PROVE  IF unpack_bank'[q] = matrix_bank'[q] THEN valid'[q] \in {{}, Banks}
                                                  ELSE valid'[q] = {matrix_bank'[q]}
  <2> DEFINE u == unpack_bank[q]  m == matrix_bank[q]
  <2>1. u \in Banks /\ m \in Banks BY <1>0 DEF BankTypes
  <2>2. CASE q \notin S
    BY <1>0, <1>2, <2>2 DEF Releases, BankTypes, Inv, BanksInStep
  <2>3. CASE q \in S
    <3>1. /\ valid'[q] = valid[q] \ {m}
          /\ unpack_bank'[q] = u
          /\ matrix_bank'[q] = Other(m)
          /\ m \in valid[q]
      BY <1>0, <1>2, <2>3 DEF Releases, BankTypes, MatrixUnitHas
    <3>2. IF u = m THEN valid[q] \in {{}, Banks} ELSE valid[q] = {m}
      BY DEF Inv, BanksInStep
    <3>3. /\ Other(m) # m
          /\ Banks \ {m} = {Other(m)}
          /\ u = m \/ u = Other(m)
      BY <2>1, BankFacts
    <3> QED BY <3>1, <3>2, <3>3
  <2> QED BY <2>2, <2>3
<1>3. CASE UNCHANGED handover BY <1>3 DEF handover, Inv, BanksInStep
<1> QED
  BY <1>1, <1>2, <1>3 DEF Effect, MatrixUnitWrites, UnpackerWrites, Zeroes, BanksInStep

LEMMA Initially == Init => Inv
BY SrcAssumption, BankFacts DEF Init, Inv, TypeOK, BanksInStep

LEMMA Inductive == ASSUME ClrDisabled = {} PROVE Inv /\ [Next]_vars => Inv'
<1>1. ASSUME Inv, Next PROVE Inv'
  BY <1>1, StepHasEffect, EffectKeepsTypes, StepKeepsRaceTypes, EffectKeepsStep
     DEF Inv, TypeOK, BankTypes, RaceTypes
<1>2. ASSUME Inv, UNCHANGED vars PROVE Inv'
  BY <1>2 DEF vars, Inv, TypeOK, BanksInStep
<1> QED BY <1>1, <1>2

\* Every variable keeps its type, and ...
THEOREM SrcInvariant == ASSUME ClrDisabled = {} PROVE Spec => []Inv
BY Initially, Inductive, PTL DEF Spec

\* ... the bank pointers and the valid bits agree after any instructions of
\* any threads.
THEOREM PointersAgree == ASSUME ClrDisabled = {} PROVE Spec => []BanksInStep
<1>1. Inv => BanksInStep BY DEF Inv
<1> QED BY <1>1, SrcInvariant, PTL

-----------------------------------------------------------------------------
(* The banks implement the queue: every effect is a step of it.            *)

queues == [s \in Srcs |-> QueueOf(s)]

LEMMA AppendToOne ==
  ASSUME NEW a, NEW v
  PROVE  Append(<<a>>, v) = <<a, v>>
<1> DEFINE T == {a, v}  s == Append(<<a>>, v)  t == <<a, v>>
<1>1. <<a>> \in Seq(T) /\ v \in T /\ Len(<<a>>) = 1 /\ <<a>>[1] = a OBVIOUS
<1>2. t \in Seq(T) /\ Len(t) = 2 /\ t[1] = a /\ t[2] = v OBVIOUS
<1> HIDE DEF T
<1>3. s \in Seq(T) /\ Len(s) = 2 BY <1>1, AppendProperties
<1>4. s[1] = a /\ s[2] = v BY <1>1, AppendProperties
<1> HIDE DEF s, t
<1>5. \A i \in 1 .. Len(s) : i = 1 \/ i = 2 BY <1>3
<1>6. \A i \in 1 .. Len(s) : s[i] = t[i] BY <1>2, <1>4, <1>5
<1>7. s = t BY <1>2, <1>3, <1>6, SeqEqual
<1> QED BY <1>7 DEF s, t

LEMMA ShortSequences ==
  ASSUME NEW a, NEW b, NEW v
  PROVE  /\ Len(<<>>) = 0 /\ Len(<<a>>) = 1
         /\ <<a>> # <<>> /\ <<a, b>> # <<>>
         /\ Append(<<>>, v) = <<v>>
         /\ Tail(<<a>>) = <<>> /\ Tail(<<a, b>>) = <<b>>
         /\ [<<a>> EXCEPT ![1] = v] = <<v>>
         /\ [<<a, b>> EXCEPT ![1] = v] = <<v, b>>
         /\ [n \in 1 .. Len(<<>>) |-> v] = <<>>
         /\ [n \in 1 .. Len(<<a>>) |-> v] = <<v>>
         /\ [n \in 1 .. Len(<<a, b>>) |-> v] = <<v, v>>
<1>1. Len(<<>>) = 0 /\ Len(<<a>>) = 1 OBVIOUS
<1>2. <<a>> # <<>> /\ <<a, b>> # <<>> OBVIOUS
<1>3. Append(<<>>, v) = <<v>> OBVIOUS
<1>4. Tail(<<a>>) = <<>> OBVIOUS
<1>5. Tail(<<a, b>>) = <<b>> OBVIOUS
<1>6. [<<a>> EXCEPT ![1] = v] = <<v>> OBVIOUS
<1>7. [<<a, b>> EXCEPT ![1] = v] = <<v, b>> OBVIOUS
<1>8. [n \in 1 .. Len(<<>>) |-> v] = <<>> OBVIOUS
<1>9. [n \in 1 .. Len(<<a>>) |-> v] = <<v>> OBVIOUS
<1>10. [n \in 1 .. Len(<<a, b>>) |-> v] = <<v, v>> OBVIOUS
<1> QED BY <1>1, <1>2, <1>3, <1>4, <1>5, <1>6, <1>7, <1>8, <1>9, <1>10

LEMMA FillPuts ==
  ASSUME Inv, NEW s \in Srcs, NEW v \in Data, Fills(s, v)
  PROVE  Queue!Put(s, v)
<1> DEFINE u == unpack_bank[s]  m == matrix_bank[s]
<1>0. BankTypes BY DEF Inv, TypeOK, BankTypes
<1>1. u \in Banks /\ m \in Banks BY <1>0 DEF BankTypes
<1>2. /\ valid'[s] = valid[s] \cup {u}
      /\ matrix_bank'[s] = m
      /\ u \notin valid[s]
      /\ bank'[s][u] = v
      /\ m # u => bank'[s][m] = bank[s][m]
  BY <1>0, <1>1 DEF Fills, HandOver, BankTypes, UnpackerMayFill
<1>3. IF u = m THEN valid[s] \in {{}, Banks} ELSE valid[s] = {m}
  BY DEF Inv, BanksInStep
<1>4. \A q \in Srcs : q # s => QueueOf(q)' = QueueOf(q)
  BY <1>0 DEF Fills, HandOver, BankTypes, QueueOf
<1>5. /\ Len(QueueOf(s)) < 2
      /\ QueueOf(s)' = Append(QueueOf(s), v)
  <2>1. CASE u = m
    <3>1. valid[s] = {} BY <1>1, <1>2, <1>3, <2>1
    <3>2. QueueOf(s) = <<>> BY <3>1 DEF QueueOf
    <3>3. QueueOf(s)' = <<v>> BY <1>1, <1>2, <2>1, <3>1, BankFacts DEF QueueOf
    <3> QED BY <3>2, <3>3, ShortSequences
  <2>2. CASE u # m
    <3>1. valid[s] = {m} /\ Other(m) = u BY <1>1, <1>3, <2>2, BankFacts
    <3>2. QueueOf(s) = <<bank[s][m]>> BY <2>2, <3>1 DEF QueueOf
    <3>3. QueueOf(s)' = <<bank[s][m], v>> BY <1>2, <2>2, <3>1 DEF QueueOf
    <3> QED BY <3>2, <3>3, ShortSequences, AppendToOne
  <2> QED BY <2>1, <2>2
<1>6. queues' = [queues EXCEPT ![s] = Append(QueueOf(s), v)]
  BY <1>4, <1>5 DEF queues
<1> QED BY <1>5, <1>6 DEF queues, Queue!Put

LEMMA ReleaseTakes ==
  ASSUME Inv, NEW S \in SUBSET Srcs, Releases(S)
  PROVE  Queue!Take(S)
<1>0. BankTypes BY DEF Inv, TypeOK, BankTypes
<1>1. \A q \in Srcs : q \notin S => QueueOf(q)' = QueueOf(q)
  BY <1>0 DEF Releases, BankTypes, QueueOf
<1>2. ASSUME NEW q \in S PROVE QueueOf(q) # <<>> /\ QueueOf(q)' = Tail(QueueOf(q))
  <2> DEFINE m == matrix_bank[q]
  <2>1. q \in Srcs /\ m \in Banks BY <1>0 DEF BankTypes
  <2>2. /\ valid'[q] = valid[q] \ {m} /\ matrix_bank'[q] = Other(m)
        /\ bank' = bank /\ m \in valid[q]
    BY <1>0, <2>1 DEF Releases, MatrixUnitHas
  <2>3. Other(m) # m /\ Other(Other(m)) = m BY <2>1, BankFacts
  <2>4. CASE Other(m) \in valid[q]
    <3>1. QueueOf(q) = <<bank[q][m], bank[q][Other(m)]>> BY <2>2, <2>4 DEF QueueOf
    <3>2. QueueOf(q)' = <<bank[q][Other(m)]>> BY <2>2, <2>3, <2>4 DEF QueueOf
    <3> QED BY <3>1, <3>2, ShortSequences
  <2>5. CASE Other(m) \notin valid[q]
    <3>1. QueueOf(q) = <<bank[q][m]>> BY <2>2, <2>5 DEF QueueOf
    <3>2. QueueOf(q)' = <<>> BY <2>2, <2>5 DEF QueueOf
    <3> QED BY <3>1, <3>2, ShortSequences
  <2> QED BY <2>4, <2>5
<1>3. queues' = [q \in Srcs |-> IF q \in S THEN Tail(queues[q]) ELSE queues[q]]
  BY <1>1, <1>2 DEF queues
<1> QED BY <1>2, <1>3 DEF queues, Queue!Take

\* The Matrix Unit, when it has the bank, changes the oldest entry.
LEMMA WritesChangeOldest ==
  ASSUME Inv, NEW s \in Srcs, NEW v \in Data, MatrixUnitWrites(s, v)
  PROVE  Queue!ChangeOldest({s}, v) \/ queues' = queues
<1> DEFINE m == matrix_bank[s]
<1>0. BankTypes BY DEF Inv, TypeOK, BankTypes
<1>1. m \in Banks BY <1>0 DEF BankTypes
<1>2. /\ valid' = valid /\ matrix_bank' = matrix_bank
      /\ bank'[s][m] = v
      /\ bank'[s][Other(m)] = bank[s][Other(m)]
      /\ \A q \in Srcs : q # s => bank'[q] = bank[q]
  BY <1>0, <1>1, BankFacts DEF MatrixUnitWrites, handover, BankTypes
<1>3. \A q \in Srcs : q # s => QueueOf(q)' = QueueOf(q)
  BY <1>2 DEF QueueOf
<1>4. CASE m \notin valid[s]
  <2>1. QueueOf(s)' = QueueOf(s) BY <1>2, <1>4 DEF QueueOf
  <2> QED BY <1>3, <2>1 DEF queues
<1>5. CASE m \in valid[s]
  <2>1. QueueOf(s) # <<>> /\ QueueOf(s)' = [QueueOf(s) EXCEPT ![1] = v]
    <3>1. CASE Other(m) \in valid[s]
      <4>1. QueueOf(s) = <<bank[s][m], bank[s][Other(m)]>> BY <1>5, <3>1 DEF QueueOf
      <4>2. QueueOf(s)' = <<v, bank[s][Other(m)]>> BY <1>2, <1>5, <3>1 DEF QueueOf
      <4> QED BY <4>1, <4>2, ShortSequences
    <3>2. CASE Other(m) \notin valid[s]
      <4>1. QueueOf(s) = <<bank[s][m]>> BY <1>5, <3>2 DEF QueueOf
      <4>2. QueueOf(s)' = <<v>> BY <1>2, <1>5, <3>2 DEF QueueOf
      <4> QED BY <4>1, <4>2, ShortSequences
    <3> QED BY <3>1, <3>2
  <2>2. queues' = [q \in Srcs |-> IF q \in {s} THEN [queues[q] EXCEPT ![1] = v] ELSE queues[q]]
    BY <1>3, <2>1 DEF queues
  <2> QED BY <2>1, <2>2 DEF queues, Queue!ChangeOldest
<1> QED BY <1>4, <1>5

\* The unpackers, when they may fill a bank, write one that is not queued.
LEMMA UnpackerWritesApart ==
  ASSUME Inv, NEW s \in Srcs, NEW v \in Data, UnpackerWrites(s, v)
  PROVE  queues' = queues
<1> DEFINE u == unpack_bank[s]
<1>0. BankTypes BY DEF Inv, TypeOK, BankTypes
<1>1. u \in Banks /\ u \notin valid[s] BY <1>0 DEF BankTypes, UnpackerWrites, UnpackerMayFill
<1>2. /\ valid' = valid /\ matrix_bank' = matrix_bank
      /\ \A b \in Banks : b # u => bank'[s][b] = bank[s][b]
      /\ \A q \in Srcs : q # s => bank'[q] = bank[q]
  BY <1>0, <1>1 DEF UnpackerWrites, handover, BankTypes
<1>3. \A q \in Srcs : valid[q] \subseteq Banks BY <1>0 DEF BankTypes
<1>4. \A q \in Srcs : QueueOf(q)' = QueueOf(q)
  BY <1>1, <1>2, <1>3 DEF QueueOf
<1> QED BY <1>4 DEF queues

LEMMA ZeroesClear ==
  ASSUME Inv, NEW S \in SUBSET Srcs, NEW both \in BOOLEAN, Zeroes(both, S)
  PROVE  Queue!ClearAll \/ Queue!ChangeOldest({q \in S : MatrixUnitHas(q)}, ZeroData)
<1>0. BankTypes BY DEF Inv, TypeOK, BankTypes
<1>1. valid' = valid /\ matrix_bank' = matrix_bank BY DEF Zeroes, handover
<1>2. ASSUME NEW q \in Srcs
      PROVE  /\ matrix_bank[q] \in Banks
             /\ Other(matrix_bank[q]) \in Banks
             /\ Other(matrix_bank[q]) # matrix_bank[q]
  BY <1>0, BankFacts DEF BankTypes
<1>3. \A q \in Srcs, b \in Banks :
        bank'[q][b] = IF both \/ (q \in S /\ b = matrix_bank[q]) THEN ZeroData ELSE bank[q][b]
  BY DEF Zeroes
<1>4. CASE both
  <2>1. ASSUME NEW q \in Srcs
        PROVE  QueueOf(q)' = [n \in 1 .. Len(QueueOf(q)) |-> ZeroData]
    <3> DEFINE m == matrix_bank[q]
    <3>1. bank'[q][m] = ZeroData /\ bank'[q][Other(m)] = ZeroData BY <1>2, <1>3, <1>4
    <3>2. CASE m \notin valid[q]
      <4>1. QueueOf(q) = <<>> /\ QueueOf(q)' = <<>> BY <1>1, <3>2 DEF QueueOf
      <4> QED BY <4>1, ShortSequences
    <3>3. CASE m \in valid[q] /\ Other(m) \notin valid[q]
      <4>1. QueueOf(q) = <<bank[q][m]>> /\ QueueOf(q)' = <<ZeroData>>
        BY <1>1, <3>1, <3>3 DEF QueueOf
      <4> QED BY <4>1, ShortSequences
    <3>4. CASE m \in valid[q] /\ Other(m) \in valid[q]
      <4>1. /\ QueueOf(q) = <<bank[q][m], bank[q][Other(m)]>>
            /\ QueueOf(q)' = <<ZeroData, ZeroData>>
        BY <1>1, <3>1, <3>4 DEF QueueOf
      <4> QED BY <4>1, ShortSequences
    <3> QED BY <3>2, <3>3, <3>4
  <2>2. queues' = [q \in Srcs |-> [n \in 1 .. Len(queues[q]) |-> ZeroData]]
    BY <2>1 DEF queues
  <2> QED BY <2>2 DEF queues, Queue!ClearAll
<1>5. CASE ~both
  <2> DEFINE H == {q \in S : MatrixUnitHas(q)}
  <2>1. ASSUME NEW q \in Srcs, q \notin H PROVE QueueOf(q)' = QueueOf(q)
    <3>1. CASE q \in S
      BY <1>1, <2>1, <3>1 DEF QueueOf, MatrixUnitHas
    <3>2. CASE q \notin S
      BY <1>1, <1>2, <1>3, <1>5, <3>2 DEF QueueOf
    <3> QED BY <3>1, <3>2
  <2>2. ASSUME NEW q \in H
        PROVE  QueueOf(q) # <<>> /\ QueueOf(q)' = [QueueOf(q) EXCEPT ![1] = ZeroData]
    <3> DEFINE m == matrix_bank[q]
    <3>1. q \in Srcs /\ q \in S /\ m \in valid[q] BY <2>2 DEF MatrixUnitHas
    <3>2. bank'[q][m] = ZeroData /\ bank'[q][Other(m)] = bank[q][Other(m)]
      BY <1>2, <1>3, <1>5, <3>1
    <3>3. CASE Other(m) \in valid[q]
      <4>1. /\ QueueOf(q) = <<bank[q][m], bank[q][Other(m)]>>
            /\ QueueOf(q)' = <<ZeroData, bank[q][Other(m)]>>
        BY <1>1, <3>1, <3>2, <3>3 DEF QueueOf
      <4> QED BY <4>1, ShortSequences
    <3>4. CASE Other(m) \notin valid[q]
      <4>1. QueueOf(q) = <<bank[q][m]>> /\ QueueOf(q)' = <<ZeroData>>
        BY <1>1, <3>1, <3>2, <3>4 DEF QueueOf
      <4> QED BY <4>1, ShortSequences
    <3> QED BY <3>3, <3>4
  <2> HIDE DEF H
  <2>3. H \subseteq Srcs BY DEF H
  <2>4. queues' = [q \in Srcs |-> IF q \in H THEN [queues[q] EXCEPT ![1] = ZeroData] ELSE queues[q]]
    BY <2>1, <2>2, <2>3 DEF queues
  <2>5. Queue!ChangeOldest(H, ZeroData)
    BY <2>2, <2>3, <2>4 DEF queues, Queue!ChangeOldest
  <2> QED BY <2>5 DEF H
<1> QED BY <1>4, <1>5

LEMMA QueueStep ==
  ASSUME Inv, Effect
  PROVE  [Queue!Next]_queues
<1>0. ZeroData \in Data BY SrcAssumption
<1>1. ASSUME NEW s \in Srcs, NEW v \in Data, Fills(s, v) PROVE Queue!Next
  BY <1>1, FillPuts DEF Queue!Next
<1>2. ASSUME NEW s \in Srcs, NEW v \in Data, MatrixUnitWrites(s, v)
      PROVE  [Queue!Next]_queues
  <2>1. {s} \in SUBSET Srcs OBVIOUS
  <2> QED BY <1>2, <2>1, WritesChangeOldest DEF Queue!Next
<1>3. ASSUME NEW s \in Srcs, NEW v \in Data, UnpackerWrites(s, v)
      PROVE  queues' = queues
  BY <1>3, UnpackerWritesApart
<1>4. ASSUME NEW S \in SUBSET Srcs, Releases(S) PROVE Queue!Next
  BY <1>4, ReleaseTakes DEF Queue!Next
<1>5. ASSUME NEW S \in SUBSET Srcs, NEW both \in BOOLEAN, Zeroes(both, S) PROVE Queue!Next
  <2>1. {q \in S : MatrixUnitHas(q)} \in SUBSET Srcs OBVIOUS
  <2> QED BY <1>0, <1>5, <2>1, ZeroesClear DEF Queue!Next
<1>6. ASSUME UNCHANGED <<bank, handover>> PROVE queues' = queues
  BY <1>6 DEF handover, queues, QueueOf
<1> QED BY <1>1, <1>2, <1>3, <1>4, <1>5, <1>6 DEF Effect

\* The banks of each Src are a queue of two, whichever threads fill, read and
\* release them.
THEOREM ImplementsQueue == ASSUME ClrDisabled = {} PROVE Spec => BanksAreQueue
<1>1. Init => Queue!Init
  BY DEF Init, Queue!Init, QueueOf
<1>2. Inv /\ [Next]_vars => [Queue!Next]_queues
  <2>1. ASSUME Inv, Next PROVE [Queue!Next]_queues BY <2>1, StepHasEffect, QueueStep
  <2>2. ASSUME UNCHANGED vars PROVE queues' = queues
    BY <2>2 DEF vars, queues, QueueOf
  <2> QED BY <2>1, <2>2
<1> QED BY <1>1, <1>2, SrcInvariant, PTL DEF Spec, BanksAreQueue, Queue!Spec, queues

-----------------------------------------------------------------------------
(* Races.  What three bits per bank and thread remember of a history.      *)

Event == {Moved, Has} \cup {Write(p) : p \in Pipes} \cup {Synced(p) : p \in Pipes}

LEMMA EventsDiffer ==
  /\ Moved \in Event /\ Has \in Event /\ Moved # Has
  /\ \A p \in Pipes :
       /\ Write(p) \in Event /\ Write(p) \notin {Moved, Has}
       /\ Synced(p) \in Event /\ Synced(p) \notin {Moved, Has}
       /\ \A q \in Pipes : Write(p) # Synced(q) /\ (Write(p) = Write(q) => p = q)
                           /\ (Synced(p) = Synced(q) => p = q)
<1>1. Moved # Has BY DEF Moved, Has
<1>2. ASSUME NEW p, NEW q
      PROVE  /\ Write(p) \notin {Moved, Has} /\ Synced(p) \notin {Moved, Has}
             /\ Write(p) # Synced(q) /\ (Write(p) = Write(q) => p = q)
             /\ (Synced(p) = Synced(q) => p = q)
  BY DEF Moved, Has, Write, Synced
<1> QED BY <1>1, <1>2 DEF Event

\* The Matrix Unit has waited to have the bank.
Waiting(h) == \E n \in DOMAIN h : h[n] = Has
\* A move wrote the bank before that.
Early(h) == \E m \in DOMAIN h : h[m] = Moved /\ \A n \in 1 .. m - 1 : h[n] # Has
\* Thread p has not waited for its last unpack into the bank.
Unsynced(h, p) ==
  \E w \in DOMAIN h : h[w] = Write(p) /\ \A n \in w + 1 .. Len(h) : h[n] # Synced(p)

LEMMA Appended ==
  ASSUME NEW h \in Seq(Event), NEW e \in Event
  PROVE  LET g == Append(h, e)
         IN  /\ g \in Seq(Event)
             /\ Waiting(g) <=> Waiting(h) \/ e = Has
             /\ Early(g) <=> Early(h) \/ (e = Moved /\ ~Waiting(h))
             /\ \A p \in Pipes : Unsynced(g, p) <=> e = Write(p) \/ (Unsynced(h, p) /\ e # Synced(p))
             /\ Unordered(g) => \/ Unordered(h)
                                \/ e = Moved /\ ~Waiting(h) /\ \E p \in Pipes : Unsynced(h, p)
                                \/ Early(h) /\ \E p \in Pipes : e = Write(p)
             /\ \/ Unordered(h)
                \/ e = Moved /\ ~Waiting(h) /\ \E p \in Pipes : Unsynced(h, p)
                \/ Early(h) /\ \E p \in Pipes : e = Write(p)
                => Unordered(g)
<1> DEFINE g == Append(h, e)
           k == Len(h)
<1>1. /\ g \in Seq(Event) /\ Len(g) = k + 1 /\ k \in Nat
      /\ DOMAIN h = 1 .. k /\ DOMAIN g = 1 .. k + 1
      /\ g[k + 1] = e /\ \A n \in 1 .. k : g[n] = h[n]
  BY AppendProperties
<1> HIDE DEF g, k
<1>2. Waiting(g) <=> Waiting(h) \/ e = Has
  <2>1. Waiting(g) => Waiting(h) \/ e = Has
    BY <1>1 DEF Waiting
  <2>2. Waiting(h) => Waiting(g)
    BY <1>1 DEF Waiting
  <2>3. e = Has => Waiting(g)
    <3>1. k + 1 \in DOMAIN g
      BY <1>1
    <3> QED BY <1>1, <3>1 DEF Waiting
  <2> QED BY <2>1, <2>2, <2>3
<1>3. Early(g) <=> Early(h) \/ (e = Moved /\ ~Waiting(h))
  <2>1. ASSUME NEW m \in DOMAIN g, g[m] = Moved, \A n \in 1 .. m - 1 : g[n] # Has, m # k + 1
        PROVE  Early(h)
    <3>1. m \in DOMAIN h /\ h[m] = Moved
      BY <1>1, <2>1
    <3>2. \A n \in 1 .. m - 1 : h[n] # Has
      BY <1>1, <2>1, <3>1
    <3> QED BY <3>1, <3>2 DEF Early
  <2>2. (\A n \in 1 .. (k + 1) - 1 : g[n] # Has) <=> ~Waiting(h)
    BY <1>1 DEF Waiting
  <2>3. Early(g) => Early(h) \/ (e = Moved /\ ~Waiting(h))
    BY <1>1, <2>1, <2>2 DEF Early
  <2>4. ASSUME Early(h) PROVE Early(g)
    <3>1. PICK m \in 1 .. k : h[m] = Moved /\ \A n \in 1 .. m - 1 : h[n] # Has
      BY <1>1, <2>4 DEF Early
    <3>2. m \in DOMAIN g /\ g[m] = Moved /\ \A n \in 1 .. m - 1 : g[n] # Has
      BY <1>1, <3>1
    <3> QED BY <3>2 DEF Early
  <2>5. ASSUME e = Moved, ~Waiting(h) PROVE Early(g)
    <3>1. k + 1 \in DOMAIN g /\ g[k + 1] = Moved
      BY <1>1, <2>5
    <3> QED BY <2>2, <2>5, <3>1 DEF Early
  <2> QED BY <2>3, <2>4, <2>5
<1>4. ASSUME NEW p \in Pipes
      PROVE  Unsynced(g, p) <=> e = Write(p) \/ (Unsynced(h, p) /\ e # Synced(p))
  <2>1. ASSUME NEW w \in DOMAIN g, g[w] = Write(p), \A n \in w + 1 .. Len(g) : g[n] # Synced(p), w # k + 1
        PROVE  Unsynced(h, p) /\ e # Synced(p)
    <3>1. w \in DOMAIN h /\ h[w] = Write(p)
      BY <1>1, <2>1
    <3>2. \A n \in w + 1 .. Len(h) : h[n] # Synced(p)
      BY <1>1, <2>1, <3>1 DEF k
    <3>3. k + 1 \in w + 1 .. Len(g)
      BY <1>1, <3>1
    <3> QED BY <1>1, <2>1, <3>1, <3>2, <3>3 DEF Unsynced
  <2>2. Unsynced(g, p) => e = Write(p) \/ (Unsynced(h, p) /\ e # Synced(p))
    BY <1>1, <2>1 DEF Unsynced
  <2>3. ASSUME e = Write(p) PROVE Unsynced(g, p)
    <3>1. k + 1 \in DOMAIN g /\ g[k + 1] = Write(p) /\ \A n \in (k + 1) + 1 .. Len(g) : g[n] # Synced(p)
      BY <1>1, <2>3
    <3> QED BY <3>1 DEF Unsynced
  <2>4. ASSUME Unsynced(h, p), e # Synced(p) PROVE Unsynced(g, p)
    <3>1. PICK w \in 1 .. k : h[w] = Write(p) /\ \A n \in w + 1 .. k : h[n] # Synced(p)
      BY <1>1, <2>4 DEF Unsynced, k
    <3>2. w \in DOMAIN g /\ g[w] = Write(p) /\ \A n \in w + 1 .. Len(g) : g[n] # Synced(p)
      BY <1>1, <2>4, <3>1
    <3> QED BY <3>2 DEF Unsynced
  <2> QED BY <2>2, <2>3, <2>4
<1>5. ASSUME Unordered(g)
      PROVE  \/ Unordered(h)
             \/ e = Moved /\ ~Waiting(h) /\ \E p \in Pipes : Unsynced(h, p)
             \/ Early(h) /\ \E p \in Pipes : e = Write(p)
  <2>1. PICK m \in DOMAIN g, w \in DOMAIN g, p \in Pipes :
               /\ g[m] = Moved /\ g[w] = Write(p)
               /\ \A n \in 1 .. m - 1 : g[n] # Has
               /\ \A n \in w + 1 .. m - 1 : g[n] # Synced(p)
    BY <1>5 DEF Unordered
  <2>2. m # w
    BY <2>1, EventsDiffer
  <2>3. CASE m = k + 1
    <3>1. w \in DOMAIN h /\ h[w] = Write(p) /\ e = Moved
      BY <1>1, <2>1, <2>2, <2>3
    <3>2. \A n \in w + 1 .. Len(h) : h[n] # Synced(p)
      BY <1>1, <2>1, <2>3, <3>1 DEF k
    <3>3. ~Waiting(h)
      BY <1>1, <2>1, <2>3 DEF Waiting
    <3> QED BY <3>1, <3>2, <3>3 DEF Unsynced
  <2>4. CASE m # k + 1 /\ w = k + 1
    <3>1. m \in DOMAIN h /\ h[m] = Moved /\ e = Write(p)
      BY <1>1, <2>1, <2>4
    <3>2. \A n \in 1 .. m - 1 : h[n] # Has
      BY <1>1, <2>1, <3>1
    <3> QED BY <3>1, <3>2 DEF Early
  <2>5. CASE m # k + 1 /\ w # k + 1
    <3>1. m \in DOMAIN h /\ w \in DOMAIN h /\ h[m] = Moved /\ h[w] = Write(p)
      BY <1>1, <2>1, <2>5
    <3>2. \A n \in 1 .. m - 1 : h[n] # Has
      BY <1>1, <2>1, <3>1
    <3>3. \A n \in w + 1 .. m - 1 : h[n] # Synced(p)
      BY <1>1, <2>1, <3>1
    <3> QED BY <3>1, <3>2, <3>3 DEF Unordered
  <2> QED BY <2>3, <2>4, <2>5
<1>6. ASSUME Unordered(h) PROVE Unordered(g)
  <2>1. PICK m \in 1 .. k, w \in 1 .. k, p \in Pipes :
               /\ h[m] = Moved /\ h[w] = Write(p)
               /\ \A n \in 1 .. m - 1 : h[n] # Has
               /\ \A n \in w + 1 .. m - 1 : h[n] # Synced(p)
    BY <1>1, <1>6 DEF Unordered
  <2>2. m \in DOMAIN g /\ w \in DOMAIN g /\ g[m] = Moved /\ g[w] = Write(p)
    BY <1>1, <2>1
  <2>3. \A n \in 1 .. m - 1 : g[n] # Has
    BY <1>1, <2>1
  <2>4. \A n \in w + 1 .. m - 1 : g[n] # Synced(p)
    BY <1>1, <2>1
  <2> QED BY <2>2, <2>3, <2>4 DEF Unordered
<1>7. ASSUME e = Moved, ~Waiting(h), NEW p \in Pipes, Unsynced(h, p) PROVE Unordered(g)
  <2>1. PICK w \in 1 .. k : h[w] = Write(p) /\ \A n \in w + 1 .. k : h[n] # Synced(p)
    BY <1>1, <1>7 DEF Unsynced, k
  <2>2. k + 1 \in DOMAIN g /\ w \in DOMAIN g /\ g[k + 1] = Moved /\ g[w] = Write(p)
    BY <1>1, <1>7, <2>1
  <2>3. \A n \in 1 .. (k + 1) - 1 : g[n] # Has
    BY <1>1, <1>7 DEF Waiting
  <2>4. \A n \in w + 1 .. (k + 1) - 1 : g[n] # Synced(p)
    BY <1>1, <2>1
  <2> QED BY <2>2, <2>3, <2>4 DEF Unordered
<1>8. ASSUME Early(h), NEW p \in Pipes, e = Write(p) PROVE Unordered(g)
  <2>1. PICK m \in 1 .. k : h[m] = Moved /\ \A n \in 1 .. m - 1 : h[n] # Has
    BY <1>1, <1>8 DEF Early
  <2>2. k + 1 \in DOMAIN g /\ m \in DOMAIN g /\ g[m] = Moved /\ g[k + 1] = Write(p)
    BY <1>1, <1>8, <2>1
  <2>3. \A n \in 1 .. m - 1 : g[n] # Has
    BY <1>1, <2>1
  <2>4. \A n \in (k + 1) + 1 .. m - 1 : g[n] # Synced(p)
    BY <1>1, <2>1
  <2> QED BY <2>2, <2>3, <2>4 DEF Unordered
<1> QED BY <1>1, <1>2, <1>3, <1>4, <1>5, <1>6, <1>7, <1>8 DEF g

\* The bits of a bank that has this history, in the sets W, U and M.
Agrees(h, b, W, U, M) ==
  /\ b \in W <=> Waiting(h)
  /\ \A p \in Pipes : b \in U[p] <=> Unsynced(h, p)
  /\ b \in M <=> Early(h)
  /\ ~Unordered(h)

\* The bits after event e, which is no race.
Marked(e, b, W, U, M, W2, U2, M2) ==
  /\ b \in W2 <=> b \in W \/ e = Has
  /\ \A p \in Pipes : b \in U2[p] <=> e = Write(p) \/ (b \in U[p] /\ e # Synced(p))
  /\ b \in M2 <=> b \in M \/ (e = Moved /\ b \notin W)
Races(e, b, W, U, M) ==
  \/ e = Moved /\ b \notin W /\ \E p \in Pipes : b \in U[p]
  \/ b \in M /\ \E p \in Pipes : e = Write(p)

LEMMA EventRecorded ==
  ASSUME NEW h \in Seq(Event), NEW e \in Event, NEW b, NEW W, NEW U, NEW M, Agrees(h, b, W, U, M)
  PROVE  /\ Append(h, e) \in Seq(Event)
         /\ Races(e, b, W, U, M) => Unordered(Append(h, e))
         /\ \A W2, U2, M2 :
              Marked(e, b, W, U, M, W2, U2, M2) /\ ~Races(e, b, W, U, M)
                => Agrees(Append(h, e), b, W2, U2, M2)
<1> DEFINE g == Append(h, e)
<1>1. /\ g \in Seq(Event)
      /\ Waiting(g) <=> Waiting(h) \/ e = Has
      /\ Early(g) <=> Early(h) \/ (e = Moved /\ ~Waiting(h))
      /\ \A p \in Pipes : Unsynced(g, p) <=> e = Write(p) \/ (Unsynced(h, p) /\ e # Synced(p))
      /\ Unordered(g) => \/ Unordered(h)
                         \/ e = Moved /\ ~Waiting(h) /\ \E p \in Pipes : Unsynced(h, p)
                         \/ Early(h) /\ \E p \in Pipes : e = Write(p)
      /\ \/ Unordered(h)
         \/ e = Moved /\ ~Waiting(h) /\ \E p \in Pipes : Unsynced(h, p)
         \/ Early(h) /\ \E p \in Pipes : e = Write(p)
         => Unordered(g)
  BY Appended
<1> HIDE DEF g
<1>2. Races(e, b, W, U, M) => Unordered(g)
  BY <1>1 DEF Agrees, Races
<1>3. ASSUME NEW W2, NEW U2, NEW M2, Marked(e, b, W, U, M, W2, U2, M2), ~Races(e, b, W, U, M)
      PROVE  Agrees(g, b, W2, U2, M2)
  <2>1. ~Unordered(g)
    BY <1>1, <1>3 DEF Agrees, Races
  <2> QED BY <1>1, <1>3, <2>1 DEF Agrees, Marked
<1> QED BY <1>1, <1>2, <1>3 DEF g

LEMMA EmptyAgrees ==
  ASSUME NEW b, NEW W, NEW U, NEW M, b \notin W, \A p \in Pipes : b \notin U[p], b \notin M
  PROVE  <<>> \in Seq(Event) /\ Agrees(<<>>, b, W, U, M)
BY DEF Agrees, Waiting, Unsynced, Early, Unordered

BitTypes ==
  /\ unpack_bank \in [Srcs -> Banks] /\ matrix_bank \in [Srcs -> Banks]
  /\ src_waited \in [Srcs -> SUBSET Banks]
  /\ src_unpacked \in [Srcs -> [Pipes -> SUBSET Banks]]
  /\ src_moved \in [Srcs -> SUBSET Banks]

Recorded(s, b) == Agrees(history[s][b], b, src_waited[s], src_unpacked[s], src_moved[s])

RaceInv ==
  /\ BitTypes /\ history \in [Srcs -> [Banks -> Seq(Event)]]
  /\ error = "none" => \A s \in Srcs, b \in Banks : Recorded(s, b)
  /\ error = "race" => \E s \in Srcs, b \in Banks : Unordered(history[s][b])

LEMMA BankTyped ==
  ASSUME BitTypes, NEW s \in Srcs
  PROVE  /\ unpack_bank[s] \in Banks /\ matrix_bank[s] \in Banks
         /\ Other(unpack_bank[s]) \in Banks /\ Other(matrix_bank[s]) \in Banks
BY BankFacts DEF BitTypes

LEMMA NothingRecorded ==
  ASSUME NEW s, NEW b, Recorded(s, b), history'[s][b] = history[s][b],
         b \in src_waited'[s] <=> b \in src_waited[s],
         \A p \in Pipes : b \in src_unpacked'[s][p] <=> b \in src_unpacked[s][p],
         b \in src_moved'[s] <=> b \in src_moved[s]
  PROVE  Recorded(s, b)'
BY DEF Recorded, Agrees

LEMMA EventNoted ==
  ASSUME RaceInv, NEW s \in Srcs, NEW b \in Banks, Recorded(s, b),
         NEW e \in Event, history'[s][b] = Append(history[s][b], e),
         Marked(e, b, src_waited[s], src_unpacked[s], src_moved[s],
                src_waited'[s], src_unpacked'[s], src_moved'[s]),
         ~Races(e, b, src_waited[s], src_unpacked[s], src_moved[s])
  PROVE  Recorded(s, b)'
<1>1. history[s][b] \in Seq(Event)
  BY DEF RaceInv
<1> QED BY <1>1, EventRecorded DEF Recorded

LEMMA RaceNoted ==
  ASSUME RaceInv, NEW s \in Srcs, NEW b \in Banks, Recorded(s, b),
         NEW e \in Event, history'[s][b] = Append(history[s][b], e),
         Races(e, b, src_waited[s], src_unpacked[s], src_moved[s])
  PROVE  Unordered(history'[s][b])
<1>1. history[s][b] \in Seq(Event)
  BY DEF RaceInv
<1> QED BY <1>1, EventRecorded DEF Recorded

LEMMA EventAdded ==
  ASSUME NEW h \in Seq(Event), NEW e \in Event
  PROVE  Append(h, e) \in Seq(Event)
BY AppendProperties

\* An unpack of thread p into the unpackers' bank.
LEMMA UnpackRecorded ==
  ASSUME RaceInv, error = "none", NEW p \in Pipes, NEW s \in Srcs, NEW v, NEW set \in BOOLEAN,
         Unpacks(p, s),
         \/ UnpackRaces(s)
         \/ Fail("already valid")
         \/ /\ UnpackWrite(p, s, v)
            /\ IF set THEN HandOver(s) ELSE UNCHANGED handover
            /\ UNCHANGED error
  PROVE  RaceInv'
<1>u. PICK u \in Banks : u = unpack_bank[s]
  BY BankTyped DEF RaceInv
<1>0. BitTypes /\ Write(p) \in Event
  BY EventsDiffer DEF RaceInv
<1>1. /\ history' = [r \in Srcs |-> [b \in Banks |->
           IF r = s /\ b = unpack_bank[r] THEN Append(history[r][b], Write(p)) ELSE history[r][b]]]
      /\ history'[s][u] = Append(history[s][u], Write(p))
      /\ \A r \in Srcs, b \in Banks : r # s \/ b # u => history'[r][b] = history[r][b]
  BY <1>u, <1>0 DEF Unpacks, HistoryGoes, AtUnpackers
<1>2. history' \in [Srcs -> [Banks -> Seq(Event)]]
  <2>1. \A r \in Srcs, b \in Banks : history[r][b] \in Seq(Event) /\ Append(history[r][b], Write(p)) \in Seq(Event)
    BY <1>0, EventAdded DEF RaceInv
  <2> QED BY <1>1, <2>1
<1>3. \A r \in Srcs, b \in Banks : Recorded(r, b)
  BY DEF RaceInv
<1>4. CASE UnpackRaces(s)
  <2>1. Races(Write(p), u, src_waited[s], src_unpacked[s], src_moved[s])
    BY <1>u, <1>4 DEF UnpackRaces, Races
  <2>2. Unordered(history'[s][u])
    BY <1>0, <1>1, <1>3, <2>1, RaceNoted
  <2>3. BitTypes' /\ error' = "race"
    BY <1>0, <1>4 DEF UnpackRaces, Fail, BitTypes, handover, races
  <2> QED BY <1>0, <1>2, <2>2, <2>3 DEF RaceInv
<1>5. CASE Fail("already valid")
  <2>1. BitTypes' /\ error' = "already valid"
    BY <1>0, <1>5 DEF Fail, BitTypes, handover, races
  <2> QED BY <1>2, <2>1 DEF RaceInv
<1>6. CASE /\ UnpackWrite(p, s, v)
           /\ IF set THEN HandOver(s) ELSE UNCHANGED handover
           /\ UNCHANGED error
  <2>1. /\ unpack_bank' \in [Srcs -> Banks] /\ matrix_bank' = matrix_bank
    BY <1>u, <1>0, <1>6, BankTyped DEF HandOver, handover, BitTypes
  <2>2. /\ src_waited' = src_waited /\ src_moved' = src_moved /\ u \notin src_moved[s]
        /\ src_unpacked' = [src_unpacked EXCEPT ![s][p] = @ \cup {u}]
    BY <1>u, <1>6 DEF UnpackWrite
  <2>3. src_unpacked' \in [Srcs -> [Pipes -> SUBSET Banks]]
    BY <1>0, <2>2 DEF BitTypes
  <2>4. \A r \in Srcs, q \in Pipes :
          src_unpacked'[r][q] = IF r = s /\ q = p THEN src_unpacked[r][q] \cup {u} ELSE src_unpacked[r][q]
    BY <1>0, <2>2 DEF BitTypes
  <2>5. ASSUME NEW r \in Srcs, NEW b \in Banks, r # s \/ b # u PROVE Recorded(r, b)'
    <3>1. /\ history'[r][b] = history[r][b] /\ src_waited'[r] = src_waited[r] /\ src_moved'[r] = src_moved[r]
          /\ \A q \in Pipes : b \in src_unpacked'[r][q] <=> b \in src_unpacked[r][q]
      <4>1. history'[r][b] = history[r][b] /\ src_waited'[r] = src_waited[r] /\ src_moved'[r] = src_moved[r]
        BY <1>1, <2>2, <2>5
      <4>2. ASSUME NEW q \in Pipes PROVE b \in src_unpacked'[r][q] <=> b \in src_unpacked[r][q]
        BY <2>4, <2>5
      <4> QED BY <4>1, <4>2
    <3>2. Recorded(r, b)
      BY <1>3
    <3> QED BY <3>1, <3>2, NothingRecorded
  <2>6. Recorded(s, u)'
    <3>1. Marked(Write(p), u, src_waited[s], src_unpacked[s], src_moved[s],
                 src_waited'[s], src_unpacked'[s], src_moved'[s])
      <4>1. /\ u \in src_waited'[s] <=> u \in src_waited[s] \/ Write(p) = Has
            /\ u \in src_moved'[s] <=> u \in src_moved[s] \/ (Write(p) = Moved /\ u \notin src_waited[s])
        BY <2>2, EventsDiffer
      <4>2. \A q \in Pipes : u \in src_unpacked'[s][q]
              <=> Write(p) = Write(q) \/ (u \in src_unpacked[s][q] /\ Write(p) # Synced(q))
        BY <2>4, EventsDiffer
      <4> QED BY <4>1, <4>2 DEF Marked
    <3>2. ~Races(Write(p), u, src_waited[s], src_unpacked[s], src_moved[s])
      BY <2>2, EventsDiffer DEF Races
    <3>3. Recorded(s, u)
      BY <1>0, <1>3
    <3>4. history'[s][u] = Append(history[s][u], Write(p))
      BY <1>1
    <3> QED BY <1>0, <3>1, <3>2, <3>3, <3>4, EventNoted
  <2>7. \A r \in Srcs, b \in Banks : Recorded(r, b)'
    BY <2>5, <2>6
  <2>8. BitTypes' /\ error' = "none"
    BY <1>0, <1>6, <2>1, <2>2, <2>3 DEF BitTypes
  <2> QED BY <1>2, <2>7, <2>8 DEF RaceInv
<1> QED BY <1>4, <1>5, <1>6

\* A move into the bank the Matrix Unit is at, of Src s, and the waits of W.
LEMMA MoveRecorded ==
  ASSUME RaceInv, error = "none", NEW s \in Srcs, NEW v, NEW W \in SUBSET (Srcs \ {s}),
         Works({s}, W), Move(s, v), error' = "none" => Waited(W)
  PROVE  RaceInv'
<1>u. PICK u \in Banks : u = matrix_bank[s]
  BY BankTyped DEF RaceInv
<1>0. BitTypes /\ Moved \in Event /\ Has \in Event /\ \A r \in Srcs : matrix_bank[r] \in Banks
  BY EventsDiffer DEF RaceInv, BitTypes
<1>1. /\ history' = [r \in Srcs |-> [b \in Banks |->
           IF r \in {s} /\ b = matrix_bank[r] THEN Append(history[r][b], Moved)
           ELSE IF r \in W /\ b = matrix_bank[r] THEN Append(history[r][b], Has) ELSE history[r][b]]]
      /\ history'[s][u] = Append(history[s][u], Moved)
      /\ \A r \in W, b \in Banks : b = matrix_bank[r] => history'[r][b] = Append(history[r][b], Has)
      /\ \A r \in Srcs, b \in Banks : ~(r = s /\ b = u) /\ ~(r \in W /\ b = matrix_bank[r])
                                        => history'[r][b] = history[r][b]
  BY <1>u, <1>0 DEF Works, HistoryGoes, AtMatrixUnit
<1>2. history' \in [Srcs -> [Banks -> Seq(Event)]]
  <2>1. \A r \in Srcs, b \in Banks : /\ history[r][b] \in Seq(Event)
                                     /\ Append(history[r][b], Moved) \in Seq(Event)
                                     /\ Append(history[r][b], Has) \in Seq(Event)
    BY <1>0, EventAdded DEF RaceInv
  <2> QED BY <1>1, <2>1
<1>3. \A r \in Srcs, b \in Banks : Recorded(r, b)
  BY DEF RaceInv
<1>4. CASE Unwaited(s, u) /\ UnpackedBySome(s, u)
  <2>1. Races(Moved, u, src_waited[s], src_unpacked[s], src_moved[s])
    BY <1>4 DEF Unwaited, UnpackedBySome, Races
  <2>2. Unordered(history'[s][u])
    BY <1>0, <1>1, <1>3, <2>1, RaceNoted
  <2>3. BitTypes' /\ error' = "race"
    BY <1>u, <1>0, <1>4 DEF Move, Fail, BitTypes, handover, races
  <2> QED BY <1>0, <1>2, <2>2, <2>3 DEF RaceInv
<1>5. CASE ~(Unwaited(s, u) /\ UnpackedBySome(s, u))
  <2>1. /\ src_moved' = IF Unwaited(s, u) THEN [src_moved EXCEPT ![s] = @ \cup {u}] ELSE src_moved
        /\ unpack_bank' = unpack_bank /\ matrix_bank' = matrix_bank
        /\ src_unpacked' = src_unpacked /\ error' = "none"
    BY <1>u, <1>5 DEF Move, handover
  <2>2. src_waited' = [r \in Srcs |-> IF r \in W THEN src_waited[r] \cup {matrix_bank[r]} ELSE src_waited[r]]
    BY <2>1 DEF Waited
  <2>3. BitTypes'
    <3>1. src_waited' \in [Srcs -> SUBSET Banks]
      BY <1>0, <2>2 DEF BitTypes
    <3>2. src_moved' \in [Srcs -> SUBSET Banks]
      BY <1>0, <2>1 DEF BitTypes
    <3> QED BY <1>0, <2>1, <3>1, <3>2 DEF BitTypes
  <2>4. \A r \in Srcs : src_moved'[r] = IF r = s /\ Unwaited(s, u) THEN src_moved[r] \cup {u} ELSE src_moved[r]
    BY <1>0, <2>1 DEF BitTypes
  <2>5. ASSUME NEW r \in Srcs, NEW b \in Banks, ~(r = s /\ b = u), ~(r \in W /\ b = matrix_bank[r])
        PROVE  Recorded(r, b)'
    <3>1. history'[r][b] = history[r][b] /\ src_unpacked'[r] = src_unpacked[r]
      BY <1>1, <2>1, <2>5
    <3>2. b \in src_waited'[r] <=> b \in src_waited[r]
      BY <2>2, <2>5
    <3>3. b \in src_moved'[r] <=> b \in src_moved[r]
      BY <2>4, <2>5
    <3>4. Recorded(r, b)
      BY <1>3
    <3> QED BY <3>1, <3>2, <3>3, <3>4, NothingRecorded
  <2>6. Recorded(s, u)'
    <3>1. src_waited'[s] = src_waited[s]
      BY <2>2
    <3>2. u \in src_moved'[s] <=> u \in src_moved[s] \/ (Moved = Moved /\ u \notin src_waited[s])
      BY <2>4 DEF Unwaited
    <3>3. Marked(Moved, u, src_waited[s], src_unpacked[s], src_moved[s],
                 src_waited'[s], src_unpacked'[s], src_moved'[s])
      BY <2>1, <3>1, <3>2, EventsDiffer DEF Marked
    <3>4. ~Races(Moved, u, src_waited[s], src_unpacked[s], src_moved[s])
      BY <1>5, EventsDiffer DEF Races, Unwaited, UnpackedBySome
    <3>5. Recorded(s, u)
      BY <1>3
    <3> QED BY <1>0, <1>1, <3>3, <3>4, <3>5, EventNoted
  <2>7. ASSUME NEW r \in W, NEW b \in Banks, b = matrix_bank[r] PROVE Recorded(r, b)'
    <3>1. b \in src_waited'[r] /\ src_moved'[r] = src_moved[r] /\ src_unpacked'[r] = src_unpacked[r]
      BY <2>1, <2>2, <2>4, <2>7
    <3>2. Marked(Has, b, src_waited[r], src_unpacked[r], src_moved[r],
                 src_waited'[r], src_unpacked'[r], src_moved'[r])
      BY <3>1, EventsDiffer DEF Marked
    <3>3. ~Races(Has, b, src_waited[r], src_unpacked[r], src_moved[r])
      BY EventsDiffer DEF Races
    <3>4. Recorded(r, b) /\ history'[r][b] = Append(history[r][b], Has)
      BY <1>1, <1>3, <2>7
    <3> QED BY <1>0, <3>2, <3>3, <3>4, EventNoted
  <2>8. \A r \in Srcs, b \in Banks : Recorded(r, b)'
    BY <2>5, <2>6, <2>7
  <2> QED BY <1>2, <2>1, <2>3, <2>8 DEF RaceInv
<1> QED BY <1>4, <1>5

\* The waits for the banks of W, and of thread p for its unpacks.
LEMMA WaitRecorded ==
  ASSUME RaceInv, error = "none", NEW unpacks \in SUBSET Srcs, NEW W \in SUBSET Srcs, NEW p \in Pipes,
         Waited(W), UNCHANGED <<unpack_bank, matrix_bank, src_moved, error>>,
         src_unpacked' = [s \in Srcs |-> [q \in Pipes |->
            IF s \in unpacks /\ q = p THEN {} ELSE src_unpacked[s][q]]],
         Waits(p, unpacks, W)
  PROVE  RaceInv'
<1>0. BitTypes /\ Synced(p) \in Event /\ Has \in Event /\ \A r \in Srcs : matrix_bank[r] \in Banks
  BY EventsDiffer DEF RaceInv, BitTypes
<1> DEFINE With(r, b) == IF r \in unpacks THEN Append(history[r][b], Synced(p)) ELSE history[r][b]
<1>1. \A r \in Srcs, b \in Banks :
        history'[r][b] = IF r \in W /\ b = matrix_bank[r] THEN Append(With(r, b), Has) ELSE With(r, b)
  BY DEF Waits, HistoryGoes, AtMatrixUnit
<1>2. \A r \in Srcs, b \in Banks : history[r][b] \in Seq(Event) /\ With(r, b) \in Seq(Event)
  BY <1>0, EventAdded DEF RaceInv
<1>3. history' \in [Srcs -> [Banks -> Seq(Event)]]
  <2>1. \A r \in Srcs, b \in Banks : Append(With(r, b), Has) \in Seq(Event)
    BY <1>0, <1>2, EventAdded
  <2>2. history' = [r \in Srcs |-> [b \in Banks |->
          IF r \in W /\ b = matrix_bank[r] THEN Append(With(r, b), Has) ELSE With(r, b)]]
    BY DEF Waits, HistoryGoes, AtMatrixUnit
  <2> HIDE DEF With
  <2> QED BY <1>2, <2>1, <2>2
<1>4. BitTypes'
  <2>1. src_waited' \in [Srcs -> SUBSET Banks]
    BY <1>0 DEF Waited, BitTypes
  <2>2. src_unpacked' \in [Srcs -> [Pipes -> SUBSET Banks]]
    BY <1>0 DEF BitTypes
  <2> QED BY <1>0, <2>1, <2>2 DEF BitTypes
<1>5. ASSUME NEW r \in Srcs, NEW b \in Banks PROVE Recorded(r, b)'
  <2> DEFINE h == history[r][b]
  <2>1. Agrees(h, b, src_waited[r], src_unpacked[r], src_moved[r]) /\ h \in Seq(Event)
    BY <1>2 DEF RaceInv, Recorded
  <2>2. Agrees(With(r, b), b, src_waited[r], src_unpacked'[r], src_moved[r])
    <3>1. CASE r \notin unpacks
      BY <2>1, <3>1 DEF Agrees
    <3>2. CASE r \in unpacks
      <4>1. Marked(Synced(p), b, src_waited[r], src_unpacked[r], src_moved[r],
                   src_waited[r], src_unpacked'[r], src_moved[r])
        BY <3>2, EventsDiffer DEF Marked
      <4>2. ~Races(Synced(p), b, src_waited[r], src_unpacked[r], src_moved[r])
        BY EventsDiffer DEF Races
      <4> QED BY <1>0, <2>1, <3>2, <4>1, <4>2, EventRecorded
    <3> QED BY <3>1, <3>2
  <2>3. With(r, b) \in Seq(Event) /\ history'[r][b] \in {With(r, b), Append(With(r, b), Has)}
    BY <1>1, <1>2
  <2>4. CASE ~(r \in W /\ b = matrix_bank[r])
    <3>1. history'[r][b] = With(r, b) /\ (b \in src_waited'[r] <=> b \in src_waited[r]) /\ src_moved' = src_moved
      BY <1>1, <2>4 DEF Waited
    <3> HIDE DEF With
    <3> QED BY <2>2, <3>1 DEF Recorded, Agrees
  <2>5. CASE r \in W /\ b = matrix_bank[r]
    <3>1. history'[r][b] = Append(With(r, b), Has) /\ b \in src_waited'[r] /\ src_moved' = src_moved
      BY <1>1, <2>5 DEF Waited
    <3>2. Marked(Has, b, src_waited[r], src_unpacked'[r], src_moved[r],
                 src_waited'[r], src_unpacked'[r], src_moved'[r])
      BY <3>1, EventsDiffer DEF Marked
    <3>3. ~Races(Has, b, src_waited[r], src_unpacked'[r], src_moved[r])
      BY EventsDiffer DEF Races
    <3> HIDE DEF With
    <3>4. Agrees(Append(With(r, b), Has), b, src_waited'[r], src_unpacked'[r], src_moved'[r])
      BY <1>0, <2>2, <2>3, <3>2, <3>3, EventRecorded
    <3> QED BY <3>1, <3>4 DEF Recorded
  <2> QED BY <2>4, <2>5
<1> QED BY <1>3, <1>4, <1>5 DEF RaceInv

\* Reads of the banks of W, which must be there.
LEMMA ReadRecorded ==
  ASSUME RaceInv, error = "none", NEW W \in SUBSET Srcs, Waited(W), Works({}, W),
         UNCHANGED <<unpack_bank, matrix_bank, src_unpacked, src_moved, error>>
  PROVE  RaceInv'
<1>0. BitTypes /\ Has \in Event /\ \A r \in Srcs : matrix_bank[r] \in Banks
  BY EventsDiffer DEF RaceInv, BitTypes
<1>1. history' = [r \in Srcs |-> [b \in Banks |->
           IF r \in W /\ b = matrix_bank[r] THEN Append(history[r][b], Has) ELSE history[r][b]]]
  BY DEF Works, HistoryGoes, AtMatrixUnit
<1>2. history' \in [Srcs -> [Banks -> Seq(Event)]]
  <2>1. \A r \in Srcs, b \in Banks : /\ history[r][b] \in Seq(Event)
                                     /\ Append(history[r][b], Has) \in Seq(Event)
    BY <1>0, EventAdded DEF RaceInv
  <2> QED BY <1>1, <2>1
<1>3. BitTypes'
  <2>1. src_waited' \in [Srcs -> SUBSET Banks]
    BY <1>0 DEF Waited, BitTypes
  <2> QED BY <1>0, <2>1 DEF BitTypes
<1>4. ASSUME NEW r \in Srcs, NEW b \in Banks PROVE Recorded(r, b)'
  <2>0. Recorded(r, b)
    BY DEF RaceInv
  <2>1. CASE ~(r \in W /\ b = matrix_bank[r])
    <3>1. history'[r][b] = history[r][b] /\ (b \in src_waited'[r] <=> b \in src_waited[r])
      BY <1>1, <2>1 DEF Waited
    <3> QED BY <2>0, <3>1, NothingRecorded
  <2>2. CASE r \in W /\ b = matrix_bank[r]
    <3>1. history'[r][b] = Append(history[r][b], Has) /\ b \in src_waited'[r]
      BY <1>1, <2>2 DEF Waited
    <3>2. Marked(Has, b, src_waited[r], src_unpacked[r], src_moved[r],
                 src_waited'[r], src_unpacked'[r], src_moved'[r])
      BY <3>1, EventsDiffer DEF Marked
    <3>3. ~Races(Has, b, src_waited[r], src_unpacked[r], src_moved[r])
      BY EventsDiffer DEF Races
    <3> QED BY <1>0, <2>0, <3>1, <3>2, <3>3, EventNoted
  <2> QED BY <2>1, <2>2
<1> QED BY <1>2, <1>3, <1>4 DEF RaceInv

\* Banks of W are waited for, those of S released.
LEMMA ReleaseRecorded ==
  ASSUME RaceInv, error = "none", NEW W \in SUBSET Srcs, NEW S \in SUBSET Srcs, NEW K,
         Release(S, K), WaitedThenReleased(W, S), Frees(W, S), UNCHANGED <<unpack_bank, error>>
  PROVE  RaceInv'
<1>0. BitTypes /\ Has \in Event /\ \A r \in Srcs : matrix_bank[r] \in Banks /\ Other(matrix_bank[r]) \in Banks
  BY EventsDiffer, BankTyped DEF RaceInv, BitTypes
<1>1. history' = [r \in Srcs |-> [b \in Banks |->
           IF r \in S /\ b = matrix_bank[r] THEN <<>>
           ELSE IF r \in W /\ b = matrix_bank[r] THEN Append(history[r][b], Has) ELSE history[r][b]]]
  BY DEF Frees, HistoryGoes, AtMatrixUnit
<1>2. history' \in [Srcs -> [Banks -> Seq(Event)]]
  <2>1. \A r \in Srcs, b \in Banks : /\ history[r][b] \in Seq(Event) /\ <<>> \in Seq(Event)
                                     /\ Append(history[r][b], Has) \in Seq(Event)
    BY <1>0, EventAdded DEF RaceInv
  <2> QED BY <1>1, <2>1
<1>3. BitTypes'
  <2>1. src_waited' \in [Srcs -> SUBSET Banks]
    BY <1>0 DEF WaitedThenReleased, BitTypes
  <2>2. src_unpacked' \in [Srcs -> [Pipes -> SUBSET Banks]]
    BY <1>0 DEF Release, BitTypes
  <2>3. src_moved' \in [Srcs -> SUBSET Banks]
    BY <1>0 DEF Release, BitTypes
  <2>4. matrix_bank' \in [Srcs -> Banks]
    BY <1>0 DEF Release
  <2> QED BY <1>0, <2>1, <2>2, <2>3, <2>4 DEF BitTypes
<1>4. ASSUME NEW r \in Srcs, NEW b \in Banks PROVE Recorded(r, b)'
  <2>0. Recorded(r, b)
    BY DEF RaceInv
  <2>1. /\ src_waited'[r] = IF r \in S THEN src_waited[r] \ {matrix_bank[r]}
                            ELSE IF r \in W THEN src_waited[r] \cup {matrix_bank[r]} ELSE src_waited[r]
        /\ src_moved'[r] = IF r \in S THEN src_moved[r] \ {matrix_bank[r]} ELSE src_moved[r]
        /\ \A q \in Pipes : src_unpacked'[r][q]
                              = IF r \in S THEN src_unpacked[r][q] \ {matrix_bank[r]} ELSE src_unpacked[r][q]
    BY DEF WaitedThenReleased, Release
  <2>2. CASE r \in S /\ b = matrix_bank[r]
    <3>1. history'[r][b] = <<>> /\ b \notin src_waited'[r] /\ b \notin src_moved'[r]
          /\ \A q \in Pipes : b \notin src_unpacked'[r][q]
      BY <1>1, <2>1, <2>2
    <3> QED BY <3>1, EmptyAgrees DEF Recorded
  <2>3. CASE r \notin S /\ r \in W /\ b = matrix_bank[r]
    <3>1. history'[r][b] = Append(history[r][b], Has) /\ b \in src_waited'[r] /\ src_moved'[r] = src_moved[r]
          /\ \A q \in Pipes : src_unpacked'[r][q] = src_unpacked[r][q]
      BY <1>1, <2>1, <2>3
    <3>2. Marked(Has, b, src_waited[r], src_unpacked[r], src_moved[r],
                 src_waited'[r], src_unpacked'[r], src_moved'[r])
      BY <3>1, EventsDiffer DEF Marked
    <3>3. ~Races(Has, b, src_waited[r], src_unpacked[r], src_moved[r])
      BY EventsDiffer DEF Races
    <3> QED BY <1>0, <2>0, <3>1, <3>2, <3>3, EventNoted
  <2>4. CASE b # matrix_bank[r] \/ (r \notin S /\ r \notin W)
    <3>1. history'[r][b] = history[r][b] /\ (b \in src_waited'[r] <=> b \in src_waited[r])
          /\ (b \in src_moved'[r] <=> b \in src_moved[r])
      BY <1>1, <2>1, <2>4
    <3>2. ASSUME NEW q \in Pipes PROVE b \in src_unpacked'[r][q] <=> b \in src_unpacked[r][q]
      BY <2>1, <2>4
    <3> QED BY <2>0, <3>1, <3>2, NothingRecorded
  <2> QED BY <2>2, <2>3, <2>4
<1> QED BY <1>2, <1>3, <1>4 DEF RaceInv

\* The bits and the histories stay as they are.
LEMMA NothingBefalls ==
  ASSUME RaceInv, unpack_bank' \in [Srcs -> Banks], error' # "race" \/ UNCHANGED error,
         error = "none" \/ UNCHANGED error, UNCHANGED <<matrix_bank, races, history>>
  PROVE  RaceInv'
<1>1. BitTypes'
  BY DEF RaceInv, BitTypes, races
<1>2. \A s \in Srcs, b \in Banks : Recorded(s, b)' <=> Recorded(s, b)
  BY DEF Recorded, Agrees, races
<1> QED BY <1>1, <1>2 DEF RaceInv

LEMMA HistoryStep ==
  ASSUME RaceInv, HistoryNext
  PROVE  RaceInv'
<1>1. ASSUME NEW s \in Srcs, NEW v \in Data, NEW p \in Pipes, NEW set \in BOOLEAN,
             UNPACR(p, s, v, set) \/ \E b \in Banks : UNPACR_NOP(p, s, v, b, set),
             Unpacks(p, s)
      PROVE  RaceInv'
  BY <1>1, UnpackRecorded DEF UNPACR, UNPACR_NOP
<1>2. ASSUME NEW s \in Srcs, NEW v \in Data, MOVD2Src(s, v), Works({s}, {}) PROVE RaceInv'
  <2>1. src_waited' = src_waited /\ Move(s, v) /\ error = "none"
    BY <1>2 DEF MOVD2Src
  <2>2. Waited({})
    BY <2>1 DEF Waited, RaceInv, BitTypes
  <2>3. {} \in SUBSET (Srcs \ {s})
    OBVIOUS
  <2> QED BY <1>2, <2>1, <2>2, <2>3, MoveRecorded
<1>3. ASSUME NEW s \in Srcs, ReadSrc(s), Works({}, {s}) PROVE RaceInv'
  <2>1. {s} \in SUBSET Srcs
    OBVIOUS
  <2> QED BY <1>3, <2>1, ReadRecorded DEF ReadSrc, handover
<1>4. ASSUME NEW v \in Data, TRNSPSRCB(v), Works({}, {"B"}) PROVE RaceInv'
  <2>1. {"B"} \in SUBSET Srcs
    BY <1>4 DEF TRNSPSRCB
  <2> QED BY <1>4, <2>1, ReadRecorded DEF TRNSPSRCB, handover
<1>5. ASSUME NEW v \in Data, MOVB2A(v), Works({"A"}, {"B"}) PROVE RaceInv'
  <2>1. "A" \in Srcs /\ {"B"} \in SUBSET (Srcs \ {"A"})
    BY <1>5 DEF MOVB2A
  <2> QED BY <1>5, <2>1, MoveRecorded DEF MOVB2A
<1>6. ASSUME NEW clear \in SUBSET Srcs, NEW e, Fail(e), e \notin {"none", "race"}, error = "none", Frees({}, clear)
      PROVE  RaceInv'
  <2>1. history' \in [Srcs -> [Banks -> Seq(Event)]]
    <3>1. \A r \in Srcs, b \in Banks : history[r][b] \in Seq(Event) /\ <<>> \in Seq(Event)
      BY DEF RaceInv
    <3> QED BY <1>6, <3>1 DEF Frees, HistoryGoes
  <2>2. BitTypes' /\ error' = e
    BY <1>6 DEF Fail, handover, races, RaceInv, BitTypes
  <2> QED BY <1>6, <2>1, <2>2 DEF RaceInv
<1>7. ASSUME NEW p \in Pipes, NEW clear \in SUBSET Srcs, Compute(p, clear), Frees(Srcs, clear)
      PROVE  RaceInv'
  BY <1>7, ReleaseRecorded DEF Compute
<1>8. ASSUME NEW p \in Pipes, NEW clear \in SUBSET Srcs, SETRWC(p, clear), Frees({}, clear)
      PROVE  RaceInv'
  <2>1. {} \in SUBSET Srcs
    OBVIOUS
  <2>2. CASE Fail("not valid") /\ error = "none"
    BY <1>6, <1>8, <2>2
  <2>3. CASE \E K : Release(clear, K) /\ WaitedThenReleased({}, clear) /\ UNCHANGED <<unpack_bank, error>>
                    /\ error = "none"
    BY <1>8, <2>1, <2>3, ReleaseRecorded
  <2> QED BY <1>8, <2>2, <2>3 DEF SETRWC
<1>9. ASSUME NEW clear \in SUBSET Srcs, CLEARDVALID(clear), Frees({}, clear) PROVE RaceInv'
  <2>1. {} \in SUBSET Srcs
    OBVIOUS
  <2>2. CASE Fail("not valid") /\ error = "none"
    BY <1>6, <1>9, <2>2
  <2>3. CASE Release(clear, {}) /\ WaitedThenReleased({}, clear) /\ UNCHANGED <<unpack_bank, error>>
             /\ error = "none"
    BY <1>9, <2>1, <2>3, ReleaseRecorded
  <2> QED BY <1>9, <2>2, <2>3 DEF CLEARDVALID
<1>10. ASSUME NEW p \in Pipes, NEW unpacks \in SUBSET Srcs, NEW have \in SUBSET Srcs,
              STALLWAIT(p, unpacks, {}, have), Waits(p, unpacks, Seen({}, have))
       PROVE  RaceInv'
  <2>1. Seen({}, have) \in SUBSET Srcs
    BY DEF Seen
  <2> QED BY <1>10, <2>1, WaitRecorded DEF STALLWAIT, handover
<1>11. ASSUME NEW s \in Srcs, UNPACR_ToDst(s) \/ SetDvalid(s), UNCHANGED history PROVE RaceInv'
  <2>1. BitTypes /\ unpack_bank[s] \in Banks /\ Other(unpack_bank[s]) \in Banks
    BY BankTyped DEF RaceInv
  <2>2. unpack_bank' \in [Srcs -> Banks] /\ UNCHANGED <<matrix_bank, races>>
    BY <1>11, <2>1 DEF UNPACR_ToDst, SetDvalid, HandOver, Fail, BitTypes, handover
  <2>3. error = "none" /\ error' # "race"
    BY <1>11 DEF UNPACR_ToDst, SetDvalid, Fail
  <2> QED BY <1>11, <2>2, <2>3, NothingBefalls
<1>12. ASSUME NEW both \in BOOLEAN, NEW S \in SUBSET Srcs, ZEROSRC(both, S), UNCHANGED history
       PROVE  RaceInv'
  <2>1. UNCHANGED <<unpack_bank, matrix_bank, races, error>>
    BY <1>12 DEF ZEROSRC, handover
  <2>2. unpack_bank' \in [Srcs -> Banks]
    BY <2>1 DEF RaceInv, BitTypes
  <2> QED BY <1>12, <2>1, <2>2, NothingBefalls
<1> QED BY <1>1, <1>2, <1>3, <1>4, <1>5, <1>7, <1>8, <1>9, <1>10, <1>11, <1>12 DEF HistoryNext

\* The simulation reports a race when, and only when, a move and an unpack of the same
\* bank are not ordered by a wait, whatever the threads execute and whether or not
\* they keep the banks they release valid.
THEOREM RacesCaught == RaceSpec => []RaceCaught
<1>1. Init /\ HistoryInit => RaceInv
  <2> SUFFICES ASSUME Init, HistoryInit PROVE RaceInv
    OBVIOUS
  <2>1. BitTypes /\ history \in [Srcs -> [Banks -> Seq(Event)]] /\ error = "none"
    BY BankFacts DEF Init, HistoryInit, BitTypes
  <2>2. \A s \in Srcs, b \in Banks : Recorded(s, b)
    BY EmptyAgrees DEF Init, HistoryInit, Recorded
  <2> QED BY <2>1, <2>2 DEF RaceInv
<1>2. RaceInv /\ [RaceNext]_<<vars, history>> => RaceInv'
  <2> SUFFICES ASSUME RaceInv, [RaceNext]_<<vars, history>> PROVE RaceInv'
    OBVIOUS
  <2>1. CASE HistoryNext
    BY <2>1, HistoryStep
  <2>2. CASE UNCHANGED <<vars, history>>
    <3>1. UNCHANGED <<unpack_bank, matrix_bank, races, history, error>>
      BY <2>2 DEF vars, races
    <3>2. unpack_bank' \in [Srcs -> Banks]
      BY <3>1 DEF RaceInv, BitTypes
    <3> QED BY <3>1, <3>2, NothingBefalls
  <2> QED BY <2>1, <2>2 DEF RaceNext, Stopped
<1>3. RaceInv => RaceCaught
  BY DEF RaceInv, RaceCaught, Recorded, Agrees
<1> QED BY <1>1, <1>2, <1>3, PTL DEF RaceSpec
=============================================================================
