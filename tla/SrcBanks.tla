------------------------------- MODULE SrcBanks -------------------------------
(***************************************************************************)
(* The two banks of SrcA and of SrcB (src/tensix.cpp), which the unpackers *)
(* fill and the Matrix Unit empties: each has the bank it is at, and a     *)
(* valid bit per bank hands the bank over.  Instructions of different      *)
(* threads meet here in any order; those that must not run yet stall       *)
(* (their action is not enabled) and those a kernel must never issue in    *)
(* the state they find end the simulation.                                 *)
(*                                                                         *)
(* Some moves write a bank without waiting to have it.  The simulator is   *)
(* meant to end when such a move can race an unpacker's write on hardware, *)
(* which runs the two in parallel: src_waited, src_unpacked and src_moved  *)
(* are kept for that alone.                                                *)
(***************************************************************************)
EXTENDS Integers, Sequences

CONSTANTS
  Srcs,         \* the Srcs the modelled programs use: "A", "B" or both
  Pipes,        \* the Tensix threads
  Data,         \* what an unpacker may write to a bank
  ZeroData,     \* and what a cleared bank holds
  ClrDisabled   \* <<p, s>>: CLR_DVALID_Src<s>_Disable is set for thread p

Banks == {0, 1}
Other(b) == 1 - b

ASSUME SrcAssumption ==
  /\ Srcs \subseteq {"A", "B"}
  /\ ZeroData \in Data
  /\ ClrDisabled \subseteq Pipes \X Srcs

VARIABLES
  bank,          \* bank[s][b]: what bank b of Src s holds
  valid,         \* valid[s]: the banks that are the Matrix Unit's to read
  unpack_bank,   \* unpack_bank[s]: the bank the unpackers are at
  matrix_bank,   \* matrix_bank[s]: the bank the Matrix Unit is at
  src_waited,    \* src_waited[s]: banks the Matrix Unit has waited for
  src_unpacked,  \* src_unpacked[s][p]: banks written by thread p's unpacks
  src_moved,     \* src_moved[s]: banks a move wrote before it was waited for
  error          \* the TTSIM_VERIFY that ended the simulation, or none

handover == <<valid, unpack_bank, matrix_bank>>
races    == <<src_waited, src_unpacked, src_moved>>
vars == <<bank, valid, unpack_bank, matrix_bank, src_waited, src_unpacked, src_moved, error>>

TypeOK ==
  /\ bank \in [Srcs -> [Banks -> Data]]
  /\ valid \in [Srcs -> SUBSET Banks]
  /\ unpack_bank \in [Srcs -> Banks]
  /\ matrix_bank \in [Srcs -> Banks]
  /\ src_waited \in [Srcs -> SUBSET Banks]
  /\ src_unpacked \in [Srcs -> [Pipes -> SUBSET Banks]]
  /\ src_moved \in [Srcs -> SUBSET Banks]
  /\ error \in {"none", "already valid", "not valid", "race"}

-----------------------------------------------------------------------------
UnpackerMayFill(s) == unpack_bank[s] \notin valid[s]
MatrixUnitHas(s)   == matrix_bank[s] \in valid[s]

\* math_src_waited, for the Srcs of S.
Waited(S) ==
  src_waited' = [s \in Srcs |-> IF s \in S THEN src_waited[s] \cup {matrix_bank[s]}
                                ELSE src_waited[s]]

Unwaited(s, b) == b \notin src_waited[s]
UnpackedBySome(s, b) == \E p \in Pipes : b \in src_unpacked[s][p]

\* The releases of math_clear_src_valid and CLEARDVALID, for the Srcs of S:
\* of those also in Keep the bank stays valid.
Release(S, Keep) ==
  /\ valid' = [s \in Srcs |-> IF s \in S \ Keep THEN valid[s] \ {matrix_bank[s]} ELSE valid[s]]
  /\ src_unpacked' = [s \in Srcs |-> [p \in Pipes |->
       IF s \in S THEN src_unpacked[s][p] \ {matrix_bank[s]} ELSE src_unpacked[s][p]]]
  /\ src_moved' = [s \in Srcs |-> IF s \in S THEN src_moved[s] \ {matrix_bank[s]} ELSE src_moved[s]]
  /\ matrix_bank' = [s \in Srcs |-> IF s \in S THEN Other(matrix_bank[s]) ELSE matrix_bank[s]]

\* What is left of src_waited, of which the banks of W were just waited for.
WaitedThenReleased(W, S) ==
  src_waited' = [s \in Srcs |->
    IF s \in S THEN src_waited[s] \ {matrix_bank[s]}
    ELSE IF s \in W THEN src_waited[s] \cup {matrix_bank[s]} ELSE src_waited[s]]

Kept(p, S) == {s \in S : <<p, s>> \in ClrDisabled}

HandOver(s) ==
  /\ valid' = [valid EXCEPT ![s] = @ \cup {unpack_bank[s]}]
  /\ unpack_bank' = [unpack_bank EXCEPT ![s] = Other(@)]
  /\ UNCHANGED matrix_bank

\* A TTSIM_VERIFY that fails: nothing the instruction did before counts.
Fail(e) == error' = e /\ UNCHANGED <<bank, handover, races>>

-----------------------------------------------------------------------------
(* The unpackers.                                                          *)

\* unpack_src_written, and the write it stands for.
UnpackWrite(p, s, v) ==
  /\ unpack_bank[s] \notin src_moved[s]
  /\ bank' = [bank EXCEPT ![s][unpack_bank[s]] = v]
  /\ src_unpacked' = [src_unpacked EXCEPT ![s][p] = @ \cup {unpack_bank[s]}]
  /\ UNCHANGED <<src_waited, src_moved>>

UnpackRaces(s) == unpack_bank[s] \in src_moved[s] /\ Fail("race")

\* Mutant of UNPACR: it does not stall while the bank is the Matrix Unit's.
UNPACR_NoStall(p, s, v, set_dat_valid) ==
  /\ error = "none"
  /\ \/ UnpackRaces(s)
     \/ /\ UnpackWrite(p, s, v)
        /\ IF set_dat_valid THEN HandOver(s) ELSE UNCHANGED handover
        /\ UNCHANGED error

\* UNPACR into a Src, with and without SetDatValid: several may fill a bank.
UNPACR(p, s, v, set_dat_valid) ==
  /\ error = "none"
  /\ UnpackerMayFill(s)
  /\ \/ UnpackRaces(s)
     \/ /\ UnpackWrite(p, s, v)
        /\ IF set_dat_valid THEN HandOver(s) ELSE UNCHANGED handover
        /\ UNCHANGED error

\* UNPACR into Dst, which only hands the bank over.
UNPACR_ToDst(s) ==
  /\ error = "none"
  /\ UnpackerMayFill(s)
  /\ HandOver(s)
  /\ UNCHANGED <<bank, races, error>>

\* UNPACR_NOP that clears the unpackers' bank, to zeros or (SrcA) to negative
\* infinity: it waits for `wait_bank', which need not be the bank it clears.
UNPACR_NOP(p, s, v, wait_bank, set_dvalid) ==
  /\ error = "none"
  /\ wait_bank \in {unpack_bank[s], matrix_bank[s]}
  /\ wait_bank \notin valid[s]
  /\ \/ UnpackRaces(s)
     \/ /\ unpack_bank[s] \notin src_moved[s]
        /\ set_dvalid /\ ~UnpackerMayFill(s) /\ Fail("already valid")
     \/ /\ set_dvalid => UnpackerMayFill(s)
        /\ UnpackWrite(p, s, v)
        /\ IF set_dvalid THEN HandOver(s) ELSE UNCHANGED handover
        /\ UNCHANGED error

\* UNPACR_NOP and SETDVALID that hand the bank over as it is, and wait for
\* nothing.
SetDvalid(s) ==
  /\ error = "none"
  /\ IF UnpackerMayFill(s) THEN HandOver(s) /\ UNCHANGED <<bank, races, error>>
     ELSE Fail("already valid")

-----------------------------------------------------------------------------
(* The Matrix Unit.                                                        *)

\* MVMUL, GAPOOL, GMPOOL, ELWMUL, ELWADD, ELWSUB: they read both banks, and
\* release those of `clear'.
Compute(p, clear) ==
  /\ error = "none"
  /\ \A s \in Srcs : MatrixUnitHas(s)
  /\ Release(clear, Kept(p, clear))
  /\ WaitedThenReleased(Srcs, clear)
  /\ UNCHANGED <<bank, unpack_bank, error>>

\* MOVA2D, MOVB2D: they read a bank.
ReadSrc(s) ==
  /\ error = "none"
  /\ MatrixUnitHas(s)
  /\ Waited({s})
  /\ UNCHANGED <<bank, handover, src_unpacked, src_moved, error>>

\* TRNSPSRCB: it reads the bank and writes part of it.
TRNSPSRCB(v) ==
  /\ error = "none" /\ "B" \in Srcs
  /\ MatrixUnitHas("B")
  /\ Waited({"B"})
  /\ bank' = [bank EXCEPT !["B"][matrix_bank["B"]] = v]
  /\ UNCHANGED <<handover, src_unpacked, src_moved, error>>

\* math_src_move and the write it stands for.
Move(s, v) ==
  LET b == matrix_bank[s] IN
  IF Unwaited(s, b) /\ UnpackedBySome(s, b)
  THEN Fail("race")
  ELSE /\ bank' = [bank EXCEPT ![s][b] = v]
       /\ src_moved' = IF Unwaited(s, b) THEN [src_moved EXCEPT ![s] = @ \cup {b}] ELSE src_moved
       /\ UNCHANGED <<handover, src_unpacked, error>>

\* MOVD2A, MOVD2B: they wait for nothing, and write a few rows.
MOVD2Src(s, v) ==
  /\ error = "none"
  /\ Move(s, v)
  /\ UNCHANGED src_waited

\* MOVB2A waits to have SrcB, and not SrcA, which it writes.
MOVB2A(v) ==
  /\ error = "none" /\ Srcs = {"A", "B"}
  /\ MatrixUnitHas("B")
  /\ Move("A", v)
  /\ error' = "none" => Waited({"B"})

\* SETRWC: math_clear_src_valid without a wait.
SETRWC(p, clear) ==
  /\ error = "none"
  /\ IF \A s \in clear \ Kept(p, clear) : MatrixUnitHas(s)
     THEN /\ Release(clear, Kept(p, clear))
          /\ WaitedThenReleased({}, clear)
          /\ UNCHANGED <<bank, unpack_bank, error>>
     ELSE Fail("not valid")

\* CLEARDVALID: likewise, whatever CLR_DVALID_Src<s>_Disable says.
CLEARDVALID(clear) ==
  /\ error = "none" /\ clear # {}
  /\ IF \A s \in clear : MatrixUnitHas(s)
     THEN /\ Release(clear, {})
          /\ WaitedThenReleased({}, clear)
          /\ UNCHANGED <<bank, unpack_bank, error>>
     ELSE Fail("not valid")

\* ZEROSRC clears both banks of both Srcs, or the banks the Matrix Unit is at
\* of those in S.
ZEROSRC(both, S) ==
  /\ error = "none" /\ S # {} /\ (both => S = Srcs)
  /\ bank' = [s \in Srcs |-> [b \in Banks |->
                IF both \/ (s \in S /\ b = matrix_bank[s]) THEN ZeroData ELSE bank[s][b]]]
  /\ UNCHANGED <<handover, races, error>>

-----------------------------------------------------------------------------
\* The banks STALLWAIT finds the Matrix Unit has, of those of `have', once those
\* of `free' are the unpackers'.
Seen(free, have) ==
  {s \in have : /\ \A f \in free : UnpackerMayFill(f)
                /\ MatrixUnitHas(s)
                /\ s = "B" /\ "A" \in have => MatrixUnitHas("A")}

\* Mutant of STALLWAIT: it is taken to wait for every thread's unpacks.
STALLWAIT_AllThreads(p, unpacks, free, have) ==
  /\ error = "none"
  /\ src_unpacked' = [s \in Srcs |-> [q \in Pipes |->
       IF s \in unpacks THEN {} ELSE src_unpacked[s][q]]]
  /\ Waited(Seen(free, have))
  /\ UNCHANGED <<bank, handover, src_moved, error>>

\* STALLWAIT by thread p: for its unpacks into the Srcs of `unpacks', for the
\* banks of `free' to be the unpackers' and for those of `have' to be the
\* Matrix Unit's.  It goes through them in this order until one makes it
\* stall, and what it recorded until then stays.
STALLWAIT(p, unpacks, free, have) ==
  /\ error = "none"
  /\ src_unpacked' = [s \in Srcs |-> [q \in Pipes |->
       IF s \in unpacks /\ q = p THEN {} ELSE src_unpacked[s][q]]]
  /\ Waited(Seen(free, have))
  /\ UNCHANGED <<bank, handover, src_moved, error>>

\* A failed TTSIM_VERIFY ends the process.
Ended == error # "none" /\ UNCHANGED vars

-----------------------------------------------------------------------------
Init ==
  /\ bank = [s \in Srcs |-> [b \in Banks |-> ZeroData]]
  /\ valid = [s \in Srcs |-> {}]
  /\ unpack_bank = [s \in Srcs |-> 0]
  /\ matrix_bank = [s \in Srcs |-> 0]
  /\ src_waited = [s \in Srcs |-> {}]
  /\ src_unpacked = [s \in Srcs |-> [p \in Pipes |-> {}]]
  /\ src_moved = [s \in Srcs |-> {}]
  /\ error = "none"

Next ==
  \/ \E s \in Srcs :
       \/ \E p \in Pipes, v \in Data, set \in BOOLEAN :
            \/ UNPACR(p, s, v, set)
            \/ \E b \in Banks : UNPACR_NOP(p, s, v, b, set)
       \/ UNPACR_ToDst(s)
       \/ SetDvalid(s)
       \/ ReadSrc(s)
       \/ \E v \in Data : MOVD2Src(s, v)
  \/ \E clear \in SUBSET Srcs :
       \/ \E p \in Pipes : Compute(p, clear) \/ SETRWC(p, clear)
       \/ CLEARDVALID(clear)
       \/ \E both \in BOOLEAN : ZEROSRC(both, clear)
  \/ \E v \in Data : TRNSPSRCB(v) \/ MOVB2A(v)
  \/ \E p \in Pipes, unpacks, free, have \in SUBSET Srcs : STALLWAIT(p, unpacks, free, have)
  \/ Ended

Spec == Init /\ [][Next]_vars

-----------------------------------------------------------------------------
(* Properties.                                                             *)

\* The two bank pointers and the valid bits agree: the unpackers are one bank
\* ahead of the Matrix Unit exactly if it has one bank to read.  This is what
\* lets UNPACR_NOP wait for the Matrix Unit's bank and then clear its own.
BanksInStep ==
  \A s \in Srcs :
    IF unpack_bank[s] = matrix_bank[s] THEN valid[s] \in {{}, Banks}
                                       ELSE valid[s] = {matrix_bank[s]}

\* What has been handed over and not released, oldest first.
QueueOf(s) ==
  LET b == matrix_bank[s] IN
  IF b \notin valid[s] THEN <<>>
  ELSE IF Other(b) \notin valid[s] THEN <<bank[s][b]>>
  ELSE <<bank[s][b], bank[s][Other(b)]>>

Queue == INSTANCE SrcQueue WITH queue <- [s \in Srcs |-> QueueOf(s)]

\* The banks are a queue of two for each Src: no thread's instruction writes
\* a bank between its handover and its turn with the Matrix Unit, and each is
\* released once, in the order of the handovers.
BanksAreQueue == Queue!Spec
=============================================================================
