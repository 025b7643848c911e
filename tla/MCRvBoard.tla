------------------------------ MODULE MCRvBoard ------------------------------
(***************************************************************************)
(* RvBoard for TLC: a guest with machine-mode firmware that passes timer   *)
(* and software interrupts on to supervisor mode, as OpenSBI does, and a   *)
(* kernel with an idle loop and drivers for the UART and the disk.         *)
(***************************************************************************)
EXTENDS RvBoard

Nop == [op |-> "nop"]
Do(op) == [op |-> op]
Set(csr, bits) == [op |-> "csr", csr |-> csr, set |-> bits, clear |-> {}]
Clear(csr, bits) == [op |-> "csr", csr |-> csr, set |-> {}, clear |-> bits]
Mret == [op |-> "xret", mode |-> "M"]
Sret == [op |-> "xret", mode |-> "S"]
Skip(mode) == [op |-> "epc", mode |-> mode, skip |-> TRUE, to |-> Rom]
ReturnTo(r) == [op |-> "epc", mode |-> "M", skip |-> FALSE, to |-> At(<<"", r>>, 1)]
Goto(n) == [op |-> "jump", to |-> [x \in {0} \cup Sources |-> n]]
Switch(none, blk, tty) ==
  [op |-> "jump", to |-> [x \in {0} \cup Sources |->
     IF x = VIRTIO_BLK_IRQ THEN blk ELSE IF x = UART_IRQ THEN tty ELSE none]]
Timer(ticks) == [op |-> "mtimecmp", ticks |-> ticks]
Ipi(on, other) == [op |-> "msip", on |-> on, other |-> other]
Request(type, value) == [op |-> "submit", type |-> type, value |-> value]

\* Either source may be the more urgent.
Priorities == [op |-> "enable", priority |-> [s \in Sources |-> s]]

Firmware == << {Set("mideleg", {"SSI", "STI", "SEI"})},
               {Set("mie", {"MSI", "MTI", "SSI", "STI", "SEI"})},
               {Set("mstatus", {"MPP0", "SPIE"})} >>

Routine(r) ==
  CASE r = <<"", "entry">> -> Firmware \o << {Set("medeleg", {"FAULT"})}, {ReturnTo("kernel")}, {Mret} >>
    [] r = <<"", "rom">>   -> <<{Set("mstatus", {"MPP1"})}>> \o Firmware \o << {ReturnTo("second")}, {Mret} >>
    [] r = <<"", "kernel">> ->
         << {Priorities}, {[op |-> "ier", val |-> {"rx", "thr"}]}, {Do("ready")},
            {Timer(7), Timer(Never)}, {Set("sstatus", {"SIE"})},
            {Request("OUT", 1), Ipi(TRUE, TRUE), Do("load fault")},
            {Request("IN", 0), Do("ecall"), Do("fetch fault")},
            {Do("notify"), Do("thr")},
            {Do("wfi"), Do("reset")}, {Do("ready"), Do("pause")}, {Goto(6)} >>
    [] r = <<"", "second">> ->
         << {Priorities}, {Timer(5), Timer(Never)},
            {Set("sstatus", {"SIE"}), Nop}, {Do("wfi")}, {Clear("sstatus", {"SIE"}), Nop},
            {Do("wfi")}, {Goto(3)} >>
    [] r = <<"M", "MSI">> -> << {Ipi(FALSE, FALSE)}, {Set("mip", {"SSI"})}, {Mret} >>
    [] r = <<"M", "MTI">> -> << {Clear("mie", {"MTI"})}, {Set("mip", {"STI"})}, {Mret} >>
    [] r = <<"M", "ECALL">> ->
         << {Timer(Never), Timer(2)}, {Clear("mip", {"STI"})}, {Set("mie", {"MTI"})},
            {Skip("M")}, {Mret} >>
    [] r = <<"M", "FAULT">> -> << {Skip("M")}, {Mret} >>
    [] r = <<"S", "FAULT">> -> << {Skip("S")}, {Sret} >>
    [] r = <<"S", "SSI">> -> << {Clear("sip", {"SSI"})}, {Sret} >>
    [] r = <<"S", "STI">> -> << {Do("ecall")}, {Sret} >>
    [] r = <<"S", "SEI">> ->
         << {Do("claim")}, {Switch(8, 3, 6)},
            {Do("ack")}, {Do("reap")}, {Goto(7)},
            {Do("rbr"), Do("iir")}, {Do("complete")}, {Sret} >>

Routines ==
  ({""} \X {"entry", "rom", "kernel", "second"})
    \cup ({"M"} \X {"MSI", "MTI", "ECALL", "FAULT"}) \cup ({"S"} \X {"SSI", "STI", "SEI", "FAULT"})
CodeOf == [r \in Routines |-> Routine(r)]

MCInjects == {<<>>, <<1, 2, 3>>}

VARIABLE saved    \* saved[h]: what the traps hart h is in have interrupted

Enables(hr) == hr.mstatus \cap {"SIE", "MIE"}
Context(hr) == [pc |-> hr.pc, priv |-> hr.priv, enables |-> Enables(hr)]

Entered(h) ==
  /\ harts'[h].pc # harts[h].pc /\ harts'[h].pc.at = 1
  /\ harts'[h].pc.in[1] # ""
Returns(h, op) == Running(h) /\ Instr(h, op) # {} /\ saved[h] # <<>>
Skips(h) == Returns(h, "epc")

MCInit == Init /\ saved = [h \in Harts |-> <<>>]
MCNext ==
  /\ Next
  /\ saved' = [h \in Harts |->
       IF Entered(h) THEN <<Context(harts[h])>> \o saved[h]
       ELSE IF Returns(h, "xret") THEN Tail(saved[h])
       ELSE IF Skips(h) THEN [saved[h] EXCEPT ![1].pc.at = @ + 1]
       ELSE saved[h]]
MCSpec == MCInit /\ [][MCNext]_<<vars, saved>>

\* A trap is undone by its return: whatever nests, the code that was interrupted goes on
\* where it was, with the privilege and the interrupt enables that it had.
TrapsReturn ==
  [][\A h \in Harts : Returns(h, "xret") /\ ~Entered(h) =>
       Context(harts'[h]) = Head(saved[h])]_<<vars, saved>>
=============================================================================
