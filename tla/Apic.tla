-------------------------------- MODULE Apic --------------------------------
(***************************************************************************)
(* Interrupt routing, system/CPU/APIC/apic.cpp and the registration and    *)
(* dispatch of handlers, system/CPU/IDT/idt.cpp.  A register is the set of *)
(* its bits that are 1.                                                    *)
(*                                                                         *)
(* ioapics is acpi::ioapics, a sequence of [addr, gsib, max] with max the  *)
(* highest entry the chip reports in bits 16 to 23 of its register 1; isos *)
(* is acpi::isos.  redir maps <<addr, entry>> to [low, dest].              *)
(***************************************************************************)
EXTENDS Integers, FiniteSets, Sequences, SequencesExt

SYSCALL == \h69
Bits(n) == { b \in 0 .. 15 : (n \div 2^b) % 2 = 1 }
Number(bits) == FoldSet(LAMBDA b, n : n + 2^b, 0, bits)

\* Bits 13 and 15 for active low and for level triggered: MPS INTI flags.
Trigger(flags) == (IF (flags \div 2) % 2 = 1 THEN {13} ELSE {})
                    \cup (IF (flags \div 8) % 2 = 1 THEN {15} ELSE {})

reg2x2apic(reg) == (IF reg = \h310 THEN \h30 ELSE reg \div 16) + \h800

\* lapicSetNMaskInt: the local interrupt registers it writes (NMI, vector 2).
lapicSetNMaskInt(lvt, vec, currentProcessorID, nmi) ==
  IF nmi.processor \in {\hFF, currentProcessorID} /\ nmi.lint \in {0, 1}
    THEN [lvt EXCEPT ![nmi.lint] = {10} \cup Bits(vec) \cup Trigger(nmi.flags)]
    ELSE lvt

\* lapicInit: software enable, and one pass over the NMIs of the MADT.
lapicInit(lvt, processorID, nmis) ==
  FoldLeft(LAMBDA r, nmi : lapicSetNMaskInt(r, 2, processorID, nmi), lvt, nmis)

-----------------------------------------------------------------------------
\* Mutant: the chip's base is not compared.
getIOapicGSIAny(ioapics, gsi) ==
  SelectSeq(ioapics, LAMBDA io : io.gsib + io.max > gsi)

\* The chips whose range holds gsi; the code takes the first, or nullptr.
\* max is one less than the number of entries: the last one is left out.
getIOapicGSI(ioapics, gsi) ==
  SelectSeq(ioapics, LAMBDA io : io.gsib <= gsi /\ io.gsib + io.max > gsi)

\* Lines 141-155: bits 0 to 11 and 16 are cleared, then the vector is set.
RedirectLow(low, vec, flags) == (low \ (0 .. 11 \cup {16})) \cup Bits(vec) \cup Trigger(flags)

\* The access through nullptr.
Fault == << >>

\* Register 0: the ID is its highest byte, the lowest one is 0.
IoapicID(io) == io.id * 2^24

\* Line 138 shifts the whole register: what is left of it is its lowest byte.
ioapicRedirectGSI(ioapics, redir, gsi, vec, flags) ==
  IF redir = Fault \/ getIOapicGSI(ioapics, gsi) = << >> THEN Fault
  ELSE LET io == Head(getIOapicGSI(ioapics, gsi))
           e == <<io.addr, gsi - io.gsib>>
       IN  [redir EXCEPT ![e] = [low |-> RedirectLow(@.low, vec, flags), dest |-> IoapicID(io) % 256]]

ioapicRedirectIRQ(ioapics, isos, redir, irq, vec) ==
  LET hits == SelectSeq(isos, LAMBDA o : o.irqSource = irq)
  IN  IF hits # << >> THEN ioapicRedirectGSI(ioapics, redir, Head(hits).gsi, vec, Head(hits).flags)
      ELSE ioapicRedirectGSI(ioapics, redir, irq, vec, 0)

-----------------------------------------------------------------------------
(* The IDT. *)

\* allocVector, on the uint8_t next_free: what it returns and leaves there.
allocVector(next_free) ==
  LET n == (next_free + 1) % 256 IN IF n = SYSCALL THEN (n + 1) % 256 ELSE n

\* registerInterruptHandler: the table, and the redirection once APIC is up.
registerInterruptHandler(m, vector, handler) ==
  LET handlers == [m.handlers EXCEPT ![vector] = handler]
  IN  [m EXCEPT !.handlers = handlers,
                !.redir = IF m.apic /\ vector \in 32 .. 47
                            THEN ioapicRedirectIRQ(m.ioapics, m.isos, @, vector - 32, vector)
                            ELSE @]

(***************************************************************************)
(* apic::init, lines 289-304, without a MADT it returns at once.  The PIC  *)
(* is masked; from here on only redirected lines interrupt.                *)
(***************************************************************************)
apic_init(m, sci, sciHandler) ==
  LET r == registerInterruptHandler([m EXCEPT !.pic = FALSE], sci + 32, sciHandler)
      s == ioapicRedirectIRQ(m.ioapics, m.isos, r.redir, sci, sci + 32)
  IN  IF m.ioapics = << >> THEN m
      ELSE [r EXCEPT !.redir = ioapicRedirectIRQ(m.ioapics, m.isos, s, 4, 36), !.apic = TRUE]

\* The vector a line delivers, if any: through the PIC, or through its entry.
Delivers(m, irq) ==
  LET gsi == IF \E i \in DOMAIN m.isos : m.isos[i].irqSource = irq
               THEN Head(SelectSeq(m.isos, LAMBDA o : o.irqSource = irq)).gsi ELSE irq
      io == SelectSeq(m.ioapics, LAMBDA x : gsi \in x.gsib .. x.gsib + x.max)
      low == m.redir[<<Head(io).addr, gsi - Head(io).gsib>>].low
  IN  IF m.pic THEN {irq + 32}
      ELSE IF io = << >> \/ m.redir = Fault THEN {}
      ELSE IF 16 \in low THEN {} ELSE {Number(low \cap 0 .. 7)}

\* int_handler: exceptions halt, other vectors run their handler and get an EOI.
int_handler(m, vector) ==
  IF vector < 32 THEN "exception_handler"
  ELSE IF m.handlers[vector] # "none" THEN m.handlers[vector]
  ELSE "endOfInterrupt"

\* pic::endOfInterrupt: the chips that are told.
pic_endOfInterrupt(vector) == IF vector >= 40 THEN {"PIC1", "PIC2"} ELSE {"PIC1"}

-----------------------------------------------------------------------------
\* The machine before any handler is registered: every entry masked.
Fresh(ioapics, isos) ==
  [handlers |-> [v \in 0 .. 255 |-> "none"], ioapics |-> ioapics, isos |-> isos,
   pic |-> TRUE, apic |-> FALSE,
   redir |-> [e \in UNION { {io.addr} \X (0 .. io.max) : io \in ToSet(ioapics) } |->
                [low |-> {16}, dest |-> 0]]]

\* The registrations in the order of main.cpp: serial, PIT, APIC, keyboard, mouse.
Registered(ioapics, isos, sci) ==
  LET a == registerInterruptHandler(Fresh(ioapics, isos), 36, "COM1_Handler")
      b == registerInterruptHandler(a, 32, "pitHandler")
      c == apic_init(b, sci, "SCI_Handler")
      d == registerInterruptHandler(c, 33, "Keyboard_Handler")
  IN  registerInterruptHandler(d, 44, "Mouse_Handler")

(***************************************************************************)
(* After the boot sequence, with an APIC, a line reaches the handler that  *)
(* was registered for it, through whatever chip and override the MADT      *)
(* gives it, and no line reaches another's; the PIT's, registered before   *)
(* the APIC was up, reaches none.  An access through nullptr happens just  *)
(* if one of the lines is the last of a chip, or beyond.                   *)
(***************************************************************************)
LinesDeliver(ioapics, isos, sci) ==
  LET m == Registered(ioapics, isos, sci)
      Expected(irq) == CASE irq = sci -> "SCI_Handler" [] irq = 4 -> "COM1_Handler"
                         [] irq = 1 -> "Keyboard_Handler" [] irq = 12 -> "Mouse_Handler"
                         [] OTHER -> "none"
      Gsi(irq) == LET o == SelectSeq(isos, LAMBDA x : x.irqSource = irq)
                  IN  IF o = << >> THEN irq ELSE Head(o).gsi
      Covered(gsi) == \E io \in ToSet(ioapics) : gsi \in io.gsib .. io.gsib + io.max - 1
  IN  /\ m.redir = Fault <=> \E irq \in {sci, 1, 4, 12} : ~Covered(Gsi(irq))
      /\ m.redir # Fault =>
           \A irq \in 0 .. 15 :
             { int_handler(m, v) : v \in Delivers(m, irq) } =
               { h \in {Expected(irq)} : h # "none" }
=============================================================================
