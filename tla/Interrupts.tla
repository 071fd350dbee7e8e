----------------------------- MODULE Interrupts ------------------------------
(***************************************************************************)
(* Interrupts on the boot processor, from idt_init to the keyboard         *)
(* (src/kernel/intr, dev/kbd.c and the order of _start in boot/boot.c).    *)
(*                                                                         *)
(* The processor runs _start, whose location is pc, or a handler, cpu.     *)
(* The other processors run beside it from smp_init on (Smp).              *)
(* Around it, and at any moment, the timer ticks and keys are pressed.     *)
(* Their lines reach the processor through the 8259 PICs, and the          *)
(* keyboard's also through the IO APIC and the local APIC.  The hardware   *)
(* is external to the code.  The bootloader hands over with every line of  *)
(* both controllers masked and the local APIC software-disabled.           *)
(***************************************************************************)
EXTENDS Smp

CONSTANT Gsis           \* gsi's of overrides

KBD_IRQ == 1
KBD_INTR_VEC == KBD_IRQ + INTR_DEV_OFFSET

VARIABLES
    pc,                 \* the next step of _start
    cpu,                \* "start", "generic", or the next step of kbd_intr_handler
    enabled,            \* the interrupt flag, IF
    gate,               \* the handler in the IDT, by device vector
    pic,                \* each 8259: "masked", "init" or "open"
    latched,            \* lines that the master 8259 has latched
    lapic,              \* the boot processor's local APIC
    full,               \* the keyboard controller holds a byte: its line is high
    missed              \* that byte's edge came when nobody was listening

picVars == <<pic, latched>>
kbdVars == <<full, missed>>
vars == <<pc, cpu, enabled, gate, pic, latched, lapic, full, missed, ioapicVars, smpVars>>

Lines == {0, KBD_IRQ}
Vectors == { INTR_DEV_OFFSET + irq : irq \in Lines }

Init ==
    /\ pc = "idt_init" /\ cpu = "start" /\ enabled = FALSE
    /\ gate = [v \in Vectors |-> "none"]
    /\ pic = [p \in {"master", "slave"} |-> "masked"] /\ latched = {}
    /\ IoapicInit /\ SmpInit
    /\ lapic = [on |-> FALSE, irr |-> {}, isr |-> {}]
    /\ full = FALSE /\ missed = FALSE

-----------------------------------------------------------------------------
\* A step of _start from one location to the next.
Step(here, there) == cpu = "start" /\ pc = here /\ pc' = there /\ UNCHANGED <<cpu, full, missed>>
At(here, there) == Step(here, there) /\ UNCHANGED smpVars

\* All 256 gates are set; idt_load ends with sti.
idt_init ==
    /\ At("idt_init", "icw1")
    /\ gate' = [v \in Vectors |-> "generic"]
    /\ enabled' = TRUE
    /\ UNCHANGED <<picVars, ioapicVars, lapic>>

PicStep(here, there) == At(here, there) /\ UNCHANGED <<enabled, gate, ioapicVars, lapic>>

\* ICW1 clears the mask and the latched lines of a controller, which answers
\* no line before it has got its ICW4.
pic_remap_icw1 ==
    /\ PicStep("icw1", "icw4_master")
    /\ pic' = [p \in DOMAIN pic |-> "init"]
    /\ latched' = {}

pic_remap_icw4_master ==
    /\ PicStep("icw4_master", "icw4_slave")
    /\ pic' = [pic EXCEPT !["master"] = "open"] /\ UNCHANGED latched

pic_remap_icw4_slave ==
    /\ PicStep("icw4_slave", "mask_master")
    /\ pic' = [pic EXCEPT !["slave"] = "open"] /\ UNCHANGED latched

\* The masks of pic_remap, which pic_disable_all writes once more.
pic_mask_master ==
    /\ PicStep("mask_master", "mask_slave")
    /\ pic' = [pic EXCEPT !["master"] = "masked"] /\ UNCHANGED latched

pic_mask_slave ==
    /\ PicStep("mask_slave", "apic_init")
    /\ pic' = [pic EXCEPT !["slave"] = "masked"] /\ UNCHANGED latched

\* apic_init panics without the bootloader's list of processors.
apic_init ==
    /\ At("apic_init", "ioapics") \/ At("apic_init", "panic")
    /\ UNCHANGED <<enabled, gate, picVars, ioapicVars, lapic>>

\* The IO APICs, the overrides, the local APIC.
apic_init_ioapics ==
    /\ \/ At("ioapics", "ioapics") /\ \E id \in Ids, base \in Bases : ioapic_register(id, base)
       \/ At("ioapics", "overrides") /\ UNCHANGED ioapicVars
    /\ UNCHANGED <<enabled, gate, picVars, lapic>>

apic_init_overrides ==
    /\ \/ /\ At("overrides", "overrides")
          /\ \E irq \in Pins, gsi \in Gsis, polarity \in Polarities :
                ioapic_set_gsi([irq_src |-> irq, gsi |-> gsi, polarity |-> polarity])
       \/ At("overrides", "lapic_enable") /\ UNCHANGED ioapicVars
    /\ UNCHANGED <<enabled, gate, picVars, lapic>>

\* Mutant: the local APIC is left off.
lapic_left_off ==
    /\ At("lapic_enable", "smp")
    /\ UNCHANGED <<enabled, gate, picVars, ioapicVars, lapic>>

lapic_enable ==
    /\ At("lapic_enable", "smp")
    /\ lapic' = [lapic EXCEPT !.on = TRUE]
    /\ UNCHANGED <<enabled, gate, picVars, ioapicVars>>

SmpStep(here, there) == Step(here, there) /\ UNCHANGED <<enabled, gate, picVars, ioapicVars, lapic>>

\* Mutant: the processor is sent off before it has a stack.
goto_first ==
    \/ SmpStep("smp", "smp") /\ smp_skip_bsp
    \/ /\ SmpStep("smp", "smp") /\ n < Len(Procs) /\ proc \in APs \ goto_address
       /\ goto_address' = goto_address \cup {proc} /\ UNCHANGED <<n, pages, target_stack, ap>>
    \/ /\ SmpStep("smp", "smp_goto") /\ n < Len(Procs) /\ proc \in goto_address /\ smp_set_stack
    \/ SmpStep("smp", "panic") /\ smp_no_page
    \/ SmpStep("smp_goto", "smp") /\ smp_goto
    \/ SmpStep("smp", "register") /\ n = Len(Procs) /\ UNCHANGED smpVars

\* The tag is there: apic_init has seen it.
smp_init ==
    \/ SmpStep("smp", "smp") /\ smp_skip_bsp
    \/ SmpStep("smp", "smp_goto") /\ smp_set_stack
    \/ SmpStep("smp", "panic") /\ smp_no_page
    \/ SmpStep("smp_goto", "smp") /\ smp_goto
    \/ SmpStep("smp", "register") /\ n = Len(Procs) /\ UNCHANGED smpVars

\* kbd_init.  register_intr_handler writes the fields of the descriptor one
\* after the other, the low part of the address first.
register_low ==
    /\ At("register", "register_high")
    /\ gate' = [gate EXCEPT ![KBD_INTR_VEC] = "torn"]
    /\ UNCHANGED <<enabled, picVars, ioapicVars, lapic>>

register_high ==
    /\ At("register_high", "quickset")
    /\ gate' = [gate EXCEPT ![KBD_INTR_VEC] = "kbd"]
    /\ UNCHANGED <<enabled, picVars, ioapicVars, lapic>>

\* ioapic_quickset_irq returns with an error if there is no IO APIC 0.
kbd_quickset ==
    /\ \/ At("quickset", "write_high") /\ ioapic_quickset_irq(0, KBD_IRQ, 0, KBD_INTR_VEC)
       \/ At("quickset", "idle") /\ ~is_registered(0) /\ UNCHANGED ioapicVars
    /\ UNCHANGED <<enabled, gate, picVars, lapic>>

kbd_write_high ==
    /\ At("write_high", "write_low") /\ ioapic_write_high(0, KBD_IRQ)
    /\ UNCHANGED <<enabled, gate, picVars, lapic>>

kbd_write_low ==
    /\ At("write_low", "idle") /\ ioapic_write_low(0, KBD_IRQ)
    /\ UNCHANGED <<enabled, gate, picVars, lapic>>

Boot ==
    \/ idt_init \/ pic_remap_icw1 \/ pic_remap_icw4_master \/ pic_remap_icw4_slave
    \/ pic_mask_master \/ pic_mask_slave
    \/ apic_init \/ apic_init_ioapics \/ apic_init_overrides \/ lapic_enable
    \/ smp_init
    \/ register_low \/ register_high \/ kbd_quickset \/ kbd_write_high \/ kbd_write_low

-----------------------------------------------------------------------------
\* The hardware.

\* An edge on a line is latched by the PIC unless it is being initialised,
\* and by the IO APIC only if the entry is not masked.
ToPic(irq) == latched' = IF pic["master"] = "init" THEN latched ELSE latched \cup {irq}

TimerTick == ToPic(0) /\ UNCHANGED <<pc, cpu, enabled, gate, pic, ioapicVars, smpVars, lapic, full, missed>>

\* The redirection entries that the keyboard's line is connected to: those of
\* its GSI, in the IO APIC whose range holds it.
Connected ==
    { redtbl[id][wired(overrides, KBD_IRQ) - ioapics[id].gsi_base] :
        id \in { i \in Ids : ioapics[i].present /\ wired(overrides, KBD_IRQ) - ioapics[i].gsi_base \in Pins } }

Listening == { e \in Connected : ~e.masked /\ e.dest = BSP /\ lapic.on }

KeyPress ==
    /\ ~full
    /\ full' = TRUE
    /\ missed' = (Listening = {})
    /\ lapic' = [lapic EXCEPT !.irr = @ \cup { e.vector : e \in Listening }]
    /\ ToPic(KBD_IRQ)
    /\ UNCHANGED <<pc, cpu, enabled, gate, pic, ioapicVars, smpVars>>

\* An interrupt gate clears IF.
Dispatch(vector) == enabled /\ enabled' = FALSE /\ cpu' = gate[vector] /\ UNCHANGED <<pc, gate, pic, ioapicVars, smpVars, full, missed>>

PicInterrupt ==
    /\ pic["master"] = "open"
    /\ \E irq \in latched :
          /\ Dispatch(INTR_DEV_OFFSET + irq)
          /\ latched' = latched \ {irq}
    /\ UNCHANGED lapic

LapicInterrupt ==
    /\ \E vector \in lapic.irr :
          /\ \A v \in lapic.isr : vector \div 16 > v \div 16
          /\ Dispatch(vector)
          /\ lapic' = [lapic EXCEPT !.irr = @ \ {vector}, !.isr = @ \cup {vector}]
    /\ UNCHANGED latched

-----------------------------------------------------------------------------
\* Mutant: the byte is left in the keyboard controller.
kbd_no_read == cpu = "kbd" /\ cpu' = "eoi" /\ UNCHANGED <<pc, enabled, gate, picVars, ioapicVars, smpVars, lapic, full, missed>>

\* kbd_intr_handler: inb and text_write.
kbd_intr_handler ==
    /\ cpu = "kbd"
    /\ full' = FALSE /\ missed' = FALSE
    /\ cpu' = "eoi"
    /\ UNCHANGED <<pc, enabled, gate, picVars, ioapicVars, smpVars, lapic>>

\* Mutant: the bit of the ISR is looked for in the first register.
eoi_first_register ==
    /\ cpu = "eoi"
    /\ lapic' = IF KBD_INTR_VEC % 32 \in lapic.isr THEN [lapic EXCEPT !.isr = {}] ELSE lapic
    /\ cpu' = "start" /\ enabled' = TRUE
    /\ UNCHANGED <<pc, gate, picVars, ioapicVars, smpVars, kbdVars>>

\* lapic_eoi, which ends the interrupt of the highest priority if the
\* vector's is in service, and iretq, which restores IF.
lapic_eoi ==
    /\ cpu = "eoi"
    /\ lapic' = IF KBD_INTR_VEC \in lapic.isr
                THEN [lapic EXCEPT !.isr = @ \ { CHOOSE v \in @ : \A w \in @ : w <= v }]
                ELSE lapic
    /\ cpu' = "start" /\ enabled' = TRUE
    /\ UNCHANGED <<pc, gate, picVars, ioapicVars, smpVars, kbdVars>>

Handler == kbd_intr_handler \/ lapic_eoi

\* generic_intr_handler executes hlt with IF clear: nothing wakes it up.
Environment == TimerTick \/ KeyPress

\* The other processors, each at its own pace.
Other(p) ==
    /\ Enter(p) \/ smp_ap_entry(p)
    /\ UNCHANGED <<pc, cpu, enabled, gate, picVars, ioapicVars, lapic, kbdVars>>

Next ==
    \/ Boot \/ PicInterrupt \/ LapicInterrupt \/ Handler \/ Environment
    \/ \E p \in APs : Other(p)

\* Each processor executes instructions, and this one takes interrupts that
\* are enabled; nothing is assumed of the timer and of the user.
Spec ==
    /\ Init /\ [][Next]_vars
    /\ WF_vars(Boot) /\ WF_vars(Handler)
    /\ WF_vars(PicInterrupt) /\ WF_vars(LapicInterrupt)
    /\ \A p \in APs : WF_vars(Other(p))

-----------------------------------------------------------------------------
\* The processor ends in generic_intr_handler, or runs half a descriptor, only
\* because of a line that fires while pic_remap has the master PIC open.  No
\* later step of _start, whatever is pressed, leads there: kbd_init installs
\* the handler before it unmasks the line.
HaltsOnlyInPicWindow ==
    /\ cpu \in {"start", "kbd", "eoi", "generic"}
    /\ cpu = "generic" => pc \in {"icw4_slave", "mask_master"}

\* The keyboard cannot go silent: while it holds a byte whose edge was seen,
\* the interrupt is pending, or its handler has yet to read the byte.
KeyNeverStuck == full /\ ~missed => KBD_INTR_VEC \in lapic.irr \/ cpu = "kbd"

\* Where the keyboard's line is entry KBD_IRQ of IO APIC 0, as kbd_init takes
\* for granted, no edge is missed from the end of kbd_init on, whatever other
\* IO APICs and overrides there are.
HeardWhenIdle ==
    [][/\ pc = "idle" /\ KeyPress
       /\ ioapics[0] = [present |-> TRUE, gsi_base |-> 0] /\ wired(overrides, KBD_IRQ) = KBD_IRQ
       => ~missed']_vars

\* "leave it to device startup routine to unmask": whatever the MADT overrides,
\* no entry delivers before kbd_init unmasks the keyboard's, and that one
\* delivers the keyboard's vector.
DeliversOnlyStarted ==
    \A id \in Ids, pin \in Pins :
        ~redtbl[id][pin].masked =>
            id = 0 /\ pin = KBD_IRQ /\ pc = "idle" /\ redtbl[id][pin].vector = KBD_INTR_VEC

\* A processor in smp_ap_entry has a stack that no other one was given, however
\* soon it sees its goto_address.
StacksReady ==
    \A p \in APs : ap[p] # "parked" =>
        /\ target_stack[p] # NoPage
        /\ \A other \in APs \ {p} : target_stack[other] # target_stack[p]

\* _start reaches its idle loop and every other processor that of smp_ap_entry,
\* unless a line fires in the window of the PIC, the bootloader passed no list of
\* processors, or there is no page left for a stack.
BootEnds ==
    <>(\/ pc = "idle" /\ \A p \in APs : ap[p] = "hlt"
       \/ cpu = "generic" /\ pic["master"] = "open"
       \/ pc = "panic" /\ (n = 0 \/ pages = {}))

\* A byte whose edge was seen is read.
KeysRead == full /\ ~missed ~> ~full
==============================================================================
