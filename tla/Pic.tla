-------------------------------- MODULE Pic ---------------------------------
(***************************************************************************)
(* Hardware interrupts: how kmain sets up the pair of interrupt            *)
(* controllers (hal/pic.c) and the handlers of its devices, and how an     *)
(* interrupt goes through isr_dispatch and irq_dispatch (cpu/isr.c,        *)
(* cpu/irq.c) to its handler and back to the controllers.                  *)
(*                                                                         *)
(* The controllers are modelled by what the code relies on.  A line that   *)
(* is raised stays requested; a request that is not masked is delivered if *)
(* nothing as urgent is in service; a line is in service until an EOI,     *)
(* which takes off the most urgent one.  The second controller is          *)
(* connected to line 2 of the first.  A line that falls again too early    *)
(* gives a spurious interrupt, of line 7 or 15, that is not in service.    *)
(* What a handler does, and the switch to another task after it, are in    *)
(* Scheduler and Terminal; handlers leave interrupts off.                  *)
(***************************************************************************)
EXTENDS Naturals

TIMER == 0
KEYBOARD == 1
CASCADE == 2
MOUSE == 12
IRQ_BASE_VECTOR == 32
IRQ_COUNT == 16

Lines == 0..(IRQ_COUNT - 1)

(* There may be a device at every line but the one that connects the       *)
(* controllers.                                                            *)
Devices == Lines \ {CASCADE}

VARIABLES
    boot,               \* how far kmain has got
    irq_handlers,       \* lines with a handler
    masked,             \* the mask registers of both controllers
    offset,             \* vectors of the first lines of both
    requested, inService,
    IF_,                \* the interrupt flag of the CPU
    section,            \* whether a task is between interrupt_save and _restore
    line, at,           \* the interrupt that is dispatched, and how far it is
    vector

pvars == <<boot, irq_handlers, masked, offset, requested, inService, IF_, section,
          line, at, vector>>

Slave(l) == l >= 8
None == IRQ_COUNT

PicInit ==
    /\ boot = "irq_init"
    /\ irq_handlers = {}
    /\ masked \in SUBSET Lines
    /\ offset = <<8, 112>>
    /\ requested = {} /\ inService = {}
    /\ IF_ = FALSE /\ section = FALSE
    /\ line = None /\ at = "task" /\ vector = 0

-----------------------------------------------------------------------------
(* The controllers *)

(* The most urgent first: 0, 1, those of the second controller, 3 to 7.    *)
Urgency(l) ==
    IF Slave(l) THEN IRQ_COUNT * CASCADE + l ELSE IRQ_COUNT * l
Most(S) == CHOOSE l \in S : \A k \in S : Urgency(l) <= Urgency(k)

(* How a line is seen on the first controller.                             *)
Master(l) == IF Slave(l) THEN CASCADE ELSE l

(* Whether nothing in service holds the line back.                         *)
Free(l) == \A k \in inService : Urgency(Master(l)) < Urgency(Master(k))

Deliverable == {l \in requested : l \notin masked /\ Master(l) \notin masked /\ Free(l)}

Raise(l) ==
    /\ requested' = requested \cup {l}
    /\ UNCHANGED <<boot, irq_handlers, masked, offset, inService, IF_, section, line, at, vector>>

(* The CPU takes an interrupt: through an interrupt gate, so that others   *)
(* stay off.                                                               *)
Take(l) ==
    /\ IF_
    /\ IF_' = FALSE
    /\ line' = l
    /\ vector' = IF Slave(l) THEN offset[2] + l - 8 ELSE offset[1] + l
    /\ at' = "isr_dispatch"
    /\ UNCHANGED <<boot, irq_handlers, masked, offset, section>>

Deliver(l) ==
    /\ l \in Deliverable
    /\ \A k \in Deliverable : Urgency(l) <= Urgency(k)
    /\ Take(l)
    /\ requested' = requested \ {l}
    /\ inService' = inService \cup {l, Master(l)}

(* For the first controller the second one did ask.                        *)
Spurious ==
    \/ /\ Take(7)
       /\ UNCHANGED <<requested, inService>>
    \/ /\ CASCADE \notin masked /\ Free(15)
       /\ Take(15)
       /\ inService' = inService \cup {CASCADE}
       /\ UNCHANGED requested

(* An EOI to the first or the second controller.                           *)
Eoi(slave) ==
    LET own == {l \in inService : Slave(l) <=> slave}
    IN  inService' = IF own = {} THEN inService ELSE inService \ {Most(own)}

-----------------------------------------------------------------------------
(* kmain *)

irq_init ==
    /\ boot = "irq_init"
    /\ irq_handlers' = {}
    /\ boot' = "pic_remap"
    /\ UNCHANGED <<masked, offset, requested, inService, IF_, section, line, at, vector>>

Remapped == <<IRQ_BASE_VECTOR, IRQ_BASE_VECTOR + 8>>

(* ICW1 forgets what was requested and in service; the masks are put back. *)
pic_remap ==
    /\ boot = "pic_remap"
    /\ offset' = Remapped
    /\ requested' = {} /\ inService' = {}
    /\ boot' = "pic_mask_all"
    /\ UNCHANGED <<irq_handlers, masked, IF_, section, line, at, vector>>

AllMasked == Lines

pic_mask_all ==
    /\ boot = "pic_mask_all"
    /\ masked' = AllMasked
    /\ boot' = "pit_init"
    /\ UNCHANGED <<irq_handlers, offset, requested, inService, IF_, section, line, at, vector>>

(* irq_register_handler and pic_unmask_irq of a device's init function.    *)
Install(l, unmasked, next) ==
    /\ irq_handlers' = irq_handlers \cup {l}
    /\ masked' = masked \ unmasked
    /\ boot' = next
    /\ UNCHANGED <<offset, requested, inService, IF_, section, line, at, vector>>

TimerLines == {TIMER}

pit_init == boot = "pit_init" /\ Install(TIMER, TimerLines, "keyboard_init")

keyboard_init == boot = "keyboard_init" /\ Install(KEYBOARD, {KEYBOARD}, "mouse_init")

MouseLines == {MOUSE, CASCADE}

mouse_init == boot = "mouse_init" /\ Install(MOUSE, MouseLines, "sti")

sti ==
    /\ boot = "sti"
    /\ IF_' = TRUE
    /\ boot' = "run"
    /\ UNCHANGED <<irq_handlers, masked, offset, requested, inService, section, line, at, vector>>

Boot ==
    irq_init \/ pic_remap \/ pic_mask_all \/ pit_init \/ keyboard_init \/ mouse_init \/ sti

-----------------------------------------------------------------------------
(* Tasks, and interrupts *)

interrupt_save ==
    /\ boot = "run" /\ at = "task" /\ ~section
    /\ IF_' = FALSE /\ section' = TRUE
    /\ UNCHANGED <<boot, irq_handlers, masked, offset, requested, inService, line, at, vector>>

interrupt_restore ==
    /\ section
    /\ IF_' = TRUE /\ section' = FALSE
    /\ UNCHANGED <<boot, irq_handlers, masked, offset, requested, inService, line, at, vector>>

(* A vector below 32 is an exception, and kernel_panic halts; one past the *)
(* lines is dropped, without an EOI.                                       *)
isr_dispatch ==
    /\ at = "isr_dispatch"
    /\ at' = IF vector < IRQ_BASE_VECTOR THEN "panic"
             ELSE IF vector >= IRQ_BASE_VECTOR + IRQ_COUNT THEN "iret"
             ELSE "irq_dispatch"
    /\ line' = vector - IRQ_BASE_VECTOR
    /\ UNCHANGED <<boot, irq_handlers, masked, offset, requested, inService, IF_, section, vector>>

(* The handler, if there is one, and the first half of pic_send_eoi.       *)
irq_dispatch ==
    /\ at = "irq_dispatch"
    /\ at' = "eoi"
    /\ IF Slave(line) THEN Eoi(TRUE) ELSE UNCHANGED inService
    /\ UNCHANGED <<boot, irq_handlers, masked, offset, requested, IF_, section, line, vector>>

MasterEoi == Eoi(FALSE)

pic_send_eoi ==
    /\ at = "eoi"
    /\ MasterEoi
    /\ at' = "iret"
    /\ UNCHANGED <<boot, irq_handlers, masked, offset, requested, IF_, section, line, vector>>

iretq ==
    /\ at = "iret"
    /\ at' = "task" /\ line' = None /\ vector' = 0
    /\ IF_' = TRUE
    /\ UNCHANGED <<boot, irq_handlers, masked, offset, requested, inService, section>>

Interrupt == isr_dispatch \/ irq_dispatch \/ pic_send_eoi \/ iretq

PicNext ==
    \/ Boot
    \/ \E l \in Devices : Raise(l)
    \/ \E l \in Devices : Deliver(l)
    \/ Spurious
    \/ interrupt_save \/ interrupt_restore
    \/ Interrupt

PicSpec == PicInit /\ [][PicNext]_pvars

-----------------------------------------------------------------------------
(* Properties *)

(* Every variable has its type.                                            *)
PTypeOK ==
    /\ irq_handlers \subseteq Lines /\ masked \subseteq Lines
    /\ requested \subseteq Devices /\ inService \subseteq Lines
    /\ IF_ \in BOOLEAN /\ section \in BOOLEAN
    /\ line \in 0..None /\ vector \in Nat
    /\ at \in {"task", "isr_dispatch", "irq_dispatch", "eoi", "iret", "panic"}

(* When a task runs nothing is in service, on neither controller: the EOIs *)
(* of irq_dispatch take off what its own interrupt put on and no more,     *)
(* also for spurious interrupts, so no line is ever held back for good.    *)
ServiceEnds == boot = "run" /\ at = "task" => inService = {}

(* A device's interrupt finds its handler, none comes from a line without  *)
(* one, and none is taken for an exception: nothing that firmware left     *)
(* unmasked comes through when kmain enables interrupts.                   *)
Prepared ==
    /\ at # "panic"
    /\ at \in {"irq_dispatch", "eoi"} /\ line \notin {7, 15} => line \in irq_handlers
=============================================================================
