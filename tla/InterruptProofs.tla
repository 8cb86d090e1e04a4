-------------------------- MODULE InterruptProofs ---------------------------
(***************************************************************************)
(* Proofs about interrupts: IrqSpinlock, for any number of tasks, and Pic, *)
(* for devices at any line and any masks left by firmware.                 *)
(***************************************************************************)
EXTENDS IrqSpinlock, Pic, TLAPS

(* The lock as irq_spinlock_init leaves it satisfies the invariant.        *)
LEMMA InitEstablishes == Init => IInv
  <1> SUFFICES ASSUME Init PROVE IInv
    OBVIOUS
  <1>1. \A t \in Tasks : pc[t] = "out" /\ IF_flag[t] = TRUE
    BY DEF Init
  <1>2. TypeOK
    <2>1. pc \in [Tasks -> Labels]
      BY DEF Init, Labels
    <2>2. IF_flag \in [Tasks -> BOOLEAN] /\ rax \in [Tasks -> BOOLEAN]
      BY Zenon DEF Init
    <2>3. QED BY <2>1, <2>2 DEF Init, TypeOK
  <1>3. SectionAtomic
    BY <1>1 DEF SectionAtomic
  <1>4. QED BY <1>1, <1>2, <1>3 DEF Init, IInv

(* Every instruction of irq_spin_lock and irq_spin_unlock, and every task  *)
(* switch, keeps the invariant.                                            *)
LEMMA NextPreserves == IInv /\ [Next]_vars => IInv'
  <1> SUFFICES ASSUME IInv, [Next]_vars PROVE IInv'
    OBVIOUS
  <1> USE DEF IInv, TypeOK, SectionAtomic, Labels, Goto
  <1>1. CASE cpu_interrupts_enabled
    BY <1>1 DEF cpu_interrupts_enabled
  <1>2. CASE store_irq_was_enabled
    BY <1>2 DEF store_irq_was_enabled
  <1>3. CASE cpu_cli
    BY <1>3 DEF cpu_cli
  <1>4. CASE spin_lock
    BY <1>4 DEF spin_lock
  <1>5. CASE spin_unlock
    BY <1>5 DEF spin_unlock
  <1>6. CASE restore_interrupts
    BY <1>6 DEF restore_interrupts
  <1>7. ASSUME NEW t \in Tasks, preempt(t) PROVE IInv'
    BY <1>7 DEF preempt
  <1>8. CASE UNCHANGED vars
    BY <1>8 DEF vars
  <1>9. QED
    BY <1>1, <1>2, <1>3, <1>4, <1>5, <1>6, <1>7, <1>8 DEF Next

(* The invariant holds in every reachable state.                           *)
THEOREM Invariance == Spec => []IInv
  BY InitEstablishes, NextPreserves, PTL DEF Spec

(* The code between irq_spin_lock and irq_spin_unlock is atomic.           *)
THEOREM SectionAtomicCorrect == Spec => []SectionAtomic
  <1>1. IInv => SectionAtomic
    BY DEF IInv
  <1>2. QED BY <1>1, Invariance, PTL

(* The exchange of spin_lock always finds the lock open.                   *)
THEOREM NeverSpinsCorrect == Spec => []NeverSpins
  <1>1. IInv => NeverSpins
    BY DEF IInv, TypeOK, NeverSpins
  <1>2. QED BY <1>1, Invariance, PTL

(* irq_spin_unlock gives every caller its interrupt flag back.             *)
THEOREM InterruptsRestoredCorrect == Spec => []InterruptsRestored
  <1>1. IInv => InterruptsRestored
    BY DEF IInv, InterruptsRestored
  <1>2. QED BY <1>1, Invariance, PTL

-----------------------------------------------------------------------------
(* The controllers, module Pic *)

(* kmain's order: interrupts come on last, with the vectors remapped, and  *)
(* what is unmasked by then has a handler.                                 *)
BootOrder ==
    /\ boot \in {"irq_init", "pic_remap", "pic_mask_all", "pit_init", "keyboard_init",
                 "mouse_init", "sti", "run"}
    /\ boot # "run" => ~IF_ /\ ~section /\ at = "task"
    /\ IF_ \/ section => at = "task"
    /\ section => ~IF_
    /\ boot \notin {"irq_init", "pic_remap"} => offset = Remapped
    /\ boot \in {"pit_init", "keyboard_init", "mouse_init", "sti", "run"} =>
         Lines \ masked \subseteq irq_handlers \cup {CASCADE}

(* What is in service belongs to the interrupt that is dispatched, less    *)
(* the EOIs it has sent.                                                   *)
OwnService ==
    /\ at \in {"task", "iret"} => inService = {}
    /\ at \in {"isr_dispatch", "irq_dispatch"} => inService \subseteq {line, Master(line)}
    /\ at = "eoi" => inService \subseteq {Master(line)}

(* The interrupt that is dispatched is that of a line with a handler, or   *)
(* spurious, and has the vector of its line.                               *)
KnownLine ==
    /\ at # "task" => boot = "run"
    /\ at # "panic"
    /\ at = "isr_dispatch" => vector = IRQ_BASE_VECTOR + line
    /\ at \in {"isr_dispatch", "irq_dispatch", "eoi"} =>
         line \in Lines /\ (line \notin {7, 15} => line \in irq_handlers)

PicInv == PTypeOK /\ BootOrder /\ OwnService /\ KnownLine

(* The lines the kernel uses are lines, with devices where it has handlers.*)
LEMMA LineFacts ==
    /\ {TIMER, KEYBOARD, CASCADE, MOUSE, 7, 15} \subseteq Lines
    /\ Lines \subseteq 0..(IRQ_COUNT - 1)
    /\ {TIMER, KEYBOARD, MOUSE} \subseteq Devices /\ Devices \subseteq Lines \ {CASCADE}
  BY DEF Lines, Devices, TIMER, KEYBOARD, CASCADE, MOUSE, IRQ_COUNT

USE LineFacts DEF TIMER, KEYBOARD, CASCADE, MOUSE, IRQ_BASE_VECTOR, IRQ_COUNT, None

(* An EOI to a controller with one line in service ends that service.      *)
LEMMA EoiFacts ==
    ASSUME NEW slave \in BOOLEAN, Eoi(slave), NEW l, l \in Nat,
           {k \in inService : Slave(k) <=> slave} \subseteq {l}
    PROVE  inService' = inService \ {k \in inService : Slave(k) <=> slave}
  <1> DEFINE own == {k \in inService : Slave(k) <=> slave}
  <1>1. inService' = IF own = {} THEN inService ELSE inService \ {Most(own)}
    BY DEF Eoi
  <1>2. CASE own = {}
    BY <1>1, <1>2
  <1>3. CASE own # {}
    <2>1. own = {l}
      BY <1>3
    <2>2. Most({l}) = l
      BY DEF Most, Urgency, Slave
    <2>3. QED BY <1>1, <1>3, <2>1, <2>2
  <1>4. QED BY <1>2, <1>3

(* A step of kmain.                                                        *)
LEMMA BootPreserves == PicInv /\ Boot => PicInv'
  <1> SUFFICES ASSUME PicInv, Boot PROVE PicInv'
    OBVIOUS
  <1> USE DEF PicInv, PTypeOK, BootOrder, OwnService, KnownLine, Master, Slave
  <1>1. CASE irq_init BY <1>1 DEF irq_init
  <1>2. CASE pic_remap BY <1>2 DEF pic_remap, Remapped
  <1>3. CASE pic_mask_all BY <1>3 DEF pic_mask_all, AllMasked
  <1>4. CASE pit_init BY <1>4 DEF pit_init, Install, TimerLines
  <1>5. CASE keyboard_init BY <1>5 DEF keyboard_init, Install
  <1>6. CASE mouse_init BY <1>6 DEF mouse_init, Install, MouseLines
  <1>7. CASE sti BY <1>7 DEF sti
  <1>8. QED BY <1>1, <1>2, <1>3, <1>4, <1>5, <1>6, <1>7 DEF Boot

(* Taking an interrupt, and its way through irq_dispatch.                  *)
LEMMA InterruptPreserves ==
    ASSUME PicInv, Interrupt \/ Spurious \/ \E l \in Devices : Deliver(l)
    PROVE  PicInv'
  <1>1. ASSUME NEW l \in Devices, Deliver(l) PROVE PicInv'
    <2>1. l \in Deliverable
      BY <1>1 DEF Deliver
    <2>2. /\ IF_ /\ boot = "run" /\ at = "task"
          /\ inService = {} /\ l \in Lines \ {CASCADE} /\ l \notin masked
      BY <1>1, <2>1 DEF PicInv, BootOrder, OwnService, KnownLine, PTypeOK, Deliver, Take, Deliverable
    <2>3. /\ vector' = IRQ_BASE_VECTOR + l /\ line' = l /\ at' = "isr_dispatch"
          /\ inService' = {l, Master(l)} /\ l \in irq_handlers /\ Master(l) \in Lines
      BY <1>1, <2>2 DEF PicInv, BootOrder, PTypeOK, Deliver, Take, Master, Slave, Remapped
    <2>4. PTypeOK'
      <3>1. IF_' \in BOOLEAN /\ section' \in BOOLEAN
        BY <1>1, Zenon DEF PicInv, PTypeOK, Deliver, Take
      <3>2. QED BY <1>1, <2>2, <2>3, <3>1 DEF PicInv, PTypeOK, Deliver, Take
    <2>5. BootOrder'
      BY <1>1, <2>2 DEF PicInv, BootOrder, PTypeOK, Deliver, Take
    <2>6. OwnService'
      BY <2>3 DEF OwnService, Master
    <2>7. KnownLine'
      BY <1>1, <2>2, <2>3 DEF PicInv, KnownLine, Deliver, Take
    <2>8. QED BY <2>4, <2>5, <2>6, <2>7 DEF PicInv
  <1>2. CASE Spurious
    <2>1. PICK l \in {7, 15} : Take(l)
      BY <1>2 DEF Spurious
    <2>2. IF_ /\ boot = "run" /\ at = "task" /\ inService = {} /\ l \in Lines
      BY <2>1 DEF PicInv, BootOrder, OwnService, PTypeOK, Take
    <2>3. vector' = IRQ_BASE_VECTOR + l /\ line' = l /\ at' = "isr_dispatch"
      BY <2>1, <2>2 DEF PicInv, BootOrder, Take, Slave, Remapped
    <2>4. inService' \subseteq {l, Master(l)} /\ inService' \subseteq Lines
      BY <1>2, <2>1, <2>2, <2>3 DEF Spurious, Take, Master, Slave
    <2>5. PTypeOK'
      <3>1. IF_' \in BOOLEAN /\ section' \in BOOLEAN
        BY <2>1, Zenon DEF PicInv, PTypeOK, Take
      <3>2. requested' = requested
        BY <1>2 DEF Spurious
      <3>3. QED BY <2>1, <2>2, <2>3, <2>4, <3>1, <3>2 DEF PicInv, PTypeOK, Take
    <2>6. BootOrder'
      BY <2>1, <2>2 DEF PicInv, BootOrder, PTypeOK, Take
    <2>7. OwnService'
      BY <2>3, <2>4 DEF OwnService, Master
    <2>8. KnownLine'
      BY <2>1, <2>2, <2>3 DEF PicInv, KnownLine, Take
    <2>9. QED BY <2>5, <2>6, <2>7, <2>8 DEF PicInv
  <1>3. CASE isr_dispatch
    BY <1>3 DEF PicInv, BootOrder, OwnService, KnownLine, PTypeOK, isr_dispatch, Master, Slave
  <1>4. CASE irq_dispatch
    <2>1. /\ line \in Nat /\ inService \subseteq {line, Master(line)} /\ line \in Lines
          /\ inService \subseteq Nat
      BY <1>4 DEF PicInv, OwnService, KnownLine, PTypeOK, irq_dispatch
    <2>2. inService' \subseteq inService /\ inService' \subseteq {Master(line)}
      <3>1. CASE Slave(line)
        <4>1. {k \in inService : Slave(k) <=> TRUE} \subseteq {line}
          <5>1. Master(line) = 2 /\ ~Slave(2)
            BY <3>1 DEF Slave, Master
          <5>2. QED BY <2>1, <5>1
        <4>2. inService' = inService \ {k \in inService : Slave(k) <=> TRUE}
          BY <1>4, <2>1, <3>1, <4>1, EoiFacts DEF irq_dispatch
        <4>3. QED BY <2>1, <3>1, <4>2 DEF Slave, Master
      <3>2. CASE ~Slave(line)
        BY <1>4, <2>1, <3>2 DEF irq_dispatch, Slave, Master
      <3>3. QED BY <3>1, <3>2
    <2>3. QED BY <1>4, <2>2 DEF PicInv, BootOrder, OwnService, KnownLine, PTypeOK, irq_dispatch, Master
  <1>5. CASE pic_send_eoi
    <2>1. inService \subseteq {Master(line)} /\ line \in Lines /\ Master(line) \in Nat
      BY <1>5 DEF PicInv, OwnService, KnownLine, PTypeOK, pic_send_eoi, Master
    <2>2. {k \in inService : Slave(k) <=> FALSE} = inService
      <3>1. ~Slave(Master(line))
        BY <2>1 DEF Slave, Master
      <3>2. QED BY <2>1, <3>1
    <2>3. inService' = {}
      BY <1>5, <2>1, <2>2, EoiFacts DEF pic_send_eoi, MasterEoi
    <2>4. QED BY <1>5, <2>3 DEF PicInv, BootOrder, OwnService, KnownLine, PTypeOK, pic_send_eoi
  <1>6. CASE iretq
    BY <1>6 DEF PicInv, BootOrder, OwnService, KnownLine, PTypeOK, iretq
  <1>7. QED BY <1>1, <1>2, <1>3, <1>4, <1>5, <1>6 DEF Interrupt

(* Every step of the specification.                                        *)
LEMMA PicPreserves == PicInv /\ [PicNext]_pvars => PicInv'
  <1> SUFFICES ASSUME PicInv, [PicNext]_pvars PROVE PicInv'
    OBVIOUS
  <1>1. CASE Boot
    BY <1>1, BootPreserves
  <1>2. ASSUME NEW l \in Devices, Raise(l) PROVE PicInv'
    BY <1>2 DEF PicInv, BootOrder, OwnService, KnownLine, PTypeOK, Raise, Master
  <1>3. CASE interrupt_save
    BY <1>3 DEF PicInv, BootOrder, OwnService, KnownLine, PTypeOK, interrupt_save, Master
  <1>4. CASE interrupt_restore
    BY <1>4 DEF PicInv, BootOrder, OwnService, KnownLine, PTypeOK, interrupt_restore, Master
  <1>5. CASE Interrupt \/ Spurious \/ \E l \in Devices : Deliver(l)
    BY <1>5, InterruptPreserves
  <1>6. CASE UNCHANGED pvars
    BY <1>6 DEF PicInv, BootOrder, OwnService, KnownLine, PTypeOK, pvars, Master
  <1>7. QED BY <1>1, <1>2, <1>3, <1>4, <1>5, <1>6 DEF PicNext

(* kmain's order and the bookkeeping of the controllers hold throughout.   *)
THEOREM PicInvariance == PicSpec => []PicInv
  <1>1. PicInit => PicInv
    <2> SUFFICES ASSUME PicInit PROVE PicInv
      OBVIOUS
    <2>0. IF_ \in BOOLEAN /\ section \in BOOLEAN
      BY Zenon DEF PicInit
    <2>1. PTypeOK
      BY <2>0 DEF PicInit, PTypeOK
    <2>2. BootOrder
      BY DEF PicInit, BootOrder
    <2>3. OwnService /\ KnownLine
      BY DEF PicInit, OwnService, KnownLine
    <2>4. QED BY <2>1, <2>2, <2>3 DEF PicInv
  <1>2. QED BY <1>1, PicPreserves, PTL DEF PicSpec

(* Type correctness.                                                       *)
THEOREM PicTypeCorrect == PicSpec => []PTypeOK
  <1>1. PicInv => PTypeOK
    BY DEF PicInv
  <1>2. QED BY <1>1, PicInvariance, PTL

(* No line is in service when a task runs: the EOIs of irq_dispatch match  *)
(* the interrupts, spurious ones included.                                 *)
THEOREM ServiceEndsCorrect == PicSpec => []ServiceEnds
  <1>1. PicInv => ServiceEnds
    BY DEF PicInv, OwnService, ServiceEnds
  <1>2. QED BY <1>1, PicInvariance, PTL

(* Every device interrupt finds its handler, whatever firmware unmasked.   *)
THEOREM PreparedCorrect == PicSpec => []Prepared
  <1>1. PicInv => Prepared
    BY DEF PicInv, KnownLine, Prepared
  <1>2. QED BY <1>1, PicInvariance, PTL
=============================================================================
