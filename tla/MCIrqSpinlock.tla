---------------------------- MODULE MCIrqSpinlock ----------------------------
(* One irq_spinlock_t and a few tasks for TLC.                             *)
EXTENDS IrqSpinlock
=============================================================================
