CONSTANT Tasks = {t1, t2, t3, t4}
SPECIFICATION Spec
INVARIANTS
    SectionAtomic
    NeverSpins
    InterruptsRestored
