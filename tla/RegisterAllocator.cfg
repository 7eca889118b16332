SPECIFICATION Spec
CONSTANTS
    Temp = {t1, t2, t3, t4, t5}
    NoReg = NoReg
INVARIANT IInv
PROPERTY AllocatesSlots
