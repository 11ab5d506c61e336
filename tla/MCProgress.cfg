SPECIFICATION Spec
CONSTANTS
    t1 = t1
    t2 = t2
    r1 = r1
    ca = ca
    none = none
    foreign = foreign
    va = va
    vb = vb
PROPERTY HeldIsGivenBack
PROPERTY WorkIsFinished
CHECK_DEADLOCK FALSE
