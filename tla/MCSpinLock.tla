----------------------------- MODULE MCSpinLock ------------------------------
EXTENDS SpinLock

CONSTANTS t1, t2

MCThreads == {t1, t2}
=============================================================================
