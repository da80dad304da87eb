SPECIFICATION Spec
CONSTANTS
    NoThread = NoThread
    Threads = {t1, t2}
    MaxArgument = 3
INVARIANTS
    ResultIsTheFactorial
