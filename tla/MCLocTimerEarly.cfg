SPECIFICATION TimerSpec
CONSTANTS
    Timer = {t1, t2}
    Delay = {1, 2}
    MaxStarts = 3
    MaxTime = 3
INVARIANTS NeverEarly
CHECK_DEADLOCK FALSE
