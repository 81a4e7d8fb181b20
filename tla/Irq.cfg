CONSTANTS
    Task = {t1, t2, t3}
    Line = {0, 1, 8, 12}
    Handled = {0, 1}
    Garbage = {0, 40, 255}
SPECIFICATION Spec
INVARIANT AllEnded
PROPERTY TimerServed
