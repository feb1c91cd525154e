\* Violated: nobody interrupts the thread that sleeps.
SPECIFICATION Spec
CONSTANTS
  Devices = {d1, d2}
  MaxSelected = 1
CHECK_DEADLOCK FALSE
INVARIANTS InterruptEndsWait
