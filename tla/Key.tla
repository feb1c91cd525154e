---------------------------------- MODULE Key ----------------------------------
(***************************************************************************)
(* driver/key.c: one key on a GPIO pin (1 is up), its interrupt handler    *)
(* and its two timers.  The pin may move between any two of their steps;   *)
(* an edge is latched only while the pin's interrupt type asks for it.     *)
(* Keys share the handler and nothing else: it serves each on its own bit. *)
(***************************************************************************)
EXTENDS Integers

CONSTANTS
  Debounce,   \* 50 ms, in ticks
  LongPress   \* 5 s, in ticks

ASSUME KeyOK == Debounce \in Nat \ {0} /\ LongPress \in Nat /\ LongPress > Debounce

VARIABLES
  pin,        \* GPIO_INPUT_GET
  edge,       \* the pin's interrupt type: "off", "neg" or "pos"
  latch,      \* its bit of GPIO_STATUS
  keyLevel,   \* key_level
  key50ms,    \* ticks to go of key_50ms
  key5s,      \* ticks to go of key_5s
  at,         \* where the code is: "idle", "handler" or "read" (key_50ms_cb)
  seen,       \* the level key_50ms_cb has read
  told,       \* the function of the application just called
  fell,       \* ghost: has the key been down since short_press was last called?
  again,      \* ghost: had it not been, at the last call?
  blind,      \* ghost: has an edge come while the driver changed what it waits for?
  upFor,      \* ghost: how long the key has been up
  held        \* ghost: how long since it was last up for more than 50 ms

keyTimes == <<upFor, held>>
keyGhosts == <<keyTimes, fell, again>>
keyVars == <<pin, edge, latch, keyLevel, key50ms, key5s, at, seen, told, blind, keyGhosts>>

Unarmed == -1

\* key_init, of a key that is up or down, after key_init_single.
KeyInit ==
  /\ pin \in {0, 1}
  /\ edge = "neg" /\ latch = FALSE /\ keyLevel = 1
  /\ key50ms = Unarmed /\ key5s = Unarmed
  /\ at = "idle" /\ seen = 1 /\ told = "none"
  /\ blind = (pin = 0) /\ fell = (pin = 0) /\ again = FALSE
  /\ upFor = 0 /\ held = 0

----------------------------------------------------------------------------
\* The key is pressed, released or bounces.
PinMoves ==
  /\ pin' = 1 - pin
  /\ latch' = (latch \/ edge = (IF pin = 1 THEN "neg" ELSE "pos"))
  /\ fell' = (fell \/ pin' = 0)
  /\ upFor' = 0 /\ told' = "none"
  /\ UNCHANGED <<edge, keyLevel, key50ms, key5s, at, seen, again, blind, held>>

\* Time passes when nothing is due.
KeyTick ==
  /\ at = "idle" /\ ~latch /\ 0 \notin {key50ms, key5s}
  /\ LET down(t) == IF t = Unarmed THEN t ELSE t - 1
     IN  key50ms' = down(key50ms) /\ key5s' = down(key5s)
  /\ upFor' = IF pin = 1 /\ upFor <= Debounce THEN upFor + 1 ELSE upFor
  /\ held' = IF upFor' > Debounce THEN 0 ELSE IF held < LongPress THEN held + 1 ELSE held
  /\ told' = "none"
  /\ UNCHANGED <<pin, edge, latch, keyLevel, at, seen, fell, again, blind>>

\* key_intr_handler: the pin's interrupt is disabled and its status cleared,
HandlerBegin ==
  /\ at = "idle" /\ latch
  /\ at' = "handler" /\ edge' = "off" /\ latch' = FALSE /\ told' = "none"
  /\ UNCHANGED <<pin, keyLevel, key50ms, key5s, seen, blind, keyGhosts>>

\* then a press starts the long timer and a release the short one.
HandlerEnd ==
  /\ at = "handler" /\ at' = "idle" /\ told' = "none"
  /\ IF keyLevel = 1
     THEN /\ key5s' = LongPress /\ keyLevel' = 0 /\ edge' = "pos" /\ blind' = (pin = 1)
          /\ UNCHANGED key50ms
     ELSE key50ms' = Debounce /\ UNCHANGED <<key5s, keyLevel, edge, blind>>
  /\ UNCHANGED <<pin, latch, seen, keyGhosts>>

\* key_50ms_cb reads the pin,
key_50ms_cb ==
  /\ at = "idle" /\ key50ms = 0
  /\ at' = "read" /\ seen' = pin /\ key50ms' = Unarmed /\ told' = "none"
  /\ UNCHANGED <<pin, edge, latch, keyLevel, key5s, blind, keyGhosts>>

\* Mutant of Cb50End: the long timer runs on.
Cb50EndKeeps5s ==
  /\ at = "read" /\ at' = "idle"
  /\ IF seen = 1
     THEN keyLevel' = 1 /\ edge' = "neg" /\ told' = "short" /\ fell' = (pin = 0) /\ again' = ~fell
     ELSE edge' = "pos" /\ told' = "none" /\ UNCHANGED <<keyLevel, fell, again>>
  /\ blind' = (pin # seen \/ (seen = 0 /\ blind))
  /\ UNCHANGED <<pin, latch, key50ms, key5s, seen, keyTimes>>

\* and believes what it has read.
Cb50End ==
  /\ at = "read" /\ at' = "idle"
  /\ IF seen = 1
     THEN /\ key5s' = Unarmed /\ keyLevel' = 1 /\ edge' = "neg"
          /\ told' = "short" /\ fell' = (pin = 0) /\ again' = ~fell
     ELSE edge' = "pos" /\ told' = "none" /\ UNCHANGED <<key5s, keyLevel, fell, again>>
  /\ blind' = (pin # seen \/ (seen = 0 /\ blind))
  /\ UNCHANGED <<pin, latch, key50ms, seen, keyTimes>>

key_5s_cb ==
  /\ at = "idle" /\ key5s = 0 /\ key5s' = Unarmed
  /\ told' = IF pin = 0 THEN "long" ELSE "none"
  /\ UNCHANGED <<pin, edge, latch, keyLevel, key50ms, at, seen, blind, keyGhosts>>

KeyNext ==
  \/ PinMoves \/ KeyTick \/ HandlerBegin \/ HandlerEnd
  \/ key_50ms_cb \/ Cb50End \/ key_5s_cb

KeySpec == KeyInit /\ [][KeyNext]_keyVars

----------------------------------------------------------------------------
KeySettled == at = "idle" /\ ~latch /\ key50ms = Unarmed

(* key_intr_handler and the timer callbacks, with bounces and interrupts     *)
(* between all their steps: once things settle key_level is the key's level  *)
(* and the next edge is waited for; long_press is told only of a key that    *)
(* was not up for more than 50 ms within the last 5 s, and short_press only  *)
(* once for each time it was down.  What upsets the first two is an edge in  *)
(* the moment in which the driver changes what it waits for (blind): it then *)
(* holds a released key for pressed, or a pressed one for released, up to    *)
(* the next release.                                                         *)
KeyHonest ==
  /\ KeySettled /\ ~blind =>
       keyLevel = pin /\ edge = (IF pin = 1 THEN "neg" ELSE "pos")
  /\ told = "long" /\ ~blind => held >= LongPress
  /\ ~again
=============================================================================
