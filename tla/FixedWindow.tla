----------------------------- MODULE FixedWindow -----------------------------
(* What internal/ratelimit promises for one key: at most Limit calls are   *)
(* allowed while a window of Window clock ticks is open.  A window opens    *)
(* with a call and closes by itself; a caller may clear it.                 *)
EXTENDS Naturals

CONSTANTS Limit, Window

VARIABLES used,   \* calls allowed in the open window, 0 if none is open
          age     \* ticks since it opened

windowVars == <<used, age>>

Init == used = 0 /\ age = 0

Allow == /\ used < Limit
         /\ used' = used + 1
         /\ age' = age

Clear == used' = 0 /\ age' = 0

\* Time passes: an open window ages, and closes after its last tick.
Age == /\ used > 0 /\ age < Window
       /\ age' = age + 1
       /\ used' = used

Close == /\ used > 0 /\ age = Window
         /\ used' = 0 /\ age' = 0

Next == Allow \/ Clear \/ Age \/ Close

Spec == Init /\ [][Next]_windowVars
=============================================================================
