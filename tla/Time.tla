-------------------------------- MODULE Time --------------------------------
(***************************************************************************)
(* The millisecond clock of the library (hal/utils/time.c, time.h): the    *)
(* handler of timer 2 counts gTimeCounter, which the program compares      *)
(* modulo its width.  A tick is an update of the timer that was handled.   *)
(***************************************************************************)
EXTENDS Integers

CONSTANTS M,           \* 2^32, the range of a uint32_t; even
          Delays,      \* what the program passes to time_set_timeout_ms
          MaxTicks,    \* bound on the ticks
          MaxInits     \* bound on the calls of time_init

ASSUME TimeAssumption ==
    /\ M \in Nat \ {0} /\ M % 2 = 0
    /\ Delays \subseteq 0..(M - 1)
    /\ MaxTicks \in Nat /\ MaxInits \in Nat

VARIABLES gTimeCounter,
          tim2,        \* the timer and its interrupt are enabled
          timeout,     \* the value time_set_timeout_ms returned last
          delay,       \* history: its argument
          set_at,      \* history: the tick of the call, or Void
          now,         \* history: the ticks so far
          inits        \* history: the calls of time_init

timeVars == <<gTimeCounter, tim2, timeout, delay, set_at, now, inits>>

Void == -1
INT32_MAX == (M \div 2) - 1

TIM2_IRQHandler ==
    /\ tim2 /\ now < MaxTicks
    /\ gTimeCounter' = (gTimeCounter + 1) % M
    /\ now' = now + 1
    /\ UNCHANGED <<tim2, timeout, delay, set_at, inits>>

time_suspend == tim2 /\ tim2' = FALSE

time_resume == inits > 0 /\ ~tim2 /\ tim2' = TRUE

(* The clock starts again at 0: what was read of it before is void.        *)
time_init ==
    /\ inits < MaxInits /\ inits' = inits + 1
    /\ gTimeCounter' = 0 /\ tim2' = TRUE /\ set_at' = Void
    /\ UNCHANGED <<timeout, delay, now>>

time_set_timeout_ms(ms) ==
    /\ timeout' = (gTimeCounter + ms + 1) % M
    /\ delay' = ms /\ set_at' = now
    /\ UNCHANGED <<gTimeCounter, tim2, now, inits>>

(* Mutant of time_elapsed: the two times are compared as they are.         *)
time_elapsed_unwrapped == gTimeCounter > timeout

time_elapsed == (timeout - gTimeCounter) % M > INT32_MAX

(* The difference is an int32_t, which the caller stores in a uint32_t.    *)
time_diff_ms(t, before) ==
    LET d == (t - before) % M IN IF d > INT32_MAX THEN d - M ELSE d

(* Mutant of uint32: the difference stays signed.                          *)
uint32_signed(n) == n

uint32(n) == n % M

TimeInit ==
    /\ gTimeCounter = 0 /\ tim2 = FALSE
    /\ timeout = 0 /\ delay = 0 /\ set_at = Void
    /\ now = 0 /\ inits = 0

age == now - set_at

(* A timeout of up to INT32_MAX - 1 ms is not reported before more than    *)
(* that many ticks have passed, is reported from the second tick after     *)
(* them on, and stays reported for INT32_MAX ticks, wherever the counter   *)
(* wraps (time.h:85).                                                      *)
TimeoutOnTime ==
    set_at # Void /\ delay < INT32_MAX /\ age <= delay + 2 + INT32_MAX =>
      /\ time_elapsed => age > delay
      /\ age > delay + 1 => time_elapsed
=============================================================================
