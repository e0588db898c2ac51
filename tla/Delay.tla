------------------------------- MODULE Delay --------------------------------
(***************************************************************************)
(* stupid_delay.c: a 64-bit count shared by the main program and the       *)
(* SysTick interrupt, which come at it in words.  The compiler may use     *)
(* strd and ldrd, which an interrupt makes the Cortex-M3 begin again, or   *)
(* two stores and two loads in either order.                               *)
(***************************************************************************)
EXTENDS Naturals

CONSTANTS
  WordMod,  \* values of a word, 2^32
  Step,     \* what a tick takes off, 10
  PerMs     \* units of a millisecond, 1000

ASSUME DelayAssumption ==
  /\ WordMod \in Nat /\ Step \in 1 .. WordMod - 1
  /\ PerMs \in Nat /\ PerMs % Step = 0

VARIABLES
  delay_low, delay_high,  \* the words of delay_val
  target,   \* the value the last delay began with
  unstored, \* the words of it the program has yet to store
  zero,     \* the words found 0 in this turn of the loop
  waiting,  \* the program is in delay_ms or delay_us
  split,    \* a tick has fallen between the stores or the loads under way
  ticks     \* history: ticks since the low word was stored

delayVars == << delay_low, delay_high, target, unstored, zero, waiting, split, ticks >>

WordNames == {"low", "high"}
delay_val == delay_low + WordMod * delay_high

DelayInit ==
  /\ delay_low = 0 /\ delay_high = 0
  /\ target = 0
  /\ unstored = {} /\ zero = {}
  /\ waiting = FALSE /\ split = FALSE
  /\ ticks = 0

-----------------------------------------------------------------------------
\* The argument of each function becomes a value of 32 bits.
DelayMs(value) == (value * PerMs) % WordMod
DelayUs(value) == value - (value % Step)

DelayCall(value) ==
  /\ ~waiting
  /\ waiting' = TRUE
  /\ target' = value
  /\ unstored' = WordNames
  /\ zero' = {}
  /\ UNCHANGED << delay_low, delay_high, split, ticks >>

\* A value of 32 bits: the high word stored is 0.
StoreWord(w) ==
  /\ w \in unstored
  /\ unstored' = unstored \ {w}
  /\ IF w = "low" THEN delay_low' = target /\ ticks' = 0 /\ UNCHANGED delay_high
                  ELSE delay_high' = 0 /\ UNCHANGED << delay_low, ticks >>
  /\ split' = (split /\ unstored' # {})
  /\ UNCHANGED << target, zero, waiting >>

\* One of the two loads of the loop's condition.
LoadWord(w) ==
  /\ waiting /\ unstored = {}
  /\ w \notin zero
  /\ LET found == IF w = "low" THEN delay_low ELSE delay_high
     IN \/ found # 0 /\ zero' = {} /\ UNCHANGED waiting
        \/ found = 0 /\ zero = {} /\ zero' = {w} /\ UNCHANGED waiting
        \/ found = 0 /\ zero # {} /\ zero' = {} /\ waiting' = FALSE
  /\ split' = (split /\ zero' # {})
  /\ UNCHANGED << delay_low, delay_high, target, unstored, ticks >>

SetDelayVal(value) ==
  /\ delay_low' = value % WordMod
  /\ delay_high' = value \div WordMod

\* Faulty variant: the count goes on below 0.
CountDownAlways ==
  SetDelayVal((delay_val + WordMod * WordMod - Step) % (WordMod * WordMod))

CountDown ==
  IF delay_val = 0 THEN UNCHANGED << delay_low, delay_high >>
  ELSE SetDelayVal((delay_val + WordMod * WordMod - Step) % (WordMod * WordMod))

\* SysTick_Handler.  A strd or ldrd it falls into is begun again; ticks are 240
\* cycles apart, so that the next comes after it.
SysTick ==
  /\ ~split
  /\ CountDown
  /\ ticks' = IF waiting /\ ticks < WordMod THEN ticks + 1 ELSE ticks
  /\ split' = (unstored \notin {{}, WordNames} \/ zero # {})
  /\ unstored' \in {unstored} \union (IF split' /\ zero = {} THEN {WordNames} ELSE {})
  /\ zero' \in {zero, {}}
  /\ UNCHANGED << target, waiting >>

DelayStep == \E w \in WordNames : StoreWord(w) \/ LoadWord(w)

-----------------------------------------------------------------------------
DelayTypeOK ==
  /\ delay_low \in 0 .. WordMod - 1 /\ delay_high \in 0 .. WordMod - 1
  /\ target \in 0 .. WordMod - 1
  /\ unstored \subseteq WordNames /\ zero \subseteq WordNames
  /\ waiting \in BOOLEAN /\ split \in BOOLEAN
  /\ ticks \in 0 .. WordMod

(***************************************************************************)
(* However ticks fall between the stores and loads of the words, the value *)
(* is counted down exactly: what is left is the target less the ticks since*)
(* it was stored, never below 0; and the program goes on only when nothing *)
(* is left.  (This is for delays whose product is below WordMod: one that  *)
(* wraps need not be a multiple of Step, and is then counted down below 0.)*)
(***************************************************************************)
Left == IF ticks * Step < target THEN target - ticks * Step ELSE 0

DelayExact ==
  /\ waiting /\ unstored = {} => delay_val = Left
  /\ ~waiting => delay_val = 0 /\ Left = 0

=============================================================================
