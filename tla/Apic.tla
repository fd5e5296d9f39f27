-------------------------------- MODULE Apic --------------------------------
(***************************************************************************)
(* initialize_apic, src/src/apic.rs: the APIC timer is calibrated against  *)
(* the real-time clock, and the keyboard pin of the I/O APIC is routed.    *)
(* Time is counted in ticks of the timer; dates only differ or not, so the *)
(* second is kept modulo 3.  read_rtc returns the date of the moment (see  *)
(* the module Rtc).                                                        *)
(***************************************************************************)
EXTENDS Bits, Integers, Sequences

CONSTANTS Second,     \* ticks of the timer in a second
          Delay,      \* the longest time between two steps of the loop, in ticks
          CountMax,   \* stands for 0xFFFFFFFF
          TIMER_FREQUENCY,
          Redirect,   \* what firmware may leave in the redirection entry of pin 1
          LocalId     \* the register APIC_APICID

ASSUME ApicAssumption ==
  /\ {Second, Delay, CountMax, TIMER_FREQUENCY} \subseteq Nat \ {0}
  /\ 3 * Delay < Second /\ Second + 2 * Delay < CountMax

Keyboard == 33   \* InterruptIndex::Keyboard

VARIABLES phase, second,   \* the clock
          count,           \* APIC_TMRCURRCNT
          apic_pc, date_time, new_date_time, full_second_passing,
          measures,        \* first, second and third, 0 when not yet taken
          init_count,      \* APIC_TMRINITCNT
          lvt,             \* APIC_LVT_TMR: "masked", "one_shot", "periodic"
          low_reg, high_reg, interrupts

time == <<phase, second>>
io == <<low_reg, high_reg, interrupts>>
apicVars == <<time, count, apic_pc, date_time, new_date_time, full_second_passing, measures,
          init_count, lvt, io>>

ApicInit ==
  /\ phase \in 0 .. Second - 1 /\ second = 0 /\ count = 0
  /\ apic_pc = "start" /\ date_time = 0 /\ new_date_time = 0
  /\ full_second_passing = FALSE /\ measures = <<0, 0, 0>>
  /\ init_count = 0 /\ lvt = "masked"
  /\ low_reg \in Redirect /\ high_reg = {} /\ interrupts = FALSE

\* d ticks pass while the counter goes down from c, and stops at 0
Pass(d, c) ==
  /\ phase' = (phase + d) % Second
  /\ second' = (second + (phase + d) \div Second) % 3
  /\ count' = IF c > d THEN c - d ELSE 0

\* Apic::initialize masks the timer; cli; the first date
Start ==
  /\ apic_pc = "start" /\ apic_pc' = "poll"
  /\ lvt' = "masked" /\ interrupts' = FALSE
  /\ date_time' = second
  /\ \E d \in 0 .. Delay : Pass(d, count)
  /\ UNCHANGED <<new_date_time, full_second_passing, measures, init_count, low_reg, high_reg>>

PollClock ==
  /\ apic_pc = "poll"
  /\ new_date_time' = second
  /\ apic_pc' = IF second # date_time THEN "stop" ELSE "poll"
  /\ \E d \in 1 .. Delay : Pass(d, count)
  /\ UNCHANGED <<date_time, full_second_passing, measures, init_count, lvt, io>>

Unmeasured == {k \in 1 .. 3 : measures[k] = 0}
NextMeasure == CHOOSE k \in Unmeasured : \A j \in Unmeasured : k <= j

Stop_NoBreak ==
  LET ticks_in_1s == CountMax - count IN
  /\ apic_pc = "stop"
  /\ lvt' = "masked"
  /\ full_second_passing' = TRUE
  /\ measures' = IF full_second_passing /\ Unmeasured # {}
                 THEN [measures EXCEPT ![NextMeasure] = ticks_in_1s] ELSE measures
  /\ apic_pc' = "restart"
  /\ \E d \in 0 .. Delay : Pass(d, count)
  /\ UNCHANGED <<date_time, new_date_time, init_count, io>>

\* a new second: the first one only starts the measuring, a fifth one ends it
Stop ==
  LET ticks_in_1s == CountMax - count IN
  /\ apic_pc = "stop"
  /\ lvt' = "masked"
  /\ full_second_passing' = TRUE
  /\ measures' = IF full_second_passing /\ Unmeasured # {}
                 THEN [measures EXCEPT ![NextMeasure] = ticks_in_1s] ELSE measures
  /\ apic_pc' = IF full_second_passing /\ Unmeasured = {} THEN "finish" ELSE "restart"
  /\ \E d \in 0 .. Delay : Pass(d, count)
  /\ UNCHANGED <<date_time, new_date_time, init_count, io>>

Restart_KeepsCount ==
  /\ apic_pc = "restart" /\ apic_pc' = "poll"
  /\ date_time' = new_date_time
  /\ lvt' = "one_shot" /\ init_count' = CountMax
  /\ \E d \in 0 .. Delay : Pass(d, count)
  /\ UNCHANGED <<new_date_time, full_second_passing, measures, io>>

Restart ==
  /\ apic_pc = "restart" /\ apic_pc' = "poll"
  /\ date_time' = new_date_time
  /\ lvt' = "one_shot" /\ init_count' = CountMax
  /\ \E d \in 0 .. Delay : Pass(d, CountMax)
  /\ UNCHANGED <<new_date_time, full_second_passing, measures, io>>

\* the redirection entry of the keyboard: vector, fixed delivery, physical
\* destination, active high, edge, unmasked
Route(low) ==
  LET vector == SetBits(SetBits(low, BitsOf(Keyboard), 0), {}, 8)
  IN  SetBit(SetBit(SetBit(SetBit(vector, 11, FALSE), 13, FALSE), 15, FALSE), 16, FALSE)

\* the periodic timer, the keyboard, and sti
Finish ==
  LET avg_ticks == (measures[1] + measures[2] + measures[3]) \div 3 IN
  /\ apic_pc = "finish" /\ apic_pc' = "done"
  /\ init_count' = avg_ticks \div TIMER_FREQUENCY
  /\ lvt' = "periodic"
  /\ low_reg' = Route(low_reg) /\ high_reg' = LocalId
  /\ interrupts' = TRUE
  /\ UNCHANGED <<time, count, date_time, new_date_time, full_second_passing, measures>>

ApicNext == Start \/ PollClock \/ Stop \/ Restart \/ Finish

ApicSpec == ApicInit /\ [][ApicNext]_apicVars

----------------------------------------------------------------------------
\* When initialize_apic has enabled interrupts, both sources of interrupts are set
\* up.  "x interrupts per sec": whatever the phase of the clock at the start and the
\* time that each step takes, the periodic timer is loaded with a second divided by
\* the frequency, up to the delays of the loop.  The entry of the keyboard delivers
\* its vector to this CPU, fixed, physical, active high, by edge and unmasked,
\* whatever trigger mode or mask firmware left in it.
SourcesAreSetUp ==
  interrupts =>
    /\ lvt = "periodic"
    /\ init_count \in (Second - 3 * Delay) \div TIMER_FREQUENCY ..
                      (Second + 2 * Delay) \div TIMER_FREQUENCY
    /\ low_reg \cap (0 .. 16 \ {12, 14}) = BitsOf(Keyboard) /\ high_reg = LocalId

\* The calibration ends: seconds go by, and none of the four branches that
\* wait for one is taken for ever.
CalibrationEnds == apic_pc = "poll" ~> apic_pc = "done"
============================================================================
