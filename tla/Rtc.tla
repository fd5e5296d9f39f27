-------------------------------- MODULE Rtc ---------------------------------
(***************************************************************************)
(* read_rtc, src/src/chrono.rs: seven registers are read one by one from a *)
(* clock that goes on in between, until two rounds agree, and are then     *)
(* converted.  The clock announces an update before it changes registers;  *)
(* while it is under way each register shows its old or its new value.     *)
(***************************************************************************)
EXTENDS Integers, Sequences

CONSTANTS Clock,   \* some sequences of dates, as the clock goes through them
          Mode     \* some records [binary, hours24]: bits 2 and 1 of register B

Register == <<"second", "minute", "hour", "day", "month", "year", "century">>

RegisterNames == {"second", "minute", "hour", "day", "month", "year", "century"}

Dates ==
  {d \in [RegisterNames -> 0 .. 99] :
     /\ d["second"] < 60 /\ d["minute"] < 60 /\ d["hour"] < 24
     /\ d["day"] \in 1 .. 31 /\ d["month"] \in 1 .. 12}

\* A call takes less than a minute: a register that has changed while it runs
\* does not come back to an earlier value.
WithinAMinute(c) ==
  \A i, j, k \in DOMAIN c : \A r \in RegisterNames :
    i <= j /\ j <= k /\ c[i][r] = c[k][r] => c[j][r] = c[i][r]

ASSUME RtcAssumption ==
  /\ \A c \in Clock : c \in Seq(Dates) /\ c # <<>> /\ WithinAMinute(c)
  /\ \A b \in Mode : b.binary \in BOOLEAN /\ b.hours24 \in BOOLEAN

VARIABLES clock, register_b, now, updating,   \* the clock
          rtc_pc, reg, current, last,             \* read_rtc
          began,                              \* (observed) now when it began
          returned                              \* <<date>>

rtcVars == <<clock, register_b, now, updating, rtc_pc, reg, current, last, began, returned>>

Bcd(n) == 16 * (n \div 10) + (n % 10)

\* what register r holds at date d
Encode(r, d) ==
  LET Digits(n) == IF register_b.binary THEN n ELSE Bcd(n)
  IN  IF r # "hour" \/ register_b.hours24 THEN Digits(d[r])
      ELSE Digits(1 + ((d.hour + 11) % 12)) + IF d.hour >= 12 THEN 128 ELSE 0

NoRound == [r \in {} |-> 0]

RtcInit ==
  /\ clock \in Clock /\ register_b \in Mode
  /\ now = 1 /\ updating = FALSE
  /\ rtc_pc = "poll" /\ reg = 1 /\ current = NoRound /\ last = NoRound
  /\ began = 1 /\ returned = <<>>

BeginUpdate ==
  /\ ~updating /\ now < Len(clock)
  /\ updating' = TRUE
  /\ UNCHANGED <<clock, register_b, now, rtc_pc, reg, current, last, began, returned>>

EndUpdate ==
  /\ updating
  /\ updating' = FALSE
  /\ now' = now + 1
  /\ UNCHANGED <<clock, register_b, rtc_pc, reg, current, last, began, returned>>

\* while update_in_progress() {}
Poll ==
  /\ rtc_pc = "poll" /\ ~updating
  /\ rtc_pc' = "read" /\ reg' = 1 /\ current' = NoRound
  /\ began' = IF last = NoRound THEN now ELSE began
  /\ UNCHANGED <<clock, register_b, now, updating, last, returned>>

\* get_rtc_register, for the next of the seven
GetRtcRegister ==
  /\ rtc_pc = "read"
  /\ \E d \in {clock[now]} \cup (IF updating THEN {clock[now + 1]} ELSE {}) :
       current' = [r \in DOMAIN current \cup {Register[reg]} |->
                     IF r = Register[reg] THEN Encode(r, d) ELSE current[r]]
  /\ reg' = reg + 1
  /\ rtc_pc' = IF reg = Len(Register) THEN "compare" ELSE "read"
  /\ UNCHANGED <<clock, register_b, now, updating, last, began, returned>>

Compare_Once ==
  /\ rtc_pc = "compare"
  /\ rtc_pc' = "convert"
  /\ last' = current
  /\ UNCHANGED <<clock, register_b, now, updating, reg, current, began, returned>>

\* the end of the loop's body; after the first round there is nothing to compare
Compare ==
  /\ rtc_pc = "compare"
  /\ rtc_pc' = IF current = last THEN "convert" ELSE "poll"
  /\ last' = current
  /\ UNCHANGED <<clock, register_b, now, updating, reg, current, began, returned>>

\* (n & 0x0F) + ((n / 16) * 10)
FromBcd(n) == (n % 16) + (n \div 16) * 10

\* the BCD conversion of the hour, which keeps bit 7
HourFromBcd(n) == (n % 16) + ((n \div 16) % 8) * 10 + IF n >= 128 THEN 128 ELSE 0

\* The conversions: first from BCD; then the one of a 12-hour clock, whose
\* condition hour & 0x80 == 1 compares a value that is 0 or 128 with 1.
Date ==
  LET binary == [r \in DOMAIN current |->
                   IF register_b.binary THEN current[r]
                   ELSE IF r = "hour" THEN HourFromBcd(current[r]) ELSE FromBcd(current[r])]
      afternoon == IF binary["hour"] >= 128 THEN 128 ELSE 0
  IN  [binary EXCEPT !["hour"] = IF ~register_b.hours24 /\ afternoon = 1
                                 THEN ((@ % 128) + 12) % 24 ELSE @]

\* with_ymd_and_hms(...).unwrap(): a date that does not exist is a panic
Valid(d) ==
  /\ d["second"] < 60 /\ d["minute"] < 60 /\ d["hour"] < 24
  /\ d["day"] \in 1 .. 31 /\ d["month"] \in 1 .. 12

Convert ==
  /\ rtc_pc = "convert"
  /\ rtc_pc' = IF Valid(Date) THEN "done" ELSE "panic"
  /\ returned' = IF Valid(Date) THEN <<Date>> ELSE <<>>
  /\ UNCHANGED <<clock, register_b, now, updating, reg, current, last, began>>

RtcNext ==
  \/ BeginUpdate \/ EndUpdate
  \/ Poll \/ GetRtcRegister \/ Compare \/ Convert

RtcSpec == RtcInit /\ [][RtcNext]_rtcVars

----------------------------------------------------------------------------
\* What read_rtc returns is a date that the clock showed while it was read: two
\* equal rounds are never put together from two dates, and the conversion
\* gives back the date ("Convert 12-hour clock to 24-hour clock if necessary").
DateWasShown ==
  rtc_pc \in {"done", "panic"} =>
    \E k \in began .. IF updating THEN now + 1 ELSE now : returned = <<clock[k]>>
============================================================================
