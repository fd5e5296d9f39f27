----------------------------- MODULE RtcProofs -----------------------------
(***************************************************************************)
(* What is proved of read_rtc, for every clock that goes on while it runs  *)
(* and both number formats.                                                *)
(***************************************************************************)
EXTENDS Rtc, TLAPS

RtcPc == {"poll", "read", "compare", "convert", "done"}

\* the last date of which a register may have been read so far
latest == IF updating THEN now + 1 ELSE now

RtcTypeOK ==
  /\ clock \in Clock /\ register_b \in Mode
  /\ now \in 1 .. Len(clock) /\ updating \in BOOLEAN
  /\ updating => now < Len(clock)
  /\ rtc_pc \in RtcPc
  /\ began \in 1 .. now
  /\ rtc_pc = "read" => reg \in 1 .. 7

\* every register of the round shows a date between the lo-th and the hi-th
ReadBetween(round, lo, hi) ==
  \A r \in DOMAIN round : \E k \in lo .. hi : round[r] = Encode(r, clock[k])

Whole(round) == DOMAIN round = RegisterNames

\* The round before began where the call did and was over before the lo-th
\* date was replaced, when this round began.
EarlierRound(lo) ==
  \/ last = NoRound
  \/ Whole(last) /\ ReadBetween(last, began, lo)

RoundInv ==
  /\ rtc_pc = "poll" => EarlierRound(latest)
  /\ rtc_pc = "read" => DOMAIN current = {Register[i] : i \in 1 .. reg - 1}
  /\ rtc_pc \in {"compare", "convert"} => Whole(current)
  /\ rtc_pc \in {"read", "compare"} =>
       \E lo \in began .. now :
         EarlierRound(lo) /\ ReadBetween(current, lo, latest)
  /\ rtc_pc = "convert" =>
       \E k \in began .. latest :
         \A r \in RegisterNames : current[r] = Encode(r, clock[k])
  /\ rtc_pc = "done" => \E k \in began .. latest : returned = <<clock[k]>>

RtcInv == RtcTypeOK /\ RoundInv

Hours24Only == \A b \in Mode : b.hours24

----------------------------------------------------------------------------
(***************************************************************************)
(* The number formats.                                                     *)
(***************************************************************************)

\* The BCD conversions of read_rtc undo the clock's.
LEMMA BcdInverse ==
  ASSUME NEW n \in 0 .. 99
  PROVE  /\ FromBcd(Bcd(n)) = n
         /\ n < 24 => HourFromBcd(Bcd(n)) = n
<1> DEFINE q == n \div 10
           m == n % 10
<1>1. q \in 0 .. 9 /\ m \in 0 .. 9 /\ n = 10 * q + m
  OBVIOUS
<1>2. n < 24 => q < 3
  OBVIOUS
<1>3. Bcd(n) = 16 * q + m
  BY DEF Bcd
<1> HIDE DEF q, m
<1>4. (16 * q + m) % 16 = m /\ (16 * q + m) \div 16 = q
  BY <1>1
<1>5. FromBcd(Bcd(n)) = n
  BY <1>1, <1>3, <1>4 DEF FromBcd
<1>6. ASSUME n < 24
      PROVE  HourFromBcd(Bcd(n)) = n
  <2>1. q < 3 /\ q % 8 = q /\ 16 * q + m < 128
    BY <1>1, <1>2, <1>6
  <2> QED
    BY <1>1, <1>3, <1>4, <2>1 DEF HourFromBcd
<1> QED
  BY <1>5, <1>6

\* what the conversions make of the value v of register r, in 24-hour mode
Decoded(r, v) ==
  IF register_b.binary THEN v
  ELSE IF r = "hour" THEN HourFromBcd(v) ELSE FromBcd(v)

LEMMA DecodeEncode ==
  ASSUME Hours24Only, RtcTypeOK, NEW d \in Dates, NEW r \in RegisterNames
  PROVE  Decoded(r, Encode(r, d)) = d[r]
<1>1. register_b.hours24 /\ register_b.binary \in BOOLEAN
  BY RtcAssumption DEF RtcTypeOK, Hours24Only
<1>2. d[r] \in 0 .. 99 /\ d["hour"] < 24
  BY DEF Dates
<1>3. CASE register_b.binary
  BY <1>1, <1>3 DEF Encode, Decoded
<1>4. CASE ~register_b.binary
  <2>1. Encode(r, d) = Bcd(d[r])
    BY <1>1, <1>4 DEF Encode
  <2>2. CASE r = "hour"
    BY <1>2, <1>4, <2>1, <2>2, BcdInverse DEF Decoded
  <2>3. CASE r # "hour"
    BY <1>2, <1>4, <2>1, <2>3, BcdInverse DEF Decoded
  <2> QED
    BY <2>2, <2>3
<1> QED
  BY <1>3, <1>4

\* Registers that are equal show equal fields.
LEMMA EncodeInjective ==
  ASSUME Hours24Only, RtcTypeOK, NEW d \in Dates, NEW e \in Dates,
         NEW r \in RegisterNames, Encode(r, d) = Encode(r, e)
  PROVE  d[r] = e[r]
BY DecodeEncode

\* A whole round that shows one date is converted to that date.
LEMMA ConvertsBack ==
  ASSUME Hours24Only, RtcTypeOK, NEW d \in Dates, Whole(current),
         \A r \in RegisterNames : current[r] = Encode(r, d)
  PROVE  Date = d /\ Valid(d)
<1>1. register_b.hours24
  BY DEF RtcTypeOK, Hours24Only
<1> DEFINE binary == [r \in RegisterNames |-> Decoded(r, current[r])]
<1>2. binary = d
  <2>1. \A r \in RegisterNames : binary[r] = d[r]
    BY DecodeEncode
  <2>2. d \in [RegisterNames -> 0 .. 99]
    BY DEF Dates
  <2> QED
    BY <2>1, <2>2
<1>3. Date = [binary EXCEPT !["hour"] = @]
  BY <1>1 DEF Date, Whole, Decoded
<1>4. Date = d
  BY <1>2, <1>3 DEF Dates
<1>5. Valid(d)
  BY DEF Dates, Valid
<1> QED
  BY <1>4, <1>5

----------------------------------------------------------------------------
(***************************************************************************)
(* Two rounds that agree.                                                  *)
(***************************************************************************)

\* The clock's dates are dates, and they lie within a minute.
LEMMA ClockFacts ==
  ASSUME RtcTypeOK
  PROVE  /\ Len(clock) \in Nat /\ DOMAIN clock = 1 .. Len(clock)
         /\ \A k \in 1 .. Len(clock) : clock[k] \in Dates
         /\ WithinAMinute(clock)
         /\ now \in Nat /\ began \in Nat /\ latest \in now .. Len(clock)
         /\ latest \in {now, now + 1}
         /\ 1 <= began /\ began <= now
<1>1. clock \in Seq(Dates) /\ WithinAMinute(clock)
  BY RtcAssumption DEF RtcTypeOK
<1> QED
  BY <1>1 DEF RtcTypeOK, latest

\* If a round that was over at the lo-th date equals one that began then, both
\* show the lo-th date: a register that had the same value before and after
\* had it then.
LEMMA EqualRounds ==
  ASSUME Hours24Only, RtcTypeOK, NEW lo \in began .. now,
         Whole(current), ReadBetween(current, began, lo),
         ReadBetween(current, lo, latest)
  PROVE  \A r \in RegisterNames : current[r] = Encode(r, clock[lo])
<1>1. /\ Len(clock) \in Nat /\ DOMAIN clock = 1 .. Len(clock)
      /\ \A k \in 1 .. Len(clock) : clock[k] \in Dates
      /\ WithinAMinute(clock)
      /\ lo \in 1 .. Len(clock)
      /\ began .. lo \subseteq 1 .. Len(clock)
      /\ lo .. latest \subseteq 1 .. Len(clock)
  BY ClockFacts
<1>2. ASSUME NEW r \in RegisterNames
      PROVE  \E i \in began .. lo, k \in lo .. latest :
               /\ i \in 1 .. Len(clock) /\ k \in 1 .. Len(clock)
               /\ i <= lo /\ lo <= k
               /\ current[r] = Encode(r, clock[i])
               /\ clock[i][r] = clock[k][r]
  <2>1. PICK i \in began .. lo : current[r] = Encode(r, clock[i])
    BY DEF Whole, ReadBetween
  <2>2. PICK k \in lo .. latest : current[r] = Encode(r, clock[k])
    BY DEF Whole, ReadBetween
  <2>3. i \in 1 .. Len(clock) /\ k \in 1 .. Len(clock)
    BY <1>1
  <2>4. clock[i][r] = clock[k][r]
    BY Zenon, <1>1, <2>1, <2>2, <2>3, EncodeInjective
  <2>5. i <= lo /\ lo <= k
    BY ClockFacts
  <2> QED
    BY Zenon, <2>1, <2>2, <2>3, <2>4, <2>5
<1>3. SUFFICES ASSUME NEW r \in RegisterNames
               PROVE  current[r] = Encode(r, clock[lo])
  OBVIOUS
<1>4. PICK i \in began .. lo, k \in lo .. latest :
        /\ i \in 1 .. Len(clock) /\ k \in 1 .. Len(clock)
        /\ i <= lo /\ lo <= k
        /\ current[r] = Encode(r, clock[i])
        /\ clock[i][r] = clock[k][r]
  BY <1>2
<1>5. clock[lo][r] = clock[i][r]
  BY <1>1, <1>4 DEF WithinAMinute
<1>6. register_b.hours24
  BY DEF RtcTypeOK, Hours24Only
<1> QED
  BY <1>4, <1>5, <1>6 DEF Encode

----------------------------------------------------------------------------
(***************************************************************************)
(* The invariant is inductive.                                             *)
(***************************************************************************)

\* The dates of which a register may have been read only become more.
LEMMA ReadMonotonic ==
  ASSUME NEW round, NEW lo \in Int, NEW hi \in Int, NEW lo1 \in Int, NEW hi1 \in Int,
         lo1 <= lo, hi <= hi1, ReadBetween(round, lo, hi)
  PROVE  ReadBetween(round, lo1, hi1)
BY DEF ReadBetween

\* BeginUpdate and EndUpdate leave what was read as it is.
LEMMA ClockStep ==
  ASSUME RtcInv, BeginUpdate \/ EndUpdate
  PROVE  RtcInv'
<1>1. /\ clock' = clock /\ register_b' = register_b /\ rtc_pc' = rtc_pc
      /\ reg' = reg /\ current' = current /\ last' = last /\ began' = began
      /\ returned' = returned
  BY DEF BeginUpdate, EndUpdate
<1>2. RtcTypeOK /\ RoundInv
  BY DEF RtcInv
<1>3. /\ latest' \in Int /\ latest \in Int /\ now \in Int /\ now' \in Int
      /\ latest <= latest' /\ now <= now' /\ began \in Int
  BY <1>2 DEF RtcTypeOK, latest, BeginUpdate, EndUpdate
<1>4. RtcTypeOK'
  <2>1. Len(clock) \in Nat
    BY <1>2, ClockFacts
  <2>2. /\ now' \in 1 .. Len(clock) /\ updating' \in BOOLEAN
        /\ updating' => now' < Len(clock)
        /\ began \in 1 .. now'
    <3>1. CASE BeginUpdate
      BY <1>2, <2>1, <3>1 DEF RtcTypeOK, BeginUpdate
    <3>2. CASE EndUpdate
      <4>1. now < Len(clock) /\ now' = now + 1 /\ updating' = FALSE
        BY <1>2, <3>2 DEF RtcTypeOK, EndUpdate
      <4>2. now' \in 1 .. Len(clock) /\ began \in 1 .. now'
        BY <1>2, <2>1, <4>1 DEF RtcTypeOK
      <4>3. updating' \in BOOLEAN /\ (updating' => now' < Len(clock))
        BY Zenon, <4>1
      <4> QED
        BY <4>2, <4>3
    <3> QED
      BY <3>1, <3>2
  <2> QED
    BY <1>1, <1>2, <2>2 DEF RtcTypeOK
<1>5. \A round, lo, hi : ReadBetween(round, lo, hi)' = ReadBetween(round, lo, hi)
  BY <1>1 DEF ReadBetween, Encode
<1>6. ASSUME NEW lo \in Int, NEW hi \in Int, lo <= hi, EarlierRound(lo)
      PROVE  EarlierRound(hi)'
  BY <1>1, <1>3, <1>5, <1>6, ReadMonotonic DEF EarlierRound, Whole
<1>7. rtc_pc' = "poll" => EarlierRound(latest)'
  <2>1. ASSUME EarlierRound(latest)
        PROVE  EarlierRound(latest)'
    BY <1>1, <1>3, <1>5, <2>1, ReadMonotonic DEF EarlierRound, Whole
  <2> QED
    BY <1>1, <1>2, <2>1 DEF RoundInv
<1>8. ASSUME rtc_pc' \in {"read", "compare"}
      PROVE  \E lo \in began' .. now' :
               EarlierRound(lo)' /\ ReadBetween(current, lo, latest)'
  <2>1. PICK lo \in began .. now :
          EarlierRound(lo) /\ ReadBetween(current, lo, latest)
    BY <1>1, <1>2, <1>8 DEF RoundInv
  <2>2. lo \in Int /\ lo \in began' .. now'
    BY <1>1, <1>3
  <2>3. EarlierRound(lo)'
    BY <1>3, <1>6, <2>1, <2>2
  <2>4. ReadBetween(current, lo, latest)'
    <3>1. ReadBetween(current, lo, latest')
      BY <1>3, <2>1, <2>2, ReadMonotonic
    <3> QED
      BY <1>1, <1>5, <3>1
  <2> QED
    BY <2>2, <2>3, <2>4
<1>9. rtc_pc' = "convert" =>
        \E k \in began' .. latest' :
          \A r \in RegisterNames : current'[r] = Encode(r, clock[k])'
  BY <1>1, <1>2, <1>3 DEF RoundInv, Encode
<1>10. rtc_pc' = "done" => \E k \in began' .. latest' : returned' = <<clock'[k]>>
  BY <1>1, <1>2, <1>3 DEF RoundInv
<1>11. /\ rtc_pc' = "read" => DOMAIN current' = {Register[i] : i \in 1 .. reg' - 1}
       /\ rtc_pc' \in {"compare", "convert"} => Whole(current)'
  BY <1>1, <1>2 DEF RoundInv, Whole
<1> QED
  BY <1>4, <1>7, <1>8, <1>9, <1>10, <1>11 DEF RtcInv, RoundInv

\* A round begins when no update is under way, so every earlier reading was of
\* the present date or of one before it.
LEMMA PollStep ==
  ASSUME RtcInv, Poll
  PROVE  RtcInv'
<1>1. /\ clock' = clock /\ register_b' = register_b /\ now' = now
      /\ updating' = updating /\ last' = last /\ returned' = returned
      /\ rtc_pc = "poll" /\ rtc_pc' = "read" /\ reg' = 1 /\ current' = NoRound
      /\ ~updating
  BY DEF Poll
<1>2. RtcTypeOK /\ EarlierRound(latest) /\ latest = now
  BY <1>1 DEF RtcInv, RoundInv, latest
<1>3. now \in Int /\ began' \in 1 .. now /\ latest' = now
  BY <1>1, <1>2 DEF RtcTypeOK, Poll, latest
<1>4. RtcTypeOK'
  BY <1>1, <1>2, <1>3 DEF RtcTypeOK, RtcPc
<1>5. DOMAIN current' = {}
  BY <1>1 DEF NoRound
<1>6. DOMAIN current' = {Register[i] : i \in 1 .. reg' - 1}
  BY <1>1, <1>5
<1>7. EarlierRound(now)'
  <2>1. CASE last = NoRound
    BY <1>1, <2>1 DEF EarlierRound
  <2>2. CASE last # NoRound
    <3>1. began' = began
      BY <2>2 DEF Poll
    <3>2. Whole(last) /\ ReadBetween(last, began, now)
      BY <1>2, <2>2 DEF EarlierRound
    <3> QED
      BY <1>1, <3>1, <3>2 DEF EarlierRound, Whole, ReadBetween, Encode
  <2> QED
    BY <2>1, <2>2
<1>8. ReadBetween(current, now, latest)'
  BY <1>5 DEF ReadBetween
<1>9. now' \in began' .. now'
  BY <1>1, <1>3
<1> QED
  BY <1>1, <1>4, <1>6, <1>7, <1>8, <1>9 DEF RtcInv, RoundInv

\* A register shows a date between the one at which the round began and the
\* latest.
LEMMA ReadStep ==
  ASSUME RtcInv, GetRtcRegister
  PROVE  RtcInv'
<1>1. /\ clock' = clock /\ register_b' = register_b /\ now' = now
      /\ updating' = updating /\ last' = last /\ began' = began
      /\ rtc_pc = "read" /\ reg' = reg + 1
      /\ rtc_pc' = IF reg = 7 THEN "compare" ELSE "read"
  BY DEF GetRtcRegister, Register
<1>2. RtcTypeOK /\ reg \in 1 .. 7 /\ latest' = latest
  BY <1>1 DEF RtcInv, RtcTypeOK, latest
<1> DEFINE name == Register[reg]
<1>3. PICK k \in {now, latest} :
        current' = [r \in DOMAIN current \cup {name} |->
                      IF r = name THEN Encode(r, clock[k]) ELSE current[r]]
  BY DEF GetRtcRegister, latest
<1>4. RtcTypeOK'
  BY <1>1, <1>2 DEF RtcTypeOK, RtcPc
<1>5. DOMAIN current' = {Register[i] : i \in 1 .. reg}
  <2>1. DOMAIN current = {Register[i] : i \in 1 .. reg - 1}
    BY <1>1 DEF RtcInv, RoundInv
  <2>2. DOMAIN current' = DOMAIN current \cup {name}
    BY <1>3
  <2>3. 1 .. reg = 1 .. reg - 1 \cup {reg}
    BY <1>2
  <2> QED
    BY <2>1, <2>2, <2>3
<1>6. reg = 7 => DOMAIN current' = RegisterNames
  <2>1. {Register[i] : i \in 1 .. 7} = RegisterNames
    <3>1. 1 .. 7 = {1, 2, 3, 4, 5, 6, 7}
      OBVIOUS
    <3> QED
      BY <3>1 DEF Register, RegisterNames
  <2> QED
    BY <1>5, <2>1
<1>7. PICK lo \in began .. now :
        EarlierRound(lo) /\ ReadBetween(current, lo, latest)
  BY <1>1 DEF RtcInv, RoundInv
<1>8. EarlierRound(lo)'
  BY <1>1, <1>7 DEF EarlierRound, Whole, ReadBetween, Encode
<1>9. k \in lo .. latest
  BY <1>2, ClockFacts
<1>10. ReadBetween(current, lo, latest)'
  <2>1. ASSUME NEW r \in DOMAIN current'
        PROVE  \E j \in lo .. latest : current'[r] = Encode(r, clock[j])
    <3>1. CASE r = name
      BY <1>3, <1>9, <3>1
    <3>2. CASE r # name
      BY <1>3, <1>7, <2>1, <3>2 DEF ReadBetween
    <3> QED
      BY <3>1, <3>2
  <2> QED
    BY <1>1, <1>2, <2>1 DEF ReadBetween, Encode
<1>11. lo \in began' .. now'
  BY <1>1
<1>12. rtc_pc' = "read" => DOMAIN current' = {Register[i] : i \in 1 .. reg' - 1}
  BY <1>1, <1>2, <1>5
<1>13. rtc_pc' = "compare" => Whole(current)'
  BY <1>1, <1>6 DEF Whole
<1>14. rtc_pc' \in {"read", "compare"}
  BY <1>1
<1> QED
  BY <1>4, <1>8, <1>10, <1>11, <1>12, <1>13, <1>14 DEF RtcInv, RoundInv

\* Rounds that agree show one date; otherwise this round is the earlier one.
LEMMA CompareStep ==
  ASSUME Hours24Only, RtcInv, Compare
  PROVE  RtcInv'
<1>1. /\ clock' = clock /\ register_b' = register_b /\ now' = now
      /\ updating' = updating /\ last' = current /\ began' = began
      /\ current' = current
      /\ rtc_pc = "compare"
      /\ rtc_pc' = IF current = last THEN "convert" ELSE "poll"
  BY DEF Compare
<1>2. RtcTypeOK /\ latest' = latest /\ Whole(current)
  BY <1>1 DEF RtcInv, RoundInv, latest
<1>3. PICK lo \in began .. now :
        EarlierRound(lo) /\ ReadBetween(current, lo, latest)
  BY <1>1 DEF RtcInv, RoundInv
<1>4. RtcTypeOK'
  BY <1>1, <1>2 DEF RtcTypeOK, RtcPc
<1>5. CASE current = last
  <2>1. last # NoRound
    BY <1>2, <1>5 DEF Whole, NoRound, RegisterNames
  <2>2. ReadBetween(current, began, lo)
    BY <1>3, <1>5, <2>1 DEF EarlierRound
  <2>3. \A r \in RegisterNames : current[r] = Encode(r, clock[lo])
    BY <1>2, <1>3, <2>2, EqualRounds
  <2>4. lo \in began' .. latest'
    BY <1>1, <1>2, ClockFacts
  <2>5. \A r \in RegisterNames : current'[r] = Encode(r, clock[lo])'
    BY <1>1, <2>3 DEF Encode
  <2>6. rtc_pc' = "convert" /\ Whole(current)'
    BY <1>1, <1>2, <1>5 DEF Whole
  <2> QED
    BY <1>4, <2>4, <2>5, <2>6 DEF RtcInv, RoundInv
<1>6. CASE current # last
  <2>1. ReadBetween(current, began, latest)
    BY <1>2, <1>3, ClockFacts, ReadMonotonic
  <2>2. EarlierRound(latest)'
    BY <1>1, <1>2, <2>1 DEF EarlierRound, Whole, ReadBetween, Encode
  <2>3. rtc_pc' = "poll"
    BY <1>1, <1>6
  <2> QED
    BY <1>4, <2>2, <2>3 DEF RtcInv, RoundInv
<1> QED
  BY <1>5, <1>6

\* The date that both rounds show is a date, so it is returned.
LEMMA ConvertStep ==
  ASSUME Hours24Only, RtcInv, Convert
  PROVE  RtcInv'
<1>1. /\ clock' = clock /\ register_b' = register_b /\ now' = now
      /\ updating' = updating /\ began' = began /\ rtc_pc = "convert"
      /\ rtc_pc' = IF Valid(Date) THEN "done" ELSE "panic"
      /\ returned' = IF Valid(Date) THEN <<Date>> ELSE <<>>
  BY DEF Convert
<1>2. RtcTypeOK /\ latest' = latest /\ Whole(current)
  BY <1>1 DEF RtcInv, RoundInv, latest
<1>3. PICK k \in began .. latest :
        \A r \in RegisterNames : current[r] = Encode(r, clock[k])
  BY <1>1 DEF RtcInv, RoundInv
<1>4. clock[k] \in Dates
  BY <1>2, ClockFacts
<1>5. Date = clock[k] /\ Valid(Date)
  BY <1>2, <1>3, <1>4, ConvertsBack
<1>6. rtc_pc' = "done" /\ returned' = <<clock[k]>>
  BY <1>1, <1>5
<1>7. RtcTypeOK'
  BY <1>1, <1>2, <1>6 DEF RtcTypeOK, RtcPc
<1> QED
  BY <1>1, <1>2, <1>6, <1>7 DEF RtcInv, RoundInv

LEMMA RtcInvariant ==
  ASSUME Hours24Only
  PROVE  RtcSpec => []RtcInv
<1>1. RtcInit => RtcInv
  <2> SUFFICES ASSUME RtcInit
               PROVE  RtcInv
    OBVIOUS
  <2>1. clock \in Seq(Dates) /\ clock # <<>>
    BY RtcAssumption DEF RtcInit
  <2>2. RtcTypeOK
    <3>1. 1 \in 1 .. Len(clock)
      BY <2>1
    <3>2. updating \in BOOLEAN /\ (updating => now < Len(clock))
      BY Zenon DEF RtcInit
    <3>3. now \in 1 .. Len(clock) /\ began \in 1 .. now /\ rtc_pc \in RtcPc
      BY <3>1 DEF RtcInit, RtcPc
    <3> QED
      BY <3>2, <3>3 DEF RtcInit, RtcTypeOK
  <2> QED
    BY <2>2 DEF RtcInit, RtcInv, RoundInv, EarlierRound
<1>2. RtcInv /\ [RtcNext]_rtcVars => RtcInv'
  <2> SUFFICES ASSUME RtcInv, [RtcNext]_rtcVars
               PROVE  RtcInv'
    OBVIOUS
  <2>1. CASE UNCHANGED rtcVars
    BY <2>1 DEF rtcVars, RtcInv, RtcTypeOK, RoundInv, EarlierRound, ReadBetween,
                Encode, Whole, latest
  <2> QED
    BY <2>1, ClockStep, PollStep, ReadStep, CompareStep, ConvertStep DEF RtcNext
<1> QED
  BY <1>1, <1>2, PTL DEF RtcSpec

\* On a 24-hour clock, read_rtc of src/src/chrono.rs returns a date that the
\* clock showed while it was read, however updates fall between its reads, in
\* both number formats, and does not panic.
THEOREM DateReadWasShown ==
  ASSUME Hours24Only
  PROVE  RtcSpec => []DateWasShown
<1>1. RtcInv => DateWasShown
  BY DEF RtcInv, RtcTypeOK, RtcPc, RoundInv, DateWasShown, latest
<1> QED
  BY <1>1, RtcInvariant, PTL
============================================================================
