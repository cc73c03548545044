-------------------------- MODULE AxisMotionProofs --------------------------
(***************************************************************************)
(* Theorems about AxisMotion, for any commands, settings of the servo,     *)
(* contents of the stack, length of the queue and duration: where the axis *)
(* is sent, how fast, and which pulses the servo gets.                     *)
(***************************************************************************)
EXTENDS AxisMotion, TLAPS

(* Where an axis can be, and the pulses of a servo.                        *)
Axis == 0..1000
Pulses == 500..2500

Hull == hull.low..hull.high
HullInv == last.value \in Hull /\ current.value \in Hull

(* What the executor task has read was stored when it read it; a torn move *)
(* either has the place where it starts or needs none.                     *)
ReadInv ==
  /\ reg.duration \in Nat
  /\ pc \in {"wait", "type"} => reg = Unread
  /\ pc = "read" =>
       /\ "value" \notin toRead => reg.value \in Hull
       /\ \/ "last" \notin toRead => reg.last \in Hull
          \/ reg.duration = 0 /\ "duration" \notin toRead

(* Unless two executions were late, nothing waits for the RMT channel, and *)
(* its pulse ends within PulseSpace of the last execution.                 *)
ChannelInv ==
  setup.number /\ ~late =>
    /\ waiting = 0
    /\ until <= IF executed = None THEN 0 ELSE executed + PulseSpace

(* Where the current move is at a time since its start, and the same for   *)
(* the move that the executor task has read.                               *)
Part(n, elapsed, duration) == (n * elapsed) \div duration
Along(from, to, elapsed, duration) ==
  IF elapsed >= duration THEN to
  ELSE from + Part(to - from, elapsed, duration)

(* The distance from m to n is possible in a time; rounding down may add a *)
(* thousandth upwards.                                                     *)
UpWithin(m, n, time) == (n - m - 1) * MinDuration <= 1000 * time
DownWithin(m, n, time) == (m - n) * MinDuration <= 1000 * time

Timed == current.letter = "I" /\ current.duration >= MinDuration

(* The value is on the current move, or behind its start by no more than   *)
(* the time since then allows.                                             *)
OnMove ==
  /\ at >= current.time
  /\ value = Along(last.value, current.value, at - current.time,
                   current.duration)
BehindMove ==
  /\ at <= current.time
  /\ UpWithin(value, last.value, current.time - at)
  /\ DownWithin(value, last.value, current.time - at)

ReadAll(fields) == \A f \in fields \ toRead : reg[f] = Stored(f)

(* While no command could make the axis jump.                              *)
SmoothInv ==
  smooth =>
    /\ last.value \in Axis /\ current.value \in Axis
    /\ current.time <= now
    /\ \/ current = Rest /\ value = 500
       \/ Timed /\ (OnMove \/ BehindMove)
    /\ pc \in {"type", "read"} => at <= clock /\ current.time <= clock
    /\ pc = "read" =>
         IF current.letter = "I" THEN ReadAll(Field)
         ELSE /\ ReadAll({"value"}) /\ reg.duration = 0
              /\ toRead \subseteq {"value"}

IInv == /\ TypeOK /\ HullInv /\ ReadInv /\ PositionWithinCommands
        /\ ChannelInv /\ PulseInRange /\ HandyHeard /\ SmoothInv

-----------------------------------------------------------------------------
(* Division, and places along a move.                                      *)

LEMMA AxisIs ==
  ASSUME NEW n \in Axis
  PROVE  n \in Nat /\ n <= 1000
  BY DEF Axis

LEMMA PulseIs ==
  ASSUME NEW us \in Pulses
  PROVE  us \in Nat /\ 500 <= us /\ us <= 2500
  BY DEF Pulses

LEMMA Division ==
  ASSUME NEW a \in Int, NEW d \in Nat \ {0}
  PROVE  /\ a \div d \in Int
         /\ d * (a \div d) <= a /\ a < d * (a \div d) + d
  BY SMT

LEMMA Grows ==
  ASSUME NEW a \in Int, NEW b \in Int, a <= b, NEW k \in Nat
  PROVE  k * a <= k * b
  BY SMT

(* A part of n is between 0 and n.                                         *)
LEMMA PartOf ==
  ASSUME NEW n \in Int, NEW d \in Nat \ {0}, NEW e \in 0..d
  PROVE  LET q == Part(n, e, d)
         IN  /\ q \in Int
             /\ IF n >= 0 THEN 0 <= q /\ q <= n ELSE n <= q /\ q <= 0
<1> DEFINE q == Part(n, e, d)
<1>0. n * e \in Int
  BY SMT
<1>1. q \in Int /\ d * q <= n * e /\ n * e < d * q + d
  BY <1>0, Division DEF Part
<1> HIDE DEF q
<1>2. CASE n >= 0
  <2>1. 0 <= n * e /\ n * e <= n * d
    BY <1>2, SMT
  <2>2. q >= 0
    <3> SUFFICES ASSUME q <= -1 PROVE FALSE
      BY <1>1
    <3>1. d * q <= d * (-1)
      BY <1>1, Grows
    <3> QED
      BY <1>0, <1>1, <2>1, <3>1
  <2>3. q <= n
    <3> SUFFICES ASSUME q >= n + 1 PROVE FALSE
      BY <1>1
    <3>1. d * (n + 1) <= d * q
      BY <1>1, Grows
    <3>2. d * (n + 1) = n * d + d
      BY SMT
    <3> QED
      BY <1>0, <1>1, <2>1, <3>1, <3>2, SMT
  <2> QED
    BY <1>1, <1>2, <2>2, <2>3 DEF q
<1>3. CASE n < 0
  <2>1. n * d <= n * e /\ n * e <= 0
    BY <1>3, SMT
  <2>2. q <= 0
    <3> SUFFICES ASSUME q >= 1 PROVE FALSE
      BY <1>1
    <3>1. d * 1 <= d * q
      BY <1>1, Grows
    <3> QED
      BY <1>0, <1>1, <2>1, <3>1
  <2>3. q >= n
    <3> SUFFICES ASSUME q + 1 <= n PROVE FALSE
      BY <1>1
    <3>1. d * (q + 1) <= d * n
      BY <1>1, Grows
    <3>2. d * (q + 1) = d * q + d /\ d * n = n * d
      BY <1>1, SMT
    <3> QED
      BY <1>0, <1>1, <2>1, <3>1, <3>2, SMT
  <2> QED
    BY <1>1, <1>3, <2>2, <2>3 DEF q
<1> QED
  BY <1>1, <1>2, <1>3 DEF q

(* A product with a smaller factor that is not negative.                   *)
LEMMA Smaller ==
  ASSUME NEW x \in Int, NEW m \in Nat, NEW d \in Nat, m <= d, NEW b \in Nat,
         d * x <= b
  PROVE  x * m <= b
<1>1. CASE x >= 0
  <2>1. x * m <= x * d
    BY <1>1, Grows
  <2> QED
    BY <2>1, SMT
<1>2. CASE x < 0
  <2>1. x * m <= 0
    BY <1>2, SMT
  <2> QED
    BY <2>1, SMT
<1> QED
  BY <1>1, <1>2

(* No more than 1000 in d, from one time of the move to a later one.       *)
LEMMA Slope ==
  ASSUME NEW n \in Int, -1000 <= n, n <= 1000,
         NEW d \in Nat \ {0}, MinDuration <= d,
         NEW e \in Nat, NEW f \in Nat, e <= f
  PROVE  LET p == Part(n, e, d)
             q == Part(n, f, d)
         IN  /\ p \in Int /\ q \in Int /\ UpWithin(p, q, f - e)
             /\ UpWithin(q, p, f - e)
<1> DEFINE p == Part(n, e, d)
           q == Part(n, f, d)
<1>0. n * e \in Int /\ n * f \in Int
  BY SMT
<1>1. /\ p \in Int /\ d * p <= n * e /\ n * e < d * p + d
      /\ q \in Int /\ d * q <= n * f /\ n * f < d * q + d
  BY <1>0, Division DEF Part
<1> HIDE DEF p, q
<1>2. n * f - n * e = n * (f - e)
  BY SMT
<1>3. n * (f - e) <= 1000 * (f - e) /\ -(1000 * (f - e)) <= n * (f - e)
  BY SMT
<1>4. /\ d * (q - p - 1) = d * q - d * p - d
      /\ d * (p - q - 1) = d * p - d * q - d
  BY <1>1, SMT
<1>5. d * p \in Int /\ d * q \in Int /\ n * (f - e) \in Int
  BY <1>1, SMT
<1>6. /\ d * (q - p - 1) <= 1000 * (f - e)
      /\ d * (p - q - 1) <= 1000 * (f - e)
  BY <1>0, <1>1, <1>2, <1>3, <1>4, <1>5
<1>7. /\ q - p - 1 \in Int /\ p - q - 1 \in Int
      /\ 1000 * (f - e) \in Nat /\ MinDuration \in Nat
  BY <1>1, MotionAssumption
<1>8. (q - p - 1) * MinDuration <= 1000 * (f - e)
  BY <1>6, <1>7, Smaller
<1>9. (p - q - 1) * MinDuration <= 1000 * (f - e)
  BY <1>6, <1>7, Smaller
<1> QED
  BY <1>1, <1>8, <1>9 DEF p, q, UpWithin

(* From the start of a move.                                               *)
LEMMA FromStart ==
  ASSUME NEW from \in Axis, NEW to \in Axis, NEW d \in Nat \ {0},
         MinDuration <= d, NEW f \in Nat
  PROVE  LET w == Along(from, to, f, d)
         IN  w \in Int /\ UpWithin(w, from, f) /\ DownWithin(w, from, f)
<1> DEFINE n == to - from
           q == Part(n, f, d)
           w == Along(from, to, f, d)
<1>ends. from \in Nat /\ from <= 1000 /\ to \in Nat /\ to <= 1000
  BY AxisIs
<1>0. n \in Int /\ -1000 <= n /\ n <= 1000 /\ n * f \in Int
  BY <1>ends, SMT
<1>1. q \in Int /\ d * q <= n * f /\ n * f < d * q + d
  BY <1>0, Division DEF Part
<1>2. w = IF f >= d THEN to ELSE from + q
  BY DEF Along
<1> HIDE DEF n, q, w
<1>3. MinDuration \in Nat /\ 1000 * f \in Nat
  BY MotionAssumption
<1>4. CASE f >= d
  <2>1. /\ w - from \in Int /\ from - w - 1 \in Int
        /\ w - from <= 1000 /\ from - w - 1 <= 1000 /\ w \in Int
    BY <1>2, <1>4, <1>ends
  <2>2. d * (w - from) <= d * 1000 /\ d * (from - w - 1) <= d * 1000
    BY <2>1, Grows
  <2>3. d * (w - from) <= 1000 * f /\ d * (from - w - 1) <= 1000 * f
    BY <1>4, <2>1, <2>2, SMT
  <2> QED
    BY <1>3, <2>1, <2>3, Smaller DEF w, UpWithin, DownWithin
<1>5. CASE f < d
  <2>1. w - from = q /\ from - w - 1 = -q - 1 /\ w \in Int /\ -q - 1 \in Int
    BY <1>1, <1>2, <1>5, <1>ends
  <2>2. n * f <= 1000 * f /\ -(1000 * f) <= n * f
    BY <1>0, SMT
  <2>3. d * (-q - 1) = -(d * q) - d /\ d * q \in Int
    BY <1>1, SMT
  <2>4. d * q <= 1000 * f /\ d * (-q - 1) <= 1000 * f
    <3> DEFINE x == d * q
               y == n * f
               z == 1000 * f
    <3>1. x \in Int /\ y \in Int /\ z \in Int /\ d \in Int
      BY <1>0, <1>3, <2>3
    <3>2. x <= y /\ y < x + d /\ y <= z /\ -z <= y
      BY <1>1, <2>2
    <3>3. d * (-q - 1) = -x - d
      BY <2>3
    <3> HIDE DEF x, y, z
    <3>4. x <= z /\ -x - d <= z
      BY <3>1, <3>2
    <3> QED
      BY <3>3, <3>4 DEF x, z
  <2>5. q * MinDuration <= 1000 * f /\ (-q - 1) * MinDuration <= 1000 * f
    BY <1>1, <1>3, <2>1, <2>4, Smaller
  <2> QED
    BY <2>1, <2>5 DEF w, UpWithin, DownWithin
<1> QED
  BY <1>4, <1>5

(* To the end of a move, which is over at g.                               *)
LEMMA ToEnd ==
  ASSUME NEW from \in Axis, NEW to \in Axis, NEW d \in Nat \ {0},
         MinDuration <= d, NEW e \in Nat, NEW g \in Nat, e <= g, d <= g
  PROVE  LET v == Along(from, to, e, d)
         IN  /\ v \in Int
             /\ UpWithin(v, to, g - e)
             /\ DownWithin(v, to, g - e)
<1> DEFINE n == to - from
           p == Part(n, e, d)
           v == Along(from, to, e, d)
<1>ends. from \in Nat /\ from <= 1000 /\ to \in Nat /\ to <= 1000
  BY AxisIs
<1>0. n \in Int /\ -1000 <= n /\ n <= 1000 /\ n * e \in Int
  BY <1>ends, SMT
<1>1. p \in Int /\ d * p <= n * e /\ n * e < d * p + d
  BY <1>0, Division DEF Part
<1>2. v = IF e >= d THEN to ELSE from + p
  BY DEF Along
<1>3. MinDuration \in Nat /\ 1000 * (g - e) \in Nat /\ to - from = n
  BY MotionAssumption
<1> HIDE DEF n, p, v
<1>4. CASE e >= d
  <2>1. to - v - 1 = -1 /\ v - to = 0 /\ v \in Int
    BY <1>2, <1>4, <1>ends
  <2>2. /\ (-1) * MinDuration <= 1000 * (g - e)
        /\ 0 * MinDuration <= 1000 * (g - e)
    BY <1>3
  <2> QED
    BY <2>1, <2>2 DEF v, UpWithin, DownWithin
<1>5. CASE e < d
  <2>1. /\ to - v - 1 = n - p - 1 /\ v - to = p - n /\ v \in Int
        /\ n - p - 1 \in Int /\ p - n \in Int
    BY <1>0, <1>1, <1>2, <1>3, <1>5, <1>ends
  <2>2. /\ n * (d - e) <= 1000 * (d - e) /\ -(1000 * (d - e)) <= n * (d - e)
        /\ 1000 * (d - e) <= 1000 * (g - e)
    BY <1>0, <1>5, SMT
  <2>3. /\ d * (n - p - 1) = d * n - d * p - d /\ d * (p - n) = d * p - d * n
        /\ n * (d - e) = d * n - n * e
        /\ d * p \in Int /\ d * n \in Int
    BY <1>0, <1>1, SMT
  <2>4. d * (n - p - 1) <= 1000 * (g - e) /\ d * (p - n) <= 1000 * (g - e)
    BY <1>0, <1>1, <1>3, <2>2, <2>3
  <2>5. /\ (n - p - 1) * MinDuration <= 1000 * (g - e)
        /\ (p - n) * MinDuration <= 1000 * (g - e)
    BY <1>3, <2>1, <2>4, Smaller
  <2> QED
    BY <2>1, <2>5 DEF v, UpWithin, DownWithin
<1> QED
  BY <1>4, <1>5

(* From one time of a move to a later one.                                 *)
LEMMA AlongMove ==
  ASSUME NEW from \in Axis, NEW to \in Axis, NEW d \in Nat \ {0},
         MinDuration <= d, NEW e \in Nat, NEW f \in Nat, e <= f
  PROVE  LET v == Along(from, to, e, d)
             w == Along(from, to, f, d)
         IN  UpWithin(v, w, f - e) /\ UpWithin(w, v, f - e)
<1> DEFINE v == Along(from, to, e, d)
           w == Along(from, to, f, d)
<1>1. v \in Int /\ w \in Int
  BY FromStart
<1>2. CASE f >= d
  <2>1. w = to
    BY <1>2 DEF Along
  <2>2. UpWithin(v, to, f - e) /\ DownWithin(v, to, f - e)
    BY <1>2, ToEnd
  <2> HIDE DEF v, w
  <2>3. /\ (v - w - 1) * MinDuration = (v - w) * MinDuration - MinDuration
        /\ (v - w) * MinDuration \in Int /\ MinDuration \in Nat
    BY <1>1, MotionAssumption, SMT
  <2>4. UpWithin(w, v, f - e)
    BY <2>1, <2>2, <2>3 DEF UpWithin, DownWithin
  <2> QED
    BY <2>1, <2>2, <2>4 DEF v, w
<1>3. CASE f < d
  <2> DEFINE n == to - from
             p == Part(n, e, d)
             q == Part(n, f, d)
  <2>1. v = from + p /\ w = from + q
    BY <1>3 DEF Along
  <2>0. from \in Nat /\ from <= 1000 /\ to \in Nat /\ to <= 1000
    BY AxisIs
  <2>2. n \in Int /\ -1000 <= n /\ n <= 1000
    BY <2>0
  <2> HIDE DEF n, v, w
  <2>3. /\ p \in Int /\ q \in Int /\ UpWithin(p, q, f - e)
        /\ UpWithin(q, p, f - e)
    BY <2>2, Slope
  <2> HIDE DEF p, q
  <2>4. w - v - 1 = q - p - 1 /\ v - w - 1 = p - q - 1
    BY <2>0, <2>1, <2>3
  <2> QED
    BY <2>3, <2>4 DEF v, w, UpWithin
<1> QED
  BY <1>2, <1>3
-----------------------------------------------------------------------------
(* What the parser hears, and what the servo gets.                         *)

LEMMA Fractions ==
  ASSUME NEW digits \in DigitsType
  PROVE  Fraction(digits) \in Axis
<1> DEFINE k == digits.number
           u == digits.unit
<1>1. k \in 0..u /\ u \in Nat \ {0}
  BY DEF DigitsType
<1>2. Fraction(digits) = Part(1000, k, u)
  BY DEF Fraction, Part
<1> HIDE DEF k, u
<1>3. Part(1000, k, u) \in 0..1000
  <2> DEFINE m == 1000
  <2>1. m \in Nat
    OBVIOUS
  <2> HIDE DEF m
  <2>2. Part(m, k, u) \in 0..m
    BY <1>1, <2>1, PartOf
  <2> QED
    BY <2>2 DEF m
<1> QED
  BY <1>2, <1>3 DEF Axis

LEMMA Heard ==
  ASSUME NEW p \in 0..1000
  PROVE  LET digits == Printed(Rounded(p))
         IN  /\ digits \in DigitsType
             /\ p \notin 1..99 => p - Fraction(digits) \in {-1, 0, 1}
<1> DEFINE n == Rounded(p)
<1>1. /\ n \in 0..999 /\ 1000 * n <= 999 * p + 500
      /\ 999 * p + 500 < 1000 * n + 1000
  BY DEF Rounded, Times999
<1> HIDE DEF n
<1>2. Printed(n) \in DigitsType
  BY <1>1 DEF Printed, DigitsType
<1>3. ASSUME p \notin 1..99 PROVE p - Fraction(Printed(n)) \in {-1, 0, 1}
  <2>1. CASE p = 0
    BY <1>1, <2>1 DEF Printed, Fraction
  <2>2. CASE p \in 100..1000
    <3>1. n \in 100..999 /\ p - n \in {-1, 0, 1}
      BY <1>1, <2>2
    <3>2. Fraction(Printed(n)) = n
      BY <3>1 DEF Printed, Fraction
    <3> QED
      BY <3>1, <3>2
  <2> QED
    BY <1>3, <2>1, <2>2
<1> QED
  BY <1>2, <1>3 DEF n

LEMMA Durations == UInt16 \subseteq Nat
  BY SMT DEF UInt16

LEMMA Matched ==
  ASSUME NEW digits \in DigitsType, NEW extension \in Extensions, now \in Nat
  PROVE  /\ Match(digits, extension) \in Command
         /\ Match(digits, extension).value = Fraction(digits)
         /\ Fraction(digits) \in Axis
<1>1. Fraction(digits) \in Axis
  BY Fractions
<1> DEFINE number == extension.number
           duration == ExtendValue(number)
<1>2. number \in Nat /\ extension.letter \in {"I", "other"}
  BY MotionAssumption
<1>3. duration = number % 65536
  BY DEF ExtendValue, Wrap16
<1> HIDE DEF number
<1>4. number % 65536 \in UInt16
  BY <1>2, SMT DEF UInt16
<1> HIDE DEF duration
<1>5. duration \in UInt16
  BY <1>3, <1>4
<1>6. Fraction(digits) \in Int
  BY <1>1, AxisIs
<1>7. Match(digits, extension) =
        [value |-> Fraction(digits), letter |-> extension.letter,
         duration |-> duration, time |-> now]
  BY DEF Match, duration, number
<1> QED
  BY <1>1, <1>2, <1>5, <1>6, <1>7, SMT DEF Command

LEMMA Clamped ==
  ASSUME NEW n \in Int
  PROVE  1500 + Clamp(n) \in Pulses
  BY DEF Clamp, Greater, Lesser, Pulses

LEMMA Targets ==
  ASSUME setup \in Setups, NEW v \in Int
  PROVE  1500 + Target(v) \in Pulses
<1>1. /\ setup.left \in Int /\ setup.right \in Int /\ setup.scale \in Int
      /\ setup.zero \in Int
  <2>1. setup \in SetupType
    BY MotionAssumption
  <2> QED
    BY <2>1 DEF SetupType
<1>2. v * (setup.right - setup.left) \in Int
  BY <1>1
<1>3. Limited(v) \in Int
  BY <1>1, <1>2 DEF Limited
<1>4. (2 * Limited(v) - 1000) * setup.scale \in Int
  BY <1>1, <1>3
<1>5. Twist(v) \in Int
  BY <1>4 DEF Twist
<1> DEFINE n == Twist(v) + setup.zero - 1500
<1>6. n \in Int
  BY <1>1, <1>5
<1> HIDE DEF n
<1>7. 1500 + Clamp(n) \in Pulses
  BY <1>6, Clamped
<1> QED
  BY <1>7 DEF Target, InRange, n

LEMMA WidthsAre ==
  ASSUME setup \in Setups, NEW v \in Int, NEW us \in Widths(v)
  PROVE  us \in Nat /\ (setup.number => us \in Pulses)
<1> DEFINE regular == 1500 + Target(v)
<1>1. regular \in Pulses
  BY Targets
<1>2. us = regular \/ (~setup.number /\ us \in Garbage)
  BY DEF Widths
<1> HIDE DEF regular
<1>3. regular \in Nat
  BY <1>1, PulseIs
<1>4. Garbage \subseteq Nat
  BY MotionAssumption
<1> QED
  BY <1>1, <1>2, <1>3, <1>4

LEMMA Frequencies ==
  ASSUME setup \in Setups
  PROVE  setup.freq \in 50..333 /\ setup.timer \in 50..333
<1>1. setup \in SetupType
  BY MotionAssumption
<1> QED
  BY <1>1 DEF SetupType

(* The duty is the share of the period, rounded down.                      *)
LEMMA Duties ==
  ASSUME setup \in Setups, NEW us \in Nat
  PROVE  /\ Lesser(us * setup.freq, Second) \in Nat
         /\ targetToDuty(us) \in Nat
         /\ Second * targetToDuty(us)
              <= FullDuty * Lesser(us * setup.freq, Second)
         /\ FullDuty * Lesser(us * setup.freq, Second)
              < Second * targetToDuty(us) + Second
<1> DEFINE part == Lesser(us * setup.freq, Second)
           q == part \div 1000
           r == part % 1000
           low == (FullDuty * r) \div 1000
           high == (FullDuty * q + low) \div 1000
<1>1. us * setup.freq \in Nat
  BY Frequencies, SMT
<1>2. part \in Nat
  BY <1>1, SMT DEF Lesser, Second
<1>3. targetToDuty(us) = high
  BY DEF targetToDuty
<1> HIDE DEF part
<1>4. q \in Nat /\ r \in 0..999 /\ part = 1000 * q + r
  BY <1>2, SMT
<1> HIDE DEF q, r
<1>5. /\ low \in Nat /\ 1000 * low <= FullDuty * r
      /\ FullDuty * r < 1000 * low + 1000
  BY <1>4, SMT DEF FullDuty
<1> HIDE DEF low
<1>6. /\ high \in Nat /\ 1000 * high <= FullDuty * q + low
      /\ FullDuty * q + low < 1000 * high + 1000
  BY <1>4, <1>5, SMT DEF FullDuty
<1> HIDE DEF high
<1>7. /\ Second * high <= FullDuty * part
      /\ FullDuty * part < Second * high + Second
  BY <1>4, <1>5, <1>6, SMT DEF FullDuty, Second
<1> QED
  BY <1>2, <1>3, <1>6, <1>7 DEF part

(* The time it stands for, rounded down again.                             *)
LEMMA OnTimes ==
  ASSUME setup \in Setups, NEW us \in Nat
  PROVE  /\ OnTime(us) \in Nat
         /\ 256 * (OnTime(us) * setup.timer) <= 15625 * targetToDuty(us)
         /\ 15625 * targetToDuty(us) < 256 * ((OnTime(us) + 1) * setup.timer)
<1> DEFINE a == 15625 * targetToDuty(us)
           d == 256 * setup.timer
           q == OnTime(us)
           t == setup.timer
<1>1. targetToDuty(us) \in Nat /\ t \in 50..333
  BY Duties, Frequencies, Zenon
<1>2. a \in Nat /\ d \in Nat \ {0} /\ t \in Nat
  BY <1>1, SMT
<1>3. q = a \div d /\ d = 256 * t
  BY SMT DEF OnTime
<1> HIDE DEF a, d, q, t
<1>4. q \in Int /\ d * q <= a /\ a < d * q + d
  <2>1. a \in Int
    BY <1>2
  <2>2. /\ a \div d \in Int
        /\ d * (a \div d) <= a /\ a < d * (a \div d) + d
    BY <1>2, <2>1, Division, Zenon
  <2> QED
    BY <1>3, <2>2, Zenon
<1>5. q \in Nat
  BY <1>2, <1>3, <1>4, SMT
<1>6. d * q = 256 * (q * t) /\ d * q + d = 256 * ((q + 1) * t)
  BY <1>2, <1>3, <1>5, SMT
<1>7. /\ q \in Nat /\ 256 * (q * t) <= a /\ a < 256 * ((q + 1) * t)
  BY <1>4, <1>5, <1>6, SMT
<1> QED
  BY <1>7, SMT DEF a, q, t

LEMMA OnTimeInRange ==
  ASSUME setup \in Setups, NEW us \in Pulses
  PROVE  /\ 500 * setup.freq < (OnTime(us) + 1) * setup.timer + 72
         /\ OnTime(us) * setup.timer <= 2500 * setup.freq
<1> DEFINE f == setup.freq
           t == setup.timer
           part == Lesser(us * f, Second)
           duty == targetToDuty(us)
           q == OnTime(us)
           below == q * t
           above == (q + 1) * t
<1>0. f \in 50..333 /\ t \in 50..333
  BY Frequencies
<1>us. us \in Nat /\ 500 <= us /\ us <= 2500
  BY PulseIs
<1>1. part = us * f
  <2>1. us * f \in Nat /\ us * f <= Second
    BY <1>0, <1>us, SMT DEF Second
  <2> QED
    BY <2>1, SMT DEF Lesser, Second
<1>2. 500 * f <= part /\ part <= 2500 * f
  <2> HIDE DEF part, f
  <2> QED
    BY <1>0, <1>1, <1>us, SMT
<1>3. /\ part \in Nat /\ duty \in Nat
      /\ Second * duty <= FullDuty * part
      /\ FullDuty * part < Second * duty + Second
  BY <1>us, Duties
<1>4. q \in Nat /\ 256 * below <= 15625 * duty /\ 15625 * duty < 256 * above
  BY <1>us, OnTimes, SMT
<1> HIDE DEF f, t, part, duty, q
<1>5. below \in Nat /\ above \in Nat
  BY <1>0, <1>4, SMT
<1> HIDE DEF below, above
<1>6. 500 * f < above + 72 /\ below <= 2500 * f
  BY <1>0, <1>2, <1>3, <1>4, <1>5, SMT DEF FullDuty, Second
<1> QED
  BY <1>6, SMT DEF f, t, q, below, above

LEMMA Interpolates ==
  ASSUME reg \in [Field -> Int], reg.duration \in Nat, clock \in Nat
  PROVE  Interpolated \in Int
<1>1. reg.value \in Int /\ reg.last \in Int /\ reg.time \in Int
  BY DEF Field
<1>2. Elapsed \in Int
  BY <1>1 DEF Elapsed
<1>3. (reg.value - reg.last) * Elapsed \in Int
  BY <1>1, <1>2
<1>4. CASE IsThere
  BY <1>1, <1>4 DEF Interpolated
<1>5. CASE ~IsThere
  <2>1. reg.duration \in Nat \ {0}
    BY <1>5 DEF IsThere, Arrived
  <2>2. ((reg.value - reg.last) * Elapsed) \div reg.duration \in Int
    BY <1>3, <2>1, Division
  <2> QED
    BY <1>1, <1>5, <2>2 DEF Interpolated
<1> QED
  BY <1>4, <1>5

-----------------------------------------------------------------------------
(* Each step.                                                              *)

(* What a command leaves.                                                  *)
LEMMA Stores ==
  ASSUME IInv, ParseText \/ ParseHandy
  PROVE  /\ \E digits \in DigitsType, extension \in Extensions :
              /\ Store(Match(digits, extension), extension)
              /\ current' = Match(digits, extension)
         /\ current' \in Command /\ current'.value \in Axis
         /\ last' = current
         /\ hull' \in [low : Int, high : Int]
         /\ \A n \in hull.low..hull.high : n \in hull'.low..hull'.high
         /\ current'.value \in hull'.low..hull'.high
         /\ commands' \in 0..MaxCommand
         /\ UNCHANGED <<now, pc, readVars, value, at, outputVars, setup>>
<1>1. PICK digits \in DigitsType, extension \in Extensions :
        Store(Match(digits, extension), extension)
  <2>1. CASE ParseText
    BY <2>1, MotionAssumption DEF ParseText
  <2>2. CASE ParseHandy
    <3>1. \A p \in Positions : Printed(Rounded(p)) \in DigitsType
      BY Heard, MotionAssumption
    <3> QED
      BY <2>2, <3>1 DEF ParseHandy
  <2> QED
    BY <2>1, <2>2
<1> DEFINE command == Match(digits, extension)
<1>2. command \in Command /\ command.value \in Axis
  BY Matched DEF IInv, TypeOK
<1>3. Store(command, extension)
  BY <1>1
<1> HIDE DEF command
<1>4. /\ current' = command /\ last' = current
      /\ hull' = [low |-> Lesser(hull.low, command.value),
                  high |-> Greater(hull.high, command.value)]
      /\ commands < MaxCommand /\ commands' = commands + 1
      /\ UNCHANGED <<now, pc, readVars, value, at, outputVars, setup>>
  BY <1>3 DEF Store, Previous, LastIsCurrent
<1>5. /\ hull' \in [low : Int, high : Int]
      /\ \A n \in hull.low..hull.high : n \in hull'.low..hull'.high
      /\ command.value \in hull'.low..hull'.high
  <2>1. hull.low \in Int /\ hull.high \in Int /\ command.value \in Int
    BY <1>2, AxisIs DEF IInv, TypeOK
  <2> QED
    BY <1>4, <2>1 DEF Lesser, Greater
<1>6. commands' \in 0..MaxCommand
  BY <1>4, MotionAssumption DEF IInv, TypeOK
<1> QED
  BY <1>2, <1>3, <1>4, <1>5, <1>6 DEF command

(* A pulse on the RMT channel.                                             *)
LEMMA Drives ==
  ASSUME NEW w \in Nat, Drive(w), now \in Nat
  PROVE  /\ pulse' \in Nat /\ until' \in Nat
         /\ w \in Pulses => pulse' = w /\ until' <= now + PulseSpace
<1>1. /\ Symbol(w) \in Nat
      /\ w \in Pulses => Symbol(w) = w
  BY PulseIs, SMT DEF Symbol
<1>2. pulse' = Symbol(w) /\ until' = now + (Symbol(w) + 999) \div 1000
  BY DEF Drive
<1> DEFINE s == Symbol(w)
<1> HIDE DEF s
<1>3. s \in Nat
  BY <1>1 DEF s
<1> DEFINE q == (s + 999) \div 1000
<1>4. q \in Int /\ 1000 * q <= s + 999 /\ s + 999 < 1000 * q + 1000
  BY <1>3, Division
<1> HIDE DEF q
<1>5. q \in Nat /\ (s <= 2500 => q <= 3)
  BY <1>3, <1>4, SMT
<1> QED
  BY <1>1, <1>2, <1>3, <1>5, PulseIs DEF PulseSpace, q, s

LEMMA TypeStep == ASSUME IInv, Next PROVE TypeOK'
<1> USE DEF axisVars, readVars, outputVars, historyVars
<1>0. TypeOK /\ ReadInv /\ ChannelInv
  BY DEF IInv
<1>1. CASE ParseText \/ ParseHandy
  <2>1. asked' \in Positions \cup {None}
    BY <1>1 DEF ParseText, ParseHandy
  <2>2. smooth' \in BOOLEAN
    BY <1>1, Zenon DEF ParseText, ParseHandy, Store
  <2> QED
    BY <1>0, <1>1, <2>1, <2>2, Stores DEF TypeOK
<1>2. CASE StartCompute
  BY <1>0, <1>2 DEF TypeOK, StartCompute
<1>3. CASE ReadType
  BY <1>0, <1>3 DEF TypeOK, ReadType, Field
<1>4. ASSUME NEW f \in Field, ReadField(f) PROVE TypeOK'
  <2>1. Stored(f) \in Int
    <3>1. /\ last.value \in Int /\ current.value \in Int
          /\ current.time \in Int
      BY <1>0 DEF TypeOK, Command
    <3>2. current.duration \in Nat
      BY <1>0, Durations DEF TypeOK, Command
    <3> QED
      BY <3>1, <3>2 DEF Stored, Field
  <2> QED
    BY <1>0, <1>4, <2>1 DEF TypeOK, ReadField
<1>5. CASE EndInterpolate
  <2>1. value' \in Int
    BY <1>0, <1>5, Interpolates DEF TypeOK, ReadInv, EndInterpolate
  <2> QED
    BY <1>0, <1>5, <2>1 DEF TypeOK, EndInterpolate
<1>6. CASE Execute
  <2>1. pulse' \in Nat
    <3>1. setup \in Setups /\ value \in Int
      BY <1>0 DEF TypeOK
    <3>2. PICK us \in Widths(value) : pulse' = OnTime(us)
      BY <1>6 DEF Execute
    <3>3. us \in Nat
      BY <3>1, WidthsAre
    <3> QED
      BY <3>1, <3>2, <3>3, OnTimes
  <2>2. reg' \in [Field -> Int]
    BY <1>6 DEF Execute, EndCycle, Unread
  <2> QED
    BY <1>0, <1>6, <2>1, <2>2 DEF TypeOK, Execute, EndCycle
<1>7. CASE Transmit
  <2>1. reg' \in [Field -> Int]
    BY <1>7 DEF Transmit, EndCycle, Unread
  <2>2. PICK us \in Widths(value) :
           IF waiting = 0 /\ until <= now
             THEN Drive(us) /\ UNCHANGED <<waiting, width>>
             ELSE /\ waiting < TransQueueDepth
                  /\ waiting' = waiting + 1
                  /\ width' = us
                  /\ UNCHANGED <<pulse, until>>
    BY <1>7 DEF Transmit
  <2>us. us \in Nat
    BY <1>0, WidthsAre DEF TypeOK
  <2>3. /\ pulse' \in Nat /\ until' \in Nat /\ width' \in Nat
        /\ waiting' \in 0..TransQueueDepth
    BY <1>0, <2>2, <2>us, Drives, MotionAssumption DEF TypeOK
  <2>4. late' \in BOOLEAN
    BY <1>7, Zenon DEF Transmit
  <2>5. executed' \in 0..now \cup {None}
    BY <1>0, <1>7 DEF TypeOK, Transmit
  <2> QED
    BY <1>0, <1>7, <2>1, <2>3, <2>4, <2>5 DEF TypeOK, Transmit, EndCycle
<1>8. CASE TransmitNext
  <2>1. pulse' \in Nat /\ until' \in Nat
    BY <1>0, <1>8, Drives, MotionAssumption DEF TypeOK, TransmitNext
  <2>2. waiting' \in 0..TransQueueDepth /\ width' \in Nat
    BY <1>0, <1>8, MotionAssumption DEF TypeOK, TransmitNext, PulseEnds
  <2> QED
    BY <1>0, <1>8, <2>1, <2>2 DEF TypeOK, TransmitNext
<1>9. CASE Tick
  <2>1. now' \in 0..MaxTime /\ 0..now \subseteq 0..now'
    BY <1>0, <1>9, MotionAssumption DEF TypeOK, Tick
  <2> QED
    BY <1>0, <1>9, <2>1 DEF TypeOK, Tick
<1> QED
  BY <1>1, <1>2, <1>3, <1>4, <1>5, <1>6, <1>7, <1>8, <1>9 DEF Next

LEMMA HullStep == ASSUME IInv, Next PROVE HullInv'
<1> USE DEF axisVars, readVars, outputVars, historyVars
<1>0. HullInv /\ TypeOK
  BY DEF IInv
<1>1. CASE ParseText \/ ParseHandy
  <2>1. \A n \in Hull : n \in Hull'
    BY <1>1, Stores DEF Hull
  <2> QED
    BY <1>0, <1>1, <2>1, Stores DEF HullInv, Hull
<1>2. CASE UNCHANGED <<last, current, hull>>
  BY <1>0, <1>2 DEF HullInv, Hull
<1> QED
  BY <1>1, <1>2
     DEF Next, StartCompute, ReadType, ReadField, EndInterpolate, Execute,
         Transmit, EndCycle, TransmitNext, Tick

LEMMA ReadStep == ASSUME IInv, Next PROVE ReadInv'
<1> USE DEF axisVars, readVars, outputVars, historyVars
<1>0. ReadInv /\ HullInv /\ TypeOK
  BY DEF IInv
<1>1. CASE ParseText \/ ParseHandy
  <2>1. \A n \in Hull : n \in Hull'
    BY <1>1, Stores DEF Hull
  <2>2. UNCHANGED <<pc, reg, toRead>>
    BY <1>1, Stores
  <2> QED
    BY <1>0, <2>1, <2>2 DEF ReadInv
<1>2. CASE StartCompute
  BY <1>0, <1>2 DEF ReadInv, StartCompute
<1>3. CASE ReadType
  BY <1>0, <1>3 DEF ReadInv, ReadType, Unread, Field
<1>4. ASSUME NEW f \in Field, ReadField(f) PROVE ReadInv'
  <2>1. /\ pc = "read" /\ pc' = "read" /\ f \in toRead
        /\ reg' = [reg EXCEPT ![f] = Stored(f)] /\ toRead' = toRead \ {f}
        /\ UNCHANGED <<hull, last, current>> /\ reg \in [Field -> Int]
    BY <1>0, <1>4 DEF ReadField, TypeOK
  <2>2. /\ last.value \in Hull /\ current.value \in Hull
        /\ current.duration \in Nat
    BY <1>0, Durations DEF HullInv, TypeOK, Command
  <2>3. Hull' = Hull
    BY <2>1 DEF Hull
  <2>4. CASE f = "value"
    BY <1>0, <2>1, <2>2, <2>3, <2>4 DEF ReadInv, Stored, Field
  <2>5. CASE f = "last"
    BY <1>0, <2>1, <2>2, <2>3, <2>5 DEF ReadInv, Stored, Field
  <2>6. CASE f = "time"
    BY <1>0, <2>1, <2>2, <2>3, <2>6 DEF ReadInv, Stored, Field
  <2>7. CASE f = "duration"
    BY <1>0, <2>1, <2>2, <2>3, <2>7 DEF ReadInv, Stored, Field
  <2> QED
    BY <2>4, <2>5, <2>6, <2>7 DEF Field
<1>5. CASE EndInterpolate
  BY <1>0, <1>5 DEF ReadInv, EndInterpolate
<1>6. CASE Execute \/ Transmit
  BY <1>6 DEF ReadInv, Execute, Transmit, EndCycle, Unread, Field
<1>7. CASE TransmitNext \/ Tick
  BY <1>0, <1>7 DEF ReadInv, Hull, TransmitNext, Tick
<1> QED
  BY <1>1, <1>2, <1>3, <1>4, <1>5, <1>6, <1>7 DEF Next

(* Between two places, in whatever order they are given.                   *)
LEMMA WithinHull ==
  ASSUME IInv, EndInterpolate, clock >= reg.time
  PROVE  value' \in Hull
<1>1. /\ reg.value \in Hull /\ reg.duration \in Nat
      /\ reg.last \in Hull \/ reg.duration = 0
  BY DEF IInv, ReadInv, EndInterpolate
<1>2. /\ hull.low \in Int /\ hull.high \in Int /\ reg.value \in Int
      /\ reg.last \in Int /\ reg.time \in Int /\ clock \in Nat
  BY DEF IInv, TypeOK, Field
<1>3. CASE IsThere
  BY <1>1, <1>3 DEF EndInterpolate, Interpolated
<1>4. CASE ~IsThere
  <2> DEFINE n == reg.value - reg.last
             q == Part(n, Elapsed, reg.duration)
  <2>1. /\ Elapsed \in 0..reg.duration /\ reg.duration \in Nat \ {0}
        /\ n \in Int /\ reg.last \in Hull
    BY <1>1, <1>2, <1>4 DEF IsThere, Arrived, Elapsed
  <2>2. value' = reg.last + q
    BY <1>4 DEF EndInterpolate, Interpolated, Part
  <2> HIDE DEF n
  <2>3. q \in Int /\ IF n >= 0 THEN 0 <= q /\ q <= n ELSE n <= q /\ q <= 0
    BY <2>1, PartOf
  <2> HIDE DEF q
  <2> QED
    BY <1>1, <1>2, <2>1, <2>2, <2>3 DEF Hull, n
<1> QED
  BY <1>3, <1>4

LEMMA PositionStep == ASSUME IInv, Next PROVE PositionWithinCommands'
<1> USE DEF axisVars, readVars, outputVars, historyVars
<1>0. PositionWithinCommands
  BY DEF IInv
<1>1. CASE ParseText \/ ParseHandy
  <2>1. UNCHANGED <<pc, value, clock, reg>>
    BY <1>1, Stores
  <2>2. \A n \in hull.low..hull.high : n \in hull'.low..hull'.high
    BY <1>1, Stores
  <2> QED
    BY <1>0, <2>1, <2>2 DEF PositionWithinCommands
<1>2. CASE EndInterpolate
  BY <1>2, WithinHull DEF PositionWithinCommands, EndInterpolate, Hull
<1>3. CASE pc' # "execute" \/ UNCHANGED <<pc, value, hull, clock, reg>>
  BY <1>0, <1>3 DEF PositionWithinCommands
<1> QED
  BY <1>1, <1>2, <1>3
     DEF Next, StartCompute, ReadType, ReadField, Execute, Transmit, EndCycle,
         TransmitNext, Tick

LEMMA HeardStep == ASSUME IInv, Next PROVE HandyHeard'
<1> USE DEF axisVars, readVars, outputVars, historyVars
<1>0. HandyHeard
  BY DEF IInv
<1>1. CASE ParseText
  BY <1>1 DEF ParseText, HandyHeard
<1>2. CASE ParseHandy
  <2>1. PICK p \in Positions, extension \in Extensions :
          /\ Store(Match(Printed(Rounded(p)), extension), extension)
          /\ asked' = p
    BY <1>2 DEF ParseHandy
  <2>2. current'.value = Fraction(Printed(Rounded(p)))
    BY <2>1 DEF Store, Match
  <2> QED
    BY <2>1, <2>2, Heard, MotionAssumption DEF HandyHeard
<1>3. CASE UNCHANGED <<asked, current>>
  BY <1>0, <1>3 DEF HandyHeard
<1> QED
  BY <1>1, <1>2, <1>3
     DEF Next, StartCompute, ReadType, ReadField, EndInterpolate, Execute,
         Transmit, EndCycle, TransmitNext, Tick

(* The channel is idle when the executor task comes in time.               *)
LEMMA InTime ==
  ASSUME IInv, Transmit, setup.number, ~late'
  PROVE  /\ ~late /\ waiting = 0 /\ UNCHANGED waiting
         /\ executed' = now /\ now \in Nat
         /\ pulse' \in Pulses /\ until' <= now + PulseSpace
<1>1. /\ ~late /\ executed' = now
      /\ executed = None \/ now >= executed + PulseSpace
  <2>1. ~(late \/ (executed # None /\ now < executed + PulseSpace))
    BY Zenon DEF Transmit
  <2>2. executed' = now
    BY DEF Transmit
  <2>3. executed \in Nat \cup {None} /\ now \in Nat
    BY DEF IInv, TypeOK
  <2> QED
    BY <2>1, <2>2, <2>3 DEF PulseSpace, None
<1>2. now \in Nat /\ until \in Nat /\ executed \in Nat \cup {None}
  BY DEF IInv, TypeOK
<1>3. waiting = 0 /\ until <= now
  BY <1>1, <1>2 DEF IInv, ChannelInv, PulseSpace
<1>4. PICK us \in Widths(value) : Drive(us) /\ UNCHANGED waiting
  BY <1>3 DEF Transmit
<1>5. us \in Nat /\ us \in Pulses
  BY WidthsAre DEF IInv, TypeOK
<1>6. pulse' \in Pulses /\ until' <= now + PulseSpace
  <2>1. pulse' = us /\ until' <= now + PulseSpace
    BY <1>2, <1>4, <1>5, Drives
  <2> QED
    BY <1>5, <2>1
<1> QED
  BY <1>1, <1>2, <1>3, <1>4, <1>6

LEMMA ChannelStep == ASSUME IInv, Next PROVE ChannelInv'
<1> USE DEF axisVars, readVars, outputVars, historyVars
<1>0. ChannelInv
  BY DEF IInv
<1>1. CASE Transmit
  <2> SUFFICES ASSUME setup'.number, ~late'
               PROVE  /\ waiting' = 0 /\ until' <= executed' + PulseSpace
                      /\ executed' # None
    BY DEF ChannelInv
  <2>1. setup.number
    BY <1>1 DEF Transmit, EndCycle
  <2> QED
    BY <1>1, <2>1, InTime DEF None
<1>2. CASE TransmitNext
  BY <1>0, <1>2 DEF ChannelInv, TransmitNext, PulseEnds
<1>3. CASE UNCHANGED <<until, waiting, executed, late, setup>>
  BY <1>0, <1>3 DEF ChannelInv
<1>4. CASE ParseText \/ ParseHandy
  BY <1>3, <1>4, Stores
<1> QED
  BY <1>1, <1>2, <1>3, <1>4
     DEF Next, StartCompute, ReadType, ReadField, EndInterpolate, Execute,
         EndCycle, Tick

LEMMA PulseStep == ASSUME IInv, Next PROVE PulseInRange'
<1> USE DEF axisVars, readVars, outputVars, historyVars
<1>0. PulseInRange /\ ChannelInv /\ TypeOK
  BY DEF IInv
<1>1. CASE Transmit
  <2>1. setup' = setup /\ setup.actuator = "RMT"
    BY <1>1 DEF Transmit, EndCycle
  <2> SUFFICES ASSUME setup.number, ~late'
               PROVE  waiting' = 0 /\ pulse' \in Pulses
    BY <2>1 DEF PulseInRange, Pulses
  <2> QED
    BY <1>1, InTime
<1>2. CASE TransmitNext
  BY <1>0, <1>2 DEF ChannelInv, PulseInRange, TransmitNext, PulseEnds
<1>3. CASE Execute
  <2>1. /\ setup' = setup /\ setup.actuator = "LEDC"
        /\ late' = late /\ waiting' = waiting
    BY <1>3 DEF Execute, EndCycle
  <2> SUFFICES ASSUME setup.number, ~late
               PROVE  /\ waiting = 0
                      /\ 500 * setup.freq < (pulse' + 1) * setup.timer + 72
                      /\ pulse' * setup.timer <= 2500 * setup.freq
    BY <2>1 DEF PulseInRange
  <2>2. setup \in Setups /\ value \in Int
    BY <1>0 DEF TypeOK
  <2>3. PICK us \in Widths(value) : pulse' = OnTime(us)
    BY <1>3 DEF Execute
  <2>4. us \in Pulses
    BY <2>2, WidthsAre
  <2>5. waiting = 0
    BY <1>0 DEF ChannelInv
  <2> QED
    BY <2>2, <2>3, <2>4, <2>5, OnTimeInRange
<1>4. CASE UNCHANGED <<pulse, waiting, late, setup>>
  BY <1>0, <1>4 DEF PulseInRange
<1>5. CASE ParseText \/ ParseHandy
  BY <1>4, <1>5, Stores
<1> QED
  BY <1>1, <1>2, <1>3, <1>4, <1>5
     DEF Next, StartCompute, ReadType, ReadField, EndInterpolate, Tick

-----------------------------------------------------------------------------
(* How fast the axis moves.                                                *)

LEMMA Chains ==
  ASSUME NEW a \in Int, NEW b \in Int, NEW c \in Int, NEW s \in Int,
         NEW u \in Int
  PROVE  /\ UpWithin(a, b, s) /\ DownWithin(c, b, u) => UpWithin(a, c, s + u)
         /\ DownWithin(a, b, s) /\ UpWithin(c, b, u) => UpWithin(c, a, s + u)
         /\ DownWithin(a, b, s) /\ DownWithin(b, c, u) =>
              DownWithin(a, c, s + u)
<1> DEFINE d == MinDuration
<1>1. d \in Nat
  BY MotionAssumption
<1> HIDE DEF d
<1>2. /\ (b - a - 1) * d + (c - b) * d = (c - a - 1) * d
      /\ (a - b) * d + (b - c - 1) * d = (a - c - 1) * d
      /\ (a - b) * d + (b - c) * d = (a - c) * d
      /\ 1000 * (s + u) = 1000 * s + 1000 * u
  BY <1>1, SMT
<1>3. /\ (b - a - 1) * d \in Int /\ (c - b) * d \in Int
      /\ (a - b) * d \in Int /\ (b - c - 1) * d \in Int
      /\ (b - c) * d \in Int
  BY <1>1, SMT
<1>4. ASSUME UpWithin(a, b, s), DownWithin(c, b, u) PROVE UpWithin(a, c, s + u)
  BY <1>2, <1>3, <1>4 DEF UpWithin, DownWithin, d
<1>5. ASSUME DownWithin(a, b, s), UpWithin(c, b, u) PROVE UpWithin(c, a, s + u)
  BY <1>2, <1>3, <1>5 DEF UpWithin, DownWithin, d
<1>6. ASSUME DownWithin(a, b, s), DownWithin(b, c, u)
      PROVE  DownWithin(a, c, s + u)
  BY <1>2, <1>3, <1>6 DEF DownWithin, d
<1> QED
  BY <1>4, <1>5, <1>6

(* A move of at least MinDuration that is over.                            *)
LEMMA WholeMove ==
  ASSUME NEW from \in Axis, NEW to \in Axis, NEW time \in Nat,
         MinDuration <= time
  PROVE  DownWithin(from, to, time)
<1> DEFINE d == MinDuration
           n == from - to
<1>1. d \in Nat /\ n \in Int /\ n <= 1000 /\ d <= time
  BY MotionAssumption, AxisIs
<1> HIDE DEF d, n
<1>2. d * n <= d * 1000
  BY <1>1, Grows
<1>3. n * d = d * n /\ d * 1000 <= 1000 * time
  BY <1>1, SMT
<1>4. n * d \in Int /\ d * 1000 \in Int /\ 1000 * time \in Int
  BY <1>1, SMT
<1>5. n * d <= 1000 * time
  <2> DEFINE x == n * d
             y == d * 1000
             z == 1000 * time
  <2>1. x <= y /\ y <= z /\ x \in Int /\ y \in Int /\ z \in Int
    BY <1>2, <1>3, <1>4
  <2> HIDE DEF x, y, z
  <2>2. x <= z
    BY <2>1
  <2> QED
    BY <2>2 DEF x, z
<1> QED
  BY <1>5 DEF DownWithin, d, n

LEMMA Numbers ==
  ASSUME IInv
  PROVE  /\ last.value \in Int /\ current.value \in Int /\ value \in Int
         /\ current.time \in Nat /\ current.duration \in Nat /\ at \in Nat
         /\ clock \in Nat /\ now \in Nat /\ at <= now /\ clock <= now
         /\ MinDuration \in Nat \ {0}
<1>1. /\ last \in Command /\ current \in Command
      /\ value \in Int /\ at \in 0..now /\ clock \in 0..now /\ now \in Nat
  BY DEF IInv, TypeOK
<1>2. last.value \in Int /\ current.value \in Int /\ current.time \in Nat
  BY <1>1 DEF Command
<1>3. current.duration \in Nat
  BY <1>1, Durations DEF Command
<1> QED
  BY <1>1, <1>2, <1>3, MotionAssumption

(* The value at the end of an interpolation that nothing has disturbed.    *)
LEMMA SmoothEnd ==
  ASSUME IInv, EndInterpolate, smooth
  PROVE  /\ at' = clock /\ at <= clock /\ current.time <= clock
         /\ UNCHANGED <<last, current>>
         /\ \/ current = Rest /\ value = 500 /\ value' = 500
            \/ /\ Timed /\ (OnMove \/ BehindMove)
               /\ value' = Along(last.value, current.value,
                                 clock - current.time, current.duration)
<1>1. /\ pc = "read" /\ toRead = {} /\ value' = Interpolated /\ at' = clock
      /\ UNCHANGED <<last, current>>
  BY DEF EndInterpolate, axisVars
<1>2. at <= clock /\ current.time <= clock
  BY <1>1 DEF IInv, SmoothInv
<1>3. CASE current = Rest /\ value = 500
  <2>1. reg.value = 500 /\ reg.duration = 0
    BY <1>1, <1>3 DEF IInv, SmoothInv, ReadAll, Stored, Rest
  <2>2. value' = 500
    BY <1>1, <2>1 DEF Interpolated, IsThere, Arrived
  <2> QED
    BY <1>1, <1>2, <1>3, <2>2
<1>4. CASE Timed /\ (OnMove \/ BehindMove)
  <2>1. /\ reg.value = current.value /\ reg.last = last.value
        /\ reg.time = current.time /\ reg.duration = current.duration
    BY <1>1, <1>4 DEF IInv, SmoothInv, Timed, ReadAll, Stored, Field
  <2>2. reg.duration # 0
    BY <1>4, <2>1, Numbers DEF Timed
  <2>3. value' = Along(last.value, current.value, clock - current.time,
                       current.duration)
    BY <1>1, <2>1, <2>2
       DEF Interpolated, IsThere, Arrived, Elapsed, Along, Part
  <2> QED
    BY <1>1, <1>2, <1>4, <2>3
<1> QED
  BY <1>3, <1>4 DEF IInv, SmoothInv

LEMMA EndKeepsSmooth ==
  ASSUME IInv, EndInterpolate
  PROVE  SmoothInv'
<1>1. /\ pc' = "execute" /\ smooth' = smooth /\ now' = now
      /\ UNCHANGED <<last, current>>
  BY DEF EndInterpolate, historyVars, axisVars
<1> SUFFICES ASSUME smooth
             PROVE  SmoothInv'
  BY <1>1 DEF SmoothInv
<1>2. \/ current' = Rest /\ value' = 500
      \/ Timed' /\ OnMove'
  BY <1>1, SmoothEnd DEF Timed, OnMove
<1> QED
  BY <1>1, <1>2 DEF IInv, SmoothInv

LEMMA NotExtended ==
  ASSUME NEW n \in Nat, n <= 65535
  PROVE  ExtendValue(n) = n
  BY SMT DEF ExtendValue, Wrap16

(* A command that makes no jump starts where the value can be in time.     *)
LEMMA Arrives ==
  ASSUME IInv, smooth, Ended
  PROVE  /\ at <= now
         /\ UpWithin(value, current.value, now - at)
         /\ DownWithin(value, current.value, now - at)
<1>1. last.value \in Axis /\ current.value \in Axis
  BY DEF IInv, SmoothInv
<1>2. CASE current = Rest /\ value = 500
  <2> DEFINE time == now - at
             v == current.value
             d == MinDuration
  <2>1. v - v - 1 = -1 /\ v - v = 0 /\ time \in Nat /\ value = v
    BY <1>1, <1>2, Numbers DEF Rest
  <2>2. d \in Nat
    BY Numbers
  <2> HIDE DEF time, v, d
  <2>3. (-1) * d <= 1000 * time /\ 0 * d <= 1000 * time
    BY <2>1, <2>2
  <2>4. UpWithin(value, v, time) /\ DownWithin(value, v, time)
    BY <2>1, <2>3 DEF UpWithin, DownWithin, d
  <2> QED
    BY <2>4, Numbers DEF time, v
<1>3. ASSUME Timed
      PROVE  /\ now >= current.time + current.duration
             /\ current.duration \in Nat \ {0}
             /\ MinDuration <= current.duration
  BY <1>3, Numbers DEF Timed, Ended
<1>4. CASE Timed /\ OnMove
  <2> DEFINE e == at - current.time
             g == now - current.time
             d == current.duration
             b == last.value
             c == current.value
             v == Along(b, c, e, d)
  <2>1. /\ e \in Nat /\ g \in Nat /\ e <= g /\ d <= g /\ d \in Nat \ {0}
        /\ MinDuration <= d /\ g - e = now - at
        /\ b \in Axis /\ c \in Axis
    BY <1>1, <1>3, <1>4, Numbers DEF OnMove
  <2>2. value = v
    BY <1>4 DEF OnMove
  <2> HIDE DEF e, g, d, b, c
  <2>3. /\ UpWithin(v, c, g - e)
        /\ DownWithin(v, c, g - e)
    BY <2>1, ToEnd
  <2> QED
    BY <2>1, <2>2, <2>3, Numbers DEF c
<1>5. CASE Timed /\ BehindMove
  <2> DEFINE s == current.time - at
             u == now - current.time
             a == value
             b == last.value
             c == current.value
  <2>1. /\ s \in Nat /\ u \in Nat /\ MinDuration <= u /\ s + u = now - at
        /\ a \in Int /\ b \in Axis /\ c \in Axis
    BY <1>1, <1>3, <1>5, Numbers DEF BehindMove
  <2>2. UpWithin(a, b, s) /\ DownWithin(a, b, s)
    BY <1>5 DEF BehindMove
  <2> HIDE DEF s, u, a, b, c
  <2>3. DownWithin(c, b, u) /\ DownWithin(b, c, u)
    BY <2>1, WholeMove
  <2>4. UpWithin(a, c, s + u) /\ DownWithin(a, c, s + u)
    BY <2>1, <2>2, <2>3, AxisIs, Chains
  <2> QED
    BY <2>1, <2>4, Numbers DEF a, c
<1> QED
  BY <1>2, <1>4, <1>5 DEF IInv, SmoothInv

LEMMA StoreKeepsSmooth ==
  ASSUME IInv, ParseText \/ ParseHandy
  PROVE  SmoothInv'
<1> SUFFICES ASSUME smooth' PROVE SmoothInv'
  BY DEF SmoothInv
<1>1. PICK digits \in DigitsType, extension \in Extensions :
        /\ Store(Match(digits, extension), extension)
        /\ current' = Match(digits, extension)
  BY Stores
<1>2. smooth /\ ~Jumps(extension)
  BY <1>1 DEF Store
<1>3. /\ extension.letter = "I" /\ extension.number \in MinDuration..65535
      /\ Ended /\ pc \notin {"type", "read"}
  BY <1>2 DEF Jumps
<1>4. /\ current'.time = now /\ current'.letter = "I"
      /\ current'.duration = extension.number
  <2>1. ExtendValue(extension.number) = extension.number
    <3> DEFINE n == extension.number
               d == MinDuration
    <3>1. d \in Nat /\ n \in d..65535
      BY <1>3, Numbers
    <3> HIDE DEF n, d
    <3>2. n \in Nat /\ n <= 65535
      BY <3>1, SMT
    <3>3. ExtendValue(n) = n
      BY <3>2, NotExtended
    <3> QED
      BY <3>3 DEF n
  <2> QED
    BY <1>1, <1>3, <2>1 DEF Match
<1>5. /\ UNCHANGED <<now, pc, value, at>> /\ last' = current
      /\ current'.value \in Axis
  BY Stores
<1>6. current.value \in Axis
  BY <1>2 DEF IInv, SmoothInv
<1>7. Timed'
  BY <1>3, <1>4, Numbers DEF Timed
<1>8. BehindMove'
  BY <1>2, <1>3, <1>4, <1>5, Arrives DEF BehindMove, UpWithin, DownWithin
<1>9. pc' \notin {"type", "read"} /\ current'.time <= now'
  BY <1>3, <1>4, <1>5, Numbers
<1> QED
  BY <1>5, <1>6, <1>7, <1>8, <1>9 DEF SmoothInv

LEMMA SmoothStep == ASSUME IInv, Next PROVE SmoothInv'
<1> USE DEF axisVars, readVars, outputVars, historyVars
<1>0. SmoothInv /\ ReadInv
  BY DEF IInv
<1>1. CASE ParseText \/ ParseHandy
  BY <1>1, StoreKeepsSmooth
<1>2. CASE StartCompute
  <2>1. /\ pc' = "type" /\ clock' = now
        /\ UNCHANGED <<now, last, current, value, at, smooth>>
    BY <1>2 DEF StartCompute
  <2> QED
    BY <1>0, <2>1, Numbers DEF SmoothInv, Timed, OnMove, BehindMove
<1>3. CASE ReadType
  <2>1. /\ pc = "type" /\ pc' = "read"
        /\ toRead' = IF current.letter = "I" THEN Field ELSE {"value"}
        /\ UNCHANGED <<now, last, current, value, at, smooth, clock, reg>>
    BY <1>3 DEF ReadType
  <2>2. reg.duration = 0
    BY <1>0, <2>1 DEF ReadInv, Unread, Field
  <2> QED
    BY <1>0, <2>1, <2>2
       DEF SmoothInv, Timed, OnMove, BehindMove, ReadAll, Field
<1>4. ASSUME NEW f \in Field, ReadField(f) PROVE SmoothInv'
  <2>1. /\ pc = "read" /\ pc' = "read" /\ f \in toRead
        /\ reg' = [reg EXCEPT ![f] = Stored(f)] /\ toRead' = toRead \ {f}
        /\ UNCHANGED <<now, last, current, value, at, smooth, clock>>
        /\ reg \in [Field -> Int]
    BY <1>4 DEF ReadField, IInv, TypeOK
  <2>2. ASSUME smooth
        PROVE  IF current.letter = "I" THEN ReadAll(Field)'
               ELSE /\ ReadAll({"value"})' /\ reg'.duration = 0
                    /\ toRead' \subseteq {"value"}
    BY <1>0, <2>1, <2>2 DEF SmoothInv, ReadAll, Stored, Field
  <2> QED
    BY <1>0, <2>1, <2>2 DEF SmoothInv, Timed, OnMove, BehindMove
<1>5. CASE EndInterpolate
  BY <1>5, EndKeepsSmooth
<1>6. CASE Execute \/ Transmit
  <2>1. /\ pc' = "wait"
        /\ UNCHANGED <<now, last, current, value, at, smooth>>
    BY <1>6 DEF Execute, Transmit, EndCycle
  <2> QED
    BY <1>0, <2>1 DEF SmoothInv, Timed, OnMove, BehindMove
<1>7. CASE TransmitNext \/ Tick
  <2>1. /\ UNCHANGED <<last, current, value, at, smooth>>
        /\ UNCHANGED <<pc, clock, reg, toRead>>
        /\ now' \in Nat /\ now <= now'
    BY <1>7, Numbers DEF TransmitNext, Tick
  <2>2. smooth => current.time <= now'
    BY <1>0, <2>1, Numbers DEF SmoothInv
  <2> QED
    BY <1>0, <2>1, <2>2
       DEF SmoothInv, Timed, OnMove, BehindMove, ReadAll, Stored
<1> QED
  BY <1>1, <1>2, <1>3, <1>4, <1>5, <1>6, <1>7 DEF Next

(* The step that NoJump is about.                                          *)
LEMMA NoJumpStep ==
  ASSUME IInv, EndInterpolate, smooth
  PROVE  /\ (value' - value - 1) * MinDuration <= 1000 * (at' - at)
         /\ (value - value' - 1) * MinDuration <= 1000 * (at' - at)
<1> SUFFICES /\ UpWithin(value, value', clock - at)
             /\ UpWithin(value', value, clock - at)
  BY SmoothEnd DEF UpWithin
<1>1. /\ last.value \in Axis /\ current.value \in Axis
      /\ at <= clock /\ current.time <= clock
  BY SmoothEnd DEF IInv, SmoothInv
<1>2. CASE current = Rest /\ value = 500 /\ value' = 500
  <2> DEFINE time == clock - at
             d == MinDuration
  <2>1. value' - value - 1 = -1 /\ value - value' - 1 = -1 /\ time \in Nat
    BY <1>1, <1>2, Numbers
  <2>2. d \in Nat
    BY Numbers
  <2> HIDE DEF time, d
  <2>3. (-1) * d <= 1000 * time
    BY <2>1, <2>2
  <2>4. UpWithin(value, value', time) /\ UpWithin(value', value, time)
    BY <2>1, <2>3 DEF UpWithin, d
  <2> QED
    BY <2>4 DEF time
<1>3. CASE /\ Timed
           /\ value' = Along(last.value, current.value, clock - current.time,
                             current.duration)
  <2> DEFINE f == clock - current.time
             d == current.duration
             b == last.value
             c == current.value
             w == Along(b, c, f, d)
  <2>1. /\ f \in Nat /\ d \in Nat \ {0} /\ MinDuration <= d
        /\ b \in Axis /\ c \in Axis
    BY <1>1, <1>3, Numbers DEF Timed
  <2>2. value' = w
    BY <1>3
  <2>3. CASE OnMove
    <3> DEFINE e == at - current.time
               v == Along(b, c, e, d)
    <3>1. e \in Nat /\ e <= f /\ f - e = clock - at
      BY <1>1, <2>3, Numbers DEF OnMove
    <3>2. value = v
      BY <2>3 DEF OnMove
    <3> HIDE DEF f, d, b, c, e
    <3>3. UpWithin(v, w, f - e) /\ UpWithin(w, v, f - e)
      BY <2>1, <3>1, AlongMove
    <3> QED
      BY <2>2, <3>1, <3>2, <3>3
  <2>4. CASE BehindMove
    <3> DEFINE s == current.time - at
               a == value
    <3>1. s \in Nat /\ s + f = clock - at /\ a \in Int
      BY <1>1, <2>4, Numbers DEF BehindMove
    <3>2. UpWithin(a, b, s) /\ DownWithin(a, b, s)
      BY <2>4 DEF BehindMove
    <3> HIDE DEF f, d, b, c, s, a
    <3>3. w \in Int /\ UpWithin(w, b, f) /\ DownWithin(w, b, f)
      BY <2>1, FromStart
    <3>4. f \in Int /\ s \in Int /\ b \in Int
      BY <2>1, <3>1, AxisIs
    <3> HIDE DEF w
    <3>5. UpWithin(a, w, s + f) /\ UpWithin(w, a, s + f)
      BY <3>1, <3>2, <3>3, <3>4, Chains
    <3> QED
      BY <2>2, <3>1, <3>5 DEF a
  <2> QED
    BY <1>1, <1>3, <2>3, <2>4, SmoothEnd DEF Rest, Timed
<1> QED
  BY <1>2, <1>3, SmoothEnd

-----------------------------------------------------------------------------
(* Initially, and in every step.                                           *)

LEMMA InitIInv == Init => IInv
<1> SUFFICES ASSUME Init PROVE IInv
  OBVIOUS
<1> USE DEF Init, Rest, NewChannel
<1>1. Rest \in Command
  <2>1. 0 \in UInt16
    BY SMT DEF UInt16
  <2> QED
    BY <2>1 DEF Command
<1>2. TypeOK
  <2>1. /\ now \in 0..MaxTime /\ clock \in 0..now /\ at \in 0..now
        /\ commands \in 0..MaxCommand /\ waiting \in 0..TransQueueDepth
        /\ value \in Int /\ pulse \in Nat /\ until \in Nat /\ width \in Nat
    BY MotionAssumption
  <2>2. reg \in [Field -> Int] /\ toRead \subseteq Field
    BY DEF Unread
  <2>3. hull \in [low : Int, high : Int]
    BY SMT
  <2> QED
    BY <1>1, <2>1, <2>2, <2>3 DEF TypeOK, None
<1>3. HullInv /\ ReadInv /\ PositionWithinCommands
  BY DEF HullInv, Hull, ReadInv, PositionWithinCommands, Unread, Field
<1>4. ChannelInv /\ PulseInRange /\ HandyHeard
  BY DEF ChannelInv, PulseInRange, HandyHeard, None
<1>5. SmoothInv
  BY DEF SmoothInv, Axis
<1> QED
  BY <1>2, <1>3, <1>4, <1>5 DEF IInv

LEMMA StutterKeeps == IInv /\ UNCHANGED vars => IInv'
<1> SUFFICES ASSUME IInv, UNCHANGED vars PROVE IInv'
  OBVIOUS
<1> USE DEF vars, axisVars, readVars, outputVars, historyVars
<1>1. TypeOK'
  BY DEF IInv, TypeOK
<1>2. HullInv' /\ ReadInv' /\ PositionWithinCommands'
  BY DEF IInv, HullInv, Hull, ReadInv, PositionWithinCommands
<1>3. ChannelInv' /\ PulseInRange' /\ HandyHeard'
  BY DEF IInv, ChannelInv, PulseInRange, HandyHeard
<1>4. SmoothInv'
  BY DEF IInv, SmoothInv, Timed, OnMove, BehindMove, ReadAll, Stored
<1> QED
  BY <1>1, <1>2, <1>3, <1>4 DEF IInv

LEMMA StepIInv == IInv /\ [Next]_vars => IInv'
<1> SUFFICES ASSUME IInv, [Next]_vars PROVE IInv'
  OBVIOUS
<1>1. CASE Next
  <2>1. TypeOK' /\ HullInv' /\ ReadInv' /\ PositionWithinCommands'
    BY <1>1, TypeStep, HullStep, ReadStep, PositionStep
  <2>2. ChannelInv' /\ PulseInRange' /\ HandyHeard' /\ SmoothInv'
    BY <1>1, ChannelStep, PulseStep, HeardStep, SmoothStep
  <2> QED
    BY <2>1, <2>2 DEF IInv
<1>2. CASE UNCHANGED vars
  BY <1>2, StutterKeeps
<1> QED
  BY <1>1, <1>2

-----------------------------------------------------------------------------
(* Whatever is stored between two of its reads, what the executor task has *)
(* read is of the commands so far, nothing waits for a channel used in     *)
(* time, and a smooth axis is on its move or on the way to its start.      *)
THEOREM Invariants == Spec => []IInv
<1> QED
  BY InitIInv, StepIInv, PTL DEF Spec

(* Every variable stays in its set, and every division has a divisor.      *)
THEOREM TypeCorrect == Spec => []TypeOK
<1>1. IInv => TypeOK
  BY DEF IInv
<1> QED
  BY <1>1, Invariants, PTL

(* However the reads of interpolateValue and a command interleave, the     *)
(* axis is sent between the least and the greatest value commanded, if the *)
(* command is not newer than the clock it is interpolated with.            *)
THEOREM StaysWithinCommands == Spec => []PositionWithinCommands
<1>1. IInv => PositionWithinCommands
  BY DEF IInv
<1> QED
  BY <1>1, Invariants, PTL

(* LEDCActuator and RMTActuator limit what a servo gets to 500..2500 us,   *)
(* for any numbers as settings, whatever their sign and size: scaled by the*)
(* timer's frequency and to a step of the duty on LEDC, and, if no two     *)
(* executions were within a pulse, exactly on RMT.                         *)
THEOREM PulsesInRange == Spec => []PulseInRange
<1>1. IInv => PulseInRange
  BY DEF IInv
<1> QED
  BY <1>1, Invariants, PTL

(* What generateTCode prints is what TCode::match hears, to a thousandth,  *)
(* for every position but 0.001..0.099.                                    *)
THEOREM HandyIsHeard == Spec => []HandyHeard
<1>1. IInv => HandyHeard
  BY DEF IInv
<1> QED
  BY <1>1, Invariants, PTL

(* Between two interpolations of smooth commands the axis moves no faster  *)
(* than 1000 in MinDuration, to a thousandth, for every MinDuration.       *)
THEOREM NeverJumps == Spec => NoJump
<1>1. IInv /\ [Next]_vars =>
        [EndInterpolate /\ smooth =>
           /\ (value' - value - 1) * MinDuration <= 1000 * (at' - at)
           /\ (value - value' - 1) * MinDuration <= 1000 * (at' - at)]_vars
  BY NoJumpStep
<1> QED
  BY <1>1, Invariants, PTL DEF Spec, NoJump

=============================================================================
