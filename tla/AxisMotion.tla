----------------------------- MODULE AxisMotion -----------------------------
(***************************************************************************)
(* From a command to a pulse: one axis of TCode and the servo it moves,    *)
(* the twist R0, whose computation is linear: servo D of the OSR executor  *)
(* (an LEDC channel) or servo G of SR6 (an RMT channel).  The other axes   *)
(* of TCode are handled alike.                                             *)
(*                                                                         *)
(* The parser task stores commands; the executor task interpolates between *)
(* the last two, without a lock.  There is one core and the parser has the *)
(* higher priority (6 over 5): a command is stored between two steps of the*)
(* executor task, never the other way round.                               *)
(*                                                                         *)
(* Positions are in thousandths of the axis, targets in thousandths of the *)
(* half range of a servo, times in milliseconds, pulses in microseconds,   *)
(* rounded down.                                                           *)
(***************************************************************************)
EXTENDS Integers

CONSTANTS Digits,        \* digit sequences after the axis of a command
          Extensions,    \* [letter, number] after them
          Positions,     \* positions a Handy client asks for
          Setups,        \* settings of the servo
          Garbage,       \* widths undefined behaviour may come up with
          TransQueueDepth,  \* transmissions that can wait, 4 in the code
          MinDuration,   \* moves that take less are not called smooth
          MaxTime,       \* bound: the clock
          MaxCommand     \* bound: commands in a behaviour

(* A client may store any limits, scale and zero.  They are floats: with   *)
(* some, infinite or not a number, what is computed from them is NaN.      *)
SetupType == [actuator : {"LEDC", "RMT"}, left : Int, right : Int,
              reverse : BOOLEAN, scale : Int, zero : Int, number : BOOLEAN,
              freq : 50..333, timer : 50..333]

(* Digits and what they are read as: a number, and the power of ten that   *)
(* has a zero for each digit.                                              *)
DigitsType == {d \in [number : Nat, unit : Nat \ {0}] : d.number < d.unit}

ASSUME MotionAssumption == /\ Digits \subseteq DigitsType
                           /\ Extensions \subseteq
                                [letter : {"I", "other"}, number : Nat]
                           /\ Positions \subseteq 0..1000
                           /\ Setups \subseteq SetupType
                           /\ Garbage \subseteq Nat
                           /\ TransQueueDepth \in Nat \ {0}
                           /\ MinDuration \in Nat \ {0}
                           /\ MaxTime \in Nat /\ MaxCommand \in Nat

VARIABLES now,       \* esp_timer_get_time()
          last,      \* R0_last
          current,   \* R0_current
          commands,  \* commands stored so far
          pc,        \* where the executor task is
          clock,     \* currentTime of the interpolation in progress
          reg,       \* the fields of the axis it has read
          toRead,    \* ... and those it has still to read
          value,     \* m_interpolatedValues[3]
          at,        \* history: the clock of value
          pulse,     \* the last pulse the servo got, 0 before the first
          until,     \* RMT: when that pulse has ended
          waiting,   \* RMT: transmissions queued behind it
          width,     \* RMT: while they wait, what actuate() left where its
                     \* pulse_width was
          executed,  \* history, RMT: when the last execute() was ...
          late,      \* history, RMT: ... until two were within PulseSpace
          setup,     \* m_setting->servo and the frequency of LEDC_TIMER_0
          asked,     \* history: the position of the last Handy command
          hull,      \* history: least and greatest value commanded
          smooth     \* history: no command could make the axis jump

axisVars == <<last, current, commands>>
readVars == <<clock, reg, toRead>>
outputVars == <<pulse, until, waiting, width, executed, late>>
historyVars == <<asked, hull, smooth>>
vars == <<now, axisVars, pc, readVars, value, at, outputVars, setup,
          historyVars>>

UInt16 == {n \in Nat : n < 65536}
Command == [value : Int, letter : {"I", "other"}, duration : UInt16,
            time : Nat]
Field == {"last", "value", "time", "duration"}
Unread == [f \in Field |-> 0]
None == -1

(* TCode::TCode and the constructor of the executor.                       *)
Rest == [value |-> 500, letter |-> "other", duration |-> 0, time |-> 0]

(* initRMT, or the LEDC channel: it is enabled and has sent nothing.        *)
NewChannel == /\ pulse = 0 /\ until = 0
              /\ waiting = 0 /\ width = 0

Init == /\ now = 0
        /\ last = Rest /\ current = Rest
        /\ commands = 0
        /\ pc = "wait"
        /\ clock = 0
        /\ reg = Unread
        /\ toRead = {}
        /\ value = 500
        /\ at = 0
        /\ NewChannel
        /\ executed = None /\ late = FALSE
        /\ setup \in Setups
        /\ asked = None
        /\ hull = [low |-> 500, high |-> 500]
        /\ smooth = TRUE

-----------------------------------------------------------------------------
(* TCode::match: the digits are a decimal fraction, none of them means 0.  *)

Fraction(digits) == (1000 * digits.number) \div digits.unit

Wrap16(n) == n % 65536
NotWrapped(n) == n
ExtendValue(n) == Wrap16(n)

Match(digits, extension) ==
  [value |-> Fraction(digits), letter |-> extension.letter,
   duration |-> ExtendValue(extension.number), time |-> now]

(* What a jump of the axis would be: a move without duration, one that     *)
(* starts before the previous one has ended (it starts from the end of that*)
(* one, not from where the axis is), or one stored in the middle of an     *)
(* interpolation.                                                          *)
Ended == now >= current.time + (IF current.letter = "I" THEN current.duration
                                ELSE 0)
Jumps(extension) == \/ extension.letter # "I"
                    \/ extension.number \notin MinDuration..65535
                    \/ ~Ended
                    \/ pc \in {"type", "read"}

(* TCode::processToken, which sets the time after the token is matched.    *)
LastIsCurrent == current
LastIsBefore == last
Previous == LastIsCurrent

Lesser(m, n) == IF m < n THEN m ELSE n
Greater(m, n) == IF m < n THEN n ELSE m

Store(command, extension) ==
  /\ commands < MaxCommand
  /\ commands' = commands + 1
  /\ last' = Previous
  /\ current' = command
  /\ hull' = [low |-> Lesser(hull.low, command.value),
              high |-> Greater(hull.high, command.value)]
  /\ smooth' = (smooth /\ ~Jumps(extension))
  /\ UNCHANGED <<now, pc, readVars, value, at, outputVars, setup>>

(* A command of any input: only a capital I makes a timed move.            *)
ParseText ==
  \E digits \in Digits, extension \in Extensions :
    /\ Store(Match(digits, extension), extension)
    /\ asked' = None

(* handy_task: generateTCode prints round(999 * position) with "%d".       *)
Times999(p) == (999 * p + 500) \div 1000
Times1000(p) == p
Rounded(p) == Times999(p)

Printed(n) == [number |-> n,
               unit |-> IF n < 10 THEN 10 ELSE IF n < 100 THEN 100
                        ELSE IF n < 1000 THEN 1000 ELSE 10000]

ParseHandy ==
  \E p \in Positions, extension \in Extensions :
    /\ extension.letter = "I"
    /\ Store(Match(Printed(Rounded(p)), extension), extension)
    /\ asked' = p

-----------------------------------------------------------------------------
(* OSRExecutor::compute: TCode::interpolate ...                            *)

StartCompute ==
  /\ pc = "wait"
  /\ clock' = now
  /\ pc' = "type"
  /\ UNCHANGED <<now, axisVars, reg, toRead, value, at, outputVars, setup,
                 historyVars>>

(* A move without a time takes the value; the letter is read first.        *)
ReadType ==
  /\ pc = "type"
  /\ pc' = "read"
  /\ toRead' = IF current.letter = "I" THEN Field ELSE {"value"}
  /\ UNCHANGED <<now, axisVars, clock, reg, value, at, outputVars, setup,
                 historyVars>>

(* The arguments of interpolateValue, evaluated in any order.              *)
Stored(f) == IF f = "last" THEN last.value ELSE current[f]

ReadField(f) ==
  /\ pc = "read"
  /\ f \in toRead
  /\ reg' = [reg EXCEPT ![f] = Stored(f)]
  /\ toRead' = toRead \ {f}
  /\ UNCHANGED <<now, axisVars, pc, clock, value, at, outputVars, setup,
                 historyVars>>

(* interpolateValue.                                                       *)
Elapsed == clock - reg.time
Arrived == reg.duration = 0 \/ Elapsed >= reg.duration
OnlyArrivedLate == reg.duration = 0 \/ Elapsed > reg.duration + 1
IsThere == Arrived

Interpolated ==
  IF IsThere THEN reg.value
  ELSE reg.last + ((reg.value - reg.last) * Elapsed) \div reg.duration

EndInterpolate ==
  /\ pc = "read"
  /\ toRead = {}
  /\ value' = Interpolated
  /\ at' = clock
  /\ pc' = "execute"
  /\ UNCHANGED <<now, axisVars, readVars, outputVars, setup, historyVars>>

(* ... then the limits, the direction and the scale of the axis; execute():*)
(* setTarget adds the zero and limits the target.  NaN passes every limit, *)
(* and its conversion to an integer is undefined.                          *)
Limited(v) ==
  LET m == setup.left + (v * (setup.right - setup.left)) \div 1000
  IN  IF setup.reverse THEN setup.left + setup.right - m ELSE m
Twist(v) == ((2 * Limited(v) - 1000) * setup.scale) \div 1000

Clamp(n) == Greater(-1000, Lesser(1000, n))
ClampBefore(n) == n
InRange(n) == Clamp(n)
Target(v) == InRange(Twist(v) + setup.zero - 1500)

Widths(v) == {1500 + Target(v)} \cup (IF setup.number THEN {} ELSE Garbage)

(* The LEDC channel gets the width as a share of the period that belongs to*)
(* the frequency its actuator was given, at most all of it, in whole steps *)
(* of FullDuty.  FullDuty + 1 steps take a period of LEDC_TIMER_0, which   *)
(* every actuator sets to its own frequency: D's, the last of OSR, or that *)
(* of an executor whose constructor failed later (ExecutorLifecycle).      *)
FullDuty == 16383
Second == 1000000              \* in microseconds

\* (FullDuty * part) \div Second, by way of numbers of 32 bits
targetToDuty(us) ==
  LET part == Lesser(us * setup.freq, Second)
  IN  (FullDuty * (part \div 1000)
         + (FullDuty * (part % 1000)) \div 1000) \div 1000

\* Second / (FullDuty + 1) = 15625 / 256
OnTime(us) == (15625 * targetToDuty(us)) \div (256 * setup.timer)

EndCycle ==
  /\ pc = "execute"
  /\ pc' = "wait"
  /\ reg' = Unread
  /\ UNCHANGED <<now, axisVars, clock, toRead, value, at, setup, historyVars>>

Execute ==
  /\ setup.actuator = "LEDC"
  /\ EndCycle
  /\ \E us \in Widths(value) : pulse' = OnTime(us)
  /\ UNCHANGED <<until, waiting, width, executed, late>>

(* RMTActuator::setTarget has the same limits and sends one pulse, of a    *)
(* 15-bit number of microseconds, as soon as the channel is idle; until    *)
(* then the transmission waits in a queue of TransQueueDepth, and, when    *)
(* that is full, the executor task for the queue.                          *)
PulseSpace == 3                \* milliseconds: the longest pulse fits

Symbol(w) == w % 32768
Drive(w) == /\ pulse' = Symbol(w)
            /\ until' = now + (Symbol(w) + 999) \div 1000

Transmit ==
  /\ setup.actuator = "RMT"
  /\ EndCycle
  /\ \E us \in Widths(value) :
       IF waiting = 0 /\ until <= now
         THEN Drive(us) /\ UNCHANGED <<waiting, width>>
         ELSE /\ waiting < TransQueueDepth
              /\ waiting' = waiting + 1
              /\ width' = us
              /\ UNCHANGED <<pulse, until>>
  /\ late' = (late \/ (executed # None /\ now < executed + PulseSpace))
  /\ executed' = IF late' THEN None ELSE now

(* The interrupt at the end of a pulse encodes the next one from where     *)
(* actuate() had its local variable pulse_width: the stack of the executor *)
(* task, which has returned from there.                                    *)
PulseEnds == waiting > 0 /\ until <= now

TransmitNext ==
  /\ PulseEnds
  /\ \E w \in {width} \cup Garbage : Drive(w)
  /\ waiting' = waiting - 1
  /\ width' = IF waiting = 1 THEN 0 ELSE width
  /\ UNCHANGED <<now, axisVars, pc, readVars, value, at, executed, late, setup,
                 historyVars>>

-----------------------------------------------------------------------------
(* An interrupt does not wait a millisecond.                               *)
Tick == /\ now < MaxTime
        /\ ~PulseEnds
        /\ now' = now + 1
        /\ UNCHANGED <<axisVars, pc, readVars, value, at, outputVars, setup,
                       historyVars>>

Next == \/ ParseText \/ ParseHandy
        \/ StartCompute \/ ReadType \/ (\E f \in Field : ReadField(f))
        \/ EndInterpolate \/ Execute \/ Transmit \/ TransmitNext
        \/ Tick

Spec == Init /\ [][Next]_vars

-----------------------------------------------------------------------------
(* Properties.                                                             *)

(* Every variable stays in its set.                                        *)
TypeOK == /\ now \in 0..MaxTime /\ clock \in 0..now /\ at \in 0..now
          /\ last \in Command /\ current \in Command
          /\ commands \in 0..MaxCommand
          /\ pc \in {"wait", "type", "read", "execute"}
          /\ reg \in [Field -> Int]
          /\ toRead \subseteq Field
          /\ value \in Int /\ pulse \in Nat /\ until \in Nat /\ width \in Nat
          /\ waiting \in 0..TransQueueDepth
          /\ executed \in 0..now \cup {None} /\ late \in BOOLEAN
          /\ setup \in Setups
          /\ asked \in Positions \cup {None}
          /\ hull \in [low : Int, high : Int]
          /\ smooth \in BOOLEAN

(* However a command was torn, the axis is sent between the least and the  *)
(* greatest value commanded so far - unless the command was stored after   *)
(* the interpolation had read the clock: then it extrapolates backwards.   *)
PositionWithinCommands ==
  pc = "execute" /\ clock >= reg.time => value \in hull.low..hull.high

(* While every command is a timed move that arrives when the previous one  *)
(* has ended, and none arrives in the middle of an interpolation, the axis *)
(* moves no faster than the fastest such move, to a thousandth.            *)
NoJump ==
  [][EndInterpolate /\ smooth =>
       /\ (value' - value - 1) * MinDuration <= 1000 * (at' - at)
       /\ (value - value' - 1) * MinDuration <= 1000 * (at' - at)]_vars

(* No servo gets a pulse outside 500..2500 microseconds, not even for an   *)
(* extrapolated position.  On LEDC the pulse is scaled by the ratio of the *)
(* actuator's frequency and the timer's, and may fall short of 500 by a    *)
(* step of the duty (72 microseconds times hertz hold one and the missing  *)
(* step of the period).  Two exceptions: settings that compute to NaN, and *)
(* an RMT channel after two calls of execute() within a pulse, when a late *)
(* cycle is followed by one in time: the queued pulse is read from a stack *)
(* frame that is gone.                                                     *)
PulseInRange ==
  setup.number /\ ~late =>
    /\ waiting = 0
    /\ pulse # 0 =>
         IF setup.actuator = "RMT" THEN pulse \in 500..2500
         ELSE /\ 500 * setup.freq < (pulse + 1) * setup.timer + 72
              /\ pulse * setup.timer <= 2500 * setup.freq

(* A position a Handy client asks for is the one the parser hears, to a    *)
(* thousandth.  Below 0.1 it is not: 0.05 is printed as 50 and read as 0.50*)
HandyHeard ==
  asked # None /\ asked \notin 1..99 => asked - current.value \in {-1, 0, 1}
=============================================================================
