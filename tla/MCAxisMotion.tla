---------------------------- MODULE MCAxisMotion ----------------------------
(***************************************************************************)
(* An instance of AxisMotion for TLC.                                      *)
(***************************************************************************)
EXTENDS AxisMotion, DefaultSettings

Ends == {[number |-> 0, unit |-> 1]}
Moves == {[letter |-> "I", number |-> 3], [letter |-> "I", number |-> 65536],
          [letter |-> "other", number |-> 3]}
HandyPositions == {50, 1000}

StackWords == {20000}

(* Servo D, which turns R0, of the default settings of an OSR with limits  *)
(* and a negative scale, with a limit that is not a number, and after an   *)
(* executor that set the timer to 100 hertz and failed to be constructed;  *)
(* servo G of an SR6 that replaced an executor whose timer had another     *)
(* frequency, which its RMT channel does not care about.                   *)
SetupOf(config, actuator, servo) ==
  [actuator |-> actuator,
   left |-> config.left["R0"], right |-> config.right["R0"],
   reverse |-> config.reverse["R0"], scale |-> config.scale["R0"],
   zero |-> config.zero[servo], number |-> TRUE,
   freq |-> FreqOf(config, servo), timer |-> FreqOf(config, servo)]
OSR == SetupOf(getDefaultServoConfig(<<"esp32c3", "OSR">>), "LEDC", "D")
SR6 == SetupOf(getDefaultServoConfig(<<"esp32c3", "SR6">>), "RMT", "G")
Servos == {[OSR EXCEPT !.right = 700, !.reverse = TRUE, !.zero = 1700,
                       !.scale = -1500],
           [OSR EXCEPT !.number = FALSE],
           [OSR EXCEPT !.timer = 100],
           [SR6 EXCEPT !.timer = 333]}
=============================================================================
