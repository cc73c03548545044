-------------------------- MODULE DefaultSettings --------------------------
(***************************************************************************)
(* The servo settings a device without a settings file starts with: one    *)
(* table per chip and servo mode, of which the build selects one, and what *)
(* the executor factory and the actuators make of it.                      *)
(*                                                                         *)
(* Scales and limits are in thousandths, zeros in microseconds, -1 is no   *)
(* pin.                                                                    *)
(***************************************************************************)
EXTENDS Integers

Servo == {"A", "B", "C", "D", "E", "F", "G"}
Axis == {"L0", "L1", "L2", "R0", "R1", "R2"}

ForServos(x) == [s \in Servo |-> x]
ForAxes(x) == [a \in Axis |-> x]
Pins(a, b, c, d, e, f, g) ==
  [A |-> a, B |-> b, C |-> c, D |-> d, E |-> e, F |-> f, G |-> g]

getOSRConfig_C3 ==
  [pin |-> Pins(0, 1, 2, 3, 8, 10, 9), freq |-> ForServos(50),
   zero |-> ForServos(1500), scale |-> ForAxes(1000),
   left |-> ForAxes(0), right |-> ForAxes(1000),
   reverse |-> ForAxes(FALSE), MODE |-> 0]

getTrRConfig_C3 == [getOSRConfig_C3 EXCEPT
  !.scale["R1"] = 720, !.scale["R2"] = 720, !.MODE = 1]
getTrRMaxConfig_C3 == [getOSRConfig_C3 EXCEPT
  !.scale["R1"] = 800, !.scale["R2"] = 800, !.MODE = 6]
getZDTConfig_C3 == [getOSRConfig_C3 EXCEPT
  !.scale["L0"] = 1320, !.left["L0"] = 20, !.right["R1"] = 0,
  !.right["R2"] = 0, !.MODE = 2]
getSR6Config_C3 == [getOSRConfig_C3 EXCEPT !.MODE = 3]
getSR6SHALIConfig_C3 == [getOSRConfig_C3 EXCEPT
  !.pin = Pins(0, 2, 6, 10, 3, 1, 5), !.freq = ForServos(150),
  !.reverse["L2"] = TRUE, !.reverse["R1"] = TRUE, !.MODE = 3]
getSR6CANConfig_C3 == [getOSRConfig_C3 EXCEPT
  !.pin = ForServos(-1), !.freq = [ForServos(0) EXCEPT !["A"] = 200],
  !.zero = ForServos(0), !.MODE = 8]
getO6Config_C3 == [getOSRConfig_C3 EXCEPT !.MODE = 9]

PinsESP32 == Pins(13, 12, 14, 27, 26, 25, 12)

getOSRConfig_ESP32 == [getOSRConfig_C3 EXCEPT
  !.pin = Pins(15, 13, 4, 27, 26, 25, 12)]
getTrRConfig_ESP32 == [getTrRConfig_C3 EXCEPT
  !.pin = PinsESP32, !.left["L0"] = 240, !.right["L0"] = 580]
getTrRMaxConfig_ESP32 == [getOSRConfig_C3 EXCEPT !.pin = PinsESP32, !.MODE = 6]
getZDTConfig_ESP32 == [getOSRConfig_C3 EXCEPT
  !.pin = PinsESP32, !.scale["L0"] = 1320, !.right["R0"] = 20,
  !.right["R1"] = 4, !.right["R2"] = 0, !.MODE = 2]
getSR6PulseConfig_ESP32 == [getOSRConfig_C3 EXCEPT
  !.pin = PinsESP32, !.freq = ForServos(99), !.zero = ForServos(0), !.MODE = 7]

(* Chips and servo modes a firmware can be built for.  A chip that has no  *)
(* table for a mode gets OSR's (O6 on the ESP32 does not compile).         *)
Build == {"esp32c3"} \X {"OSR", "TRR", "TRR_MAX", "ZDT", "SR6", "SR6_SHALI",
                         "SR6CAN", "O6"}
         \cup {"esp32"} \X {"OSR", "TRR", "TRR_MAX", "ZDT", "SR6", "SR6_SHALI",
                            "SR6CAN", "SR6_PULSE"}

getDefaultServoConfig(build) ==
  IF build[1] = "esp32c3"
    THEN CASE build[2] = "TRR"       -> getTrRConfig_C3
           [] build[2] = "TRR_MAX"   -> getTrRMaxConfig_C3
           [] build[2] = "ZDT"       -> getZDTConfig_C3
           [] build[2] = "SR6"       -> getSR6Config_C3
           [] build[2] = "SR6_SHALI" -> getSR6SHALIConfig_C3
           [] build[2] = "SR6CAN"    -> getSR6CANConfig_C3
           [] build[2] = "O6"        -> getO6Config_C3
           [] OTHER                  -> getOSRConfig_C3
    ELSE CASE build[2] = "TRR"       -> getTrRConfig_ESP32
           [] build[2] = "TRR_MAX"   -> getTrRMaxConfig_ESP32
           [] build[2] = "ZDT"       -> getZDTConfig_ESP32
           [] build[2] = "SR6_PULSE" -> getSR6PulseConfig_ESP32
           [] OTHER                  -> getOSRConfig_ESP32

-----------------------------------------------------------------------------
(* What a constructor of an executor makes of a table.                     *)

(* The factory's modes, and the servos each executor drives by PWM; SR6 and*)
(* O6 give all of them the frequency of servo A.                           *)
PwmServo(config) == CASE config.MODE = 0 -> {"A", "B", "C", "D"}
                      [] config.MODE = 6 -> {"A", "B", "C"}
                      [] config.MODE \in {3, 9} -> Servo \ {"G"}
                      [] OTHER -> {}
FreqOf(config, s) == config.freq[IF config.MODE \in {3, 9} THEN "A" ELSE s]

(* LEDCActuator throws for a frequency it does not like.                   *)
ModeOf(config) ==
  IF config.MODE \notin {0, 3, 6, 8, 9} THEN "unknown"
  ELSE IF \A s \in PwmServo(config) :
            config.pin[s] # -1 => FreqOf(config, s) \in 50..333
         THEN "good" ELSE "throws"
=============================================================================
