--------------------------- MODULE MCSettingStore ---------------------------
(* SettingStore on two Wi-Fi configurations and one setting of every kind: *)
(* the default of an OSR build, one with Wi-Fi and the default of SR6, one *)
(* of an unknown MODE (the default of a TrR build) and without Wi-Fi, and  *)
(* one app_main cannot start from for each reason: actuators that cannot be*)
(* configured, invalid decoy pins, a Wi-Fi configuration the driver refuses*)
(* and a refused mDNS name.                                                *)
EXTENDS SettingStore, DefaultSettings

CONSTANTS w1, w2, shortPassword, NoWifiOrExecutor

MCNone == NoWifiOrExecutor
MCRefused == {shortPassword}

ModeOfBuild(build) == ModeOf(getDefaultServoConfig(build))
TooFast == [getOSRConfig_C3 EXCEPT !.freq["B"] = 400]

MCDefault == [wifi |-> w1, mode |-> ModeOfBuild(<<"esp32c3", "OSR">>),
              pins |-> "good", name |-> "good"]

MCSetting == {MCDefault,
              [MCDefault EXCEPT !.wifi = w2,
                                !.mode = ModeOfBuild(<<"esp32c3", "SR6">>),
                                !.name = "bad"],
              [MCDefault EXCEPT !.wifi = MCNone,
                                !.mode = ModeOfBuild(<<"esp32c3", "TRR">>)],
              [MCDefault EXCEPT !.wifi = w2, !.mode = ModeOf(TooFast)],
              [MCDefault EXCEPT !.pins = "bad"],
              [MCDefault EXCEPT !.wifi = shortPassword]}
=============================================================================
