---------------------------- MODULE SettingStore ----------------------------
(***************************************************************************)
(* The settings file /spiffs/setting.bin and what is built from it: the    *)
(* executor and the Wi-Fi configuration.  app_main creates the file when   *)
(* there is none and builds both from it; a settings write over HTTP       *)
(* (httpd) or BLE (nimble) replaces the file first and applies it after.   *)
(* Power can fail, the flash can be full, the actuators of an executor and *)
(* the Wi-Fi driver can refuse a configuration.                            *)
(*                                                                         *)
(* How g_executor is exchanged is PacketPipeline's subject: here it is one *)
(* step.  Reading the settings (GET, BLE read, mDNS) changes nothing and is*)
(* left out, as is a request that does not decode.                         *)
(***************************************************************************)
EXTENDS Naturals, FiniteSets

CONSTANTS Setting,    \* settings clients write
          Default,    \* default_setting with getDefaultServoConfig
          Refused,    \* Wi-Fi configurations esp_wifi_set_config refuses
          Endpoint,   \* tasks that serve a settings write
          MaxWrite,   \* bound: settings writes
          MaxFault,   \* bound: power failures, write errors, driver errors
          NoFile,     \* there is no file
          Torn,       \* the file is empty or incomplete
          None        \* no executor, no Wi-Fi configuration

(* Of a setting: the Wi-Fi part (None: neither a station nor an access     *)
(* point), whether its MODE is known and its actuators can be configured,  *)
(* and whether its decoy pins and its mDNS name are valid.                 *)
ASSUME SettingAssumption ==
  /\ \A s \in Setting : /\ DOMAIN s = {"wifi", "mode", "pins", "name"}
                        /\ s.mode \in {"good", "unknown", "throws"}
                        /\ s.pins \in {"good", "bad"}
                        /\ s.name \in {"good", "bad"}
  /\ Default \in Setting
  /\ NoFile # Torn /\ NoFile \notin Setting /\ Torn \notin Setting
  /\ None \notin Setting
ASSUME EndpointAssumption == Endpoint \subseteq {"httpd", "nimble"}
ASSUME BoundAssumption == MaxWrite \in Nat /\ MaxFault \in Nat

Wifi == {s.wifi : s \in Setting} \ ({None} \cup Refused)

VARIABLES file,      \* the settings file
          boot,      \* where app_main is
          executor,  \* the setting g_executor was built from, None for nullptr
          wifi,      \* the Wi-Fi driver: "uninit", "stopped" or what it runs
          pc,        \* where each endpoint is
          loaded,    \* what each endpoint and app_main loaded (Default: not)
          setting,   \* the setting each endpoint decoded (Default: none)
          answer,    \* the answer of each endpoint to its last write
          shared,    \* endpoints whose open file another one opened too
          alone,     \* history: the change in progress no other has overlapped
          doubt,     \* history: parts an overlap or a failure leaves in doubt
          writes,    \* settings writes so far
          faults     \* faults so far

taskVars == <<pc, loaded, setting, answer, shared>>
historyVars == <<alone, doubt>>
vars == <<file, boot, executor, wifi, taskVars, historyVars, writes, faults>>

Parts == {"executor", "wifi"}

Init == /\ file = NoFile
        /\ boot = "setting_init"
        /\ executor = None
        /\ wifi = "uninit"
        /\ pc = [t \in Endpoint |-> "idle"]
        /\ loaded = [t \in Endpoint \cup {"main"} |-> Default]
        /\ setting = [t \in Endpoint |-> Default]
        /\ answer = [t \in Endpoint |-> "none"]
        /\ shared = {}
        /\ alone = {}
        /\ doubt = {}
        /\ writes = 0
        /\ faults = 0

-----------------------------------------------------------------------------
(* Files and settings.                                                     *)

(* loadFromFile throws unless the file exists and decodes; every field of  *)
(* the message is required, so that an incomplete file does not decode.    *)
LoadableWithWifi == file \in {s \in Setting : s.wifi # None}
Loadable == file \in Setting

(* wifi_init and wifi_reconfigure return early without an access point or  *)
(* a station to configure.                                                 *)
HasWifiConfig(s) == s.wifi # None

(* createExecutor: nullptr for a MODE it does not know.                    *)
ExecutorOf(s) == IF s.mode = "good" THEN s ELSE None

Fault == faults < MaxFault /\ faults' = faults + 1
NoFault == faults' = faults

(* A change - a settings write, or app_main from its last load on - starts *)
(* alone, or overlaps the changes in progress.                             *)
Writing == {t \in Endpoint : pc[t] # "idle"}
Changing == Writing \cup (IF boot = "create" THEN {"main"} ELSE {})

Starts(t) == IF Changing = {} THEN alone' = {t} /\ UNCHANGED doubt
             ELSE alone' = {} /\ doubt' = Parts

Settles(t, part) == doubt' = IF t \in alone THEN doubt \ {part} ELSE doubt

-----------------------------------------------------------------------------
(* app_main.                                                               *)

(* The CPU restarts: power failure, ESP_ERROR_CHECK, uncaught exception.   *)
(* What a settings write in progress leaves behind is in doubt.            *)
Restart ==
  /\ boot' = "setting_init"
  /\ executor' = None
  /\ wifi' = "uninit"
  /\ pc' = [t \in Endpoint |-> "idle"]
  /\ loaded' = [t \in Endpoint \cup {"main"} |-> Default]
  /\ setting' = [t \in Endpoint |-> Default]
  /\ answer' = [t \in Endpoint |-> "none"]
  /\ shared' = {}
  /\ alone' = {}
  /\ doubt' = IF Writing = {} THEN doubt ELSE Parts
  /\ UNCHANGED <<file, writes>>

(* An ESP_ERROR_CHECK of wifi_init or init_mdns that fails for a reason of *)
(* the moment, such as no memory, does the same.                           *)
PowerFails == Fault /\ Restart

(* setting_init: a file that can be opened is taken to be good.  Its errors*)
(* - here, that the new file cannot be opened - are ignored.               *)
SettingInit ==
  /\ boot = "setting_init"
  /\ \/ file # NoFile /\ boot' = "decoy" /\ UNCHANGED file /\ NoFault
     \/ file = NoFile /\ boot' = "save_default" /\ file' = Torn /\ NoFault
     \/ file = NoFile /\ boot' = "decoy" /\ UNCHANGED file /\ Fault
  /\ UNCHANGED <<executor, wifi, taskVars, historyVars, writes>>

(* An error while the default is saved is returned and ignored.            *)
SaveDefault ==
  /\ boot = "save_default"
  /\ \/ file' = Default /\ NoFault
     \/ UNCHANGED file /\ Fault
  /\ boot' = "decoy"
  /\ UNCHANGED <<executor, wifi, taskVars, historyVars, writes>>

(* decoy_init loads its pins from the file; app_main aborts if it fails.   *)
DecoyInit ==
  /\ boot = "decoy"
  /\ IF Loadable /\ file.pins = "good"
       THEN /\ boot' = "wifi"
            /\ UNCHANGED <<file, executor, wifi, taskVars, historyVars,
                           writes>>
       ELSE Restart
  /\ NoFault

(* wifi_init aborts if the driver refuses the configuration, such as an    *)
(* access point's password of fewer than 8 characters.  ble_init follows,  *)
(* so that from here on writes can come in.                                *)
WifiInit ==
  /\ boot = "wifi"
  /\ IF Loadable /\ file.wifi \in Refused THEN Restart
     ELSE /\ wifi' = IF Loadable /\ HasWifiConfig(file) THEN file.wifi
                    ELSE "uninit"
          /\ boot' = "mdns"
          /\ doubt' = doubt \ {"wifi"}
          /\ UNCHANGED <<file, executor, taskVars, alone, writes>>
  /\ NoFault

(* init_mdns uses defaults if it cannot load the settings; app_main aborts *)
(* if mdns_hostname_set refuses the name.                                  *)
InitMdns ==
  /\ boot = "mdns"
  /\ IF Loadable /\ file.name = "bad" THEN Restart
     ELSE /\ boot' = "load"
          /\ UNCHANGED <<file, executor, wifi, taskVars, historyVars, writes>>
  /\ NoFault

(* The last load of app_main is outside any try block.                     *)
LoadSetting ==
  /\ boot = "load"
  /\ IF Loadable
       THEN /\ loaded' = [loaded EXCEPT !["main"] = file]
            /\ boot' = "create"
            /\ Starts("main")
            /\ UNCHANGED <<file, executor, wifi, pc, setting, answer, shared,
                           writes>>
       ELSE Restart
  /\ NoFault

(* So is its createExecutor.                                               *)
CreateFirst ==
  /\ boot = "create"
  /\ IF loaded["main"].mode = "throws" THEN Restart
     ELSE /\ executor' = ExecutorOf(loaded["main"])
          /\ boot' = "run"
          /\ loaded' = [loaded EXCEPT !["main"] = Default]
          /\ alone' = alone \ {"main"}
          /\ Settles("main", "executor")
          /\ UNCHANGED <<file, wifi, pc, setting, answer, shared, writes>>
  /\ NoFault

Boot == \/ SettingInit \/ SaveDefault \/ DecoyInit \/ WifiInit
        \/ InitMdns \/ LoadSetting \/ CreateFirst

-----------------------------------------------------------------------------
(* A settings write.  HTTP needs the Wi-Fi driver to run.                  *)

Serving(t) == /\ boot \in {"mdns", "load", "create", "run"}
              /\ t = "httpd" => wifi \in Wifi

(* The handler returns; its old_setting and its request are gone.          *)
Reply(t, a) == /\ answer' = [answer EXCEPT ![t] = a]
               /\ pc' = [pc EXCEPT ![t] = "idle"]
               /\ loaded' = [loaded EXCEPT ![t] = Default]
               /\ setting' = [setting EXCEPT ![t] = Default]
               /\ alone' = alone \ {t}

(* old_setting is loaded before the request is decoded; the load can throw.*)
BeginWrite(t) ==
  /\ pc[t] = "idle"
  /\ Serving(t)
  /\ writes < MaxWrite
  /\ writes' = writes + 1
  /\ IF Loadable
       THEN /\ loaded' = [loaded EXCEPT ![t] = file]
            /\ \E s \in Setting : setting' = [setting EXCEPT ![t] = s]
            /\ pc' = [pc EXCEPT ![t] = "open"]
            /\ answer' = [answer EXCEPT ![t] = "none"]
            /\ Starts(t)
       ELSE Reply(t, "error") /\ UNCHANGED doubt
  /\ UNCHANGED <<file, boot, executor, wifi, shared, faults>>

(* saveToFile: fopen truncates the file, or throws ...                     *)
OpenFile(t) ==
  LET others == {u \in Endpoint \ {t} : pc[u] = "write"} IN
  /\ pc[t] = "open"
  /\ file' = Torn
  /\ shared' = IF others = {} THEN shared \ {t}
                              ELSE shared \cup others \cup {t}
  /\ pc' = [pc EXCEPT ![t] = "write"]
  /\ UNCHANGED <<boot, executor, wifi, loaded, setting, answer, historyVars,
                 writes, faults>>

OpenFails(t) ==
  /\ pc[t] = "open"
  /\ Fault
  /\ Reply(t, "error")
  /\ UNCHANGED <<file, boot, executor, wifi, shared, doubt, writes>>

(* ... and fwrite, fflush and fclose write it.  Two descriptors that write *)
(* the same file leave either content or a mixture.                        *)
SavedWithoutFlush(t) == {setting[t], Torn}
Saved(t) == IF t \in shared THEN {setting[t], file, Torn} ELSE {setting[t]}

WriteFile(t) ==
  /\ pc[t] = "write"
  /\ file' \in Saved(t)
  /\ pc' = [pc EXCEPT ![t] = "create"]
  /\ UNCHANGED <<boot, executor, wifi, loaded, setting, answer, shared,
                 historyVars, writes, faults>>

(* An error of fflush or fclose is not looked at.                          *)
FlushFails(t) ==
  /\ pc[t] = "write"
  /\ Fault
  /\ pc' = [pc EXCEPT ![t] = "create"]
  /\ UNCHANGED <<file, boot, executor, wifi, loaded, setting, answer, shared,
                 historyVars, writes>>

(* A short fwrite throws, with the file truncated.                         *)
WriteIsShort(t) ==
  /\ pc[t] = "write"
  /\ Fault
  /\ Reply(t, "error")
  /\ UNCHANGED <<file, boot, executor, wifi, shared, doubt, writes>>

WifiDiffersFromFile(t) == Loadable /\ file.wifi # setting[t].wifi
IsWifiConfigChanged(t) == loaded[t].wifi # setting[t].wifi

(* createExecutor, and the comparison with old_setting after it.           *)
CreateExecutor(t) ==
  /\ pc[t] = "create"
  /\ setting[t].mode # "throws"
  /\ executor' = ExecutorOf(setting[t])
  /\ Settles(t, "executor")
  /\ IF IsWifiConfigChanged(t)
       THEN /\ pc' = [pc EXCEPT ![t] = "stop"]
            /\ UNCHANGED <<loaded, setting, answer, alone>>
       ELSE Reply(t, "ok")
  /\ UNCHANGED <<file, boot, wifi, shared, writes, faults>>

(* An exception leaves g_executor as it is and skips the Wi-Fi part.       *)
CreateThrows(t) ==
  /\ pc[t] = "create"
  /\ setting[t].mode = "throws"
  /\ doubt' = doubt \cup {"executor"}
                    \cup (IF IsWifiConfigChanged(t) THEN {"wifi"} ELSE {})
  /\ Reply(t, "error")
  /\ UNCHANGED <<file, boot, executor, wifi, shared, writes, faults>>

-----------------------------------------------------------------------------
(* wifi_reconfigure; whatever it returns, the client is told "success".    *)

(* esp_wifi_stop fails if the driver was never initialised, or for a reason*)
(* of its own.                                                             *)
StopFails(t) ==
  /\ pc[t] = "stop"
  /\ IF wifi = "uninit" THEN NoFault ELSE Fault
  /\ doubt' = doubt \cup {"wifi"}
  /\ Reply(t, "ok")
  /\ UNCHANGED <<file, boot, executor, wifi, shared, writes>>

(* The file is read back once the driver has stopped; without a usable     *)
(* configuration it stays stopped.                                         *)
StopWifi(t) ==
  /\ pc[t] = "stop"
  /\ wifi # "uninit"
  /\ wifi' = "stopped"
  /\ IF Loadable /\ HasWifiConfig(file)
       THEN /\ loaded' = [loaded EXCEPT ![t] = file]
            /\ pc' = [pc EXCEPT ![t] = "start"]
            /\ UNCHANGED <<setting, answer, historyVars>>
       ELSE /\ Settles(t, "wifi")
            /\ Reply(t, "ok")
  /\ UNCHANGED <<file, boot, executor, shared, writes, faults>>

StartWifi(t) ==
  /\ pc[t] = "start"
  /\ loaded[t].wifi \notin Refused
  /\ wifi' = loaded[t].wifi
  /\ Settles(t, "wifi")
  /\ Reply(t, "ok")
  /\ UNCHANGED <<file, boot, executor, shared, writes, faults>>

(* Here a configuration the driver refuses leaves it stopped, as does any  *)
(* other error on the way.                                                 *)
StartFails(t) ==
  /\ pc[t] = "start"
  /\ IF loaded[t].wifi \in Refused THEN NoFault ELSE Fault
  /\ doubt' = doubt \cup {"wifi"}
  /\ Reply(t, "ok")
  /\ UNCHANGED <<file, boot, executor, wifi, shared, writes>>

Write(t) == \/ BeginWrite(t) \/ OpenFile(t) \/ OpenFails(t) \/ WriteFile(t)
            \/ FlushFails(t) \/ WriteIsShort(t) \/ CreateExecutor(t)
            \/ CreateThrows(t) \/ StopFails(t) \/ StopWifi(t) \/ StartWifi(t)
            \/ StartFails(t)

Next == \/ Boot
        \/ PowerFails
        \/ \E t \in Endpoint : Write(t)

Spec == Init /\ [][Next]_vars

(* app_main runs on: nothing it waits for depends on another task.         *)
FairSpec == Spec /\ WF_vars(Boot)

-----------------------------------------------------------------------------
(* Properties.                                                             *)

(* Every variable stays in its set; the open file is shared by writers     *)
(* only, and at most one change runs alone (setting.cpp, main.cpp).        *)
TypeOK ==
  /\ file \in Setting \cup {NoFile, Torn}
  /\ boot \in {"setting_init", "save_default", "decoy", "wifi", "mdns",
               "load", "create", "run"}
  /\ executor \in Setting \cup {None}
  /\ wifi \in Wifi \cup {"uninit", "stopped"}
  /\ pc \in [Endpoint -> {"idle", "open", "write", "create", "stop", "start"}]
  /\ loaded \in [Endpoint \cup {"main"} -> Setting]
  /\ setting \in [Endpoint -> Setting]
  /\ answer \in [Endpoint -> {"none", "ok", "error"}]
  /\ shared \subseteq Endpoint
  /\ alone \subseteq Changing /\ Cardinality(alone) <= 1
  /\ doubt \subseteq Parts
  /\ writes \in 0..MaxWrite
  /\ faults \in 0..MaxFault

(* When app_main is done and no settings write is in progress, the executor*)
(* is the one of the stored setting and the Wi-Fi driver runs the stored   *)
(* configuration - unless two changes overlapped, createExecutor threw or  *)
(* the driver failed, and no change has rebuilt that part since.           *)
Applied ==
  boot = "run" /\ Changing = {} /\ Loadable =>
    /\ "executor" \notin doubt => executor = ExecutorOf(file)
    /\ "wifi" \notin doubt => IF file.wifi = None
                              THEN wifi \in {"uninit", "stopped"}
                              ELSE wifi = file.wifi

(* The file is damaged only while it is being written, or for good after a *)
(* fault or an overlap: two writes at a time, or a write that app_main's   *)
(* last load meets halfway.  fopen truncates the only copy.                *)
DamageNeedsFault ==
  file = Torn => \/ boot = "save_default"
                 \/ \E t \in Endpoint : pc[t] = "write"
                 \/ faults > 0
                 \/ doubt = Parts

(* Once the writes and the faults are over, app_main reaches its end and   *)
(* stays there, or restarts for ever on a file it cannot start from: a     *)
(* damaged one, decoy pins below 0, a Wi-Fi configuration or an mDNS name  *)
(* that is refused, or actuators that cannot be configured.                *)
Bootable == \/ file = NoFile
            \/ /\ file \in Setting
               /\ file.pins = "good" /\ file.name = "good"
               /\ file.wifi \notin Refused /\ file.mode # "throws"
BootsUnlessUnbootable == \/ <>[](boot = "run")
                         \/ <>[](boot # "run" /\ ~Bootable)

(* setting.hpp:157 says that saveToFile throws when writing the file fails,*)
(* so a client told "success" has its setting stored: with one endpoint no *)
(* successful write leaves a file that cannot be loaded.                   *)
WriteErrorReported == \A t \in Endpoint : answer[t] = "ok" => Loadable

=============================================================================
