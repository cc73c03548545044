-------------------------- MODULE SettingStoreProofs --------------------------
(***************************************************************************)
(* Theorems about SettingStore, for every value of its constants: any set  *)
(* of settings, either or both endpoints, any number of writes and faults. *)
(***************************************************************************)
EXTENDS SettingStore, FiniteSetTheorems, TLAPS

(* At most one change runs alone; changes that overlapped leave everything *)
(* in doubt.                                                               *)
AloneInv == \/ alone = {} /\ (Changing # {} => doubt = Parts)
            \/ \E t \in Endpoint \cup {"main"} : alone = {t} /\ Changing = {t}

(* No write begins before app_main has started Wi-Fi and BLE.              *)
BootInv == /\ boot \in {"setting_init", "save_default", "decoy", "wifi"} =>
                Writing = {} /\ shared = {}
           /\ boot = "wifi" => Loadable

(* Only a usable configuration is handed to the Wi-Fi driver.              *)
StartInv == \A t \in Endpoint : pc[t] = "start" => loaded[t].wifi # None

(* An open file that is shared is that of writes which overlap.            *)
SharedInv == \A t \in shared : pc[t] = "write" => alone = {}

Writer == \E t \in Endpoint : pc[t] = "write"
DamageInv == faults = 0 /\ file = Torn /\ boot # "save_default" /\ ~Writer =>
               doubt = Parts /\ alone = {}

(* What runs is what setting s asks for.                                   *)
ExecutorIs(s) == boot = "run" /\ "executor" \notin doubt =>
                   executor = ExecutorOf(s)
WifiIs(s) ==
  boot \in {"mdns", "load", "create", "run"} /\ "wifi" \notin doubt =>
    IF s.wifi = None THEN wifi \in {"uninit", "stopped"} ELSE wifi = s.wifi

QuietInv == Changing = {} /\ Loadable => ExecutorIs(file) /\ WifiIs(file)

(* A change that runs alone has got that far.                              *)
BootingInv == "main" \in alone => file = loaded["main"] /\ WifiIs(file)
WritingInv ==
  \A t \in alone \cap Endpoint :
    /\ pc[t] = "open" => /\ file = loaded[t]
                         /\ ExecutorIs(file) /\ WifiIs(file)
    /\ pc[t] = "write" => file = Torn /\ WifiIs(loaded[t])
    /\ pc[t] = "create" => file \in {setting[t], Torn} /\ WifiIs(loaded[t])
    /\ pc[t] = "stop" => file \in {setting[t], Torn} /\ ExecutorIs(setting[t])
    /\ pc[t] = "start" => /\ file = loaded[t] /\ loaded[t] = setting[t]
                          /\ loaded[t].wifi # None
                          /\ ExecutorIs(file)

IInv == /\ TypeOK /\ AloneInv /\ BootInv /\ StartInv /\ SharedInv /\ DamageInv
        /\ QuietInv /\ BootingInv /\ WritingInv

-----------------------------------------------------------------------------
(* A change that runs alone is in progress, and there is one at most.      *)
LEMMA AloneTyped ==
  AloneInv => alone \subseteq Changing /\ Cardinality(alone) <= 1
<1>1. Cardinality({}) = 0
  BY FS_EmptySet
<1>2. \A t : Cardinality({t}) = 1
  BY FS_Singleton
<1> QED
  BY <1>1, <1>2 DEF AloneInv

LEMMA IInvInit == Init => IInv
<1> SUFFICES ASSUME Init PROVE IInv
  OBVIOUS
<1> USE SettingAssumption, EndpointAssumption, BoundAssumption DEF Init
<1>1. Changing = {} /\ alone = {}
  BY DEF Changing, Writing
<1>2. AloneInv
  BY <1>1 DEF AloneInv
<1>3. alone \subseteq Changing /\ Cardinality(alone) <= 1
  BY <1>2, AloneTyped
<1>4. TypeOK
  BY <1>3 DEF TypeOK
<1>5. BootInv /\ StartInv /\ SharedInv /\ DamageInv
     /\ BootingInv /\ WritingInv
  BY DEF BootInv, StartInv, SharedInv, DamageInv, BootingInv, WritingInv,
          Writing
<1>6. QuietInv
  BY DEF QuietInv, Loadable
<1> QED
  BY <1>2, <1>4, <1>5, <1>6 DEF IInv

(* A change that starts alone, starts to overlap others, or ends.          *)
LEMMA StartKeepsAlone ==
  ASSUME NEW t \in Endpoint \cup {"main"}, Starts(t),
         Changing' = Changing \cup {t}
  PROVE  AloneInv'
  BY DEF Starts, AloneInv

LEMMA EndKeepsAlone ==
  ASSUME NEW t, AloneInv, doubt \subseteq Parts, alone' = alone \ {t},
         Changing' = Changing \ {t},
         t \notin alone => doubt \subseteq doubt' /\ doubt' \subseteq Parts
  PROVE  AloneInv'
<1>1. CASE alone = {}
  <2>1. alone' = {} /\ t \notin alone
    BY <1>1
  <2>2. Changing' # {} => doubt = Parts
    BY <1>1 DEF AloneInv
  <2> QED
    BY <2>1, <2>2 DEF AloneInv
<1>2. ASSUME NEW u \in Endpoint \cup {"main"}, alone = {u}, Changing = {u}
      PROVE  AloneInv'
  <2>1. CASE u = t
    BY <1>2, <2>1 DEF AloneInv
  <2>2. CASE u # t
    <3>1. alone' = {u} /\ Changing' = {u}
      BY <1>2, <2>2
    <3> QED
      BY <3>1 DEF AloneInv
  <2> QED
    BY <2>1, <2>2
<1> QED
  BY <1>1, <1>2 DEF AloneInv

LEMMA KeepsAlone ==
  ASSUME AloneInv, doubt \subseteq Parts, alone' = alone, Changing' = Changing,
         doubt \subseteq doubt' /\ doubt' \subseteq Parts
  PROVE  AloneInv'
  BY DEF AloneInv

(* The steps of a change and its end, as seen by Changing.                 *)
LEMMA StepKeepsChanging ==
  ASSUME TypeOK, NEW t \in Endpoint, NEW p, p # "idle", pc[t] # "idle",
         pc' = [pc EXCEPT ![t] = p], boot' = boot
  PROVE  Changing' = Changing
  BY DEF TypeOK, Changing, Writing

LEMMA ReplyEndsChange ==
  ASSUME TypeOK, NEW t \in Endpoint, NEW a, Reply(t, a), boot' = boot
  PROVE  Changing' = Changing \ {t} /\ alone' = alone \ {t}
  BY EndpointAssumption DEF TypeOK, Changing, Writing, Reply

LEMMA RestartKeepsAlone == Restart => AloneInv'
  BY DEF Restart, AloneInv, Changing, Writing

(* At most one change runs alone.                                          *)
LEMMA AloneStep == IInv /\ [Next]_vars => AloneInv'
<1> SUFFICES ASSUME IInv, [Next]_vars PROVE AloneInv'
  OBVIOUS
<1>a. TypeOK /\ AloneInv /\ BootInv /\ doubt \subseteq Parts
  BY DEF IInv, TypeOK
<1>1. CASE SettingInit
  BY <1>1, <1>a, KeepsAlone
     DEF SettingInit, taskVars, historyVars, Changing, Writing
<1>2. CASE SaveDefault
  BY <1>2, <1>a, KeepsAlone
     DEF SaveDefault, taskVars, historyVars, Changing, Writing
<1>3. CASE DecoyInit
  <2>1. CASE Restart
    BY <2>1, RestartKeepsAlone
  <2>2. CASE ~Restart
    BY <1>3, <1>a, <2>2, KeepsAlone
       DEF DecoyInit, taskVars, historyVars, Changing, Writing
  <2> QED
    BY <2>1, <2>2
<1>4. CASE WifiInit
  <2>1. CASE Restart
    BY <2>1, RestartKeepsAlone
  <2>2. CASE ~Restart
    <3>1. Changing = {} /\ Changing' = {} /\ alone' = alone
      BY <1>4, <1>a, <2>2
         DEF WifiInit, taskVars, BootInv, Changing, Writing
    <3> QED
      BY <1>a, <3>1 DEF AloneInv
  <2> QED
    BY <2>1, <2>2
<1>5. CASE InitMdns
  <2>1. CASE Restart
    BY <2>1, RestartKeepsAlone
  <2>2. CASE ~Restart
    BY <1>5, <1>a, <2>2, KeepsAlone
       DEF InitMdns, taskVars, historyVars, Changing, Writing
  <2> QED
    BY <2>1, <2>2
<1>6. CASE LoadSetting
  <2>1. CASE Restart
    BY <2>1, RestartKeepsAlone
  <2>2. CASE ~Restart
    <3>1. Starts("main") /\ Changing' = Changing \cup {"main"}
      BY <1>6, <2>2 DEF LoadSetting, Changing, Writing
    <3> QED
      BY <3>1, StartKeepsAlone
  <2> QED
    BY <2>1, <2>2
<1>7. CASE CreateFirst
  <2>1. CASE Restart
    BY <2>1, RestartKeepsAlone
  <2>2. CASE ~Restart
    <3>1. /\ alone' = alone \ {"main"}
          /\ Changing' = Changing \ {"main"}
      BY <1>7, <2>2, EndpointAssumption
         DEF CreateFirst, taskVars, Changing, Writing
    <3>2. "main" \notin alone => doubt' = doubt
      BY <1>7, <2>2 DEF CreateFirst, Settles
    <3> QED
      BY <1>a, <3>1, <3>2, EndKeepsAlone
  <2> QED
    BY <2>1, <2>2
<1>8. CASE PowerFails
  BY <1>8, RestartKeepsAlone DEF PowerFails
<1>9. ASSUME NEW t \in Endpoint, BeginWrite(t) PROVE AloneInv'
  <2>1. CASE Loadable
    <3>1. Starts(t) /\ Changing' = Changing \cup {t}
      BY <1>9, <1>a, <2>1 DEF BeginWrite, TypeOK, Changing, Writing
    <3> QED
      BY <3>1, StartKeepsAlone
  <2>2. CASE ~Loadable
    <3>1. Reply(t, "error") /\ boot' = boot /\ doubt' = doubt
      BY <1>9, <2>2 DEF BeginWrite
    <3> QED
      BY <1>a, <3>1, ReplyEndsChange, EndKeepsAlone
  <2> QED
    BY <2>1, <2>2
<1>10. ASSUME NEW t \in Endpoint,
             OpenFile(t) \/ WriteFile(t) \/ FlushFails(t)
      PROVE  AloneInv'
  <2>1. /\ Changing' = Changing
        /\ alone' = alone /\ doubt' = doubt
    BY <1>10, <1>a, StepKeepsChanging
       DEF OpenFile, WriteFile, FlushFails, historyVars
  <2> QED
    BY <1>a, <2>1, KeepsAlone
<1>11. ASSUME NEW t \in Endpoint,
              \/ OpenFails(t) \/ WriteIsShort(t)
              \/ CreateThrows(t) \/ StopFails(t) \/ StartWifi(t)
              \/ StartFails(t)
       PROVE  AloneInv'
  <2>1. Changing' = Changing \ {t} /\ alone' = alone \ {t}
    BY <1>11, <1>a, ReplyEndsChange
       DEF OpenFails, WriteIsShort, CreateThrows, StopFails, StartWifi,
           StartFails
  <2>2. t \notin alone => doubt \subseteq doubt' /\ doubt' \subseteq Parts
    BY <1>11, <1>a
       DEF OpenFails, WriteIsShort, CreateThrows, StopFails, StartWifi,
           StartFails, Settles, Parts
  <2> QED
    BY <1>a, <2>1, <2>2, EndKeepsAlone
<1>12. ASSUME NEW t \in Endpoint, CreateExecutor(t) PROVE AloneInv'
  <2>1. CASE IsWifiConfigChanged(t)
    <3>1. /\ Changing' = Changing /\ alone' = alone
          /\ t \notin alone => doubt' = doubt
          /\ doubt' \subseteq Parts
      BY <1>12, <1>a, <2>1, StepKeepsChanging DEF CreateExecutor, Settles
    <3>2. t \in Changing
      BY <1>12 DEF CreateExecutor, Changing, Writing
    <3> QED
      BY <1>a, <3>1, <3>2 DEF AloneInv
  <2>2. CASE ~IsWifiConfigChanged(t)
    <3>1. Reply(t, "ok") /\ boot' = boot /\ Settles(t, "executor")
      BY <1>12, <2>2 DEF CreateExecutor
    <3> QED
      BY <1>a, <3>1, ReplyEndsChange, EndKeepsAlone DEF Settles
  <2> QED
    BY <2>1, <2>2
<1>13. ASSUME NEW t \in Endpoint, StopWifi(t) PROVE AloneInv'
  <2>1. CASE Loadable /\ HasWifiConfig(file)
    BY <1>13, <1>a, <2>1, StepKeepsChanging, KeepsAlone
       DEF StopWifi, historyVars
  <2>2. CASE ~(Loadable /\ HasWifiConfig(file))
    <3>1. Reply(t, "ok") /\ boot' = boot /\ Settles(t, "wifi")
      BY <1>13, <2>2 DEF StopWifi
    <3> QED
      BY <1>a, <3>1, ReplyEndsChange, EndKeepsAlone DEF Settles
  <2> QED
    BY <2>1, <2>2
<1>14. CASE UNCHANGED vars
  BY <1>14, <1>a, KeepsAlone
     DEF vars, taskVars, historyVars, Changing, Writing
<1> QED
  BY <1>1, <1>2, <1>3, <1>4, <1>5, <1>6, <1>7, <1>8, <1>9, <1>10, <1>11,
     <1>12, <1>13, <1>14
     DEF Next, Boot, Write

LEMMA RestartKeepsType ==
  ASSUME TypeOK, Restart, faults' \in 0..MaxFault, AloneInv' PROVE TypeOK'
<1>1. (alone \subseteq Changing /\ Cardinality(alone) <= 1)'
  BY AloneTyped, PTL
<1> QED
  BY <1>1, SettingAssumption, BoundAssumption DEF TypeOK, Restart, Parts

LEMMA FaultsCounted ==
  ASSUME faults \in 0..MaxFault, NoFault \/ Fault PROVE faults' \in 0..MaxFault
  BY BoundAssumption DEF NoFault, Fault

LEMMA ReplyKeepsType ==
  ASSUME TypeOK, NEW t \in Endpoint, NEW a \in {"ok", "error"}, Reply(t, a)
  PROVE  /\ pc' \in [Endpoint -> {"idle", "open", "write", "create", "stop",
                                  "start"}]
         /\ answer' \in [Endpoint -> {"none", "ok", "error"}]
         /\ loaded' \in [Endpoint \cup {"main"} -> Setting]
         /\ setting' \in [Endpoint -> Setting]
  BY SettingAssumption DEF TypeOK, Reply

(* Types.                                                                  *)
LEMMA TypeStep == IInv /\ [Next]_vars /\ AloneInv' => TypeOK'
<1> SUFFICES ASSUME TypeOK, StartInv, [Next]_vars, AloneInv' PROVE TypeOK'
  BY DEF IInv
<1>1. (alone \subseteq Changing /\ Cardinality(alone) <= 1)'
  BY AloneTyped, PTL
<1> USE SettingAssumption, EndpointAssumption, BoundAssumption
    DEF TypeOK, taskVars, historyVars, Parts
<1>2. CASE SettingInit
  BY <1>1, <1>2 DEF SettingInit, NoFault, Fault
<1>3. CASE SaveDefault
  BY <1>1, <1>3 DEF SaveDefault, NoFault, Fault
<1>4. CASE DecoyInit
  BY <1>1, <1>4, RestartKeepsType DEF DecoyInit, NoFault
<1>5. CASE WifiInit
  <2>1. CASE Loadable /\ file.wifi \in Refused
    BY <1>1, <1>5, <2>1, RestartKeepsType DEF WifiInit, NoFault
  <2>2. CASE ~(Loadable /\ file.wifi \in Refused)
    BY <1>1, <1>5, <2>2 DEF WifiInit, Loadable, HasWifiConfig, Wifi, NoFault
  <2> QED
    BY <2>1, <2>2
<1>6. CASE InitMdns
  BY <1>1, <1>6, RestartKeepsType DEF InitMdns, NoFault
<1>7. CASE LoadSetting
  <2>1. CASE Loadable
    <3>1. loaded' \in [Endpoint \cup {"main"} -> Setting]
      BY <1>7, <2>1 DEF LoadSetting, Loadable
    <3>2. doubt' \subseteq Parts
      BY <1>7, <2>1 DEF LoadSetting, Starts
    <3> QED
      BY <1>1, <1>7, <2>1, <3>1, <3>2 DEF LoadSetting, NoFault
  <2>2. CASE ~Loadable
    BY <1>7, <2>2, RestartKeepsType DEF LoadSetting, NoFault
  <2> QED
    BY <2>1, <2>2
<1>8. CASE CreateFirst
  <2>1. CASE loaded["main"].mode = "throws"
    BY <1>8, <2>1, RestartKeepsType DEF CreateFirst, NoFault
  <2>2. CASE loaded["main"].mode # "throws"
    <3>1. executor' \in Setting \cup {None}
      BY <1>8, <2>2 DEF CreateFirst, ExecutorOf
    <3>2. doubt' \subseteq Parts
      BY <1>8, <2>2 DEF CreateFirst, Settles
    <3>3. loaded' \in [Endpoint \cup {"main"} -> Setting]
      BY <1>8, <2>2 DEF CreateFirst
    <3> QED
      BY <1>1, <1>8, <2>2, <3>1, <3>2, <3>3 DEF CreateFirst, NoFault
  <2> QED
    BY <2>1, <2>2
<1>9. CASE PowerFails
  BY <1>9, RestartKeepsType DEF PowerFails, Fault
<1>10. ASSUME NEW t \in Endpoint, BeginWrite(t) PROVE TypeOK'
  <2>1. writes' \in 0..MaxWrite
    BY <1>10 DEF BeginWrite
  <2>2. CASE Loadable
    <3>1. /\ loaded' \in [Endpoint \cup {"main"} -> Setting]
          /\ setting' \in [Endpoint -> Setting]
      BY <1>10, <2>2 DEF BeginWrite, Loadable
    <3>2. doubt' \subseteq Parts
      BY <1>10, <2>2 DEF BeginWrite, Starts
    <3>3. /\ pc' \in [Endpoint -> {"idle", "open", "write", "create",
                                   "stop", "start"}]
          /\ answer' \in [Endpoint -> {"none", "ok", "error"}]
      BY <1>10, <2>2 DEF BeginWrite
    <3> QED
      BY <1>1, <1>10, <2>1, <3>1, <3>2, <3>3 DEF BeginWrite
  <2>3. CASE ~Loadable
    <3>1. /\ pc' \in [Endpoint -> {"idle", "open", "write", "create",
                                   "stop", "start"}]
          /\ answer' \in [Endpoint -> {"none", "ok", "error"}]
          /\ loaded' \in [Endpoint \cup {"main"} -> Setting]
          /\ setting' \in [Endpoint -> Setting]
      BY <1>10, <2>3, ReplyKeepsType DEF BeginWrite
    <3> QED
      BY <1>1, <1>10, <2>1, <2>3, <3>1 DEF BeginWrite
  <2> QED
    BY <2>2, <2>3
<1>11. ASSUME NEW t \in Endpoint, OpenFile(t) PROVE TypeOK'
  BY <1>1, <1>11 DEF OpenFile
<1>12. ASSUME NEW t \in Endpoint, OpenFails(t) PROVE TypeOK'
  BY <1>1, <1>12 DEF OpenFails, Fault, Reply
<1>13. ASSUME NEW t \in Endpoint, WriteFile(t) PROVE TypeOK'
  BY <1>1, <1>13 DEF WriteFile, Saved
<1>14. ASSUME NEW t \in Endpoint, FlushFails(t) PROVE TypeOK'
  BY <1>1, <1>14 DEF FlushFails, Fault
<1>15. ASSUME NEW t \in Endpoint, WriteIsShort(t) PROVE TypeOK'
  BY <1>1, <1>15 DEF WriteIsShort, Fault, Reply
<1>16. ASSUME NEW t \in Endpoint, CreateExecutor(t) PROVE TypeOK'
  BY <1>1, <1>16 DEF CreateExecutor, Settles, Reply, ExecutorOf
<1>17. ASSUME NEW t \in Endpoint, CreateThrows(t) PROVE TypeOK'
  BY <1>1, <1>17 DEF CreateThrows, Reply
<1>18. ASSUME NEW t \in Endpoint, StopFails(t) PROVE TypeOK'
  BY <1>1, <1>18 DEF StopFails, NoFault, Fault, Reply
<1>19. ASSUME NEW t \in Endpoint, StopWifi(t) PROVE TypeOK'
  <2>1. CASE Loadable /\ HasWifiConfig(file)
    <3>1. loaded' \in [Endpoint \cup {"main"} -> Setting]
      BY <1>19, <2>1 DEF StopWifi, Loadable
    <3>2. pc' \in [Endpoint -> {"idle", "open", "write", "create", "stop",
                               "start"}]
      BY <1>19, <2>1 DEF StopWifi
    <3> QED
      BY <1>1, <1>19, <2>1, <3>1, <3>2 DEF StopWifi
  <2>2. CASE ~(Loadable /\ HasWifiConfig(file))
    <3>1. Reply(t, "ok")
      BY <1>19, <2>2 DEF StopWifi
    <3>2. /\ pc' \in [Endpoint -> {"idle", "open", "write", "create", "stop",
                                   "start"}]
          /\ answer' \in [Endpoint -> {"none", "ok", "error"}]
          /\ loaded' \in [Endpoint \cup {"main"} -> Setting]
          /\ setting' \in [Endpoint -> Setting]
      BY <3>1, ReplyKeepsType
    <3>3. doubt' \subseteq Parts
      BY <1>19, <2>2 DEF StopWifi, Settles
    <3> QED
      BY <1>1, <1>19, <2>2, <3>2, <3>3 DEF StopWifi
  <2> QED
    BY <2>1, <2>2
<1>20. ASSUME NEW t \in Endpoint, StartWifi(t) PROVE TypeOK'
  <2>1. loaded[t].wifi \in Wifi
    BY <1>20 DEF StartWifi, StartInv, Wifi
  <2>2. wifi' \in Wifi \cup {"uninit", "stopped"}
    BY <1>20, <2>1 DEF StartWifi
  <2>3. doubt' \subseteq Parts
    BY <1>20 DEF StartWifi, Settles
  <2>4. /\ pc' \in [Endpoint -> {"idle", "open", "write", "create", "stop",
                                 "start"}]
        /\ answer' \in [Endpoint -> {"none", "ok", "error"}]
        /\ loaded' \in [Endpoint \cup {"main"} -> Setting]
        /\ setting' \in [Endpoint -> Setting]
    BY <1>20, ReplyKeepsType DEF StartWifi
  <2> QED
    BY <1>1, <1>20, <2>2, <2>3, <2>4 DEF StartWifi
<1>21. ASSUME NEW t \in Endpoint, StartFails(t) PROVE TypeOK'
  BY <1>1, <1>21 DEF StartFails, NoFault, Fault, Reply
<1>22. CASE UNCHANGED vars
  BY <1>1, <1>22 DEF vars, Changing, Writing
<1> QED
  BY <1>2, <1>3, <1>4, <1>5, <1>6, <1>7, <1>8, <1>9, <1>10, <1>11, <1>12,
     <1>13, <1>14, <1>15, <1>16, <1>17, <1>18, <1>19, <1>20, <1>21, <1>22
     DEF Next, Boot, Write

(* Writes begin only after the boot has come to Wi-Fi.                     *)
LEMMA BootStep == IInv /\ [Next]_vars => BootInv'
<1> SUFFICES ASSUME IInv, [Next]_vars PROVE BootInv'
  OBVIOUS
<1> USE SettingAssumption, EndpointAssumption, BoundAssumption
    DEF IInv, TypeOK, taskVars, historyVars, BootInv, Writing, Loadable
<1>1. CASE SettingInit
  BY <1>1 DEF SettingInit, NoFault, Fault
<1>2. CASE SaveDefault
  BY <1>2 DEF SaveDefault, NoFault, Fault
<1>3. CASE DecoyInit
  <2>1. CASE Restart
    BY <2>1 DEF Restart
  <2>2. CASE ~Restart
    <3>1. /\ boot = "decoy" /\ boot' = "wifi" /\ file \in Setting
          /\ UNCHANGED <<file, pc, shared>>
      BY <1>3, <2>2 DEF DecoyInit
    <3> QED
      BY <3>1
  <2> QED
    BY <2>1, <2>2
<1>4. CASE WifiInit
  BY <1>4 DEF WifiInit, Restart, NoFault, Loadable, HasWifiConfig
<1>5. CASE InitMdns
  BY <1>5 DEF InitMdns, Restart, NoFault, Loadable
<1>6. CASE LoadSetting
  BY <1>6 DEF LoadSetting, Restart, NoFault, Loadable, Starts
<1>7. CASE CreateFirst
  BY <1>7 DEF CreateFirst, Restart, NoFault, Settles, ExecutorOf
<1>8. CASE PowerFails
  BY <1>8 DEF PowerFails, Fault, Restart
<1>9. ASSUME NEW t \in Endpoint, BeginWrite(t) PROVE BootInv'
  BY <1>9 DEF BeginWrite, Serving, Loadable, Reply, Starts
<1>10. ASSUME NEW t \in Endpoint, OpenFile(t) PROVE BootInv'
  BY <1>10 DEF OpenFile
<1>11. ASSUME NEW t \in Endpoint, OpenFails(t) PROVE BootInv'
  BY <1>11 DEF OpenFails, Fault, Reply
<1>12. ASSUME NEW t \in Endpoint, WriteFile(t) PROVE BootInv'
  BY <1>12 DEF WriteFile, Saved
<1>13. ASSUME NEW t \in Endpoint, FlushFails(t) PROVE BootInv'
  BY <1>13 DEF FlushFails, Fault
<1>14. ASSUME NEW t \in Endpoint, WriteIsShort(t) PROVE BootInv'
  BY <1>14 DEF WriteIsShort, Fault, Reply
<1>15. ASSUME NEW t \in Endpoint, CreateExecutor(t) PROVE BootInv'
  BY <1>15 DEF CreateExecutor, Settles, Reply, IsWifiConfigChanged, ExecutorOf
<1>16. ASSUME NEW t \in Endpoint, CreateThrows(t) PROVE BootInv'
  BY <1>16 DEF CreateThrows, Reply, IsWifiConfigChanged
<1>17. ASSUME NEW t \in Endpoint, StopFails(t) PROVE BootInv'
  BY <1>17 DEF StopFails, NoFault, Fault, Reply
<1>18. ASSUME NEW t \in Endpoint, StopWifi(t) PROVE BootInv'
  BY <1>18 DEF StopWifi, Loadable, HasWifiConfig, Settles, Reply
<1>19. ASSUME NEW t \in Endpoint, StartWifi(t) PROVE BootInv'
  BY <1>19 DEF StartWifi, Settles, NoFault, Fault, Reply
<1>20. ASSUME NEW t \in Endpoint, StartFails(t) PROVE BootInv'
  BY <1>20 DEF StartFails, NoFault, Fault, Reply
<1>21. CASE UNCHANGED vars
  BY <1>21 DEF vars
<1> QED
  BY <1>1, <1>2, <1>3, <1>4, <1>5, <1>6, <1>7, <1>8, <1>9, <1>10, <1>11,
     <1>12, <1>13, <1>14, <1>15, <1>16, <1>17, <1>18, <1>19, <1>20, <1>21
     DEF Next, Boot, Write

(* The configuration loaded for the driver stays usable.                   *)
LEMMA StartStep == IInv /\ [Next]_vars => StartInv'
<1> SUFFICES ASSUME IInv, [Next]_vars PROVE StartInv'
  OBVIOUS
<1> USE SettingAssumption, EndpointAssumption, BoundAssumption
    DEF IInv, TypeOK, taskVars, historyVars, StartInv
<1>1. CASE SettingInit
  BY <1>1 DEF SettingInit, NoFault, Fault
<1>2. CASE SaveDefault
  BY <1>2 DEF SaveDefault, NoFault, Fault
<1>3. CASE DecoyInit
  BY <1>3 DEF DecoyInit, Restart, NoFault, Loadable
<1>4. CASE WifiInit
  BY <1>4 DEF WifiInit, Restart, NoFault, Loadable, HasWifiConfig
<1>5. CASE InitMdns
  BY <1>5 DEF InitMdns, Restart, NoFault, Loadable
<1>6. CASE LoadSetting
  BY <1>6 DEF LoadSetting, Restart, NoFault, Loadable, Starts
<1>7. CASE CreateFirst
  BY <1>7 DEF CreateFirst, Restart, NoFault, Settles, ExecutorOf
<1>8. CASE PowerFails
  BY <1>8 DEF PowerFails, Fault, Restart
<1>9. ASSUME NEW t \in Endpoint, BeginWrite(t) PROVE StartInv'
  BY <1>9 DEF BeginWrite, Serving, Loadable, Reply, Starts
<1>10. ASSUME NEW t \in Endpoint, OpenFile(t) PROVE StartInv'
  BY <1>10 DEF OpenFile
<1>11. ASSUME NEW t \in Endpoint, OpenFails(t) PROVE StartInv'
  BY <1>11 DEF OpenFails, Fault, Reply
<1>12. ASSUME NEW t \in Endpoint, WriteFile(t) PROVE StartInv'
  BY <1>12 DEF WriteFile, Saved
<1>13. ASSUME NEW t \in Endpoint, FlushFails(t) PROVE StartInv'
  BY <1>13 DEF FlushFails, Fault
<1>14. ASSUME NEW t \in Endpoint, WriteIsShort(t) PROVE StartInv'
  BY <1>14 DEF WriteIsShort, Fault, Reply
<1>15. ASSUME NEW t \in Endpoint, CreateExecutor(t) PROVE StartInv'
  BY <1>15 DEF CreateExecutor, Settles, Reply, IsWifiConfigChanged, ExecutorOf
<1>16. ASSUME NEW t \in Endpoint, CreateThrows(t) PROVE StartInv'
  BY <1>16 DEF CreateThrows, Reply, IsWifiConfigChanged
<1>17. ASSUME NEW t \in Endpoint, StopFails(t) PROVE StartInv'
  BY <1>17 DEF StopFails, NoFault, Fault, Reply
<1>18. ASSUME NEW t \in Endpoint, StopWifi(t) PROVE StartInv'
  BY <1>18 DEF StopWifi, Loadable, HasWifiConfig, Settles, Reply
<1>19. ASSUME NEW t \in Endpoint, StartWifi(t) PROVE StartInv'
  BY <1>19 DEF StartWifi, Settles, NoFault, Fault, Reply
<1>20. ASSUME NEW t \in Endpoint, StartFails(t) PROVE StartInv'
  BY <1>20 DEF StartFails, NoFault, Fault, Reply
<1>21. CASE UNCHANGED vars
  BY <1>21 DEF vars
<1> QED
  BY <1>1, <1>2, <1>3, <1>4, <1>5, <1>6, <1>7, <1>8, <1>9, <1>10, <1>11,
     <1>12, <1>13, <1>14, <1>15, <1>16, <1>17, <1>18, <1>19, <1>20, <1>21
     DEF Next, Boot, Write

(* Sharing an open file means overlapping.                                 *)
LEMMA SharedStep == IInv /\ [Next]_vars => SharedInv'
<1> SUFFICES ASSUME IInv, [Next]_vars PROVE SharedInv'
  OBVIOUS
<1> USE SettingAssumption, EndpointAssumption, BoundAssumption
    DEF IInv, TypeOK, taskVars, historyVars, SharedInv, BootInv, AloneInv,
        Changing, Writing
<1>1. CASE SettingInit
  BY <1>1 DEF SettingInit, NoFault, Fault
<1>2. CASE SaveDefault
  BY <1>2 DEF SaveDefault, NoFault, Fault
<1>3. CASE DecoyInit
  BY <1>3 DEF DecoyInit, Restart, NoFault, Loadable
<1>4. CASE WifiInit
  BY <1>4 DEF WifiInit, Restart, NoFault, Loadable, HasWifiConfig
<1>5. CASE InitMdns
  BY <1>5 DEF InitMdns, Restart, NoFault, Loadable
<1>6. CASE LoadSetting
  BY <1>6 DEF LoadSetting, Restart, NoFault, Loadable, Starts
<1>7. CASE CreateFirst
  BY <1>7 DEF CreateFirst, Restart, NoFault, Settles, ExecutorOf
<1>8. CASE PowerFails
  BY <1>8 DEF PowerFails, Fault, Restart
<1>9. ASSUME NEW t \in Endpoint, BeginWrite(t) PROVE SharedInv'
  <2>1. shared' = shared
    BY <1>9 DEF BeginWrite
  <2>2. \A u \in Endpoint : pc'[u] = "write" => pc[u] = "write"
    BY <1>9 DEF BeginWrite, Reply
  <2>3. Changing # {} => alone' = {} \/ alone' \subseteq alone
    BY <1>9 DEF BeginWrite, Reply, Starts
  <2>4. ASSUME NEW u \in shared, pc[u] = "write"
        PROVE  Changing # {} /\ alone = {}
    BY <2>4
  <2> QED
    BY <2>1, <2>2, <2>3, <2>4
<1>10. ASSUME NEW t \in Endpoint, OpenFile(t) PROVE SharedInv'
  BY <1>10 DEF OpenFile
<1>11. ASSUME NEW t \in Endpoint, OpenFails(t) PROVE SharedInv'
  BY <1>11 DEF OpenFails, Fault, Reply
<1>12. ASSUME NEW t \in Endpoint, WriteFile(t) PROVE SharedInv'
  BY <1>12 DEF WriteFile, Saved
<1>13. ASSUME NEW t \in Endpoint, FlushFails(t) PROVE SharedInv'
  BY <1>13 DEF FlushFails, Fault
<1>14. ASSUME NEW t \in Endpoint, WriteIsShort(t) PROVE SharedInv'
  BY <1>14 DEF WriteIsShort, Fault, Reply
<1>15. ASSUME NEW t \in Endpoint, CreateExecutor(t) PROVE SharedInv'
  <2>1. /\ shared' = shared /\ alone' \subseteq alone
        /\ \A u \in Endpoint : pc'[u] = "write" => pc[u] = "write"
    BY <1>15 DEF CreateExecutor, Reply
  <2> QED
    BY <2>1
<1>16. ASSUME NEW t \in Endpoint, CreateThrows(t) PROVE SharedInv'
  <2>1. /\ shared' = shared /\ alone' \subseteq alone
        /\ \A u \in Endpoint : pc'[u] = "write" => pc[u] = "write"
    BY <1>16 DEF CreateThrows, Reply
  <2> QED
    BY <2>1
<1>17. ASSUME NEW t \in Endpoint, StopFails(t) PROVE SharedInv'
  <2>1. /\ shared' = shared /\ alone' \subseteq alone
        /\ \A u \in Endpoint : pc'[u] = "write" => pc[u] = "write"
    BY <1>17 DEF StopFails, Fault, Reply
  <2> QED
    BY <2>1
<1>18. ASSUME NEW t \in Endpoint, StopWifi(t) PROVE SharedInv'
  <2>1. /\ shared' = shared /\ alone' \subseteq alone
        /\ \A u \in Endpoint : pc'[u] = "write" => pc[u] = "write"
    BY <1>18 DEF StopWifi, Reply
  <2> QED
    BY <2>1
<1>19. ASSUME NEW t \in Endpoint, StartWifi(t) PROVE SharedInv'
  <2>1. /\ shared' = shared /\ alone' \subseteq alone
        /\ \A u \in Endpoint : pc'[u] = "write" => pc[u] = "write"
    BY <1>19 DEF StartWifi, Reply
  <2> QED
    BY <2>1
<1>20. ASSUME NEW t \in Endpoint, StartFails(t) PROVE SharedInv'
  BY <1>20 DEF StartFails, NoFault, Fault, Reply
<1>21. CASE UNCHANGED vars
  BY <1>21 DEF vars
<1> QED
  BY <1>1, <1>2, <1>3, <1>4, <1>5, <1>6, <1>7, <1>8, <1>9, <1>10, <1>11,
     <1>12, <1>13, <1>14, <1>15, <1>16, <1>17, <1>18, <1>19, <1>20, <1>21
     DEF Next, Boot, Write

(* Without faults, an overlap is what damages the file.                    *)
LEMMA DamageStep == IInv /\ [Next]_vars /\ AloneInv' => DamageInv'
<1> SUFFICES ASSUME IInv, [Next]_vars, AloneInv' PROVE DamageInv'
  OBVIOUS
<1> USE SettingAssumption, EndpointAssumption, BoundAssumption
    DEF IInv, TypeOK, taskVars, historyVars, DamageInv, BootInv, SharedInv,
        AloneInv, Changing, Writing, Writer, Parts
<1>1. CASE SettingInit
  BY <1>1 DEF SettingInit, NoFault, Fault
<1>2. CASE SaveDefault
  BY <1>2 DEF SaveDefault, NoFault, Fault
<1>3. CASE DecoyInit
  BY <1>3 DEF DecoyInit, Restart, NoFault, Loadable
<1>4. CASE WifiInit
  BY <1>4 DEF WifiInit, Restart, NoFault, Loadable, HasWifiConfig
<1>5. CASE InitMdns
  BY <1>5 DEF InitMdns, Restart, NoFault, Loadable
<1>6. CASE LoadSetting
  BY <1>6 DEF LoadSetting, Restart, NoFault, Loadable, Starts
<1>7. CASE CreateFirst
  BY <1>7 DEF CreateFirst, Restart, NoFault, Settles, ExecutorOf
<1>8. CASE PowerFails
  BY <1>8 DEF PowerFails, Fault, Restart
<1>9. ASSUME NEW t \in Endpoint, BeginWrite(t) PROVE DamageInv'
  BY <1>9 DEF BeginWrite, Serving, Loadable, Reply, Starts
<1>10. ASSUME NEW t \in Endpoint, OpenFile(t) PROVE DamageInv'
  BY <1>10 DEF OpenFile
<1>11. ASSUME NEW t \in Endpoint, OpenFails(t) PROVE DamageInv'
  BY <1>11 DEF OpenFails, Fault, Reply
<1>12. ASSUME NEW t \in Endpoint, WriteFile(t) PROVE DamageInv'
  BY <1>12 DEF WriteFile, Saved
<1>13. ASSUME NEW t \in Endpoint, FlushFails(t) PROVE DamageInv'
  BY <1>13 DEF FlushFails, Fault
<1>14. ASSUME NEW t \in Endpoint, WriteIsShort(t) PROVE DamageInv'
  BY <1>14 DEF WriteIsShort, Fault, Reply
<1>15. ASSUME NEW t \in Endpoint, CreateExecutor(t) PROVE DamageInv'
  BY <1>15 DEF CreateExecutor, Settles, Reply, IsWifiConfigChanged, ExecutorOf
<1>16. ASSUME NEW t \in Endpoint, CreateThrows(t) PROVE DamageInv'
  BY <1>16 DEF CreateThrows, Reply, IsWifiConfigChanged
<1>17. ASSUME NEW t \in Endpoint, StopFails(t) PROVE DamageInv'
  BY <1>17 DEF StopFails, NoFault, Fault, Reply
<1>18. ASSUME NEW t \in Endpoint, StopWifi(t) PROVE DamageInv'
  BY <1>18 DEF StopWifi, Loadable, HasWifiConfig, Settles, Reply
<1>19. ASSUME NEW t \in Endpoint, StartWifi(t) PROVE DamageInv'
  BY <1>19 DEF StartWifi, Settles, NoFault, Fault, Reply
<1>20. ASSUME NEW t \in Endpoint, StartFails(t) PROVE DamageInv'
  BY <1>20 DEF StartFails, NoFault, Fault, Reply
<1>21. CASE UNCHANGED vars
  BY <1>21 DEF vars
<1> QED
  BY <1>1, <1>2, <1>3, <1>4, <1>5, <1>6, <1>7, <1>8, <1>9, <1>10, <1>11,
     <1>12, <1>13, <1>14, <1>15, <1>16, <1>17, <1>18, <1>19, <1>20, <1>21
     DEF Next, Boot, Write

(* When the last change ends, what runs is what is stored.                 *)
LEMMA QuietStep == IInv /\ [Next]_vars => QuietInv'
<1> SUFFICES ASSUME IInv, [Next]_vars PROVE QuietInv'
  OBVIOUS
<1> USE SettingAssumption, EndpointAssumption, BoundAssumption
    DEF IInv, TypeOK, taskVars, historyVars, QuietInv, BootInv, AloneInv,
        BootingInv, WritingInv, SharedInv, Changing, Writing, ExecutorIs,
        WifiIs, ExecutorOf, Parts, Loadable
<1>1. CASE SettingInit
  BY <1>1 DEF SettingInit, NoFault, Fault
<1>2. CASE SaveDefault
  BY <1>2 DEF SaveDefault, NoFault, Fault
<1>3. CASE DecoyInit
  BY <1>3 DEF DecoyInit, Restart, NoFault, Loadable
<1>4. CASE WifiInit
  BY <1>4 DEF WifiInit, Restart, NoFault, Loadable, HasWifiConfig
<1>5. CASE InitMdns
  BY <1>5 DEF InitMdns, Restart, NoFault, Loadable
<1>6. CASE LoadSetting
  BY <1>6 DEF LoadSetting, Restart, NoFault, Loadable, Starts
<1>7. CASE CreateFirst
  BY <1>7 DEF CreateFirst, Restart, NoFault, Settles, ExecutorOf
<1>8. CASE PowerFails
  BY <1>8 DEF PowerFails, Fault, Restart
<1>9. ASSUME NEW t \in Endpoint, BeginWrite(t) PROVE QuietInv'
  BY <1>9 DEF BeginWrite, Serving, Loadable, Reply, Starts
<1>10. ASSUME NEW t \in Endpoint, OpenFile(t) PROVE QuietInv'
  BY <1>10 DEF OpenFile
<1>11. ASSUME NEW t \in Endpoint, OpenFails(t) PROVE QuietInv'
  BY <1>11 DEF OpenFails, Fault, Reply
<1>12. ASSUME NEW t \in Endpoint, WriteFile(t) PROVE QuietInv'
  BY <1>12 DEF WriteFile, Saved
<1>13. ASSUME NEW t \in Endpoint, FlushFails(t) PROVE QuietInv'
  BY <1>13 DEF FlushFails, Fault
<1>14. ASSUME NEW t \in Endpoint, WriteIsShort(t) PROVE QuietInv'
  BY <1>14 DEF WriteIsShort, Fault, Reply
<1>15. ASSUME NEW t \in Endpoint, CreateExecutor(t) PROVE QuietInv'
  BY <1>15 DEF CreateExecutor, Settles, Reply, IsWifiConfigChanged, ExecutorOf
<1>16. ASSUME NEW t \in Endpoint, CreateThrows(t) PROVE QuietInv'
  BY <1>16 DEF CreateThrows, Reply, IsWifiConfigChanged
<1>17. ASSUME NEW t \in Endpoint, StopFails(t) PROVE QuietInv'
  BY <1>17 DEF StopFails, NoFault, Fault, Reply
<1>18. ASSUME NEW t \in Endpoint, StopWifi(t) PROVE QuietInv'
  BY <1>18 DEF StopWifi, Loadable, HasWifiConfig, Settles, Reply
<1>19. ASSUME NEW t \in Endpoint, StartWifi(t) PROVE QuietInv'
  BY <1>19 DEF StartWifi, Settles, NoFault, Fault, Reply
<1>20. ASSUME NEW t \in Endpoint, StartFails(t) PROVE QuietInv'
  BY <1>20 DEF StartFails, NoFault, Fault, Reply
<1>21. CASE UNCHANGED vars
  BY <1>21 DEF vars
<1> QED
  BY <1>1, <1>2, <1>3, <1>4, <1>5, <1>6, <1>7, <1>8, <1>9, <1>10, <1>11,
     <1>12, <1>13, <1>14, <1>15, <1>16, <1>17, <1>18, <1>19, <1>20, <1>21
     DEF Next, Boot, Write

(* app_main, running alone, builds from what is stored.                    *)
LEMMA BootingStep == IInv /\ [Next]_vars => BootingInv'
<1> SUFFICES ASSUME IInv, [Next]_vars PROVE BootingInv'
  OBVIOUS
<1> USE SettingAssumption, EndpointAssumption, BoundAssumption
    DEF IInv, TypeOK, taskVars, historyVars, QuietInv, BootInv, AloneInv,
        BootingInv, Changing, Writing, ExecutorIs, WifiIs, ExecutorOf, Parts,
        Loadable
<1>1. CASE SettingInit
  BY <1>1 DEF SettingInit, NoFault, Fault
<1>2. CASE SaveDefault
  BY <1>2 DEF SaveDefault, NoFault, Fault
<1>3. CASE DecoyInit
  BY <1>3 DEF DecoyInit, Restart, NoFault, Loadable
<1>4. CASE WifiInit
  BY <1>4 DEF WifiInit, Restart, NoFault, Loadable, HasWifiConfig
<1>5. CASE InitMdns
  BY <1>5 DEF InitMdns, Restart, NoFault, Loadable
<1>6. CASE LoadSetting
  BY <1>6 DEF LoadSetting, Restart, NoFault, Loadable, Starts
<1>7. CASE CreateFirst
  BY <1>7 DEF CreateFirst, Restart, NoFault, Settles, ExecutorOf
<1>8. CASE PowerFails
  BY <1>8 DEF PowerFails, Fault, Restart
<1>9. ASSUME NEW t \in Endpoint, BeginWrite(t) PROVE BootingInv'
  BY <1>9 DEF BeginWrite, Serving, Loadable, Reply, Starts
<1>10. ASSUME NEW t \in Endpoint, OpenFile(t) PROVE BootingInv'
  BY <1>10 DEF OpenFile
<1>11. ASSUME NEW t \in Endpoint, OpenFails(t) PROVE BootingInv'
  BY <1>11 DEF OpenFails, Fault, Reply
<1>12. ASSUME NEW t \in Endpoint, WriteFile(t) PROVE BootingInv'
  BY <1>12 DEF WriteFile, Saved
<1>13. ASSUME NEW t \in Endpoint, FlushFails(t) PROVE BootingInv'
  BY <1>13 DEF FlushFails, Fault
<1>14. ASSUME NEW t \in Endpoint, WriteIsShort(t) PROVE BootingInv'
  BY <1>14 DEF WriteIsShort, Fault, Reply
<1>15. ASSUME NEW t \in Endpoint, CreateExecutor(t) PROVE BootingInv'
  BY <1>15 DEF CreateExecutor, Settles, Reply, IsWifiConfigChanged, ExecutorOf
<1>16. ASSUME NEW t \in Endpoint, CreateThrows(t) PROVE BootingInv'
  BY <1>16 DEF CreateThrows, Reply, IsWifiConfigChanged
<1>17. ASSUME NEW t \in Endpoint, StopFails(t) PROVE BootingInv'
  BY <1>17 DEF StopFails, NoFault, Fault, Reply
<1>18. ASSUME NEW t \in Endpoint, StopWifi(t) PROVE BootingInv'
  BY <1>18 DEF StopWifi, Loadable, HasWifiConfig, Settles, Reply
<1>19. ASSUME NEW t \in Endpoint, StartWifi(t) PROVE BootingInv'
  BY <1>19 DEF StartWifi, Settles, NoFault, Fault, Reply
<1>20. ASSUME NEW t \in Endpoint, StartFails(t) PROVE BootingInv'
  BY <1>20 DEF StartFails, NoFault, Fault, Reply
<1>21. CASE UNCHANGED vars
  BY <1>21 DEF vars
<1> QED
  BY <1>1, <1>2, <1>3, <1>4, <1>5, <1>6, <1>7, <1>8, <1>9, <1>10, <1>11,
     <1>12, <1>13, <1>14, <1>15, <1>16, <1>17, <1>18, <1>19, <1>20, <1>21
     DEF Next, Boot, Write

(* A write that runs alone gets as far as WritingInv says.                 *)
LEMMA WritingStep == IInv /\ [Next]_vars => WritingInv'
<1> SUFFICES ASSUME IInv, [Next]_vars PROVE WritingInv'
  OBVIOUS
<1> USE EndpointAssumption
    DEF IInv, TypeOK, taskVars, historyVars, AloneInv, WritingInv, Parts,
        Changing, Writing, ExecutorIs, WifiIs
<1>1. CASE SettingInit
  BY <1>1 DEF SettingInit, BootInv
<1>2. CASE SaveDefault
  BY <1>2 DEF SaveDefault, BootInv
<1>3. CASE DecoyInit
  BY <1>3 DEF DecoyInit, Restart
<1>4. CASE WifiInit
  BY <1>4 DEF WifiInit, Restart, BootInv
<1>5. CASE InitMdns
  BY <1>5 DEF InitMdns, Restart
<1>6. CASE LoadSetting
  BY <1>6 DEF LoadSetting, Restart, Starts
<1>7. CASE CreateFirst
  <2>1. CASE Restart
    BY <2>1 DEF Restart
  <2>2. CASE ~Restart
    <3>1. "main" \in Changing /\ alone' = alone \ {"main"}
      BY <1>7, <2>2 DEF CreateFirst
    <3>2. alone' = {}
      BY <3>1
    <3> QED
      BY <3>2
  <2> QED
    BY <2>1, <2>2
<1>8. CASE PowerFails
  BY <1>8 DEF PowerFails, Restart
<1>9. ASSUME NEW t \in Endpoint, BeginWrite(t) PROVE WritingInv'
  <2>1. CASE Loadable /\ Changing = {}
    <3>1. /\ alone' = {t} /\ pc'[t] = "open" /\ loaded'[t] = file
          /\ UNCHANGED <<file, boot, executor, wifi, doubt>>
      BY <1>9, <2>1 DEF BeginWrite, Starts
    <3>2. ExecutorIs(file) /\ WifiIs(file)
      BY <2>1 DEF QuietInv
    <3> QED
      BY <3>1, <3>2
  <2>2. CASE Loadable /\ Changing # {}
    <3>1. alone' = {}
      BY <1>9, <2>2 DEF BeginWrite, Starts
    <3> QED
      BY <3>1
  <2>3. CASE ~Loadable
    <3>1. t \notin alone
      BY <1>9 DEF BeginWrite
    <3>2. /\ pc[t] = "idle" /\ pc' = [pc EXCEPT ![t] = "idle"]
          /\ alone' = alone \ {t}
      BY <1>9, <2>3 DEF BeginWrite, Reply
    <3>3. pc' = pc /\ alone' = alone
      BY <3>1, <3>2
    <3>4. /\ UNCHANGED <<file, boot, executor, wifi, doubt>>
          /\ \A u \in Endpoint \ {t} :
               loaded'[u] = loaded[u] /\ setting'[u] = setting[u]
      BY <1>9, <2>3 DEF BeginWrite, Reply
    <3> QED
      BY <3>1, <3>3, <3>4
  <2> QED
    BY <2>1, <2>2, <2>3
<1>10. ASSUME NEW t \in Endpoint, OpenFile(t) PROVE WritingInv'
  BY <1>10 DEF OpenFile
<1>11. ASSUME NEW t \in Endpoint,
              OpenFails(t) \/ WriteIsShort(t) \/ CreateThrows(t)
              \/ StopFails(t) \/ StartWifi(t) \/ StartFails(t)
       PROVE  WritingInv'
  <2>1. pc[t] # "idle" /\ alone' = alone \ {t}
    BY <1>11
       DEF OpenFails, WriteIsShort, CreateThrows, StopFails, StartWifi,
           StartFails, Reply
  <2>2. alone' = {}
    BY <2>1
  <2> QED
    BY <2>2
<1>12. ASSUME NEW t \in Endpoint, WriteFile(t) PROVE WritingInv'
  BY <1>12 DEF WriteFile, Saved, SharedInv
<1>13. ASSUME NEW t \in Endpoint, FlushFails(t) PROVE WritingInv'
  BY <1>13 DEF FlushFails
<1>14. ASSUME NEW t \in Endpoint, CreateExecutor(t) PROVE WritingInv'
  <2>1. CASE IsWifiConfigChanged(t)
    <3>1. /\ pc' = [pc EXCEPT ![t] = "stop"] /\ alone' = alone
          /\ executor' = ExecutorOf(setting[t])
          /\ UNCHANGED <<file, setting>>
      BY <1>14, <2>1 DEF CreateExecutor
    <3>2. ASSUME NEW u \in alone' \cap Endpoint PROVE u = t
      BY <1>14, <3>1, <3>2 DEF CreateExecutor
    <3>3. t \in alone => file \in {setting[t], Torn}
      BY <1>14 DEF CreateExecutor
    <3>4. ExecutorIs(setting[t])'
      BY <3>1
    <3> QED
      BY <3>1, <3>2, <3>3, <3>4
  <2>2. CASE ~IsWifiConfigChanged(t)
    <3>1. pc[t] # "idle" /\ alone' = alone \ {t}
      BY <1>14, <2>2 DEF CreateExecutor, Reply
    <3>2. alone' = {}
      BY <3>1
    <3> QED
      BY <3>2
  <2> QED
    BY <2>1, <2>2
<1>15. ASSUME NEW t \in Endpoint, StopWifi(t) PROVE WritingInv'
  <2>1. CASE Loadable /\ HasWifiConfig(file)
    <3>1. /\ pc' = [pc EXCEPT ![t] = "start"] /\ alone' = alone
          /\ loaded' = [loaded EXCEPT ![t] = file] /\ file.wifi # None
          /\ UNCHANGED <<file, setting, doubt, boot, executor>>
      BY <1>15, <2>1 DEF StopWifi, HasWifiConfig
    <3>2. ASSUME NEW u \in alone' \cap Endpoint PROVE u = t
      BY <1>15, <3>1, <3>2 DEF StopWifi
    <3>3. t \in alone => file = setting[t] /\ ExecutorIs(file)
      BY <1>15, <2>1, SettingAssumption DEF StopWifi, Loadable
    <3> QED
      BY <3>1, <3>2, <3>3
  <2>2. CASE ~(Loadable /\ HasWifiConfig(file))
    <3>1. pc[t] # "idle" /\ alone' = alone \ {t}
      BY <1>15, <2>2 DEF StopWifi, Reply
    <3>2. alone' = {}
      BY <3>1
    <3> QED
      BY <3>2
  <2> QED
    BY <2>1, <2>2
<1>16. CASE UNCHANGED vars
  BY <1>16 DEF vars
<1> QED
  BY <1>1, <1>2, <1>3, <1>4, <1>5, <1>6, <1>7, <1>8, <1>9, <1>10, <1>11,
     <1>12, <1>13, <1>14, <1>15, <1>16
     DEF Next, Boot, Write

LEMMA IInvStep == IInv /\ [Next]_vars => IInv'
<1> SUFFICES ASSUME IInv, [Next]_vars PROVE IInv'
  OBVIOUS
<1>1. AloneInv'
  BY AloneStep
<1>2. TypeOK' /\ DamageInv'
  BY <1>1, TypeStep, DamageStep
<1>3. BootInv' /\ StartInv' /\ SharedInv'
  BY BootStep, StartStep, SharedStep
<1>4. QuietInv' /\ BootingInv' /\ WritingInv'
  BY QuietStep, BootingStep, WritingStep
<1> QED
  BY <1>1, <1>2, <1>3, <1>4 DEF IInv

(* The strengthening of the three properties below is inductive.           *)
THEOREM Invariant == Spec => []IInv
  BY IInvInit, IInvStep, PTL DEF Spec

(* Every variable stays in its set, and one change at most runs alone      *)
(* (setting.cpp, main.cpp).                                                *)
THEOREM TypeCorrect == Spec => []TypeOK
<1>1. IInv => TypeOK
  BY DEF IInv
<1> QED
  BY <1>1, Invariant, PTL

(* What runs is what is stored, once app_main is done and no write is in   *)
(* progress, apart from the parts that an overlap, an exception or the     *)
(* Wi-Fi driver left in doubt: setting_store of setting.cpp, app_main.     *)
THEOREM StoredIsApplied == Spec => []Applied
<1>1. IInv => Applied
  BY DEF IInv, QuietInv, ExecutorIs, WifiIs, Applied
<1> QED
  BY <1>1, Invariant, PTL

(* A file is found damaged only while it is written, after a fault, or     *)
(* after two changes that overlapped: fopen of saveToFile truncates it.    *)
THEOREM DamageExplained == Spec => []DamageNeedsFault
<1>1. IInv => DamageNeedsFault
  BY DEF IInv, TypeOK, DamageInv, Writer, DamageNeedsFault
<1> QED
  BY <1>1, Invariant, PTL

=============================================================================
