------------------------------ MODULE EventLoop ------------------------------
(***************************************************************************)
(* The default event loop and the tasks that meet in it: the Wi-Fi events, *)
(* which start the web server; the USB monitor; the LED; and the clients   *)
(* of the /event WebSocket.                                                *)
(*                                                                         *)
(*   event loop   wifi_event_handler, usb_event_handler_internal and       *)
(*                universal_event_handler, one event after the other       *)
(*   timer task   checkUsbConnection, once per second                      *)
(*   httpd        the sessions and event_websocket_handler                 *)
(*   Wi-Fi driver posts its events, waiting as long as the queue is full   *)
(*   settings     wifi_reconfigure, called by httpd or the BLE host task   *)
(*   app_main     its steps from led_init to g_system_initialized          *)
(***************************************************************************)
EXTENDS Integers, Sequences, FiniteSets, SequencesExt

CONSTANTS Sock,             \* descriptors of the web server's sockets
          QueueSize,        \* CONFIG_ESP_SYSTEM_EVENT_QUEUE_SIZE, which is 32
          MaxChange,        \* bound: times the USB host comes or goes
          MaxReconfigure    \* bound: Wi-Fi settings written

ASSUME EventLoopAssumption == /\ QueueSize \in Nat \ {0}
                              /\ MaxChange \in Nat /\ MaxReconfigure \in Nat
                              /\ Sock \cap {"nobody", "post", "led"} = {}

Mode == {"none", "ap", "sta", "apsta"}
HasStation(m) == m \in {"sta", "apsta"}
HasAp(m) == m \in {"ap", "apsta"}

UsbEvent == {"connected", "disconnected"}
WifiEvent == {"staStart", "staDisconnected", "apStart", "gotIp"}
Event == UsbEvent \cup WifiEvent \cup {"stats"}
Nobody == "nobody"

VARIABLES
  main,        \* where app_main is
  shown,       \* the USB state app_main has read and not shown yet
  initialized, \* g_system_initialized
  usb,         \* is there a USB host
  changes,     \* how often it has come or gone
  polled,      \* m_last_connected
  timer,       \* the event the timer task has to post, or "idle", "off"
  queue,       \* the queue of the default event loop
  loop,        \* the event being broadcast, or "idle"
  next,        \* where in event_clients the broadcast is
  led,         \* m_mode and m_color
  boot,        \* the mode wifi_init has created interfaces and handlers for
  mode,        \* esp_wifi_get_mode
  running,     \* has the driver been started
  station,     \* the driver's station
  owed,        \* events the driver has to post
  reconf,      \* wifi_reconfigure: "idle" or "stopped"
  reconfs,     \* how often it was called
  ever,        \* sta_ever_connected
  server,      \* g_http_server
  startedHttp, \* http_server_started
  failed,      \* history: httpd_start failed at the last event ("ap"), or
               \*          ever with the station's address ("sta"), or "no"
  sess,        \* the session of each socket
  clients,     \* event_clients
  mutex,       \* is clients_mutex taken
  asking,      \* the socket whose handshake httpd is in, or Nobody
  answer,      \* the USB state read for it, or "unread"
  heard,       \* the last USB state sent to each session
  missed,      \* history: who may have missed the last USB state
  left,        \* history: listed sockets whose session ended without CLOSE
  owner        \* history: who set the LED last

mainVars == <<main, shown, initialized>>
usbVars == <<usb, changes, polled, timer>>
driverVars == <<mode, running, station, owed>>
confVars == <<reconf, reconfs>>
serverVars == <<ever, server, startedHttp, failed>>
listVars == <<sess, clients, mutex, left>>
askVars == <<asking, answer>>
ledVars == <<led, owner>>
vars == <<mainVars, usbVars, queue, loop, next, ledVars, boot, driverVars,
          confVars, serverVars, listVars, askVars, heard, missed>>

Green(m) == [mode |-> m, color |-> "green"]

(* led_init, setSuccess and the first USB state are shown before any other *)
(* task runs that looks at the LED.                                        *)
Init == /\ main = "wifi" /\ shown = FALSE /\ initialized = FALSE
        /\ usb \in BOOLEAN /\ polled \in BOOLEAN /\ changes = 0
        /\ timer = "off"
        /\ queue = <<>> /\ loop = "idle" /\ next = 1
        /\ led = Green(IF usb THEN "solid" ELSE "blink")
        /\ owner = "usb"
        /\ boot = "none" /\ mode = "none" /\ running = FALSE
        /\ station = "off" /\ owed = <<>>
        /\ reconf = "idle" /\ reconfs = 0
        /\ ever = FALSE
        /\ server = "off" /\ startedHttp = FALSE /\ failed = "no"
        /\ sess = [s \in Sock |-> "closed"]
        /\ clients = <<>> /\ mutex = FALSE /\ left = {}
        /\ asking = Nobody /\ answer = "unread"
        /\ heard = [s \in Sock |-> FALSE]
        /\ missed = {}

-----------------------------------------------------------------------------
(* The LED (its timer only draws what m_mode and m_color say).             *)

(* setSuccess sets the mode and the colour, setBlink the mode only.        *)
ColourOnly == [led EXCEPT !.color = "green"]
ModeAndColour == Green("solid")
SolidGreen == ModeAndColour
Blinking == [led EXCEPT !.mode = "blink"]
ErrorCode == [mode |-> "error", color |-> "red"]
LedFor(connected) == IF connected THEN SolidGreen ELSE Blinking

-----------------------------------------------------------------------------
(* app_main.                                                               *)

(* esp_wifi_start: the driver reports what it has started.                 *)
Starting(m) == (IF HasStation(m) THEN <<"staStart">> ELSE <<>>) \o
               (IF HasAp(m) THEN <<"apStart">> ELSE <<>>)

(* wifi_init: without a valid configuration it returns at once; an error of*)
(* the driver restarts the CPU, which SettingStore has.                    *)
WifiInit(m) ==
  /\ main = "wifi"
  /\ main' = "monitor"
  /\ boot' = m /\ mode' = m /\ running' = (m # "none")
  /\ owed' = Starting(m)
  /\ UNCHANGED <<shown, initialized, usbVars, queue, loop, next, ledVars,
                 station, confVars, serverVars, listVars, askVars, heard,
                 missed>>

(* usb_monitor_start.                                                      *)
StartMonitor ==
  /\ main = "monitor"
  /\ main' = "read"
  /\ timer' = "idle"
  /\ UNCHANGED <<shown, initialized, usb, changes, polled, queue, loop, next,
                 ledVars, boot, driverVars, confVars, serverVars, listVars,
                 askVars, heard, missed>>

(* The USB state is read, shown, and the LED left to the USB monitor.  If  *)
(* the monitor has seen another state than the one shown, no event may     *)
(* come to correct it.                                                     *)
ReadUsb ==
  /\ main = "read"
  /\ main' = "show"
  /\ shown' = usb
  /\ UNCHANGED <<initialized, usbVars, queue, loop, next, ledVars, boot,
                 driverVars, confVars, serverVars, listVars, askVars, heard,
                 missed>>
ShowUsb ==
  /\ main = "show"
  /\ main' = "flag"
  /\ led' = LedFor(shown) /\ owner' = "usb"
  /\ missed' = IF shown # polled THEN missed \cup {"led"} ELSE missed
  /\ UNCHANGED <<shown, initialized, usbVars, queue, loop, next, boot,
                 driverVars, confVars, serverVars, listVars, askVars, heard>>
Initialized ==
  /\ main = "flag"
  /\ main' = "done"
  /\ initialized' = TRUE /\ shown' = FALSE
  /\ UNCHANGED <<usbVars, queue, loop, next, ledVars, boot, driverVars,
                 confVars, serverVars, listVars, askVars, heard, missed>>

MainStep == \/ \E m \in Mode : WifiInit(m)
            \/ StartMonitor \/ ReadUsb \/ ShowUsb \/ Initialized

-----------------------------------------------------------------------------
(* The USB monitor.                                                        *)

UsbChanges ==
  /\ changes < MaxChange
  /\ usb' = ~usb /\ changes' = changes + 1
  /\ UNCHANGED <<mainVars, polled, timer, queue, loop, next, ledVars, boot,
                 driverVars, confVars, serverVars, listVars, askVars, heard,
                 missed>>

(* checkUsbConnection stores the new state ...                             *)
CheckUsb ==
  /\ timer = "idle"
  /\ usb # polled
  /\ polled' = usb
  /\ timer' = IF usb THEN "connected" ELSE "disconnected"
  /\ UNCHANGED <<mainVars, usb, changes, queue, loop, next, ledVars, boot,
                 driverVars, confVars, serverVars, listVars, askVars, heard,
                 missed>>

(* ... and then posts the event, or gives up after 100 ms.                 *)
PostUsb ==
  /\ timer \in UsbEvent
  /\ timer' = "idle"
  /\ \/ /\ Len(queue) < QueueSize
        /\ queue' = Append(queue, timer)
        /\ missed' = missed \ {"post"}
     \/ /\ Len(queue) = QueueSize
        /\ missed' = missed \cup {"post"}
        /\ UNCHANGED queue
  /\ UNCHANGED <<mainVars, usb, changes, polled, loop, next, ledVars, boot,
                 driverVars, confVars, serverVars, listVars, askVars, heard>>

(* The statistics, the voltage and the CPU load, also with 100 ms.         *)
PostStats ==
  /\ Len(queue) < QueueSize
  /\ queue' = Append(queue, "stats")
  /\ UNCHANGED <<mainVars, usbVars, loop, next, ledVars, boot, driverVars,
                 confVars, serverVars, listVars, askVars, heard, missed>>

-----------------------------------------------------------------------------
(* The Wi-Fi driver.                                                       *)

PostWifi ==
  /\ owed # <<>>
  /\ Len(queue) < QueueSize
  /\ queue' = Append(queue, Head(owed))
  /\ owed' = Tail(owed)
  /\ UNCHANGED <<mainVars, usbVars, loop, next, ledVars, boot, mode, running,
                 station, confVars, serverVars, listVars, askVars, heard,
                 missed>>

(* Without the station's interface there is no DHCP client and no address. *)
Connects ==
  /\ station = "connecting" /\ owed = <<>>
  /\ station' = "up"
  /\ owed' = IF HasStation(boot) THEN <<"gotIp">> ELSE <<>>
  /\ UNCHANGED <<mainVars, usbVars, queue, loop, next, ledVars, boot, mode,
                 running, confVars, serverVars, listVars, askVars, heard,
                 missed>>
Disconnects ==
  /\ station \in {"connecting", "up"} /\ owed = <<>>
  /\ station' = "off"
  /\ owed' = <<"staDisconnected">>
  /\ UNCHANGED <<mainVars, usbVars, queue, loop, next, ledVars, boot, mode,
                 running, confVars, serverVars, listVars, askVars, heard,
                 missed>>

(* wifi_reconfigure: the driver is stopped ...                             *)
StopWifi ==
  /\ reconf = "idle" /\ reconfs < MaxReconfigure
  /\ boot # "none"
  /\ owed = <<>>
  /\ reconf' = "stopped" /\ reconfs' = reconfs + 1
  /\ running' = FALSE /\ station' = "off"
  /\ owed' = IF station = "off" THEN <<>> ELSE <<"staDisconnected">>
  /\ UNCHANGED <<mainVars, usbVars, queue, loop, next, ledVars, boot, mode,
                 serverVars, listVars, askVars, heard, missed>>

(* ... and started in another mode; interfaces and handlers stay those of  *)
(* wifi_init.                                                              *)
RestartWifi(m) ==
  /\ reconf = "stopped" /\ owed = <<>>
  /\ reconf' = "idle"
  /\ m # "none"
  /\ mode' = m /\ running' = TRUE
  /\ owed' = Starting(m)
  /\ UNCHANGED <<mainVars, usbVars, queue, loop, next, ledVars, boot, station,
                 reconfs, serverVars, listVars, askVars, heard, missed>>

(* A file that cannot be loaded, a configuration that is none or one the   *)
(* driver refuses, and every other error leave it stopped: in the old mode,*)
(* or in the new one if that was set before.                               *)
RestartFails(m) ==
  /\ reconf = "stopped" /\ owed = <<>>
  /\ reconf' = "idle"
  /\ m # "none"
  /\ mode' \in {mode, m}
  /\ UNCHANGED <<mainVars, usbVars, queue, loop, next, ledVars, boot, running,
                 station, owed, reconfs, serverVars, listVars, askVars, heard,
                 missed>>

WifiStep == \/ PostWifi \/ Connects \/ Disconnects \/ StopWifi
            \/ \E m \in Mode : RestartWifi(m) \/ RestartFails(m)

-----------------------------------------------------------------------------
(* The event loop.                                                         *)

Handle(event) == /\ loop = "idle"
                 /\ queue # <<>>
                 /\ Head(queue) = event
                 /\ queue' = Tail(queue)

StaStart ==
  /\ Handle("staStart")
  /\ station' = IF running /\ HasStation(mode) /\ station = "off"
                  THEN "connecting" ELSE station
  /\ UNCHANGED <<mainVars, usbVars, loop, next, ledVars, boot, mode, running,
                 owed, confVars, serverVars, listVars, askVars, heard, missed>>

(* No new attempt is made.                                                 *)
StaDisconnected ==
  /\ Handle("staDisconnected")
  /\ led' = IF ever THEN led ELSE ErrorCode
  /\ owner' = IF ever THEN owner ELSE "wifi"
  /\ UNCHANGED <<mainVars, usbVars, loop, next, boot, driverVars, confVars,
                 serverVars, listVars, askVars, heard, missed>>

(* httpd_start can fail.  http_server_started is set all the same with the *)
(* station's address, and then no event starts the web server any more.    *)
ApNeedsServer == mode = "ap" /\ ~startedHttp
NotBesideAp == mode = "sta" /\ ~startedHttp
NotStarted == ~startedHttp
StationNeedsServer == NotStarted
StartServer(path, needed) ==
  \/ /\ needed
     /\ server' = "on" /\ startedHttp' = TRUE /\ failed' = "no"
  \/ /\ needed
     /\ startedHttp' = (path = "sta" \/ startedHttp) /\ failed' = path
     /\ UNCHANGED server
  \/ /\ ~needed
     /\ failed' = IF failed = "sta" THEN "sta" ELSE "no"
     /\ UNCHANGED <<server, startedHttp>>

ApStart ==
  /\ Handle("apStart")
  /\ StartServer("ap", ApNeedsServer)
  /\ UNCHANGED <<mainVars, usbVars, loop, next, ledVars, boot, driverVars,
                 confVars, ever, listVars, askVars, heard, missed>>
GotIp ==
  /\ Handle("gotIp")
  /\ ever' = TRUE
  /\ led' = SolidGreen /\ owner' = "wifi"
  /\ StartServer("sta", StationNeedsServer)
  /\ UNCHANGED <<mainVars, usbVars, loop, next, boot, driverVars, confVars,
                 listVars, askVars, heard, missed>>

(* universal_event_handler is registered with the web server.              *)
StartBroadcast(event) ==
  IF server = "on" THEN loop' = event /\ next' = 0
                   ELSE UNCHANGED <<loop, next>>

(* usb_event_handler_internal.  An event that comes before the flag is set *)
(* is never shown.                                                         *)
Skipped == ~initialized
SetMissed(who, b) == missed' = IF b THEN missed \cup {who} ELSE missed \ {who}
HandleUsb(event) ==
  /\ Handle(event)
  /\ IF Skipped
       THEN /\ IF main = "flag"
                 THEN SetMissed("led", (event = "connected") # shown)
                 ELSE UNCHANGED missed
            /\ UNCHANGED ledVars
       ELSE /\ led' = LedFor(event = "connected") /\ owner' = "usb"
            /\ missed' = missed \ {"led"}
  /\ StartBroadcast(event)
  /\ UNCHANGED <<mainVars, usbVars, boot, driverVars, confVars, serverVars,
                 listVars, askVars, heard>>
HandleStats ==
  /\ Handle("stats")
  /\ StartBroadcast("stats")
  /\ UNCHANGED <<mainVars, usbVars, ledVars, boot, driverVars, confVars,
                 serverVars, listVars, askVars, heard, missed>>

(* broadcast_to_all_clients.                                               *)
LockClients ==
  /\ loop # "idle" /\ next = 0
  /\ ~mutex
  /\ mutex' = TRUE /\ next' = 1
  /\ UNCHANGED <<mainVars, usbVars, queue, loop, ledVars, boot, driverVars,
                 confVars, serverVars, sess, clients, left, askVars, heard,
                 missed>>

(* A frame can be sent to any open session of the server.                  *)
SendNext ==
  /\ mutex /\ next \in 1..Len(clients)
  /\ sess[clients[next]] # "closed"
  /\ next' = next + 1
  /\ IF loop \in UsbEvent
       THEN /\ heard' = [heard EXCEPT ![clients[next]] =
                            /\ loop = "connected"
                            /\ sess[clients[next]] = "event"]
            /\ missed' = IF asking = clients[next] THEN missed
                         ELSE missed \ {clients[next]}
       ELSE UNCHANGED <<heard, missed>>
  /\ UNCHANGED <<mainVars, usbVars, queue, loop, ledVars, boot, driverVars,
                 confVars, serverVars, listVars, askVars>>

(* The peer is gone, or slower than the send timeout.                      *)
SamePlace == next
OneFurther == next + 1
NextAfterErase == SamePlace
SendFails ==
  /\ mutex /\ next \in 1..Len(clients)
  /\ clients' = RemoveAt(clients, next)
  /\ left' = left \ {clients[next]}
  /\ next' = NextAfterErase
  /\ UNCHANGED <<mainVars, usbVars, queue, loop, ledVars, boot, driverVars,
                 confVars, serverVars, sess, mutex, askVars, heard, missed>>
EndBroadcast ==
  /\ mutex /\ next > Len(clients)
  /\ mutex' = FALSE /\ loop' = "idle" /\ next' = 1
  /\ UNCHANGED <<mainVars, usbVars, queue, ledVars, boot, driverVars, confVars,
                 serverVars, sess, clients, left, askVars, heard, missed>>

LoopStep == \/ StaStart \/ StaDisconnected \/ ApStart \/ GotIp
            \/ (\E e \in UsbEvent : HandleUsb(e)) \/ HandleStats
            \/ LockClients \/ SendNext \/ SendFails \/ EndBroadcast

-----------------------------------------------------------------------------
(* httpd, which does one thing at a time.                                  *)

Accept(s) ==
  /\ server = "on" /\ asking = Nobody
  /\ sess[s] = "closed"
  /\ sess' = [sess EXCEPT ![s] = "http"]
  /\ UNCHANGED <<mainVars, usbVars, queue, loop, next, ledVars, boot,
                 driverVars, confVars, serverVars, clients, mutex, left,
                 askVars, heard, missed>>

(* A session ends when its peer is gone or the socket is wanted for another*)
(* one (lru_purge_enable); nobody tells event_websocket.                   *)
EndSession(s) ==
  /\ asking = Nobody
  /\ sess[s] # "closed"
  /\ sess' = [sess EXCEPT ![s] = "closed"]
  /\ left' = IF s \in ToSet(clients) THEN left \cup {s} ELSE left
  /\ heard' = [heard EXCEPT ![s] = FALSE] /\ missed' = missed \ {s}
  /\ UNCHANGED <<mainVars, usbVars, queue, loop, next, ledVars, boot,
                 driverVars, confVars, serverVars, clients, mutex, askVars>>

(* event_websocket_handler, GET: the client joins the list ...             *)
AddOnce(s) == IF s \in ToSet(clients) THEN clients ELSE Append(clients, s)
AddAlways(s) == Append(clients, s)
WithClient(s) == AddOnce(s)

Handshake(s) ==
  /\ asking = Nobody /\ ~mutex
  /\ sess[s] = "http"
  /\ sess' = [sess EXCEPT ![s] = "event"]
  /\ clients' = WithClient(s)
  /\ left' = left \ {s}
  /\ asking' = s /\ answer' = "unread"
  /\ missed' = missed \cup {s}
  /\ UNCHANGED <<mainVars, usbVars, queue, loop, next, ledVars, boot,
                 driverVars, confVars, serverVars, mutex, heard>>

(* ... the USB state is read, without the lock ...                         *)
ReadForClient ==
  /\ asking # Nobody /\ answer = "unread"
  /\ answer' = IF usb THEN "connected" ELSE "disconnected"
  /\ UNCHANGED <<mainVars, usbVars, queue, loop, next, ledVars, boot,
                 driverVars, confVars, serverVars, listVars, asking, heard,
                 missed>>

(* ... and sent.  By then the monitor may have reported another one, or the*)
(* host may be gone again before the monitor looks.                        *)
Answer ==
  /\ asking # Nobody /\ answer # "unread"
  /\ asking' = Nobody /\ answer' = "unread"
  /\ \/ /\ heard' = [heard EXCEPT ![asking] = (answer = "connected")]
        /\ SetMissed(asking, (answer = "connected") # polled)
     \/ UNCHANGED <<heard, missed>>
  /\ UNCHANGED <<mainVars, usbVars, queue, loop, next, ledVars, boot,
                 driverVars, confVars, serverVars, listVars>>

(* A CLOSE frame: the client leaves the list and the session ends.         *)
Unlisted(s) == RemoveFirst(clients, s)
WithoutClient(s) == Unlisted(s)

CloseFrame(s) ==
  /\ asking = Nobody /\ ~mutex
  /\ sess[s] = "event"
  /\ sess' = [sess EXCEPT ![s] = "closed"]
  /\ clients' = WithoutClient(s)
  /\ heard' = [heard EXCEPT ![s] = FALSE] /\ missed' = missed \ {s}
  /\ UNCHANGED <<mainVars, usbVars, queue, loop, next, ledVars, boot,
                 driverVars, confVars, serverVars, mutex, left, askVars>>

HttpdStep == \/ \E s \in Sock : \/ Accept(s) \/ EndSession(s)
                                \/ Handshake(s) \/ CloseFrame(s)
             \/ ReadForClient \/ Answer

-----------------------------------------------------------------------------
Next == MainStep \/ UsbChanges \/ CheckUsb \/ PostUsb \/ PostStats
        \/ WifiStep \/ LoopStep \/ HttpdStep

Spec == Init /\ [][Next]_vars

-----------------------------------------------------------------------------
(* Properties.                                                             *)

(* Every variable stays in its set.                                        *)
TypeOK ==
  /\ main \in {"wifi", "monitor", "read", "show", "flag", "done"}
  /\ shown \in BOOLEAN /\ initialized \in BOOLEAN
  /\ usb \in BOOLEAN /\ polled \in BOOLEAN /\ changes \in 0..MaxChange
  /\ timer \in UsbEvent \cup {"idle", "off"}
  /\ queue \in Seq(Event) /\ Len(queue) <= QueueSize
  /\ loop \in UsbEvent \cup {"stats", "idle"} /\ next \in Nat
  /\ led \in [mode : {"solid", "blink", "error"}, color : {"green", "red"}]
  /\ owner \in {"usb", "wifi"}
  /\ boot \in Mode /\ mode \in Mode
  /\ running \in BOOLEAN /\ station \in {"off", "connecting", "up"}
  /\ owed \in Seq(WifiEvent)
  /\ reconf \in {"idle", "stopped"} /\ reconfs \in 0..MaxReconfigure
  /\ ever \in BOOLEAN /\ startedHttp \in BOOLEAN
  /\ server \in {"off", "on"} /\ failed \in {"no", "ap", "sta"}
  /\ sess \in [Sock -> {"closed", "http", "event"}]
  /\ clients \in Seq(Sock) /\ mutex \in BOOLEAN /\ left \subseteq Sock
  /\ asking \in Sock \cup {Nobody} /\ answer \in UsbEvent \cup {"unread"}
  /\ heard \in [Sock -> BOOLEAN]
  /\ missed \subseteq Sock \cup {"post", "led"}

(* The list of /event clients never names a socket twice, and names only   *)
(* sockets whose session is one of /event, or whose session ended without a*)
(* CLOSE frame since it joined: those are found out when a send fails, and *)
(* a successor on the same descriptor gets frames it never asked for.      *)
ListMatchesSessions ==
  /\ IsInjective(clients)
  /\ \A s \in ToSet(clients) : sess[s] = "event" \/ s \in left

(* When nothing is under way, every client on the list has last been told  *)
(* the USB state the monitor has last seen, be it by its handshake or by a *)
(* broadcast - unless the post of that state timed out, or the state was   *)
(* changing while the client connected (or its first message got lost).    *)
ClientsKnowUsb ==
  queue = <<>> /\ loop = "idle" /\ timer \in {"idle", "off"} /\ asking = Nobody
    /\ "post" \notin missed =>
      \A s \in ToSet(clients) \ missed : sess[s] = "event" => heard[s] = polled

(* From g_system_initialized on the LED blinks exactly while the USB       *)
(* monitor sees no host, once the events are handled - unless the Wi-Fi    *)
(* handler has set it since, the post timed out, or the state changed while*)
(* app_main was showing it.  It is red only while the station has never    *)
(* had an address (then even the USB states are shown in red).             *)
LedTellsUsb ==
  /\ led.color = "red" => ~ever
  /\ initialized /\ owner = "usb" /\ timer = "idle"
       /\ ToSet(queue) \cap UsbEvent = {} /\ missed \cap {"post", "led"} = {}
       => led.mode = IF polled THEN "solid" ELSE "blink"

(* Once the events are handled, the web server runs if a client can reach  *)
(* the device: at the station's address, or through the access point if    *)
(* that is all there is (with both, it waits for the station) - unless     *)
(* httpd_start failed at the last event that should have started it, or    *)
(* once with the station's address: that one the code never tries again.   *)
Reachable == \/ station = "up" /\ HasStation(boot)
             \/ running /\ mode = "ap" /\ HasAp(boot)
ServedWhenReachable ==
  main # "wifi" /\ owed = <<>> /\ reconf = "idle"
    /\ ToSet(queue) \cap WifiEvent = {} /\ Reachable
    => server = "on" \/ failed # "no"
=============================================================================
