--------------------------- MODULE EventLoopProofs ---------------------------
(***************************************************************************)
(* Theorems about EventLoop, for any number of sockets, length of the queue*)
(* and number of changes of the USB host and of the Wi-Fi settings: who is *)
(* on the list of clients, what they and the LED show, and when the web    *)
(* server is there.                                                        *)
(***************************************************************************)
EXTENDS EventLoop, SequenceTheorems, TLAPS

(* The broadcast holds the lock of the list, the list is empty without a   *)
(* web server, and app_main gives the LED away with its last step.         *)
LoopInv ==
  /\ mutex <=> loop # "idle" /\ next # 0
  /\ clients # <<>> => server = "on"
  /\ \A s \in Sock : sess[s] # "closed" => server = "on"
  /\ asking # Nobody => asking \in missed
  /\ initialized <=> main = "done"

(* What the event says is what the monitor has last seen.                  *)
TellsPolled(event) == event = "connected" <=> polled

(* event is the last USB event in the queue.                               *)
LastUsb(q, event) ==
  \E i \in 1..Len(q) : /\ q[i] = event
                       /\ \A j \in i+1..Len(q) : q[j] \notin UsbEvent

NoUsbQueued == ToSet(queue) \cap UsbEvent = {}

(* No USB event is on its way to the event loop.                           *)
Settled == timer \notin UsbEvent /\ NoUsbQueued /\ "post" \notin missed

(* The last USB event on its way tells what the monitor has last seen.     *)
UsbInv ==
  /\ timer \in UsbEvent => TellsPolled(timer)
  /\ timer \notin UsbEvent /\ "post" \notin missed =>
       \A event \in UsbEvent : LastUsb(queue, event) => TellsPolled(event)
  /\ Settled /\ loop \in UsbEvent => TellsPolled(loop)

ModeFor(connected) == IF connected THEN "solid" ELSE "blink"

(* The LED shows what app_main has read until it is done, then what the    *)
(* monitor has last seen.                                                  *)
LedInv ==
  /\ led.color = "red" => ~ever
  /\ main = "flag" /\ owner = "usb" => led.mode = ModeFor(shown)
  /\ Settled /\ "led" \notin missed =>
       /\ main = "flag" => (shown <=> polled)
       /\ main = "done" /\ owner = "usb" => led.mode = ModeFor(polled)

(* A client the broadcast of a USB event has still to come to will hear of *)
(* it; every other one has heard.                                          *)
Served(i) == loop \in UsbEvent => 1 <= next /\ i < next
ClientInv ==
  Settled => \A i \in 1..Len(clients) :
    Served(i) /\ clients[i] \notin missed /\ sess[clients[i]] = "event"
      => (heard[clients[i]] <=> polled)

(* Before wifi_init there is no Wi-Fi and there are no events of it, and   *)
(* wifi_reconfigure stops the driver first.                                *)
BootInv ==
  /\ main \in {"wifi", "monitor"} => timer = "off"
  /\ main = "wifi" => /\ mode = "none" /\ boot = "none" /\ station = "off"
                      /\ ~running
                      /\ owed = <<>> /\ ToSet(queue) \cap WifiEvent = {}
                      /\ owner = "usb" /\ reconf = "idle"
  /\ reconf = "stopped" => ~running

(* The event that starts the web server is on its way, was handled, or the *)
(* server failed to start.                                                 *)
Coming(event) == event \in ToSet(owed) \cup ToSet(queue)
ServedInv ==
  /\ startedHttp <=> server = "on" \/ failed = "sta"
  /\ station = "up" /\ HasStation(boot) =>
       server = "on" \/ failed = "sta" \/ Coming("gotIp")
  /\ running /\ mode = "ap" =>
       server = "on" \/ failed # "no" \/ Coming("apStart")

IInv == /\ TypeOK /\ LoopInv /\ ListMatchesSessions /\ UsbInv /\ LedInv
        /\ ClientInv /\ BootInv /\ ServedInv

-----------------------------------------------------------------------------
(* The queue, and the list of clients.                                     *)

LEMMA Elements ==
  ASSUME NEW S, NEW s \in Seq(S)
  PROVE  /\ \A i \in 1..Len(s) : s[i] \in ToSet(s)
         /\ \A x \in ToSet(s) : \E i \in 1..Len(s) : s[i] = x
         /\ ToSet(s) \subseteq S
  BY DEF ToSet

LEMMA Appended ==
  ASSUME NEW S, NEW q \in Seq(S), NEW e \in S
  PROVE  /\ Append(q, e) \in Seq(S) /\ Len(Append(q, e)) = Len(q) + 1
         /\ ToSet(Append(q, e)) = ToSet(q) \cup {e}
         /\ \A i \in 1..Len(q) : Append(q, e)[i] = q[i]
         /\ Append(q, e)[Len(q) + 1] = e
  BY DEF ToSet

LEMMA Taken ==
  ASSUME NEW S, NEW q \in Seq(S), q # <<>>
  PROVE  /\ Head(q) \in S /\ Tail(q) \in Seq(S) /\ Len(Tail(q)) = Len(q) - 1
         /\ ToSet(q) = {Head(q)} \cup ToSet(Tail(q))
         /\ \A i \in 1..Len(q) - 1 : Tail(q)[i] = q[i + 1]
<1>1. /\ Head(q) \in S /\ Tail(q) \in Seq(S) /\ Len(Tail(q)) = Len(q) - 1
      /\ Head(q) = q[1] /\ Len(q) \in Nat \ {0}
      /\ \A i \in 1..Len(q) - 1 : Tail(q)[i] = q[i + 1]
  OBVIOUS
<1>2. ToSet(Tail(q)) \subseteq ToSet(q) /\ Head(q) \in ToSet(q)
  BY DEF ToSet
<1>3. ASSUME NEW x \in ToSet(q) PROVE x = Head(q) \/ x \in ToSet(Tail(q))
  <2>1. PICK i \in 1..Len(q) : x = q[i]
    BY DEF ToSet
  <2>2. CASE i = 1
    BY <2>1, <2>2
  <2>3. CASE i # 1
    <3>1. i - 1 \in 1..Len(q) - 1 /\ Tail(q)[i - 1] = x
      BY <2>1, <2>3
    <3> QED
      BY <1>1, <3>1, Elements
  <2> QED
    BY <2>2, <2>3
<1> QED
  BY <1>2, <1>3

LEMMA LastOfAppended ==
  ASSUME NEW q \in Seq(Event), NEW e \in Event, NEW f \in UsbEvent,
         LastUsb(Append(q, e), f)
  PROVE  IF e \in UsbEvent THEN f = e ELSE LastUsb(q, f)
<1>1. PICK i \in 1..Len(q) + 1 :
        /\ Append(q, e)[i] = f
        /\ \A j \in i+1..Len(q) + 1 : Append(q, e)[j] \notin UsbEvent
  BY DEF LastUsb
<1>2. CASE i = Len(q) + 1
  BY <1>1, <1>2
<1>3. CASE i # Len(q) + 1
  <2> QED
    BY DEF LastUsb
<1> QED
  BY <1>2, <1>3

LEMMA LastOfTail ==
  ASSUME NEW q \in Seq(Event), q # <<>>
  PROVE  /\ \A f \in UsbEvent : LastUsb(Tail(q), f) => LastUsb(q, f)
         /\ Head(q) \in UsbEvent /\ ToSet(Tail(q)) \cap UsbEvent = {} =>
              LastUsb(q, Head(q))
<1>1. /\ Tail(q) \in Seq(Event) /\ Len(Tail(q)) = Len(q) - 1
      /\ Len(q) \in Nat \ {0} /\ Head(q) = q[1]
      /\ \A i \in 1..Len(q) - 1 : Tail(q)[i] = q[i + 1]
  OBVIOUS
<1>2. ASSUME NEW f \in UsbEvent, LastUsb(Tail(q), f) PROVE LastUsb(q, f)
  <2>1. PICK i \in 1..Len(q) - 1 :
          /\ Tail(q)[i] = f
          /\ \A j \in i+1..Len(q) - 1 : Tail(q)[j] \notin UsbEvent
    BY <1>2 DEF LastUsb
  <2>2. i + 1 \in 1..Len(q) /\ q[i + 1] = f
    BY <2>1
  <2>3. \A j \in i+2..Len(q) : q[j] \notin UsbEvent
    <3> TAKE j \in i+2..Len(q)
    <3>1. j - 1 \in i+1..Len(q) - 1 /\ j - 1 \in 1..Len(q) - 1
      OBVIOUS
    <3> QED
      BY <2>1, <3>1
  <2> QED
    BY <2>2, <2>3 DEF LastUsb
<1>3. ASSUME Head(q) \in UsbEvent, ToSet(Tail(q)) \cap UsbEvent = {}
      PROVE  LastUsb(q, Head(q))
  <2>1. \A j \in 2..Len(q) : q[j] \notin UsbEvent
    <3> TAKE j \in 2..Len(q)
    <3>1. /\ j - 1 \in 1..Len(q) - 1 /\ Tail(q)[j - 1] = q[j - 1 + 1]
          /\ j - 1 + 1 = j
      OBVIOUS
    <3>2. q[j] \in ToSet(Tail(q))
      <4>1. Tail(q)[j - 1] \in ToSet(Tail(q))
        BY <1>1, <3>1, Elements
      <4> QED
        BY <4>1
    <3> QED
      BY <1>3, <3>2
  <2> QED
    BY <2>1 DEF LastUsb
<1> QED
  BY <1>2, <1>3

LEMMA OneEvent ==
  ASSUME NEW e \in WifiEvent
  PROVE  /\ <<e>> \in Seq(WifiEvent) /\ ToSet(<<e>>) = {e} /\ <<e>> # <<>>
         /\ <<>> \in Seq(WifiEvent)
  BY DEF ToSet

LEMMA StartingEvents ==
  ASSUME NEW m \in Mode
  PROVE  /\ Starting(m) \in Seq(WifiEvent)
         /\ m = "ap" => ToSet(Starting(m)) = {"apStart"}
<1>1. /\ <<>> \in Seq(WifiEvent) /\ <<"staStart">> \in Seq(WifiEvent)
      /\ <<"apStart">> \in Seq(WifiEvent)
  BY DEF WifiEvent
<1>2. Starting(m) \in Seq(WifiEvent)
  BY <1>1 DEF Starting
<1>3. ASSUME m = "ap" PROVE Starting(m) = <<"apStart">>
  BY <1>3 DEF Starting, HasStation, HasAp
<1> QED
  BY <1>2, <1>3, OneEvent

LEMMA Removed ==
  ASSUME NEW s \in Seq(Sock), IsInjective(s), NEW i \in 1..Len(s)
  PROVE  /\ RemoveAt(s, i) \in Seq(Sock)
         /\ Len(RemoveAt(s, i)) = Len(s) - 1
         /\ IsInjective(RemoveAt(s, i))
         /\ ToSet(RemoveAt(s, i)) = ToSet(s) \ {s[i]}
         /\ \A k \in 1..Len(s) - 1 :
              RemoveAt(s, i)[k] = IF k < i THEN s[k] ELSE s[k + 1]
<1> DEFINE r == RemoveAt(s, i)
<1>1. /\ r \in Seq(Sock) /\ Len(r) = Len(s) - 1 /\ Len(s) \in Nat
      /\ \A k \in 1..Len(s) - 1 : r[k] = IF k < i THEN s[k] ELSE s[k + 1]
  <2> DEFINE p == SubSeq(s, 1, i - 1)
             q == SubSeq(s, i + 1, Len(s))
  <2>1. /\ p \in Seq(Sock) /\ Len(p) = i - 1
        /\ \A k \in 1..i - 1 : p[k] = s[k]
    OBVIOUS
  <2>2. /\ q \in Seq(Sock) /\ Len(q) = Len(s) - i
        /\ \A k \in 1..Len(s) - i : q[k] = s[k + i]
    OBVIOUS
  <2>3. r = p \o q
    BY DEF RemoveAt
  <2> HIDE DEF p, q, r
  <2>4. r \in Seq(Sock) /\ Len(r) = Len(s) - 1
    BY <2>1, <2>2, <2>3
  <2>5. ASSUME NEW k \in 1..Len(s) - 1
        PROVE  r[k] = IF k < i THEN s[k] ELSE s[k + 1]
    <3>1. CASE k < i
      BY <2>1, <2>3, <3>1
    <3>2. CASE k >= i
      <4>1. k - (i - 1) \in 1..Len(s) - i /\ r[k] = q[k - (i - 1)]
        BY <2>1, <2>2, <2>3, <3>2
      <4> QED
        BY <2>2, <4>1
    <3> QED
      BY <3>1, <3>2
  <2> QED
    BY <2>4, <2>5
<1> HIDE DEF r
<1>2. \A a, b \in 1..Len(s) : s[a] = s[b] => a = b
  BY DEF IsInjective
<1>3. IsInjective(r)
  <2>1. \A a, b \in 1..Len(r) : r[a] = r[b] => a = b
    BY <1>1, <1>2
  <2> QED
    BY <2>1 DEF IsInjective
<1>4. ToSet(r) = ToSet(s) \ {s[i]}
  <2>1. ASSUME NEW k \in 1..Len(s) - 1 PROVE r[k] \in ToSet(s) \ {s[i]}
    BY <1>1, <1>2 DEF ToSet
  <2>2. ASSUME NEW k \in 1..Len(s), k # i PROVE s[k] \in ToSet(r)
    <3>1. CASE k < i
      BY <1>1, <3>1 DEF ToSet
    <3>2. CASE k > i
      <4>1. k - 1 \in 1..Len(s) - 1 /\ r[k - 1] = s[k - 1 + 1] /\ k - 1 + 1 = k
        BY <1>1, <3>2
      <4> QED
        BY <1>1, <4>1 DEF ToSet
    <3> QED
      BY <2>2, <3>1, <3>2
  <2>3. \A x \in ToSet(r) : x \in ToSet(s) \ {s[i]}
    BY <1>1, <2>1, Elements
  <2>4. \A x \in ToSet(s) \ {s[i]} : x \in ToSet(r)
    BY <2>2, Elements
  <2> QED
    BY <2>3, <2>4
<1> QED
  BY <1>1, <1>3, <1>4 DEF r

LEMMA RemovedFirst ==
  ASSUME NEW s \in Seq(Sock), IsInjective(s), NEW x \in Sock
  PROVE  \/ x \notin ToSet(s) /\ RemoveFirst(s, x) = s
         \/ \E i \in 1..Len(s) : s[i] = x /\ RemoveFirst(s, x) = RemoveAt(s, i)
<1>1. CASE ~\E i \in 1..Len(s) : s[i] = x
  BY <1>1 DEF RemoveFirst, ToSet
<1>2. ASSUME NEW i \in 1..Len(s), s[i] = x
      PROVE  RemoveFirst(s, x) = RemoveAt(s, i)
  <2>1. {k \in 1..Len(s) : s[k] = x} = {i}
    BY <1>2 DEF IsInjective
  <2>2. Min({i}) = i
    BY DEF Min
  <2>3. SelectInSeq(s, LAMBDA v : v = x) = i
    BY <2>1, <2>2 DEF SelectInSeq
  <2> QED
    BY <1>2, <2>3 DEF RemoveFirst
<1> QED
  BY <1>1, <1>2

(* The list when a client joins it and when one leaves it.                 *)
LEMMA Joined ==
  ASSUME NEW s \in Sock, clients \in Seq(Sock), IsInjective(clients)
  PROVE  /\ AddOnce(s) \in Seq(Sock) /\ IsInjective(AddOnce(s))
         /\ ToSet(AddOnce(s)) = ToSet(clients) \cup {s}
         /\ \A i \in 1..Len(AddOnce(s)) :
              \/ AddOnce(s)[i] = s
              \/ i \in 1..Len(clients) /\ AddOnce(s)[i] = clients[i]
<1>1. CASE s \in ToSet(clients)
  BY <1>1 DEF AddOnce
<1>2. CASE s \notin ToSet(clients)
  <2> DEFINE a == Append(clients, s)
  <2>1. AddOnce(s) = a
    BY <1>2 DEF AddOnce
  <2>2. \A i \in 1..Len(clients) : clients[i] # s
    BY <1>2, Elements
  <2>3. IsInjective(a)
    BY <2>2 DEF IsInjective
  <2>4. a \in Seq(Sock) /\ ToSet(a) = ToSet(clients) \cup {s}
    BY Appended
  <2>5. \A i \in 1..Len(a) :
          a[i] = s \/ (i \in 1..Len(clients) /\ a[i] = clients[i])
    OBVIOUS
  <2> HIDE DEF a
  <2> QED
    BY <2>1, <2>3, <2>4, <2>5
<1> QED
  BY <1>1, <1>2

LEMMA Gone ==
  ASSUME NEW s \in Sock, clients \in Seq(Sock), IsInjective(clients)
  PROVE  LET r == RemoveFirst(clients, s)
         IN  /\ r \in Seq(Sock) /\ IsInjective(r)
             /\ ToSet(r) = ToSet(clients) \ {s}
             /\ \A i \in 1..Len(r) :
                  \E k \in 1..Len(clients) : r[i] = clients[k]
<1>1. ASSUME NEW i \in 1..Len(clients), clients[i] = s,
             RemoveFirst(clients, s) = RemoveAt(clients, i)
      PROVE  /\ RemoveFirst(clients, s) \in Seq(Sock)
             /\ IsInjective(RemoveFirst(clients, s))
             /\ ToSet(RemoveFirst(clients, s)) = ToSet(clients) \ {s}
             /\ \A j \in 1..Len(RemoveFirst(clients, s)) :
                  \E k \in 1..Len(clients) :
                      RemoveFirst(clients, s)[j] = clients[k]
  <2> DEFINE r == RemoveAt(clients, i)
  <2>1. /\ r \in Seq(Sock) /\ Len(r) = Len(clients) - 1 /\ IsInjective(r)
        /\ ToSet(r) = ToSet(clients) \ {s}
        /\ \A j \in 1..Len(clients) - 1 :
             r[j] = IF j < i THEN clients[j] ELSE clients[j + 1]
    BY <1>1, Removed
  <2> HIDE DEF r
  <2> QED
    BY <1>1, <2>1 DEF r
<1> QED
  BY <1>1, RemovedFirst

-----------------------------------------------------------------------------
(* Types.                                                                  *)
LEMMA ServerTypes ==
  ASSUME TypeOK, NEW path \in {"ap", "sta"}, NEW needed,
         StartServer(path, needed)
  PROVE  /\ server' \in {"off", "on"} /\ startedHttp' \in BOOLEAN
         /\ failed' \in {"no", "ap", "sta"}
<1>1. server' \in {"off", "on"} /\ failed' \in {"no", "ap", "sta"}
  BY DEF TypeOK, StartServer
<1>2. startedHttp' \in BOOLEAN
  BY Zenon DEF TypeOK, StartServer
<1> QED
  BY <1>1, <1>2

LEMMA TypeStep == ASSUME IInv, Next PROVE TypeOK'
<1> USE EventLoopAssumption DEF mainVars, usbVars, driverVars, confVars,
        serverVars, listVars, askVars, ledVars, UsbEvent, WifiEvent, Event,
        Mode
<1>1. TypeOK /\ ListMatchesSessions
  BY DEF IInv
<1>2. ASSUME NEW m \in Mode, WifiInit(m) PROVE TypeOK'
  BY <1>1, <1>2, StartingEvents DEF TypeOK, WifiInit
<1>3. CASE StartMonitor
  BY <1>1, <1>3 DEF TypeOK, StartMonitor
<1>4. CASE ReadUsb
  BY <1>1, <1>4 DEF TypeOK, ReadUsb
<1>5. CASE ShowUsb
  BY <1>1, <1>5
     DEF TypeOK, ShowUsb, LedFor, SolidGreen, ModeAndColour, Blinking, Green
<1>6. CASE Initialized
  <2>1. initialized' \in BOOLEAN /\ shown' \in BOOLEAN
    BY <1>6, Zenon DEF Initialized
  <2> QED
    BY <1>1, <1>6, <2>1 DEF TypeOK, Initialized
<1>7. CASE UsbChanges
  BY <1>1, <1>7 DEF TypeOK, UsbChanges
<1>8. CASE CheckUsb
  BY <1>1, <1>8 DEF TypeOK, CheckUsb
<1>9. CASE PostUsb
  <2>1. queue' \in Seq(Event) /\ Len(queue') <= QueueSize
    <3>1. timer \in Event /\ queue \in Seq(Event) /\ Len(queue) <= QueueSize
      BY <1>1, <1>9 DEF TypeOK, PostUsb
    <3>2. \/ Len(queue) < QueueSize /\ queue' = Append(queue, timer)
          \/ queue' = queue
      BY <1>9 DEF PostUsb
    <3> QED
      BY <3>1, <3>2
  <2> QED
    BY <1>1, <1>9, <2>1 DEF TypeOK, PostUsb
<1>10. CASE PostStats
  BY <1>1, <1>10 DEF TypeOK, PostStats
<1>11. CASE PostWifi
  BY <1>1, <1>11 DEF TypeOK, PostWifi
<1>12. CASE Connects
  <2>1. owed' \in Seq(WifiEvent)
    <3>1. owed' = <<"gotIp">> \/ owed' = <<>>
      BY <1>12 DEF Connects
    <3> QED
      BY <3>1, OneEvent
  <2> QED
    BY <1>1, <1>12, <2>1 DEF TypeOK, Connects
<1>13. CASE Disconnects
  BY <1>1, <1>13 DEF TypeOK, Disconnects
<1>14. CASE StopWifi
  <2>1. owed' \in Seq(WifiEvent)
    <3>1. owed' = <<"staDisconnected">> \/ owed' = <<>>
      BY <1>14 DEF StopWifi
    <3> QED
      BY <3>1, OneEvent
  <2>2. running' \in BOOLEAN
    BY <1>14, Zenon DEF StopWifi
  <2> QED
    BY <1>1, <1>14, <2>1, <2>2 DEF TypeOK, StopWifi
<1>15. ASSUME NEW m \in Mode, RestartWifi(m) PROVE TypeOK'
  BY <1>1, <1>15, StartingEvents DEF TypeOK, RestartWifi
<1>16. ASSUME NEW m \in Mode, RestartFails(m) PROVE TypeOK'
  BY <1>1, <1>16 DEF TypeOK, RestartFails
<1>17. CASE StaStart
  BY <1>1, <1>17 DEF TypeOK, StaStart, Handle
<1>18. CASE StaDisconnected
  BY <1>1, <1>18 DEF TypeOK, StaDisconnected, ErrorCode, Handle
<1>19. CASE ApStart
  <2>1. /\ server' \in {"off", "on"} /\ startedHttp' \in BOOLEAN
        /\ failed' \in {"no", "ap", "sta"}
    BY <1>1, <1>19, ServerTypes DEF ApStart
  <2> QED
    BY <1>1, <1>19, <2>1 DEF TypeOK, ApStart, Handle
<1>20. CASE GotIp
  <2>1. /\ server' \in {"off", "on"} /\ startedHttp' \in BOOLEAN
        /\ failed' \in {"no", "ap", "sta"}
    BY <1>1, <1>20, ServerTypes DEF GotIp
  <2> QED
    BY <1>1, <1>20, <2>1
       DEF TypeOK, GotIp, SolidGreen, ModeAndColour, Green, Handle
<1>21. ASSUME NEW e \in UsbEvent, HandleUsb(e) PROVE TypeOK'
  BY <1>1, <1>21
     DEF TypeOK, HandleUsb, StartBroadcast, SetMissed, LedFor, SolidGreen,
         ModeAndColour, Blinking, Green, Handle
<1>22. CASE HandleStats
  BY <1>1, <1>22 DEF TypeOK, HandleStats, StartBroadcast, Handle
<1>23. CASE LockClients
  BY <1>1, <1>23 DEF TypeOK, LockClients
<1>24. CASE SendNext
  <2>1. heard' \in [Sock -> BOOLEAN]
    BY <1>1, <1>24 DEF TypeOK, SendNext
  <2> QED
    BY <1>1, <1>24, <2>1 DEF TypeOK, SendNext
<1>25. CASE SendFails
  BY <1>1, <1>25, Removed
     DEF TypeOK, SendFails, NextAfterErase, SamePlace, ListMatchesSessions
<1>26. CASE EndBroadcast
  <2>1. mutex' \in BOOLEAN
    BY <1>26, Zenon DEF EndBroadcast
  <2> QED
    BY <1>1, <1>26, <2>1 DEF TypeOK, EndBroadcast
<1>27. ASSUME NEW s \in Sock, Accept(s) PROVE TypeOK'
  BY <1>1, <1>27 DEF TypeOK, Accept
<1>28. ASSUME NEW s \in Sock, EndSession(s) PROVE TypeOK'
  BY <1>1, <1>28 DEF TypeOK, EndSession
<1>29. ASSUME NEW s \in Sock, Handshake(s) PROVE TypeOK'
  BY <1>1, <1>29 DEF TypeOK, Handshake, WithClient, AddOnce
<1>30. CASE ReadForClient
  BY <1>1, <1>30 DEF TypeOK, ReadForClient
<1>31. CASE Answer
  <2>1. heard' \in [Sock -> BOOLEAN]
    BY <1>1, <1>31 DEF TypeOK, Answer
  <2> QED
    BY <1>1, <1>31, <2>1 DEF TypeOK, Answer, SetMissed
<1>32. ASSUME NEW s \in Sock, CloseFrame(s) PROVE TypeOK'
  BY <1>1, <1>32, Gone
     DEF TypeOK, CloseFrame, WithoutClient, Unlisted, ListMatchesSessions
<1> QED
  BY <1>2, <1>3, <1>4, <1>5, <1>6, <1>7, <1>8, <1>9, <1>10, <1>11, <1>12,
     <1>13, <1>14, <1>15, <1>16, <1>17, <1>18, <1>19, <1>20, <1>21, <1>22,
     <1>23, <1>24, <1>25, <1>26, <1>27, <1>28, <1>29, <1>30, <1>31, <1>32
     DEF Next, MainStep, WifiStep, LoopStep, HttpdStep

-----------------------------------------------------------------------------

(* A web server that has been started stays.                               *)
LEMMA ServerStays ==
  ASSUME ServedInv, server = "on", ApStart \/ GotIp
  PROVE  server' = "on"
<1>1. startedHttp
  BY DEF ServedInv
<1> QED
  BY <1>1
     DEF ApStart, GotIp, StartServer, ApNeedsServer, StationNeedsServer,
         NotStarted

(* The lock of the list, the web server and the clients.                   *)
LEMMA LoopStepInv == ASSUME IInv, Next PROVE LoopInv'
<1> USE DEF mainVars, usbVars, driverVars, confVars,
        serverVars, listVars, askVars, ledVars
<1>1. TypeOK /\ LoopInv /\ ListMatchesSessions /\ ServedInv
  BY DEF IInv
<1>2. ASSUME NEW m \in Mode, WifiInit(m) PROVE LoopInv'
  BY <1>1, <1>2 DEF LoopInv, WifiInit
<1>3. CASE StartMonitor
  BY <1>1, <1>3 DEF LoopInv, StartMonitor
<1>4. CASE ReadUsb
  BY <1>1, <1>4 DEF LoopInv, ReadUsb
<1>5. CASE ShowUsb
  BY <1>1, <1>5 DEF LoopInv, ShowUsb
<1>6. CASE Initialized
  BY <1>1, <1>6 DEF LoopInv, Initialized
<1>7. CASE PostUsb
  BY <1>1, <1>7, EventLoopAssumption DEF TypeOK, LoopInv, PostUsb
<1>8. CASE ApStart
  BY <1>1, <1>8, ServerStays DEF LoopInv, ApStart
<1>9. CASE GotIp
  BY <1>1, <1>9, ServerStays DEF LoopInv, GotIp
<1>10. ASSUME NEW e \in UsbEvent, HandleUsb(e) PROVE LoopInv'
  BY <1>1, <1>10, EventLoopAssumption
     DEF TypeOK, LoopInv, HandleUsb, StartBroadcast, SetMissed, Handle
<1>11. CASE HandleStats
  BY <1>1, <1>11 DEF LoopInv, HandleStats, StartBroadcast, Handle
<1>12. CASE LockClients
  BY <1>1, <1>12 DEF LoopInv, LockClients
<1>13. CASE SendNext
  BY <1>1, <1>13 DEF LoopInv, SendNext
<1>14. CASE SendFails
  BY <1>1, <1>14 DEF LoopInv, SendFails, NextAfterErase, SamePlace
<1>15. CASE EndBroadcast
  BY <1>1, <1>15 DEF LoopInv, EndBroadcast
<1>16. ASSUME NEW s \in Sock, Accept(s) PROVE LoopInv'
  BY <1>1, <1>16 DEF LoopInv, Accept
<1>17. ASSUME NEW s \in Sock, EndSession(s) PROVE LoopInv'
  BY <1>1, <1>17 DEF LoopInv, EndSession
<1>18. ASSUME NEW s \in Sock, Handshake(s) PROVE LoopInv'
  BY <1>1, <1>18 DEF LoopInv, Handshake
<1>19. CASE Answer
  BY <1>1, <1>19 DEF LoopInv, Answer
<1>20. ASSUME NEW s \in Sock, CloseFrame(s) PROVE LoopInv'
  BY <1>1, <1>20 DEF LoopInv, CloseFrame
<1>21. CASE \/ UsbChanges \/ CheckUsb \/ PostStats \/ PostWifi \/ Connects
            \/ Disconnects \/ StopWifi
            \/ (\E m \in Mode : RestartWifi(m) \/ RestartFails(m))
            \/ StaStart \/ StaDisconnected \/ ReadForClient
  BY <1>1, <1>21
     DEF LoopInv, UsbChanges, CheckUsb, PostStats, PostWifi, Connects,
         Disconnects, StopWifi, RestartWifi, RestartFails, StaStart,
         StaDisconnected, ReadForClient
<1> QED
  BY <1>2, <1>3, <1>4, <1>5, <1>6, <1>7, <1>8, <1>9, <1>10, <1>11, <1>12,
     <1>13, <1>14, <1>15, <1>16, <1>17, <1>18, <1>19, <1>20, <1>21
     DEF Next, MainStep, WifiStep, LoopStep, HttpdStep

(* The list names each client once.                                        *)
LEMMA ListStep == ASSUME IInv, Next PROVE ListMatchesSessions'
<1> USE DEF mainVars, usbVars, driverVars, confVars,
        serverVars, listVars, askVars, ledVars
<1>1. TypeOK /\ ListMatchesSessions
  BY DEF IInv
<1>2. CASE SendFails
  BY <1>1, <1>2, Removed DEF TypeOK, ListMatchesSessions, SendFails
<1>3. ASSUME NEW s \in Sock, Accept(s) PROVE ListMatchesSessions'
  BY <1>1, <1>3 DEF ListMatchesSessions, Accept
<1>4. ASSUME NEW s \in Sock, EndSession(s) PROVE ListMatchesSessions'
  BY <1>1, <1>4 DEF ListMatchesSessions, EndSession
<1>5. ASSUME NEW s \in Sock, Handshake(s) PROVE ListMatchesSessions'
  BY <1>1, <1>5, Joined DEF TypeOK, ListMatchesSessions, Handshake, WithClient
<1>6. ASSUME NEW s \in Sock, CloseFrame(s) PROVE ListMatchesSessions'
  BY <1>1, <1>6, Gone
     DEF TypeOK, ListMatchesSessions, CloseFrame, WithoutClient, Unlisted
<1>7. CASE \/ (\E m \in Mode : WifiInit(m)) \/ StartMonitor \/ ReadUsb
           \/ ShowUsb
           \/ Initialized \/ UsbChanges \/ CheckUsb \/ PostUsb \/ PostStats
           \/ PostWifi \/ Connects \/ Disconnects \/ StopWifi
           \/ (\E m \in Mode : RestartWifi(m) \/ RestartFails(m)) \/ StaStart
           \/ StaDisconnected
           \/ ApStart \/ GotIp \/ (\E e \in UsbEvent : HandleUsb(e))
           \/ HandleStats \/ LockClients \/ SendNext \/ EndBroadcast
           \/ ReadForClient \/ Answer
  BY <1>1, <1>7
     DEF ListMatchesSessions, WifiInit, StartMonitor, ReadUsb, ShowUsb,
         Initialized, UsbChanges, CheckUsb, PostUsb, PostStats, PostWifi,
         Connects, Disconnects, StopWifi, RestartWifi, RestartFails, StaStart,
         StaDisconnected, ApStart, GotIp, HandleUsb, HandleStats, LockClients,
         SendNext, EndBroadcast, ReadForClient, Answer
<1> QED
  BY <1>2, <1>3, <1>4, <1>5, <1>6, <1>7
     DEF Next, MainStep, WifiStep, LoopStep, HttpdStep

-----------------------------------------------------------------------------
(* An event is posted, and one is taken.                                   *)
LEMMA Enqueued ==
  ASSUME TypeOK, NEW e \in Event, queue' = Append(queue, e)
  PROVE  /\ ToSet(queue') = ToSet(queue) \cup {e}
         /\ \A f \in UsbEvent : LastUsb(queue', f) =>
              IF e \in UsbEvent THEN f = e ELSE LastUsb(queue, f)
<1>1. queue \in Seq(Event)
  BY DEF TypeOK
<1> QED
  BY <1>1, Appended, LastOfAppended

LEMMA Dequeued ==
  ASSUME TypeOK, NEW e, Handle(e)
  PROVE  /\ loop = "idle" /\ e \in Event
         /\ ToSet(queue) = {e} \cup ToSet(queue')
         /\ \A f \in UsbEvent : LastUsb(queue', f) => LastUsb(queue, f)
         /\ e \in UsbEvent /\ ToSet(queue') \cap UsbEvent = {} =>
              LastUsb(queue, e)
<1>1. /\ queue \in Seq(Event) /\ queue # <<>> /\ queue' = Tail(queue)
      /\ Head(queue) = e /\ loop = "idle"
  BY DEF TypeOK, Handle
<1> QED
  BY <1>1, Taken, LastOfTail


(* The USB events on their way.                                            *)
LEMMA UsbStep == ASSUME IInv, Next PROVE UsbInv'
<1> USE DEF mainVars, usbVars, driverVars, confVars,
        serverVars, listVars, askVars, ledVars
<1>1. TypeOK /\ UsbInv /\ BootInv
  BY DEF IInv
<1>2. CASE StartMonitor
  BY <1>1, <1>2
     DEF UsbInv, Settled, NoUsbQueued, TellsPolled, UsbEvent, BootInv,
         StartMonitor
<1>3. CASE ShowUsb
  BY <1>1, <1>3 DEF UsbInv, Settled, NoUsbQueued, TellsPolled, ShowUsb
<1>4. CASE CheckUsb
  BY <1>4 DEF UsbInv, Settled, TellsPolled, UsbEvent, CheckUsb
<1>5. CASE PostUsb
  <2>1. timer \in Event /\ timer \in UsbEvent
    BY <1>5 DEF PostUsb, Event
  <2>2. CASE queue' = Append(queue, timer)
    BY <1>1, <1>5, <2>1, Enqueued
       DEF UsbInv, Settled, NoUsbQueued, PostUsb, TellsPolled, UsbEvent
  <2>3. CASE queue' = queue /\ "post" \in missed'
    BY <1>5, <2>3 DEF UsbInv, Settled, PostUsb, UsbEvent
  <2> QED
    BY <1>5, <2>2, <2>3 DEF PostUsb
<1>6. CASE PostStats
  <2>1. "stats" \in Event /\ "stats" \notin UsbEvent
    BY DEF Event, UsbEvent
  <2> QED
    BY <1>1, <1>6, <2>1, Enqueued
       DEF UsbInv, Settled, NoUsbQueued, TellsPolled, PostStats
<1>7. CASE PostWifi
  <2>1. Head(owed) \in Event /\ Head(owed) \notin UsbEvent
    BY <1>1, <1>7 DEF TypeOK, PostWifi, Event, WifiEvent, UsbEvent
  <2> QED
    BY <1>1, <1>7, <2>1, Enqueued
       DEF UsbInv, Settled, NoUsbQueued, TellsPolled, PostWifi
<1>8. CASE StaStart
  BY <1>1, <1>8, Dequeued DEF UsbInv, TellsPolled, UsbEvent, StaStart
<1>9. CASE StaDisconnected
  BY <1>1, <1>9, Dequeued DEF UsbInv, TellsPolled, UsbEvent, StaDisconnected
<1>10. CASE ApStart
  BY <1>1, <1>10, Dequeued DEF UsbInv, TellsPolled, UsbEvent, ApStart
<1>11. CASE GotIp
  BY <1>1, <1>11, Dequeued DEF UsbInv, TellsPolled, UsbEvent, GotIp
<1>12. ASSUME NEW e \in UsbEvent, HandleUsb(e) PROVE UsbInv'
  BY <1>1, <1>12, Dequeued
     DEF UsbInv, Settled, NoUsbQueued, TellsPolled, UsbEvent, HandleUsb,
         StartBroadcast, SetMissed
<1>13. CASE HandleStats
  BY <1>1, <1>13, Dequeued
     DEF UsbInv, TellsPolled, UsbEvent, HandleStats, StartBroadcast
<1>14. CASE SendNext
  BY <1>1, <1>14, EventLoopAssumption
     DEF TypeOK, UsbInv, Settled, NoUsbQueued, TellsPolled, SendNext
<1>15. CASE EndBroadcast
  BY <1>1, <1>15 DEF UsbInv, TellsPolled, UsbEvent, EndBroadcast
<1>16. ASSUME NEW s \in Sock, EndSession(s) PROVE UsbInv'
  BY <1>1, <1>16, EventLoopAssumption
     DEF UsbInv, Settled, NoUsbQueued, TellsPolled, EndSession
<1>17. ASSUME NEW s \in Sock, Handshake(s) PROVE UsbInv'
  BY <1>1, <1>17 DEF UsbInv, Settled, NoUsbQueued, TellsPolled, Handshake
<1>18. CASE Answer
  BY <1>1, <1>18, EventLoopAssumption
     DEF TypeOK, UsbInv, Settled, NoUsbQueued, TellsPolled, Answer, SetMissed
<1>19. ASSUME NEW s \in Sock, CloseFrame(s) PROVE UsbInv'
  BY <1>1, <1>19, EventLoopAssumption
     DEF UsbInv, Settled, NoUsbQueued, TellsPolled, CloseFrame
<1>20. CASE \/ (\E m \in Mode : WifiInit(m)) \/ ReadUsb \/ Initialized
            \/ UsbChanges \/ Connects \/ Disconnects \/ StopWifi
            \/ (\E m \in Mode : RestartWifi(m) \/ RestartFails(m))
            \/ LockClients \/ SendFails
            \/ (\E s \in Sock : Accept(s)) \/ ReadForClient
  BY <1>1, <1>20
     DEF UsbInv, Settled, NoUsbQueued, TellsPolled, WifiInit, ReadUsb,
         Initialized, UsbChanges, Connects, Disconnects, StopWifi, RestartWifi,
         RestartFails, LockClients, SendFails, Accept, ReadForClient
<1> QED
  BY <1>2, <1>3, <1>4, <1>5, <1>6, <1>7, <1>8, <1>9, <1>10, <1>11, <1>12,
     <1>13, <1>14, <1>15, <1>16, <1>17, <1>18, <1>19, <1>20
     DEF Next, MainStep, WifiStep, LoopStep, HttpdStep

(* The LED.                                                                *)
LEMMA LedStep == ASSUME IInv, Next PROVE LedInv'
<1> USE DEF mainVars, usbVars, driverVars, confVars,
        serverVars, listVars, askVars, ledVars
<1>1. TypeOK /\ LoopInv /\ UsbInv /\ LedInv /\ BootInv
  BY DEF IInv
<1>2. ASSUME NEW m \in Mode, WifiInit(m) PROVE LedInv'
  BY <1>1, <1>2 DEF LedInv, WifiInit
<1>3. CASE StartMonitor
  BY <1>1, <1>3 DEF LedInv, StartMonitor
<1>4. CASE ReadUsb
  BY <1>1, <1>4 DEF LedInv, ReadUsb
<1>5. CASE ShowUsb
  BY <1>1, <1>5
     DEF LedInv, ModeFor, ShowUsb, LedFor, SolidGreen, ModeAndColour, Blinking,
         Green
<1>6. CASE Initialized
  BY <1>1, <1>6 DEF LedInv, Settled, NoUsbQueued, ModeFor, Initialized
<1>7. CASE CheckUsb
  BY <1>1, <1>7 DEF LedInv, Settled, UsbEvent, CheckUsb
<1>8. CASE PostUsb
  <2>1. timer \in Event /\ timer \in UsbEvent
    BY <1>8 DEF PostUsb, Event
  <2>2. CASE queue' = Append(queue, timer)
    <3>1. ToSet(queue') \cap UsbEvent # {} /\ ~Settled'
      BY <1>1, <2>1, <2>2, Enqueued DEF Settled, NoUsbQueued
    <3> QED
      BY <1>1, <1>8, <3>1 DEF LedInv, PostUsb
  <2>3. CASE queue' = queue /\ "post" \in missed'
    BY <1>1, <1>8, <2>3 DEF LedInv, Settled, PostUsb
  <2> QED
    BY <1>8, <2>2, <2>3 DEF PostUsb
<1>9. CASE PostStats
  <2>1. /\ "stats" \in Event /\ "stats" \notin UsbEvent
        /\ "stats" \notin WifiEvent
    BY DEF Event, UsbEvent, WifiEvent
  <2> QED
    BY <1>1, <1>9, <2>1, Enqueued DEF LedInv, Settled, NoUsbQueued, PostStats
<1>10. CASE PostWifi
  <2>1. Head(owed) \in Event /\ Head(owed) \notin UsbEvent
    BY <1>1, <1>10 DEF TypeOK, PostWifi, Event, WifiEvent, UsbEvent
  <2> QED
    BY <1>1, <1>10, <2>1, Enqueued DEF LedInv, Settled, NoUsbQueued, PostWifi
<1>11. CASE StaStart
  BY <1>1, <1>11, Dequeued DEF LedInv, Settled, NoUsbQueued, UsbEvent, StaStart
<1>12. CASE StaDisconnected
  BY <1>1, <1>12, Dequeued
     DEF LedInv, Settled, NoUsbQueued, UsbEvent, StaDisconnected
<1>13. CASE ApStart
  BY <1>1, <1>13, Dequeued DEF LedInv, Settled, NoUsbQueued, UsbEvent, ApStart
<1>14. CASE GotIp
  BY <1>1, <1>14, Dequeued
     DEF LedInv, Settled, NoUsbQueued, UsbEvent, GotIp, SolidGreen,
         ModeAndColour, Green
<1>15. ASSUME NEW e \in UsbEvent, HandleUsb(e) PROVE LedInv'
  <2>1. /\ e \in Event /\ ToSet(queue) = {e} \cup ToSet(queue')
        /\ Settled' => timer \notin UsbEvent /\ "post" \notin missed
        /\ Settled' => (e = "connected" <=> polled)
    BY <1>1, <1>15, Dequeued
       DEF HandleUsb, SetMissed, Settled, NoUsbQueued, UsbInv, TellsPolled
  <2>2. CASE main = "done"
    BY <1>1, <1>15, <2>1, <2>2
       DEF TypeOK, LoopInv, LedInv, ModeFor, HandleUsb, Skipped, LedFor,
           SolidGreen, ModeAndColour, Blinking, Green
  <2>3. CASE main = "flag"
    BY <1>1, <1>15, <2>1, <2>3
       DEF LoopInv, LedInv, HandleUsb, Skipped, SetMissed
  <2>4. CASE main \notin {"flag", "done"}
    BY <1>1, <1>15, <2>4 DEF LoopInv, LedInv, HandleUsb, Skipped
  <2> QED
    BY <2>2, <2>3, <2>4
<1>16. CASE HandleStats
  BY <1>1, <1>16, Dequeued
     DEF LedInv, Settled, NoUsbQueued, UsbEvent, HandleStats
<1>17. CASE SendNext
  BY <1>1, <1>17, EventLoopAssumption
     DEF TypeOK, LedInv, Settled, NoUsbQueued, SendNext
<1>18. ASSUME NEW s \in Sock, EndSession(s) PROVE LedInv'
  BY <1>1, <1>18, EventLoopAssumption
     DEF LedInv, Settled, NoUsbQueued, EndSession
<1>19. ASSUME NEW s \in Sock, Handshake(s) PROVE LedInv'
  BY <1>1, <1>19 DEF LedInv, Settled, NoUsbQueued, Handshake
<1>20. CASE Answer
  BY <1>1, <1>20, EventLoopAssumption
     DEF TypeOK, LedInv, Settled, NoUsbQueued, Answer, SetMissed
<1>21. ASSUME NEW s \in Sock, CloseFrame(s) PROVE LedInv'
  BY <1>1, <1>21, EventLoopAssumption
     DEF LedInv, Settled, NoUsbQueued, CloseFrame
<1>22. CASE \/ UsbChanges \/ Connects \/ Disconnects \/ StopWifi
            \/ (\E m \in Mode : RestartWifi(m) \/ RestartFails(m))
            \/ LockClients \/ SendFails
            \/ EndBroadcast \/ (\E s \in Sock : Accept(s)) \/ ReadForClient
  BY <1>1, <1>22
     DEF LedInv, Settled, NoUsbQueued, UsbChanges, Connects, Disconnects,
         StopWifi, RestartWifi, RestartFails, LockClients, SendFails,
         EndBroadcast, Accept, ReadForClient
<1> QED
  BY <1>2, <1>3, <1>4, <1>5, <1>6, <1>7, <1>8, <1>9, <1>10, <1>11, <1>12,
     <1>13, <1>14, <1>15, <1>16, <1>17, <1>18, <1>19, <1>20, <1>21, <1>22
     DEF Next, MainStep, WifiStep, LoopStep, HttpdStep

(* Before Wi-Fi is there.                                                  *)
LEMMA BootStep == ASSUME IInv, Next PROVE BootInv'
<1> USE DEF mainVars, usbVars, driverVars, confVars,
        serverVars, listVars, askVars, ledVars
<1>1. TypeOK /\ BootInv
  BY DEF IInv
<1>2. ASSUME NEW m \in Mode, WifiInit(m) PROVE BootInv'
  <2>1. main' = "monitor" /\ timer' = "off" /\ reconf' = "idle"
    BY <1>1, <1>2 DEF BootInv, WifiInit
  <2> QED
    BY <2>1 DEF BootInv
<1>3. CASE StartMonitor
  BY <1>1, <1>3 DEF BootInv, StartMonitor
<1>4. CASE ReadUsb
  BY <1>1, <1>4 DEF BootInv, ReadUsb
<1>5. CASE ShowUsb
  BY <1>1, <1>5 DEF BootInv, ShowUsb
<1>6. CASE Initialized
  BY <1>1, <1>6 DEF BootInv, Initialized
<1>7. CASE CheckUsb
  BY <1>1, <1>7 DEF BootInv, CheckUsb
<1>8. CASE PostUsb
  <2>2. CASE queue' = Append(queue, timer)
    BY <1>1, <1>8 DEF BootInv, PostUsb, UsbEvent
  <2>3. CASE queue' = queue /\ "post" \in missed'
    BY <1>1, <1>8 DEF BootInv, PostUsb, UsbEvent
  <2> QED
    BY <1>8, <2>2, <2>3 DEF PostUsb
<1>9. CASE PostStats
  <2>1. /\ "stats" \in Event /\ "stats" \notin UsbEvent
        /\ "stats" \notin WifiEvent
    BY DEF Event, UsbEvent, WifiEvent
  <2> QED
    BY <1>1, <1>9, <2>1, Enqueued DEF BootInv, PostStats
<1>10. CASE PostWifi
  <2> QED
    BY <1>1, <1>10 DEF BootInv, PostWifi
<1>11. CASE Connects
  BY <1>1, <1>11 DEF BootInv, Connects
<1>12. CASE Disconnects
  BY <1>1, <1>12 DEF BootInv, Disconnects
<1>13. CASE StopWifi
  BY <1>1, <1>13 DEF BootInv, StopWifi
<1>14. ASSUME NEW m \in Mode, RestartWifi(m) PROVE BootInv'
  BY <1>1, <1>14 DEF BootInv, RestartWifi
<1>15. ASSUME NEW m \in Mode, RestartFails(m) PROVE BootInv'
  BY <1>1, <1>15 DEF BootInv, RestartFails
<1>16. CASE StaStart
  BY <1>1, <1>16, Dequeued DEF BootInv, WifiEvent, StaStart
<1>17. CASE StaDisconnected
  BY <1>1, <1>17, Dequeued DEF BootInv, WifiEvent, StaDisconnected
<1>18. CASE ApStart
  BY <1>1, <1>18, Dequeued DEF BootInv, ApStart
<1>19. CASE GotIp
  BY <1>1, <1>19, Dequeued DEF BootInv, WifiEvent, GotIp
<1>20. ASSUME NEW e \in UsbEvent, HandleUsb(e) PROVE BootInv'
  BY <1>1, <1>20, Dequeued DEF BootInv, HandleUsb
<1>21. CASE HandleStats
  BY <1>1, <1>21, Dequeued DEF BootInv, HandleStats
<1>22. CASE \/ UsbChanges \/ LockClients \/ SendNext \/ SendFails
            \/ EndBroadcast
            \/ (\E s \in Sock : Accept(s)) \/ (\E s \in Sock : EndSession(s))
            \/ (\E s \in Sock : Handshake(s)) \/ ReadForClient \/ Answer
            \/ (\E s \in Sock : CloseFrame(s))
  BY <1>1, <1>22
     DEF BootInv, UsbChanges, LockClients, SendNext, SendFails, EndBroadcast,
         Accept, EndSession, Handshake, ReadForClient, Answer, CloseFrame
<1> QED
  BY <1>2, <1>3, <1>4, <1>5, <1>6, <1>7, <1>8, <1>9, <1>10, <1>11, <1>12,
     <1>13, <1>14, <1>15, <1>16, <1>17, <1>18, <1>19, <1>20, <1>21, <1>22
     DEF Next, MainStep, WifiStep, LoopStep, HttpdStep

(* The web server.                                                         *)
LEMMA ServedStep == ASSUME IInv, Next PROVE ServedInv'
<1> USE DEF mainVars, usbVars, driverVars, confVars,
        serverVars, listVars, askVars, ledVars
<1>1. TypeOK /\ ServedInv /\ BootInv
  BY DEF IInv
<1>2. ASSUME NEW m \in Mode, WifiInit(m) PROVE ServedInv'
  <2>1. m = "ap" => ToSet(owed') = {"apStart"}
    BY <1>2, StartingEvents DEF WifiInit
  <2> QED
    BY <1>1, <1>2, <2>1 DEF ServedInv, BootInv, Coming, WifiInit
<1>3. CASE PostUsb
  <2>1. timer \in Event /\ timer \in UsbEvent
    BY <1>3 DEF PostUsb, Event
  <2>2. CASE queue' = Append(queue, timer)
    BY <1>1, <1>3, <2>1, Enqueued DEF ServedInv, Coming, PostUsb
  <2>3. CASE queue' = queue /\ "post" \in missed'
    BY <1>1, <1>3, <2>3 DEF ServedInv, Coming, PostUsb
  <2> QED
    BY <1>3, <2>2, <2>3 DEF PostUsb
<1>4. CASE PostStats
  <2>1. /\ "stats" \in Event /\ "stats" \notin UsbEvent
        /\ "stats" \notin WifiEvent
    BY DEF Event, UsbEvent, WifiEvent
  <2> QED
    BY <1>1, <1>4, <2>1, Enqueued DEF ServedInv, Coming, PostStats
<1>5. CASE PostWifi
  <2>1. Head(owed) \in Event /\ Head(owed) \notin UsbEvent
    BY <1>1, <1>5 DEF TypeOK, PostWifi, Event, WifiEvent, UsbEvent
  <2>2. owed # <<>> /\ ToSet(owed) = {Head(owed)} \cup ToSet(owed')
    BY <1>1, <1>5, Taken DEF TypeOK, PostWifi
  <2> QED
    BY <1>1, <1>5, <2>1, <2>2, Enqueued DEF ServedInv, Coming, PostWifi
<1>6. CASE Connects
  <2>1. ToSet(owed) = {}
    BY <1>6 DEF Connects, ToSet
  <2>2. HasStation(boot) => ToSet(owed') = {"gotIp"}
    BY <1>6, OneEvent DEF Connects, WifiEvent
  <2> QED
    BY <1>1, <1>6, <2>1, <2>2 DEF ServedInv, Coming, Connects
<1>7. CASE Disconnects
  <2>1. ToSet(owed) = {}
    BY <1>7 DEF Disconnects, ToSet
  <2> QED
    BY <1>1, <1>7, <2>1 DEF ServedInv, Coming, Disconnects
<1>8. CASE StopWifi
  <2>1. ToSet(owed) = {}
    BY <1>8 DEF StopWifi, ToSet
  <2> QED
    BY <1>1, <1>8, <2>1 DEF ServedInv, Coming, StopWifi
<1>9. ASSUME NEW m \in Mode, RestartWifi(m) PROVE ServedInv'
  <2>1. m = "ap" => ToSet(owed') = {"apStart"}
    BY <1>9, StartingEvents DEF RestartWifi
  <2>2. ToSet(owed) = {}
    BY <1>9 DEF RestartWifi, ToSet
  <2> QED
    BY <1>1, <1>9, <2>1, <2>2 DEF ServedInv, Coming, RestartWifi
<1>10. ASSUME NEW m \in Mode, RestartFails(m) PROVE ServedInv'
  BY <1>1, <1>10 DEF ServedInv, BootInv, Coming, RestartFails
<1>11. CASE StaStart
  BY <1>1, <1>11, Dequeued DEF ServedInv, Coming, StaStart
<1>12. CASE StaDisconnected
  BY <1>1, <1>12, Dequeued DEF ServedInv, Coming, StaDisconnected
<1>13. CASE ApStart
  <2>1. ToSet(queue) = {"apStart"} \cup ToSet(queue')
    BY <1>1, <1>13, Dequeued DEF ApStart
  <2>2. StartServer("ap", ApNeedsServer)
    BY <1>13 DEF ApStart
  <2>3. startedHttp' <=> server' = "on" \/ failed' = "sta"
    <3>1. \/ startedHttp' = TRUE /\ server' = "on"
          \/ /\ ~startedHttp /\ (startedHttp' <=> startedHttp)
             /\ server' = server /\ failed' = "ap"
          \/ /\ startedHttp' = startedHttp /\ server' = server
             /\ failed' = IF failed = "sta" THEN "sta" ELSE "no"
      <4>1. "ap" # "sta"
        OBVIOUS
      <4> QED
        BY <2>2, <4>1, Zenon DEF StartServer, ApNeedsServer
    <3> QED
      BY <1>1, <3>1 DEF ServedInv
  <2>4. /\ server = "on" \/ failed = "sta" => server' = "on" \/ failed' = "sta"
        /\ mode = "ap" => server' = "on" \/ failed' # "no"
    BY <1>1, <2>2 DEF ServedInv, StartServer, ApNeedsServer
  <2> QED
    BY <1>1, <1>13, <2>1, <2>3, <2>4 DEF ServedInv, Coming, ApStart
<1>14. CASE GotIp
  <2>1. StartServer("sta", StationNeedsServer)
    BY <1>14 DEF GotIp
  <2>2. /\ startedHttp' <=> server' = "on" \/ failed' = "sta"
        /\ server' = "on" \/ failed' = "sta"
    BY <1>1, <2>1 DEF ServedInv, StartServer, StationNeedsServer, NotStarted
  <2> QED
    BY <2>2 DEF ServedInv
<1>15. ASSUME NEW e \in UsbEvent, HandleUsb(e) PROVE ServedInv'
  <2>1. ToSet(queue) = {e} \cup ToSet(queue') /\ e \notin {"apStart", "gotIp"}
    BY <1>1, <1>15, Dequeued DEF HandleUsb, UsbEvent
  <2> QED
    BY <1>1, <1>15, <2>1 DEF ServedInv, Coming, HandleUsb
<1>16. CASE HandleStats
  BY <1>1, <1>16, Dequeued DEF ServedInv, Coming, HandleStats
<1>17. CASE \/ StartMonitor \/ ReadUsb \/ ShowUsb \/ Initialized \/ UsbChanges
            \/ CheckUsb \/ LockClients \/ SendNext \/ SendFails
            \/ EndBroadcast \/ (\E s \in Sock : Accept(s))
            \/ (\E s \in Sock : EndSession(s))
            \/ (\E s \in Sock : Handshake(s)) \/ ReadForClient \/ Answer
            \/ (\E s \in Sock : CloseFrame(s))
  BY <1>1, <1>17
     DEF ServedInv, Coming, StartMonitor, ReadUsb, ShowUsb, Initialized,
         UsbChanges, CheckUsb, LockClients, SendNext, SendFails, EndBroadcast,
         Accept, EndSession, Handshake, ReadForClient, Answer, CloseFrame
<1> QED
  BY <1>2, <1>3, <1>4, <1>5, <1>6, <1>7, <1>8, <1>9, <1>10, <1>11, <1>12,
     <1>13, <1>14, <1>15, <1>16, <1>17
     DEF Next, MainStep, WifiStep, LoopStep, HttpdStep

(* What the clients have heard.                                            *)
LEMMA ClientStep == ASSUME IInv, Next PROVE ClientInv'
<1> USE DEF mainVars, usbVars, driverVars, confVars,
        serverVars, listVars, askVars, ledVars
<1>1. /\ TypeOK /\ LoopInv /\ ListMatchesSessions /\ UsbInv /\ ClientInv
      /\ BootInv
  BY DEF IInv
<1>2. CASE StartMonitor
  BY <1>1, <1>2
     DEF ClientInv, BootInv, Settled, NoUsbQueued, Served, UsbEvent,
         StartMonitor
<1>3. CASE ShowUsb
  BY <1>1, <1>3 DEF ClientInv, Settled, NoUsbQueued, Served, ShowUsb
<1>4. CASE CheckUsb
  BY <1>4 DEF ClientInv, Settled, UsbEvent, CheckUsb
<1>5. CASE PostUsb
  <2>1. timer \in Event /\ timer \in UsbEvent
    BY <1>5 DEF PostUsb, Event
  <2>2. CASE queue' = Append(queue, timer)
    BY <1>1, <2>1, <2>2, Enqueued DEF ClientInv, Settled, NoUsbQueued
  <2>3. CASE queue' = queue /\ "post" \in missed'
    BY <2>3 DEF ClientInv, Settled
  <2> QED
    BY <1>5, <2>2, <2>3 DEF PostUsb
<1>6. CASE PostStats
  <2>1. "stats" \in Event
    BY DEF Event
  <2> QED
    BY <1>1, <1>6, <2>1, Enqueued
       DEF ClientInv, Settled, NoUsbQueued, Served, PostStats
<1>7. CASE PostWifi
  <2>1. Head(owed) \in Event
    BY <1>1, <1>7 DEF TypeOK, PostWifi, Event
  <2> QED
    BY <1>1, <1>7, <2>1, Enqueued
       DEF ClientInv, Settled, NoUsbQueued, Served, PostWifi
<1>8. CASE StaStart
  BY <1>1, <1>8, Dequeued, EventLoopAssumption
     DEF ClientInv, Settled, NoUsbQueued, Served, UsbEvent, StaStart
<1>9. CASE StaDisconnected
  BY <1>1, <1>9, Dequeued
     DEF ClientInv, Settled, NoUsbQueued, Served, UsbEvent, StaDisconnected
<1>10. CASE ApStart
  BY <1>1, <1>10, Dequeued
     DEF ClientInv, Settled, NoUsbQueued, Served, UsbEvent, ApStart
<1>11. CASE GotIp
  BY <1>1, <1>11, Dequeued
     DEF ClientInv, Settled, NoUsbQueued, Served, UsbEvent, GotIp
<1>12. ASSUME NEW e \in UsbEvent, HandleUsb(e) PROVE ClientInv'
  <2>1. CASE server = "on"
    BY <1>12, <2>1 DEF ClientInv, Served, HandleUsb, StartBroadcast
  <2>2. CASE server # "on"
    BY <1>1, <1>12, <2>2 DEF ClientInv, LoopInv, HandleUsb
  <2> QED
    BY <2>1, <2>2
<1>13. CASE HandleStats
  BY <1>1, <1>13, Dequeued
     DEF ClientInv, Settled, NoUsbQueued, Served, UsbEvent, HandleStats
<1>14. CASE LockClients
  BY <1>1, <1>14 DEF ClientInv, Settled, NoUsbQueued, Served, LockClients
<1>15. CASE SendNext
  <2> DEFINE c == clients[next]
  <2>1. /\ c \in Sock /\ next \in 1..Len(clients) /\ clients' = clients
        /\ \A i \in 1..Len(clients) : clients[i] = c => i = next
    BY <1>1, <1>15 DEF TypeOK, ListMatchesSessions, IsInjective, SendNext
  <2>2. CASE loop \notin UsbEvent
    BY <1>1, <1>15, <2>2 DEF ClientInv, Settled, NoUsbQueued, Served, SendNext
  <2>3. CASE loop \in UsbEvent
    <3>0. /\ heard' = [heard EXCEPT ![c] =
                         (loop = "connected" /\ sess[c] = "event")]
          /\ missed' = missed \/ missed' = missed \ {c}
          /\ next' = next + 1
          /\ UNCHANGED <<sess, loop, polled, timer, queue>>
      BY <1>15, <2>3 DEF SendNext
    <3>1. /\ \A s \in Sock \ {c} :
               heard'[s] = heard[s] /\ (s \in missed' <=> s \in missed)
          /\ heard'[c] <=> loop = "connected" /\ sess[c] = "event"
          /\ Settled' <=> Settled
          /\ next' = next + 1 /\ sess' = sess /\ loop' = loop
          /\ polled' = polled
      BY <1>1, <2>1, <3>0, EventLoopAssumption DEF TypeOK, Settled, NoUsbQueued
    <3>2. Settled => (loop = "connected" <=> polled)
      BY <1>1, <2>3 DEF UsbInv, TellsPolled
    <3> HIDE DEF c
    <3> SUFFICES ASSUME Settled, NEW i \in 1..Len(clients), Served(i)',
                        clients[i] \notin missed', sess[clients[i]] = "event"
                 PROVE  heard'[clients[i]] <=> polled
      BY <2>1, <3>1 DEF ClientInv
    <3>3. CASE i = next
      BY <3>1, <3>2, <3>3 DEF c
    <3>4. CASE i # next
      <4>1. clients[i] \in Sock \ {c} /\ Served(i)
        BY <1>1, <2>1, <3>1, <3>4 DEF TypeOK, Served
      <4> QED
        BY <1>1, <3>1, <4>1 DEF ClientInv
    <3> QED
      BY <3>3, <3>4
  <2> QED
    BY <2>2, <2>3
<1>16. CASE SendFails
  <2>1. /\ next \in 1..Len(clients) /\ next' = next
        /\ Len(clients') = Len(clients) - 1
        /\ \A k \in 1..Len(clients) - 1 :
             clients'[k] = IF k < next THEN clients[k] ELSE clients[k + 1]
        /\ UNCHANGED <<heard, missed, sess, polled, loop, queue, timer>>
    BY <1>1, <1>16, Removed
       DEF TypeOK, ListMatchesSessions, SendFails, NextAfterErase, SamePlace
  <2>2. SUFFICES ASSUME Settled, NEW i \in 1..Len(clients'), Served(i)',
                        clients'[i] \notin missed, sess[clients'[i]] = "event"
                 PROVE  heard[clients'[i]] <=> polled
    BY <2>1 DEF ClientInv, Settled, NoUsbQueued
  <2>4. CASE i < next
    BY <1>1, <2>1, <2>2, <2>4 DEF ClientInv, Served
  <2>5. CASE ~(i < next)
    BY <1>1, <2>1, <2>2, <2>5 DEF ClientInv, Served
  <2> QED
    BY <2>4, <2>5
<1>17. CASE EndBroadcast
  BY <1>1, <1>17
     DEF TypeOK, ClientInv, Settled, NoUsbQueued, Served, EndBroadcast
<1>18. ASSUME NEW s \in Sock, Accept(s) PROVE ClientInv'
  BY <1>1, <1>18, Dequeued DEF ClientInv, Settled, NoUsbQueued, Served, Accept
<1>19. ASSUME NEW s \in Sock, EndSession(s) PROVE ClientInv'
  BY <1>1, <1>19, EventLoopAssumption
     DEF TypeOK, ClientInv, Settled, NoUsbQueued, Served, EndSession
<1>20. ASSUME NEW s \in Sock, Handshake(s) PROVE ClientInv'
  <2>1. /\ clients' = AddOnce(s) /\ s \in missed' /\ Len(AddOnce(s)) \in Nat
        /\ \A i \in 1..Len(AddOnce(s)) :
             \/ AddOnce(s)[i] = s
             \/ i \in 1..Len(clients) /\ AddOnce(s)[i] = clients[i]
    BY <1>1, <1>20, Joined
       DEF TypeOK, ListMatchesSessions, Handshake, WithClient
  <2>2. /\ Settled' => Settled
        /\ missed \subseteq missed' /\ \A c \in Sock \ {s} : sess'[c] = sess[c]
        /\ UNCHANGED <<heard, polled, loop, next>>
    BY <1>20 DEF Settled, NoUsbQueued, Handshake
  <2>3. SUFFICES ASSUME Settled', NEW i \in 1..Len(clients'), Served(i)',
                        clients'[i] \notin missed',
                        sess'[clients'[i]] = "event"
                 PROVE  heard'[clients'[i]] <=> polled'
    BY DEF ClientInv
  <2>4. /\ i \in 1..Len(clients) /\ clients'[i] = clients[i] /\ clients[i] # s
        /\ clients[i] \in Sock
    BY <1>1, <2>1, <2>3 DEF TypeOK
  <2> QED
    BY <1>1, <2>2, <2>3, <2>4 DEF ClientInv, Served
<1>21. CASE Answer
  <2>1. /\ asking \in Sock /\ asking \in missed
        /\ \A c \in Sock \ {asking} :
             heard'[c] = heard[c] /\ (c \in missed' <=> c \in missed)
        /\ asking \notin missed' => (heard'[asking] <=> polled)
        /\ Settled' <=> Settled
        /\ UNCHANGED <<polled, loop, next, clients, sess>>
    BY <1>1, <1>21, EventLoopAssumption
       DEF TypeOK, LoopInv, Settled, NoUsbQueued, Answer, SetMissed
  <2>2. \A i \in 1..Len(clients) : clients[i] \in Sock
    BY <1>1 DEF TypeOK
  <2>3. SUFFICES ASSUME Settled', NEW i \in 1..Len(clients), Served(i)',
                        clients[i] \notin missed', sess[clients[i]] = "event"
                 PROVE  heard'[clients[i]] <=> polled
    BY <2>1 DEF ClientInv
  <2>4. CASE clients[i] = asking
    BY <2>1, <2>3, <2>4
  <2>5. CASE clients[i] # asking
    <3>1. Served(i) /\ clients[i] \in Sock \ {asking}
      BY <2>1, <2>2, <2>3, <2>5 DEF Served
    <3>2. heard[clients[i]] <=> polled
      BY <1>1, <2>1, <2>3, <3>1 DEF ClientInv
    <3>3. heard'[clients[i]] = heard[clients[i]]
      BY <2>1, <3>1
    <3> QED
      BY <3>2, <3>3
  <2> QED
    BY <2>4, <2>5
<1>22. ASSUME NEW s \in Sock, CloseFrame(s) PROVE ClientInv'
  <2>1. /\ \A i \in 1..Len(clients') :
             \E k \in 1..Len(clients) : clients'[i] = clients[k]
        /\ clients' \in Seq(Sock)
    BY <1>1, <1>22, Gone
       DEF TypeOK, ListMatchesSessions, CloseFrame, WithoutClient, Unlisted
  <2>2. /\ Settled' => Settled
        /\ loop \in UsbEvent => next = 0
        /\ sess'[s] # "event"
        /\ \A c \in Sock \ {s} :
             /\ sess'[c] = sess[c] /\ heard'[c] = heard[c]
             /\ (c \in missed' <=> c \in missed)
        /\ UNCHANGED <<polled, loop, next>>
    BY <1>1, <1>22, EventLoopAssumption
       DEF TypeOK, LoopInv, Settled, NoUsbQueued, CloseFrame, UsbEvent
  <2>3. SUFFICES ASSUME Settled', NEW i \in 1..Len(clients'), Served(i)',
                        clients'[i] \notin missed',
                        sess'[clients'[i]] = "event"
                 PROVE  heard'[clients'[i]] <=> polled'
    BY DEF ClientInv
  <2>4. PICK k \in 1..Len(clients) : clients'[i] = clients[k]
    BY <2>1
  <2>5. clients[k] \in Sock \ {s} /\ Served(k)
    BY <1>1, <2>2, <2>3, <2>4 DEF TypeOK, Served
  <2>7. clients[k] \notin missed /\ sess[clients[k]] = "event"
    BY <2>2, <2>3, <2>4, <2>5
  <2>6. heard[clients[k]] <=> polled
    BY <1>1, <2>2, <2>3, <2>5, <2>7 DEF ClientInv
  <2>8. heard'[clients'[i]] = heard[clients[k]] /\ polled' = polled
    BY <2>2, <2>4, <2>5
  <2> QED
    BY <2>6, <2>8
<1>23. CASE \/ (\E m \in Mode : WifiInit(m)) \/ ReadUsb \/ Initialized
            \/ UsbChanges \/ Connects \/ Disconnects \/ StopWifi
            \/ (\E m \in Mode : RestartWifi(m) \/ RestartFails(m))
            \/ ReadForClient
  BY <1>1, <1>23
     DEF ClientInv, Settled, NoUsbQueued, Served, WifiInit, ReadUsb,
         Initialized, UsbChanges, Connects, Disconnects, StopWifi, RestartWifi,
         RestartFails, ReadForClient
<1> QED
  BY <1>2, <1>3, <1>4, <1>5, <1>6, <1>7, <1>8, <1>9, <1>10, <1>11, <1>12,
     <1>13, <1>14, <1>15, <1>16, <1>17, <1>18, <1>19, <1>20, <1>21, <1>22,
     <1>23
     DEF Next, MainStep, WifiStep, LoopStep, HttpdStep
-----------------------------------------------------------------------------
LEMMA InitIInv == ASSUME Init PROVE IInv
<1>1. /\ ToSet(queue) = {} /\ ToSet(owed) = {} /\ ToSet(clients) = {}
      /\ Len(queue) = 0 /\ Len(clients) = 0
  BY DEF Init, ToSet
<1>2. TypeOK
  <2>1. shown \in BOOLEAN /\ initialized \in BOOLEAN /\ mutex \in BOOLEAN
    BY Zenon DEF Init
  <2>2. /\ ever \in BOOLEAN /\ startedHttp \in BOOLEAN
        /\ running \in BOOLEAN
    BY Zenon DEF Init
  <2>4. /\ led \in [mode : {"solid", "blink", "error"},
                   color : {"green", "red"}]
        /\ heard \in [Sock -> BOOLEAN]
    BY DEF Init, Green
  <2> QED
    BY <2>1, <2>2, <2>4, EventLoopAssumption DEF Init, TypeOK, Mode
<1>3. LoopInv /\ ListMatchesSessions
  BY <1>1 DEF Init, LoopInv, ListMatchesSessions, IsInjective
<1>4. UsbInv
  BY DEF Init, UsbInv, UsbEvent, LastUsb
<1>5. LedInv /\ ClientInv
  BY DEF Init, LedInv, ClientInv
<1>6. BootInv /\ ServedInv
  BY <1>1 DEF Init, BootInv, ServedInv
<1> QED
  BY <1>2, <1>3, <1>4, <1>5, <1>6 DEF IInv

LEMMA StutterKeeps == ASSUME IInv, UNCHANGED vars PROVE IInv'
<1> USE DEF IInv, vars, mainVars, usbVars, driverVars, confVars, serverVars,
            listVars, askVars, ledVars
<1>1. TypeOK' /\ LoopInv' /\ ListMatchesSessions' /\ BootInv' /\ ServedInv'
  BY DEF TypeOK, LoopInv, ListMatchesSessions, BootInv, ServedInv, Coming
<1>2. UsbInv' /\ LedInv' /\ ClientInv'
  BY DEF UsbInv, TellsPolled, LedInv, ClientInv, Served, Settled, NoUsbQueued
<1> QED
  BY <1>1, <1>2

LEMMA StepIInv == IInv /\ [Next]_vars => IInv'
<1>1. ASSUME IInv, Next PROVE IInv'
  BY <1>1, TypeStep, LoopStepInv, ListStep, UsbStep, LedStep, ClientStep,
     BootStep, ServedStep
     DEF IInv
<1> QED
  BY <1>1, StutterKeeps

(* The invariants below together, and what makes them inductive: the last  *)
(* USB event on its way tells what the monitor has last seen, the clients  *)
(* the broadcast has passed have heard it, and the Wi-Fi event that starts *)
(* the web server is on its way until it has been handled.                 *)
THEOREM Invariants == Spec => []IInv
  BY InitIInv, StepIInv, PTL DEF Spec

(* Every variable stays in its set; the queue never exceeds its length.    *)
THEOREM TypeCorrect == Spec => []TypeOK
<1>1. IInv => TypeOK
  BY DEF IInv
<1> QED
  BY <1>1, Invariants, PTL

(* No socket is on the list of /event clients twice, and each one that is  *)
(* has an /event session or lost it without a CLOSE frame.                 *)
THEOREM ListIsOfSessions == Spec => []ListMatchesSessions
<1>1. IInv => ListMatchesSessions
  BY DEF IInv
<1> QED
  BY <1>1, Invariants, PTL

(* Once no event is on its way, every client has been told what the USB    *)
(* monitor has last seen, however many clients join, leave and fail during *)
(* a broadcast.                                                            *)
THEOREM ClientsAreTold == Spec => []ClientsKnowUsb
<1>1. IInv => ClientsKnowUsb
  <2> SUFFICES ASSUME IInv, queue = <<>>, loop = "idle", "post" \notin missed,
                      timer \in {"idle", "off"},
                      NEW s \in ToSet(clients) \ missed, sess[s] = "event"
               PROVE  heard[s] = polled
    BY DEF ClientsKnowUsb
  <2>1. Settled
    BY DEF Settled, NoUsbQueued, UsbEvent, ToSet
  <2>2. PICK i \in 1..Len(clients) : clients[i] = s
    BY Elements DEF IInv, TypeOK
  <2>3. heard[s] <=> polled
    BY <2>1, <2>2 DEF IInv, ClientInv, Served, UsbEvent
  <2> QED
    BY <2>3, Zenon
<1> QED
  BY <1>1, Invariants, PTL

(* Once its events are handled the LED shows what the USB monitor has last *)
(* seen, and red never outlives the first address of the station.          *)
THEOREM LedIsTold == Spec => []LedTellsUsb
<1>1. IInv => LedTellsUsb
  <2> SUFFICES ASSUME IInv
               PROVE  LedTellsUsb
    OBVIOUS
  <2>1. ASSUME initialized, owner = "usb", timer = "idle", NoUsbQueued,
               missed \cap {"post", "led"} = {}
        PROVE  led.mode = ModeFor(polled)
    BY <2>1 DEF IInv, LoopInv, LedInv, Settled, UsbEvent
  <2> QED
    BY <2>1 DEF LedTellsUsb, NoUsbQueued, ModeFor, IInv, LedInv
<1> QED
  BY <1>1, Invariants, PTL

(* Whenever a client can reach the device and no Wi-Fi event is on its way,*)
(* the web server runs, or httpd_start failed at the last event that should*)
(* have started it, or once with the station's address.                    *)
THEOREM ServerIsStarted == Spec => []ServedWhenReachable
<1>1. IInv => ServedWhenReachable
  <2> SUFFICES ASSUME IInv, owed = <<>>, ToSet(queue) \cap WifiEvent = {},
                      Reachable
               PROVE  server = "on" \/ failed # "no"
    BY DEF ServedWhenReachable
  <2>1. ToSet(owed) = {}
    BY DEF ToSet
  <2>2. ~Coming("gotIp") /\ ~Coming("apStart")
    BY <2>1 DEF Coming, WifiEvent
  <2> QED
    BY <2>2 DEF IInv, ServedInv, Reachable
<1> QED
  BY <1>1, Invariants, PTL
=============================================================================
