---------------------------- MODULE CanBusProofs ----------------------------
(***************************************************************************)
(* Theorems about CanBus, for any number of executors and motors and any   *)
(* bound on the frames: who holds which mutex, which tasks exist, and that *)
(* no frame is counted twice or forgotten.                                 *)
(***************************************************************************)
EXTENDS CanBus, FiniteSetTheorems, TLAPS

(* Where each kind of task can be.                                         *)
Sending == {"command", "transmit", "count", "update"}
PcInv ==
  /\ \A e \in Exec : /\ pc[Run(e)] \in {"none", "wait"} \cup Sending
                     /\ pc[Receiver(e)] \in {"none", "receive", "count",
                                             "update", "store", "stored"}
  /\ pc[Exchange] \in {"idle", "init", "createReceiver", "store",
                       "deleteReceiver", "deleteRun"} \cup Sending
  /\ pc[Monitor] \in {"none", "sleep", "reset", "post"}

(* The executors the settings write has to do with are different ones, all *)
(* built already.                                                          *)
ExchangeInv ==
  /\ fresh < nextExec /\ old < nextExec /\ current < nextExec
  /\ fresh # 0 => fresh # old /\ fresh # current
  /\ old # 0 => old # current
  /\ pc[Exchange] = "idle" => fresh = 0 /\ old = 0
  /\ pc[Exchange] \in {"init", "createReceiver", "store"} => fresh # 0
  /\ pc[Exchange] \in {"deleteReceiver", "deleteRun"} => old # 0
  /\ fresh = 0 \/ old = 0
  /\ pc[Exchange] \in Sending => fresh # 0 \/ old # 0

(* There are tasks only of the installed executor, of the one under        *)
(* construction and of the one under destruction, and a receiver only from *)
(* the last step of the constructor to the first of the destructor.        *)
TaskInv ==
  \A e \in Exec :
    /\ pc[Run(e)] # "none" => e \in {fresh, old, current}
    /\ pc[Receiver(e)] # "none" =>
         \/ e = current
         \/ e = fresh /\ pc[Exchange] = "store"
         \/ e = old /\ pc[Exchange] = "deleteReceiver"

(* What the owner of stats_mutex has read is what the counters still hold. *)
StatsInv ==
  /\ ~started => pc[Monitor] = "none"
  /\ pc[Monitor] \in {"none", "sleep"} => snapshot = Zero
  /\ ~stolen =>
       /\ pc[Monitor] = "reset" => snapshot = count
       /\ \A t \in Task \ {Monitor} :
            pc[t] = "update" => seen[t] = count[CounterOf(t)]

IInv == /\ TypeOK /\ PcInv /\ ExchangeInv /\ TaskInv /\ LocksHeld
        /\ StatsInv /\ FramesCounted

-----------------------------------------------------------------------------
(* Tasks and owners are different from each other.                         *)
LEMMA Tasks ==
  /\ \A e \in Exec : /\ Run(e) \in Senders /\ Run(e) # Exchange
                     /\ Receiver(e) \in Receivers
                     /\ \A f \in Exec : /\ Run(e) = Run(f) => e = f
                                        /\ Receiver(e) = Receiver(f) => e = f
  /\ \A t \in Senders : t = Exchange \/ \E e \in Exec : t = Run(e)
  /\ \A t \in Receivers : \E e \in Exec : t = Receiver(e)
  /\ Exchange \in Senders /\ Monitor \in Task
  /\ Monitor \notin Senders /\ Monitor \notin Receivers
  /\ Senders \cap Receivers = {}
  /\ Task = Senders \cup Receivers \cup {Monitor}
  /\ Free \notin Task /\ Lost \notin Task /\ Free # Lost
  BY DEF Run, Receiver, Exchange, Monitor, Free, Lost, Task, Senders, Runs,
         Receivers

LEMMA Counters ==
  /\ Counter = {"tx", "rx"}
  /\ \A t \in Task : CounterOf(t) \in Counter
  /\ \A t \in Senders : CounterOf(t) = "tx"
  /\ \A t \in Receivers : CounterOf(t) = "rx"
  BY Tasks DEF Counter, CounterOf

LEMMA ExecsFinite == IsFiniteSet(Exec) /\ 0 \notin Exec /\ Exec \subseteq Nat
<1>1. 1 \in Int /\ MaxExecutor \in Int
  BY CanBusAssumption
<1>2. IsFiniteSet(1..MaxExecutor)
  BY <1>1, FS_Interval
<1> QED
  BY <1>2 DEF Exec

-----------------------------------------------------------------------------
(* The frames on their way to a counter.                                   *)
Uncounters(c) == {t \in Task \ {Monitor} : CounterOf(t) = c /\ Uncounted(t)}

LEMMA PendingFinite ==
  ASSUME NEW c
  PROVE  /\ IsFiniteSet(Uncounters(c)) /\ Pending(c) \in Nat
         /\ Pending(c) = Cardinality(Uncounters(c))
<1>1. IsFiniteSet(Runs) /\ IsFiniteSet(Receivers)
  <2> DEFINE run == [e \in Exec |-> Run(e)]
             receiver == [e \in Exec |-> Receiver(e)]
  <2>1. /\ run \in Surjection(Exec, Runs)
        /\ receiver \in Surjection(Exec, Receivers)
    BY DEF Surjection, Runs, Receivers
  <2> QED
    BY <2>1, ExecsFinite, FS_Surjection
<1>2. IsFiniteSet({Exchange})
  BY FS_Singleton
<1>3. IsFiniteSet(Runs \cup Receivers \cup {Exchange})
  BY <1>1, <1>2, FS_Union
<1>4. Uncounters(c) \subseteq Runs \cup Receivers \cup {Exchange}
  BY DEF Uncounters, Task, Senders
<1>5. IsFiniteSet(Uncounters(c))
  BY <1>3, <1>4, FS_Subset
<1> QED
  BY <1>5, FS_CardinalityType DEF Pending, Uncounters

LEMMA PendingKept ==
  ASSUME \A t \in Task \ {Monitor} : Uncounted(t)' <=> Uncounted(t)
  PROVE  \A c \in Counter : Pending(c)' = Pending(c)
<1> SUFFICES ASSUME NEW c \in Counter PROVE Pending(c)' = Pending(c)
  OBVIOUS
<1> QED
  BY DEF Pending

LEMMA PendingAdded ==
  ASSUME NEW t \in Task \ {Monitor}, ~Uncounted(t), Uncounted(t)',
         \A u \in Task \ {Monitor, t} : Uncounted(u)' <=> Uncounted(u)
  PROVE  \A c \in Counter : Pending(c)' = IF c = CounterOf(t)
                                            THEN Pending(c) + 1 ELSE Pending(c)
<1> SUFFICES ASSUME NEW c \in Counter
             PROVE  Pending(c)' = IF c = CounterOf(t) THEN Pending(c) + 1
                                  ELSE Pending(c)
  OBVIOUS
<1>1. CASE c = CounterOf(t)
  <2>1. Uncounters(c)' = Uncounters(c) \cup {t} /\ t \notin Uncounters(c)
    BY <1>1 DEF Uncounters
  <2>2. Cardinality(Uncounters(c) \cup {t}) = Cardinality(Uncounters(c)) + 1
    BY <2>1, PendingFinite, FS_AddElement
  <2> QED
    BY <2>2 DEF Pending, Uncounters
<1>2. CASE c # CounterOf(t)
  <2>1. Uncounters(c)' = Uncounters(c)
    BY <1>2 DEF Uncounters
  <2> QED
    BY <2>1 DEF Pending, Uncounters
<1> QED
  BY <1>1, <1>2

LEMMA PendingRemoved ==
  ASSUME NEW t \in Task \ {Monitor}, Uncounted(t), ~Uncounted(t)',
         \A u \in Task \ {Monitor, t} : Uncounted(u)' <=> Uncounted(u)
  PROVE  \A c \in Counter : Pending(c)' = IF c = CounterOf(t)
                                            THEN Pending(c) - 1 ELSE Pending(c)
<1> SUFFICES ASSUME NEW c \in Counter
             PROVE  Pending(c)' = IF c = CounterOf(t) THEN Pending(c) - 1
                                  ELSE Pending(c)
  OBVIOUS
<1>1. CASE c = CounterOf(t)
  <2>1. Uncounters(c)' = Uncounters(c) \ {t} /\ t \in Uncounters(c)
    BY <1>1 DEF Uncounters
  <2>2. Cardinality(Uncounters(c) \ {t}) = Cardinality(Uncounters(c)) - 1
    BY <2>1, PendingFinite, FS_RemoveElement
  <2> QED
    BY <2>2 DEF Pending, Uncounters
<1>2. CASE c # CounterOf(t)
  <2>1. Uncounters(c)' = Uncounters(c)
    BY <1>2 DEF Uncounters
  <2> QED
    BY <2>1 DEF Pending, Uncounters
<1> QED
  BY <1>1, <1>2

-----------------------------------------------------------------------------
LEMMA InitIInv == Init => IInv
<1> SUFFICES ASSUME Init PROVE IInv
  OBVIOUS
<1>1. TypeOK
  <2>1. pc \in [Task -> {"none", "idle"}] /\ motor \in [Senders -> 1..Motors]
    BY CanBusAssumption DEF Init
  <2>2. nextExec \in 1..MaxExecutor + 1
    BY CanBusAssumption DEF Init
  <2>4. /\ count \in [Counter -> Nat] /\ snapshot \in [Counter -> Nat]
        /\ seen \in [Task \ {Monitor} -> Nat]
        /\ unreported \in [Counter -> Int]
    BY DEF Init, Zero
  <2> QED
    BY <2>1, <2>2, <2>4 DEF Init, TypeOK
<1>2. PcInv /\ TaskInv /\ StatsInv /\ LocksHeld
  BY Tasks DEF Init, PcInv, TaskInv, StatsInv, LocksHeld
<1>4. ExchangeInv
  BY Tasks DEF Init, ExchangeInv, Sending
<1>3. FramesCounted
  <2> SUFFICES ASSUME NEW c \in Counter PROVE Pending(c) = 0
    BY DEF Init, FramesCounted, Zero
  <2>1. Uncounters(c) = {}
    BY DEF Init, Uncounters, Uncounted
  <2> QED
    BY <2>1, PendingFinite, FS_EmptySet
<1> QED
  BY <1>1, <1>2, <1>3, <1>4 DEF IInv

(* A sender is done with a motor: where it goes from there.                *)
Done(t) == IF motor[t] < Motors THEN "command"
           ELSE IF t # Exchange THEN "wait"
           ELSE IF fresh # 0 THEN "createReceiver" ELSE "deleteRun"

LEMMA AdvanceGoes ==
  ASSUME TypeOK, NEW t \in Senders, Advance(t)
  PROVE  /\ pc' = [pc EXCEPT ![t] = Done(t)]
         /\ motor' \in [Senders -> 1..Motors]
         /\ feedback' \in [Exec -> Task \cup {Free, Lost}]
         /\ \A e \in Exec :
              feedback'[e] = IF feedback[e] = t /\ Done(t) # "command"
                               THEN Free ELSE feedback[e]
         /\ t # Exchange => Done(t) \in {"command", "wait"}
         /\ t = Exchange => \/ Done(t) = "command"
                            \/ fresh # 0 /\ Done(t) = "createReceiver"
                            \/ fresh = 0 /\ Done(t) = "deleteRun"
         /\ Done(t) \in {"command", "wait", "createReceiver", "deleteRun"}
<1>1. CASE motor[t] < Motors
  BY CanBusAssumption DEF Advance, TypeOK, Goto, Done
<1>2. CASE ~(motor[t] < Motors)
  BY CanBusAssumption DEF Advance, TypeOK, Goto, Done
<1> QED
  BY <1>1, <1>2

LEMMA CommandKeeps ==
  ASSUME IInv, NEW t \in Senders, Command(t)
  PROVE  IInv'
<1> USE DEF IInv, exchangeVars, statsVars
<1>0. /\ pc[t] = "command" /\ mit = Free
      /\ UNCHANGED <<exchangeVars, statsVars>>
      /\ motor' \in [Senders -> 1..Motors]
      /\ feedback' \in [Exec -> Task \cup {Free, Lost}]
      /\ mit' \in {t, Free}
      /\ \/ /\ mit' = t /\ pc' = [pc EXCEPT ![t] = "transmit"]
            /\ feedback' = feedback
         \/ /\ mit' = Free /\ pc' = [pc EXCEPT ![t] = Done(t)]
            /\ \A e \in Exec :
                 feedback'[e] = IF feedback[e] = t /\ Done(t) # "command"
                               THEN Free ELSE feedback[e]
  BY AdvanceGoes DEF Command, TypeOK, Goto
<1>1. TypeOK'
  BY <1>0 DEF TypeOK, Done
<1>2. PcInv'
  BY <1>0, Tasks DEF TypeOK, Done, PcInv, Sending
<1>3. ExchangeInv'
  BY <1>0, Tasks DEF TypeOK, Done, ExchangeInv, Sending
<1>4. TaskInv'
  BY <1>0, Tasks DEF TypeOK, TaskInv
<1>7. LocksHeld'
  BY <1>0, Tasks DEF TypeOK, Done, LocksHeld
<1>5. StatsInv'
  BY <1>0, Tasks DEF TypeOK, Done, StatsInv
<1>6. FramesCounted'
  <2>1. \A u \in Task \ {Monitor} : Uncounted(u)' <=> Uncounted(u)
    BY <1>0 DEF Uncounted, TypeOK, Done
  <2> QED
    BY <1>0, <2>1, PendingKept, Tasks DEF FramesCounted, TypeOK
<1> QED
  BY <1>1, <1>2, <1>3, <1>4, <1>5, <1>6, <1>7

(* A frame is counted: the counter, and the mutex given back or stolen.    *)
LEMMA UpdateCounts ==
  ASSUME TypeOK, NEW t \in Task \ {Monitor}, Update(t)
  PROVE  /\ count' \in [Counter -> Nat] /\ seen' \in [Task \ {Monitor} -> Nat]
         /\ stats' \in Task \cup {Free, Lost} /\ stolen' \in BOOLEAN
         /\ UNCHANGED <<snapshot, unreported>>
<1>1. count' \in [Counter -> Nat] /\ seen' \in [Task \ {Monitor} -> Nat]
  BY Counters DEF TypeOK, Update, Known
<1>2. stats' \in Task \cup {Free, Lost} /\ UNCHANGED <<snapshot, unreported>>
  BY DEF TypeOK, Update, Release, Unlock
<1>3. stolen' \in BOOLEAN
  BY Zenon DEF TypeOK, Update, Release, Unlock
<1> QED
  BY <1>1, <1>2, <1>3

LEMMA TransmitKeeps ==
  ASSUME IInv, NEW t \in Senders, Transmit(t)
  PROVE  IInv'
<1> USE DEF IInv, exchangeVars, statsVars
<1>0. /\ pc[t] = "transmit" /\ pc' = [pc EXCEPT ![t] = "count"]
      /\ unreported' \in [Counter -> Int]
      /\ ~stolen => \A c \in Counter : unreported'[c] = IF c = "tx"
                                                        THEN unreported[c] + 1
                                                        ELSE unreported[c]
      /\ UNCHANGED <<motor, exchangeVars, mit, feedback, stats, count, seen,
                     snapshot, stolen>>
  BY Counters DEF Transmit, Sent, Known, Goto, TypeOK
<1>1. TypeOK'
  BY <1>0 DEF TypeOK
<1>2. PcInv'
  BY <1>0 DEF PcInv, Sending
<1>3. ExchangeInv'
  BY <1>0 DEF ExchangeInv, Sending
<1>4. TaskInv'
  BY <1>0 DEF TaskInv
<1>5. LocksHeld'
  BY <1>0 DEF LocksHeld
<1>6. StatsInv'
  BY <1>0 DEF StatsInv
<1>7. FramesCounted'
  <2>1. /\ ~Uncounted(t) /\ Uncounted(t)'
        /\ \A u \in Task \ {Monitor, t} : Uncounted(u)' <=> Uncounted(u)
    BY <1>0, Tasks DEF Uncounted, TypeOK
  <2>2. \A c \in Counter : Pending(c)' = IF c = CounterOf(t)
                                            THEN Pending(c) + 1 ELSE Pending(c)
    BY <2>1, PendingAdded, Tasks
  <2> QED
    BY <1>0, <2>2, PendingFinite, Counters DEF FramesCounted, TypeOK
<1> QED
  BY <1>1, <1>2, <1>3, <1>4, <1>5, <1>6, <1>7

LEMMA TransmitTimeoutKeeps ==
  ASSUME IInv, NEW t \in Senders, TransmitTimeout(t)
  PROVE  IInv'
<1> USE DEF IInv, exchangeVars, statsVars
<1>0. /\ pc[t] = "transmit" /\ pc' = [pc EXCEPT ![t] = Done(t)]
      /\ motor' \in [Senders -> 1..Motors] /\ mit' = Free
      /\ feedback' \in [Exec -> Task \cup {Free, Lost}]
      /\ \A e \in Exec :
           feedback'[e] = IF feedback[e] = t /\ Done(t) # "command"
                          THEN Free ELSE feedback[e]
      /\ UNCHANGED <<exchangeVars, statsVars>>
  BY AdvanceGoes DEF TransmitTimeout, ReleaseMit
<1>1. TypeOK'
  BY <1>0 DEF TypeOK, Done
<1>2. PcInv'
  BY <1>0, Tasks DEF PcInv, Sending, Done
<1>3. ExchangeInv'
  BY <1>0 DEF ExchangeInv, Sending, Done
<1>4. TaskInv'
  BY <1>0 DEF TaskInv
<1>5. LocksHeld'
  BY <1>0, Tasks DEF TypeOK, LocksHeld, Done
<1>6. StatsInv'
  BY <1>0 DEF StatsInv, Done
<1>7. FramesCounted'
  <2>1. \A u \in Task \ {Monitor} : Uncounted(u)' <=> Uncounted(u)
    BY <1>0 DEF Uncounted, Done
  <2> QED
    BY <1>0, <2>1, PendingKept DEF FramesCounted, Done
<1> QED
  BY <1>1, <1>2, <1>3, <1>4, <1>5, <1>6, <1>7

LEMMA LockStatsKeeps ==
  ASSUME IInv, NEW t \in Senders \cup Receivers, LockStats(t)
  PROVE  IInv'
<1> USE DEF IInv, exchangeVars, statsVars
<1>0. /\ pc[t] = "count" /\ pc' = [pc EXCEPT ![t] = "update"]
      /\ stats = Free /\ stats' = t
      /\ seen' \in [Task \ {Monitor} -> Nat]
      /\ ~stolen => seen' = [seen EXCEPT ![t] = count[CounterOf(t)]]
      /\ UNCHANGED <<motor, exchangeVars, mit, feedback, count, snapshot,
                     unreported, stolen>>
  BY Counters DEF LockStats, Known, Goto, TypeOK
<1>1. TypeOK'
  BY <1>0, Tasks DEF TypeOK
<1>2. PcInv'
  BY <1>0 DEF PcInv, Sending
<1>3. ExchangeInv'
  BY <1>0 DEF ExchangeInv, Sending
<1>4. TaskInv'
  BY <1>0 DEF TaskInv
<1>5. LocksHeld'
  BY <1>0, Tasks DEF TypeOK, LocksHeld
<1>6. StatsInv'
  BY <1>0 DEF StatsInv
<1>7. FramesCounted'
  <2>1. \A u \in Task \ {Monitor} : Uncounted(u)' <=> Uncounted(u)
    BY <1>0 DEF Uncounted
  <2> QED
    BY <1>0, <2>1, PendingKept DEF FramesCounted
<1> QED
  BY <1>1, <1>2, <1>3, <1>4, <1>5, <1>6, <1>7

LEMMA EndCommandKeeps ==
  ASSUME IInv, NEW t \in Senders, EndCommand(t)
  PROVE  IInv'
<1> USE DEF IInv, exchangeVars, statsVars
<1>0. /\ pc[t] = "update" /\ pc' = [pc EXCEPT ![t] = Done(t)]
      /\ motor' \in [Senders -> 1..Motors] /\ mit' = Free
      /\ feedback' \in [Exec -> Task \cup {Free, Lost}]
      /\ \A e \in Exec :
           feedback'[e] = IF feedback[e] = t /\ Done(t) # "command"
                          THEN Free ELSE feedback[e]
      /\ Update(t) /\ UNCHANGED exchangeVars
  BY AdvanceGoes DEF EndCommand
<1>1. TypeOK'
  BY <1>0, Tasks, UpdateCounts DEF TypeOK, Done
<1>2. PcInv'
  BY <1>0, Tasks DEF PcInv, Sending, Done
<1>3. ExchangeInv'
  BY <1>0 DEF ExchangeInv, Sending, Done
<1>4. TaskInv'
  BY <1>0 DEF TaskInv
<1>5. LocksHeld'
  BY <1>0, Tasks DEF TypeOK, LocksHeld, Done, Update, Release, Unlock
<1>6. StatsInv'
  BY <1>0, Tasks DEF TypeOK, LocksHeld, StatsInv, Done, Update, Release, Unlock
<1>7. FramesCounted'
  <2>1. /\ Uncounted(t) /\ ~Uncounted(t)'
        /\ \A u \in Task \ {Monitor, t} : Uncounted(u)' <=> Uncounted(u)
    BY <1>0, Tasks DEF Uncounted, TypeOK, Done
  <2>2. \A c \in Counter : Pending(c)' = IF c = CounterOf(t)
                                            THEN Pending(c) - 1 ELSE Pending(c)
    BY <2>1, PendingRemoved, Tasks
  <2> QED
    BY <1>0, <2>2, PendingFinite, Tasks
       DEF FramesCounted, TypeOK, StatsInv, Update, Release, Unlock, Known
<1> QED
  BY <1>1, <1>2, <1>3, <1>4, <1>5, <1>6, <1>7

LEMMA StartCycleKeeps ==
  ASSUME IInv, NEW e \in Exec, StartCycle(e)
  PROVE  IInv'
<1> USE DEF IInv, exchangeVars, statsVars
<1>0. /\ pc[Run(e)] = "wait" /\ pc' = [pc EXCEPT ![Run(e)] = "command"]
      /\ feedback[e] = Free /\ feedback' = [feedback EXCEPT ![e] = Run(e)]
      /\ UNCHANGED <<motor, exchangeVars, mit, statsVars>>
  BY DEF StartCycle, Goto
<1>1. TypeOK'
  BY <1>0, Tasks DEF TypeOK
<1>2. PcInv'
  BY <1>0 DEF PcInv, Sending
<1>3. ExchangeInv'
  BY <1>0 DEF PcInv, ExchangeInv
<1>4. TaskInv'
  BY <1>0 DEF TaskInv
<1>5. LocksHeld'
  BY <1>0, Tasks DEF TypeOK, LocksHeld
<1>6. StatsInv'
  BY <1>0 DEF StatsInv
<1>7. FramesCounted'
  <2>1. \A u \in Task \ {Monitor} : Uncounted(u)' <=> Uncounted(u)
    BY <1>0 DEF Uncounted
  <2> QED
    BY <1>0, <2>1, PendingKept DEF FramesCounted
<1> QED
  BY <1>1, <1>2, <1>3, <1>4, <1>5, <1>6, <1>7

LEMMA ReceiveKeeps ==
  ASSUME IInv, NEW e \in Exec, Receive(e)
  PROVE  IInv'
<1> USE DEF IInv, exchangeVars, statsVars
<1>0. /\ pc[Receiver(e)] = "receive"
      /\ pc' = [pc EXCEPT ![Receiver(e)] = "count"]
      /\ unreported' \in [Counter -> Int]
      /\ ~stolen => \A c \in Counter : unreported'[c] = IF c = "rx"
                                                        THEN unreported[c] + 1
                                                        ELSE unreported[c]
      /\ UNCHANGED <<motor, exchangeVars, mit, feedback, stats, count, seen,
                     snapshot, stolen>>
  BY Counters DEF Receive, Sent, Known, Goto, TypeOK
<1>1. TypeOK'
  BY <1>0 DEF TypeOK
<1>2. PcInv'
  BY <1>0 DEF PcInv, Sending
<1>3. ExchangeInv'
  BY <1>0 DEF PcInv, ExchangeInv
<1>4. TaskInv'
  BY <1>0 DEF TaskInv
<1>5. LocksHeld'
  BY <1>0, Tasks DEF LocksHeld
<1>6. StatsInv'
  BY <1>0 DEF StatsInv
<1>7. FramesCounted'
  <2>1. /\ ~Uncounted(Receiver(e)) /\ Uncounted(Receiver(e))'
        /\ \A u \in Task \ {Monitor, Receiver(e)} :
              Uncounted(u)' <=> Uncounted(u)
    BY <1>0, Tasks DEF Uncounted, TypeOK
  <2>2. \A c \in Counter : Pending(c)' = IF c = CounterOf(Receiver(e))
                                            THEN Pending(c) + 1 ELSE Pending(c)
    BY <2>1, PendingAdded, Tasks
  <2> QED
    BY <1>0, <2>2, PendingFinite, Tasks, Counters DEF FramesCounted, TypeOK
<1> QED
  BY <1>1, <1>2, <1>3, <1>4, <1>5, <1>6, <1>7

LEMMA EndReceiveKeeps ==
  ASSUME IInv, NEW e \in Exec, EndReceive(e)
  PROVE  IInv'
<1> USE DEF IInv, exchangeVars, statsVars
<1>0. /\ pc[Receiver(e)] = "update"
      /\ \E to \in {"store", "receive"} : pc' = [pc EXCEPT ![Receiver(e)] = to]
      /\ Update(Receiver(e))
      /\ UNCHANGED <<motor, exchangeVars, mit, feedback>>
  BY DEF EndReceive, Goto
<1>1. TypeOK'
  BY <1>0, Tasks, UpdateCounts DEF TypeOK
<1>2. PcInv'
  BY <1>0, Tasks DEF PcInv
<1>3. ExchangeInv'
  BY <1>0, Tasks DEF ExchangeInv
<1>4. TaskInv'
  BY <1>0 DEF TaskInv
<1>5. LocksHeld'
  BY <1>0, Tasks DEF TypeOK, LocksHeld, Update, Release, Unlock
<1>6. StatsInv'
  BY <1>0, Tasks DEF TypeOK, LocksHeld, StatsInv, Update, Release, Unlock
<1>7. FramesCounted'
  <2>1. /\ Uncounted(Receiver(e)) /\ ~Uncounted(Receiver(e))'
        /\ \A u \in Task \ {Monitor, Receiver(e)} :
              Uncounted(u)' <=> Uncounted(u)
    BY <1>0, Tasks DEF Uncounted, TypeOK
  <2>2. \A c \in Counter : Pending(c)' = IF c = CounterOf(Receiver(e))
                                            THEN Pending(c) - 1 ELSE Pending(c)
    BY <2>1, PendingRemoved, Tasks
  <2> QED
    BY <1>0, <2>2, PendingFinite, Tasks
       DEF FramesCounted, TypeOK, StatsInv, Update, Release, Unlock, Known
<1> QED
  BY <1>1, <1>2, <1>3, <1>4, <1>5, <1>6, <1>7

LEMMA LockFeedbackKeeps ==
  ASSUME IInv, NEW e \in Exec, LockFeedback(e)
  PROVE  IInv'
<1> USE DEF IInv, exchangeVars, statsVars
<1>0. /\ pc[Receiver(e)] = "store"
      /\ pc' = [pc EXCEPT ![Receiver(e)] = "stored"]
      /\ feedback[e] = Free /\ feedback' = [feedback EXCEPT ![e] = Receiver(e)]
      /\ UNCHANGED <<motor, exchangeVars, mit, statsVars>>
  BY DEF LockFeedback, Goto
<1>1. TypeOK'
  BY <1>0, Tasks DEF TypeOK
<1>2. PcInv'
  BY <1>0, Tasks DEF PcInv
<1>3. ExchangeInv'
  BY <1>0 DEF ExchangeInv
<1>4. TaskInv'
  BY <1>0, Tasks DEF TaskInv
<1>5. LocksHeld'
  BY <1>0, Tasks DEF TypeOK, LocksHeld
<1>6. StatsInv'
  BY <1>0 DEF StatsInv
<1>7. FramesCounted'
  <2>1. \A u \in Task \ {Monitor} : Uncounted(u)' <=> Uncounted(u)
    BY <1>0 DEF Uncounted
  <2> QED
    BY <1>0, <2>1, PendingKept DEF FramesCounted
<1> QED
  BY <1>1, <1>2, <1>3, <1>4, <1>5, <1>6, <1>7

LEMMA StoreFeedbackKeeps ==
  ASSUME IInv, NEW e \in Exec, StoreFeedback(e)
  PROVE  IInv'
<1> USE DEF IInv, exchangeVars, statsVars
<1>0. /\ pc[Receiver(e)] = "stored"
      /\ pc' = [pc EXCEPT ![Receiver(e)] = "receive"]
      /\ feedback' = [feedback EXCEPT ![e] = Free]
      /\ UNCHANGED <<motor, exchangeVars, mit, statsVars>>
  BY DEF StoreFeedback, ReleaseFeedback, Goto
<1>1. TypeOK'
  BY <1>0 DEF TypeOK
<1>2. PcInv'
  BY <1>0 DEF PcInv, Sending
<1>3. ExchangeInv'
  BY <1>0 DEF ExchangeInv, Sending
<1>4. TaskInv'
  BY <1>0 DEF TaskInv
<1>5. LocksHeld'
  BY <1>0, Tasks DEF TypeOK, LocksHeld
<1>6. StatsInv'
  BY <1>0 DEF StatsInv
<1>7. FramesCounted'
  <2>1. \A u \in Task \ {Monitor} : Uncounted(u)' <=> Uncounted(u)
    BY <1>0 DEF Uncounted
  <2> QED
    BY <1>0, <2>1, PendingKept DEF FramesCounted
<1> QED
  BY <1>1, <1>2, <1>3, <1>4, <1>5, <1>6, <1>7

LEMMA MonitorLockKeeps ==
  ASSUME IInv, MonitorLock
  PROVE  IInv'
<1> USE DEF IInv, exchangeVars, statsVars
<1>0. /\ pc[Monitor] = "sleep" /\ pc' = [pc EXCEPT ![Monitor] = "reset"]
      /\ stats = Free /\ stats' = Monitor
      /\ snapshot' \in [Counter -> Nat] /\ (~stolen => snapshot' = count)
      /\ UNCHANGED <<motor, exchangeVars, mit, feedback, count, seen,
                     unreported, stolen>>
  BY DEF MonitorLock, Goto, Known, TypeOK
<1>1. TypeOK'
  BY <1>0, Tasks DEF TypeOK
<1>2. PcInv'
  BY <1>0 DEF PcInv, Sending
<1>3. ExchangeInv'
  BY <1>0 DEF ExchangeInv, Sending
<1>4. TaskInv'
  BY <1>0 DEF TaskInv
<1>5. LocksHeld'
  BY <1>0, Tasks DEF TypeOK, LocksHeld
<1>6. StatsInv'
  BY <1>0, Tasks DEF TypeOK, StatsInv
<1>7. FramesCounted'
  <2>1. \A u \in Task \ {Monitor} : Uncounted(u)' <=> Uncounted(u)
    BY <1>0 DEF Uncounted
  <2> QED
    BY <1>0, <2>1, PendingKept, Tasks DEF FramesCounted, TypeOK, StatsInv, Zero
<1> QED
  BY <1>1, <1>2, <1>3, <1>4, <1>5, <1>6, <1>7

LEMMA UnlockTypes ==
  ASSUME TypeOK, NEW t \in Task, Unlock(t)
  PROVE  /\ stats' \in Task \cup {Free, Lost} /\ stolen' \in BOOLEAN
         /\ ~stolen' => ~stolen /\ stats' = IF stats = t THEN Free ELSE stats
<1>1. stats' \in Task \cup {Free, Lost}
  BY DEF TypeOK, Unlock
<1>2. stolen' \in BOOLEAN
  BY Zenon DEF TypeOK, Unlock
<1>3. ~stolen' => ~stolen /\ stats' = IF stats = t THEN Free ELSE stats
  BY DEF Unlock
<1> QED
  BY <1>1, <1>2, <1>3

LEMMA MonitorResetKeeps ==
  ASSUME IInv, MonitorReset
  PROVE  IInv'
<1> USE DEF IInv, exchangeVars, statsVars
<1>0. /\ pc[Monitor] = "reset" /\ pc' = [pc EXCEPT ![Monitor] = "post"]
      /\ count' = Zero /\ Unlock(Monitor)
      /\ UNCHANGED <<motor, exchangeVars, mit, feedback, seen, snapshot,
                     unreported>>
  BY DEF MonitorReset, ResetTo, ResetCounts, Release, Goto
<1>1. TypeOK'
  BY <1>0, Tasks, UnlockTypes DEF TypeOK, Zero
<1>2. PcInv'
  BY <1>0 DEF PcInv, Sending
<1>3. ExchangeInv'
  BY <1>0 DEF ExchangeInv, Sending
<1>4. TaskInv'
  BY <1>0 DEF TaskInv
<1>5. LocksHeld'
  BY <1>0, Tasks, UnlockTypes DEF TypeOK, LocksHeld
<1>6. StatsInv'
  BY <1>0, Tasks, UnlockTypes DEF TypeOK, LocksHeld, StatsInv
<1>7. FramesCounted'
  <2>1. \A u \in Task \ {Monitor} : Uncounted(u)' <=> Uncounted(u)
    BY <1>0 DEF Uncounted
  <2> QED
    BY <1>0, <2>1, PendingKept, PendingFinite, Tasks, UnlockTypes
       DEF FramesCounted, TypeOK, StatsInv, Zero
<1> QED
  BY <1>1, <1>2, <1>3, <1>4, <1>5, <1>6, <1>7

LEMMA MonitorReportKeeps ==
  ASSUME IInv, MonitorReport
  PROVE  IInv'
<1> USE DEF IInv, exchangeVars, statsVars
<1>0. /\ pc[Monitor] = "post" /\ pc' = [pc EXCEPT ![Monitor] = "sleep"]
      /\ unreported' \in [Counter -> Int]
      /\ ~stolen => \A c \in Counter :
                      unreported'[c] = unreported[c] - snapshot[c]
      /\ snapshot' = Zero /\ Unlock(Monitor)
      /\ UNCHANGED <<motor, exchangeVars, mit, feedback, count, seen>>
  BY DEF MonitorReport, EndReport, Known, TypeOK, Goto
<1>1. TypeOK'
  BY <1>0, Tasks, UnlockTypes DEF TypeOK, Zero
<1>2. PcInv'
  BY <1>0 DEF PcInv, Sending
<1>3. ExchangeInv'
  BY <1>0 DEF ExchangeInv, Sending
<1>4. TaskInv'
  BY <1>0 DEF TaskInv
<1>5. LocksHeld'
  BY <1>0, Tasks, UnlockTypes DEF LocksHeld
<1>6. StatsInv'
  BY <1>0, Tasks, UnlockTypes DEF StatsInv
<1>7. FramesCounted'
  <2>1. \A u \in Task \ {Monitor} : Uncounted(u)' <=> Uncounted(u)
    BY <1>0 DEF Uncounted
  <2> QED
    BY <1>0, <2>1, PendingKept, PendingFinite, Tasks, UnlockTypes
       DEF FramesCounted, TypeOK, Zero
<1> QED
  BY <1>1, <1>2, <1>3, <1>4, <1>5, <1>6, <1>7

LEMMA ConstructKeeps ==
  ASSUME IInv, Construct
  PROVE  IInv'
<1> USE DEF IInv, exchangeVars, statsVars
<1>0. /\ pc[Exchange] = "idle" /\ nextExec \in Exec
      /\ fresh' = nextExec /\ nextExec' = nextExec + 1
      /\ pc' = [pc EXCEPT ![Exchange] = "init", ![Run(nextExec)] = "wait"]
      /\ pc[Run(nextExec)] = "none"
      /\ UNCHANGED <<motor, old, current, started, mit, feedback, statsVars>>
  BY DEF Construct, TaskInv, ExchangeInv, TypeOK
<1>1. TypeOK'
  <2>1. nextExec' \in 1..MaxExecutor + 1
    BY <1>0, CanBusAssumption DEF Exec
  <2> QED
    BY <1>0, <2>1 DEF TypeOK
<1>2. PcInv'
  BY <1>0, Tasks DEF TypeOK, PcInv
<1>3. ExchangeInv'
  BY <1>0, Tasks DEF TypeOK, ExchangeInv
<1>4. TaskInv'
  BY <1>0, Tasks DEF TypeOK, ExchangeInv, TaskInv
<1>5. LocksHeld'
  BY <1>0, Tasks DEF TypeOK, LocksHeld
<1>6. StatsInv'
  BY <1>0, Tasks DEF TypeOK, StatsInv
<1>7. FramesCounted'
  <2>1. \A u \in Task \ {Monitor} : Uncounted(u)' <=> Uncounted(u)
    BY <1>0 DEF Uncounted, TypeOK
  <2> QED
    BY <1>0, <2>1, PendingKept, Tasks DEF FramesCounted, TypeOK
<1> QED
  BY <1>1, <1>2, <1>3, <1>4, <1>5, <1>6, <1>7

LEMMA InitMitKeeps ==
  ASSUME IInv, InitMit
  PROVE  IInv'
<1> USE DEF IInv, exchangeVars, statsVars
<1>0. /\ pc[Exchange] = "init" /\ started' = TRUE
      /\ ~started => pc[Monitor] = "none"
      /\ pc' = [pc EXCEPT ![Exchange] = "command",
                          ![Monitor] = IF started THEN pc[Monitor]
                                       ELSE "sleep"]
      /\ UNCHANGED <<motor, fresh, old, current, nextExec, mit, feedback,
                     statsVars>>
  BY DEF InitMit, StartDriver, StatsInv
<1>1. TypeOK'
  BY <1>0 DEF TypeOK
<1>2. PcInv'
  BY <1>0, Tasks DEF TypeOK, PcInv, Sending
<1>3. ExchangeInv'
  BY <1>0, Tasks DEF TypeOK, ExchangeInv
<1>4. TaskInv'
  BY <1>0, Tasks DEF TypeOK, TaskInv
<1>5. LocksHeld'
  BY <1>0, Tasks DEF TypeOK, LocksHeld
<1>6. StatsInv'
  BY <1>0, Tasks DEF TypeOK, StatsInv
<1>7. FramesCounted'
  <2>1. \A u \in Task \ {Monitor} : Uncounted(u)' <=> Uncounted(u)
    BY <1>0 DEF Uncounted, TypeOK
  <2> QED
    BY <1>0, <2>1, PendingKept, Tasks DEF FramesCounted, TypeOK
<1> QED
  BY <1>1, <1>2, <1>3, <1>4, <1>5, <1>6, <1>7

LEMMA CreateReceiverKeeps ==
  ASSUME IInv, CreateReceiver
  PROVE  IInv'
<1> USE DEF IInv, exchangeVars, statsVars
<1>0. /\ pc[Exchange] = "createReceiver" /\ fresh \in Exec
      /\ pc' = [pc EXCEPT ![Exchange] = "store",
                          ![Receiver(fresh)] = "receive"]
      /\ pc[Receiver(fresh)] = "none"
      /\ UNCHANGED <<motor, exchangeVars, mit, feedback, statsVars>>
  BY DEF CreateReceiver, TypeOK, ExchangeInv, TaskInv
<1>1. TypeOK'
  BY <1>0 DEF TypeOK
<1>2. PcInv'
  BY <1>0, Tasks DEF TypeOK, PcInv
<1>3. ExchangeInv'
  BY <1>0, Tasks DEF TypeOK, ExchangeInv
<1>4. TaskInv'
  BY <1>0, Tasks DEF TypeOK, TaskInv
<1>5. LocksHeld'
  BY <1>0, Tasks DEF TypeOK, LocksHeld
<1>6. StatsInv'
  BY <1>0, Tasks DEF TypeOK, StatsInv
<1>7. FramesCounted'
  <2>1. \A u \in Task \ {Monitor} : Uncounted(u)' <=> Uncounted(u)
    BY <1>0 DEF Uncounted, TypeOK
  <2> QED
    BY <1>0, <2>1, PendingKept, Tasks DEF FramesCounted, TypeOK
<1> QED
  BY <1>1, <1>2, <1>3, <1>4, <1>5, <1>6, <1>7

LEMMA StoreKeeps ==
  ASSUME IInv, Store
  PROVE  IInv'
<1> USE DEF IInv, exchangeVars, statsVars
<1>0. /\ pc[Exchange] \in {"idle", "store"}
      /\ pc[Exchange] = "idle" => current # 0 /\ fresh = 0
      /\ current' = fresh /\ old' = current /\ fresh' = 0
      /\ pc' = [pc EXCEPT ![Exchange] = IF current = 0 THEN "idle"
                                        ELSE "deleteReceiver"]
      /\ UNCHANGED <<motor, nextExec, started, mit, feedback, statsVars>>
  BY DEF Store, Goto, ExchangeInv
<1>1. TypeOK'
  BY <1>0 DEF TypeOK
<1>2. PcInv'
  BY <1>0, Tasks DEF PcInv
<1>3. ExchangeInv'
  BY <1>0, Tasks DEF TypeOK, ExchangeInv, Sending
<1>4. TaskInv'
  BY <1>0, Tasks, ExecsFinite DEF TypeOK, ExchangeInv, TaskInv
<1>5. LocksHeld'
  BY <1>0 DEF LocksHeld
<1>6. StatsInv'
  BY <1>0 DEF StatsInv
<1>7. FramesCounted'
  <2>1. \A u \in Task \ {Monitor} : Uncounted(u)' <=> Uncounted(u)
    BY <1>0 DEF Uncounted
  <2> QED
    BY <1>0, <2>1, PendingKept DEF FramesCounted
<1> QED
  BY <1>1, <1>2, <1>3, <1>4, <1>5, <1>6, <1>7

-----------------------------------------------------------------------------
(* A task is deleted.                                                      *)
LEMMA DeleteTypes ==
  ASSUME TypeOK, NEW t \in Task \ {Monitor}, Delete(t)
  PROVE  /\ mit' \in Senders \cup {Free, Lost}
         /\ stats' \in Task \cup {Free, Lost}
         /\ feedback' \in [Exec -> Task \cup {Free, Lost}]
         /\ unreported' \in [Counter -> Int]
         /\ seen' \in [Task \ {Monitor} -> Nat]
         /\ motor' \in [Senders -> 1..Motors]
         /\ UNCHANGED <<count, snapshot, stolen>>
<1>1. motor' \in [Senders -> 1..Motors]
  BY CanBusAssumption DEF TypeOK, Delete
<1>2. unreported' \in [Counter -> Int]
  BY Counters DEF TypeOK, Delete, Known
<1> QED
  BY <1>1, <1>2 DEF TypeOK, Delete, LeftBehind

LEMMA LeftLocked ==
  ASSUME NEW t \in Task, Delete(t)
  PROVE  /\ mit' = IF mit = t THEN Lost ELSE mit
         /\ stats' = IF stats = t THEN Lost ELSE stats
         /\ \A e \in Exec :
              feedback'[e] = IF feedback[e] = t THEN Lost ELSE feedback[e]
         /\ seen' = [seen EXCEPT ![t] = 0]
         /\ UNCHANGED <<count, snapshot, stolen>>
  BY DEF Delete, LeftBehind

LEMMA DeleteCounts ==
  ASSUME IInv, NEW t \in Task \ {Monitor, Exchange}, Delete(t),
         NEW to \in {"idle", "command"}, DeleteAnd(t, to), ~Uncounted(Exchange)
  PROVE  FramesCounted'
<1> USE DEF IInv
<1>1. /\ ~Uncounted(t)' /\ pc'[Monitor] = pc[Monitor]
      /\ \A u \in Task \ {Monitor, t} : Uncounted(u)' <=> Uncounted(u)
  BY Tasks DEF Uncounted, DeleteAnd, TypeOK
<1>2. UNCHANGED <<count, snapshot, stolen>>
  BY DEF Delete
<1>3. CASE Uncounted(t)
  <2>1. \A c \in Counter : Pending(c)' = IF c = CounterOf(t)
                                            THEN Pending(c) - 1 ELSE Pending(c)
    BY <1>1, <1>3, PendingRemoved
  <2>2. ~stolen => \A c \in Counter :
          unreported'[c] = IF c = CounterOf(t) THEN unreported[c] - 1
                           ELSE unreported[c]
    BY <1>3 DEF Delete, Known, TypeOK
  <2> QED
    BY <1>1, <1>2, <2>1, <2>2, PendingFinite DEF FramesCounted, TypeOK
<1>4. CASE ~Uncounted(t)
  <2>1. \A c \in Counter : Pending(c)' = Pending(c)
    BY <1>1, <1>4, PendingKept
  <2>2. unreported' = unreported
    BY <1>4 DEF Delete
  <2> QED
    BY <1>1, <1>2, <2>1, <2>2 DEF FramesCounted
<1> QED
  BY <1>3, <1>4

LEMMA ConstructorThrowsKeeps ==
  ASSUME IInv, ConstructorThrows, current # 0
  PROVE  IInv'
<1> USE DEF IInv, exchangeVars, statsVars
<1>0. /\ fresh \in Exec /\ pc[Exchange] \in {"init", "createReceiver"}
      /\ fresh' = 0
      /\ Run(fresh) \in Task \ {Monitor, Exchange} /\ ~Uncounted(Exchange)
      /\ Delete(Run(fresh)) /\ DeleteAnd(Run(fresh), "idle")
      /\ pc' = [pc EXCEPT ![Run(fresh)] = "none", ![Exchange] = "idle"]
      /\ UNCHANGED <<old, current, nextExec, started>>
  BY Tasks
     DEF ConstructorThrows, CannotStart, DeleteAnd, ExchangeInv, TypeOK,
         Uncounted
<1>1. TypeOK'
  BY <1>0, DeleteTypes DEF TypeOK
<1>2. PcInv'
  BY <1>0, Tasks DEF TypeOK, PcInv
<1>3. ExchangeInv'
  BY <1>0, Tasks DEF TypeOK, ExchangeInv, Sending
<1>4. TaskInv'
  BY <1>0, Tasks DEF TypeOK, TaskInv
<1>5. LocksHeld'
  BY <1>0, Tasks, LeftLocked DEF TypeOK, LocksHeld
<1>6. StatsInv'
  BY <1>0, Tasks, LeftLocked DEF TypeOK, StatsInv
<1>7. FramesCounted'
  BY <1>0, DeleteCounts
<1> QED
  BY <1>1, <1>2, <1>3, <1>4, <1>5, <1>6, <1>7

LEMMA DeleteReceiverKeeps ==
  ASSUME IInv, DeleteReceiver
  PROVE  IInv'
<1> USE DEF IInv, exchangeVars, statsVars
<1>0. /\ old \in Exec /\ pc[Exchange] = "deleteReceiver"
      /\ Receiver(old) \in Task \ {Monitor, Exchange} /\ ~Uncounted(Exchange)
      /\ Delete(Receiver(old)) /\ DeleteAnd(Receiver(old), "command")
      /\ pc' = [pc EXCEPT ![Receiver(old)] = "none", ![Exchange] = "command"]
      /\ UNCHANGED exchangeVars
  BY Tasks DEF DeleteReceiver, DeleteAnd, ExchangeInv, TypeOK, Uncounted
<1>1. TypeOK'
  BY <1>0, DeleteTypes DEF TypeOK
<1>2. PcInv'
  BY <1>0, Tasks DEF TypeOK, PcInv, Sending
<1>3. ExchangeInv'
  BY <1>0, Tasks DEF TypeOK, ExchangeInv
<1>4. TaskInv'
  BY <1>0, Tasks DEF TypeOK, TaskInv
<1>5. LocksHeld'
  BY <1>0, Tasks, LeftLocked DEF TypeOK, LocksHeld
<1>6. StatsInv'
  BY <1>0, Tasks, LeftLocked DEF TypeOK, StatsInv
<1>7. FramesCounted'
  BY <1>0, DeleteCounts
<1> QED
  BY <1>1, <1>2, <1>3, <1>4, <1>5, <1>6, <1>7

LEMMA DeleteRunKeeps ==
  ASSUME IInv, DeleteRun
  PROVE  IInv'
<1> USE DEF IInv, exchangeVars, statsVars
<1>0. /\ old \in Exec /\ pc[Exchange] = "deleteRun" /\ old' = 0
      /\ Run(old) \in Task \ {Monitor, Exchange} /\ ~Uncounted(Exchange)
      /\ Delete(Run(old)) /\ DeleteAnd(Run(old), "idle")
      /\ pc' = [pc EXCEPT ![Run(old)] = "none", ![Exchange] = "idle"]
      /\ UNCHANGED <<fresh, current, nextExec, started>>
  BY Tasks DEF DeleteRun, DeleteAnd, ExchangeInv, TypeOK, Uncounted
<1>1. TypeOK'
  BY <1>0, DeleteTypes DEF TypeOK
<1>2. PcInv'
  BY <1>0, Tasks DEF TypeOK, PcInv
<1>3. ExchangeInv'
  BY <1>0, Tasks DEF TypeOK, ExchangeInv, Sending
<1>4. TaskInv'
  BY <1>0, Tasks DEF TypeOK, TaskInv
<1>5. LocksHeld'
  BY <1>0, Tasks, LeftLocked DEF TypeOK, LocksHeld
<1>6. StatsInv'
  BY <1>0, Tasks, LeftLocked DEF TypeOK, StatsInv
<1>7. FramesCounted'
  BY <1>0, DeleteCounts
<1> QED
  BY <1>1, <1>2, <1>3, <1>4, <1>5, <1>6, <1>7

-----------------------------------------------------------------------------
LEMMA RestartKeeps ==
  ASSUME IInv, Restart
  PROVE  IInv'
<1> USE DEF IInv
<1>1. TypeOK'
  <2>1. pc' \in [Task -> {"none", "idle"}] /\ motor' \in [Senders -> 1..Motors]
    BY CanBusAssumption DEF Restart
  <2>3. /\ count' \in [Counter -> Nat] /\ snapshot' \in [Counter -> Nat]
        /\ seen' \in [Task \ {Monitor} -> Nat]
        /\ unreported' \in [Counter -> Int]
    BY DEF Restart, Zero
  <2> QED
    BY <2>1, <2>3 DEF Restart, TypeOK
<1>2. PcInv' /\ TaskInv' /\ StatsInv' /\ LocksHeld'
  BY Tasks DEF Restart, PcInv, TaskInv, StatsInv, LocksHeld
<1>3. ExchangeInv'
  BY Tasks DEF Restart, ExchangeInv, Sending
<1>4. FramesCounted'
  <2> SUFFICES ASSUME NEW c \in Counter PROVE Pending(c)' = 0
    BY DEF Restart, FramesCounted, Zero
  <2>1. Uncounters(c)' = {}
    BY DEF Restart, Uncounters, Uncounted
  <2>2. Pending(c)' = Cardinality(Uncounters(c)')
    BY DEF Pending, Uncounters
  <2> QED
    BY <2>1, <2>2, FS_EmptySet
<1> QED
  BY <1>1, <1>2, <1>3, <1>4

LEMMA StutterKeeps == ASSUME IInv, UNCHANGED vars PROVE IInv'
<1> USE DEF IInv, vars, exchangeVars, statsVars
<1>1. TypeOK' /\ PcInv' /\ ExchangeInv' /\ TaskInv' /\ LocksHeld' /\ StatsInv'
  BY DEF TypeOK, PcInv, ExchangeInv, TaskInv, LocksHeld, StatsInv
<1>2. FramesCounted'
  BY DEF FramesCounted, Pending, Uncounted
<1> QED
  BY <1>1, <1>2

LEMMA SenderKeeps ==
  ASSUME IInv, NEW t \in Senders, SenderStep(t)
  PROVE  IInv'
  BY CommandKeeps, TransmitKeeps, TransmitTimeoutKeeps, LockStatsKeeps,
     EndCommandKeeps
     DEF SenderStep

LEMMA ExecutorKeeps ==
  ASSUME IInv, NEW e \in Exec,
         \/ StartCycle(e) \/ SenderStep(Run(e)) \/ Receive(e)
         \/ ReceiverStep(e)
  PROVE  IInv'
<1>1. Run(e) \in Senders /\ Receiver(e) \in Receivers
  BY Tasks
<1> QED
  BY <1>1, StartCycleKeeps, SenderKeeps, ReceiveKeeps, LockStatsKeeps,
     EndReceiveKeeps, LockFeedbackKeeps, StoreFeedbackKeeps
     DEF ReceiverStep

LEMMA ExchangeKeeps ==
  ASSUME IInv, Begin \/ Continue
  PROVE  IInv'
<1>1. ASSUME ConstructorThrows PROVE IInv'
  <2>1. CASE current = 0
    BY <1>1, <2>1, RestartKeeps DEF ConstructorThrows
  <2>2. CASE current # 0
    BY <1>1, <2>2, ConstructorThrowsKeeps
  <2> QED
    BY <2>1, <2>2
<1> QED
  BY <1>1, ConstructKeeps, StoreKeeps, InitMitKeeps, CreateReceiverKeeps,
     DeleteReceiverKeeps, DeleteRunKeeps, SenderKeeps, Tasks
     DEF Begin, Continue

LEMMA StepIInv == IInv /\ [Next]_vars => IInv'
<1> SUFFICES ASSUME IInv, [Next]_vars PROVE IInv'
  OBVIOUS
<1>1. CASE Begin \/ Continue
  BY <1>1, ExchangeKeeps
<1>2. ASSUME NEW e \in Exec,
             \/ StartCycle(e) \/ SenderStep(Run(e)) \/ Receive(e)
             \/ ReceiverStep(e)
      PROVE  IInv'
  BY <1>2, ExecutorKeeps
<1>3. CASE MonitorStep
  BY <1>3, MonitorLockKeeps, MonitorResetKeeps, MonitorReportKeeps
     DEF MonitorStep
<1>4. CASE UnlockFails
  BY <1>4, RestartKeeps DEF UnlockFails
<1>5. CASE UNCHANGED vars
  BY <1>5, StutterKeeps
<1> QED
  BY <1>1, <1>2, <1>3, <1>4, <1>5 DEF Next

(* The invariants below together, and what makes them inductive: where     *)
(* each task can be, which executor the settings write is at, and that the *)
(* owner of stats_mutex has read what the counters still hold.             *)
THEOREM Invariants == Spec => []IInv
  BY InitIInv, StepIInv, PTL DEF Spec

(* Every variable of the bus stays in its set.                             *)
THEOREM TypeCorrect == Spec => []TypeOK
<1>1. IInv => TypeOK
  BY DEF IInv
<1> QED
  BY <1>1, Invariants, PTL

(* MIT::mutex, stats_mutex and each feedback_mutex_ are held by the task   *)
(* in the critical section, or by nobody that still runs, whatever tasks   *)
(* the settings write deletes there.                                       *)
THEOREM LocksAreHeld == Spec => []LocksHeld
<1>1. IInv => LocksHeld
  BY DEF IInv
<1> QED
  BY <1>1, Invariants, PTL

(* Replacing, removing and failing to build an executor leaves none of its *)
(* tasks behind.                                                           *)
THEOREM TasksHaveExecutors == Spec => []NoStrayTask
<1>1. IInv => NoStrayTask
  BY DEF IInv, TaskInv, NoStrayTask
<1> QED
  BY <1>1, Invariants, PTL

(* The bus load counts every frame of a live task once, for any number of  *)
(* motors, executors and frames.                                           *)
THEOREM FramesAreCounted == Spec => []FramesCounted
<1>1. IInv => FramesCounted
  BY DEF IInv
<1> QED
  BY <1>1, Invariants, PTL
=============================================================================
