------------------------------- MODULE CanBus -------------------------------
(***************************************************************************)
(* The CAN bus below the SR6CAN executors: MIT (the motors' protocol) and  *)
(* TWAI (the driver's wrapper), with every task that meets in their locks. *)
(*                                                                         *)
(*   MIT::mutex         one command at a time, held over TWAI::send        *)
(*   TWAI::stats_mutex  the counters of frames, shared by the senders, the *)
(*                      tasks that receive feedback and the bus-load task  *)
(*   feedback_mutex_    of one executor: its execute() and its receiver    *)
(*                                                                         *)
(* Both destructors delete tasks wherever they are (vTaskDelete), and a    *)
(* mutex whose owner is deleted stays locked.  ExecutorLifecycle has the   *)
(* executors of every kind and their timers; here a settings write builds, *)
(* replaces or removes an SR6CAN executor, whose task runs cycle by cycle. *)
(***************************************************************************)
EXTENDS Integers, FiniteSets

CONSTANTS MaxExecutor,   \* bound: SR6CAN executors built in a behaviour
          Motors,        \* SR6CANServoNum, which is 6
          MaxFrames      \* bound: frames of each direction not yet reported

ASSUME CanBusAssumption == /\ MaxExecutor \in Nat \ {0}
                           /\ Motors \in Nat \ {0}
                           /\ MaxFrames \in [{"tx", "rx"} -> Nat \ {0}]

Exec == 1..MaxExecutor
Run(e) == <<"run", e>>             \* the executor task
Receiver(e) == <<"receive", e>>    \* canReceiveTask
Exchange == <<"exchange", 0>>      \* whoever assigns g_executor
Monitor == <<"monitor", 0>>        \* busLoadMonitorTask
Runs == {Run(e) : e \in Exec}
Receivers == {Receiver(e) : e \in Exec}
Senders == Runs \cup {Exchange}
Task == Senders \cup Receivers \cup {Monitor}
Free == <<"free", 0>>
Lost == <<"lost", 0>>              \* the owner was deleted
Counter == {"tx", "rx"}

VARIABLES pc,          \* where each task is
          motor,       \* the motor a sender has got to
          fresh,       \* the executor under construction, 0 if none
          old,         \* the executor under destruction, 0 if none
          current,     \* g_executor, 0 if it is not an SR6CAN executor
          nextExec,    \* the next executor to build
          started,     \* MIT::initialized, TWAI::initialized and started
          mit,         \* owner of MIT::mutex
          stats,       \* owner of TWAI::stats_mutex
          feedback,    \* owner of an executor's feedback_mutex_
          count,       \* tx_message_count and rx_message_count
          seen,        \* the count a task has read, to be written back
          snapshot,    \* the counts the bus-load task took and has to report
          unreported,  \* history: frames of live tasks not yet reported
          stolen       \* history: a task unlocked a mutex of another one

exchangeVars == <<fresh, old, current, nextExec, started>>
statsVars == <<stats, count, seen, snapshot, unreported, stolen>>
vars == <<pc, motor, exchangeVars, mit, feedback, statsVars>>

Zero == [c \in Counter |-> 0]

Init == /\ pc = [t \in Task |-> IF t = Exchange THEN "idle" ELSE "none"]
        /\ motor = [t \in Senders |-> 1]
        /\ fresh = 0 /\ old = 0 /\ current = 0 /\ nextExec = 1
        /\ started = FALSE
        /\ mit = Free /\ stats = Free
        /\ feedback = [e \in Exec |-> Free]
        /\ count = Zero
        /\ seen = [t \in Task \ {Monitor} |-> 0]
        /\ snapshot = Zero
        /\ unreported = Zero
        /\ stolen = FALSE

Goto(t, to) == pc' = [pc EXCEPT ![t] = to]

(* An assertion fails, or app_main lets an exception through: the CPU      *)
(* restarts.                                                               *)
Restart == /\ pc' = [t \in Task |-> IF t = Exchange THEN "idle" ELSE "none"]
           /\ motor' = [t \in Senders |-> 1]
           /\ fresh' = 0 /\ old' = 0 /\ current' = 0
           /\ started' = FALSE
           /\ mit' = Free /\ stats' = Free
           /\ feedback' = [e \in Exec |-> Free]
           /\ count' = Zero
           /\ seen' = [t \in Task \ {Monitor} |-> 0]
           /\ snapshot' = Zero /\ unreported' = Zero /\ stolen' = FALSE
           /\ UNCHANGED nextExec

-----------------------------------------------------------------------------
(* The statistics.                                                         *)

(* Unlocking a std::mutex the task does not own is undefined: nothing      *)
(* happens, the mutex is taken from its owner, or an assertion of the      *)
(* system fails (Restart, in the actions that can meet it).                *)
Unlock(t) == IF stats = t
               THEN stats' = Free /\ UNCHANGED stolen
               ELSE \/ UNCHANGED <<stats, stolen>>
                    \/ stats' = Free /\ stolen' = (stolen \/ stats # Free)

CounterOf(t) == IF t \in Receivers THEN "rx" ELSE "tx"

(* A theft makes the numbers meaningless; they stay 0 from then on.        *)
Known(n) == IF stolen THEN 0 ELSE n
Sent(c) == /\ unreported[c] < MaxFrames[c]
           /\ unreported' = [unreported EXCEPT ![c] = Known(@ + 1)]

(* updateTxStats and updateRxStats: lock_guard, then a read ...            *)
LockStats(t) ==
  /\ pc[t] = "count"
  /\ stats = Free
  /\ stats' = t
  /\ seen' = [seen EXCEPT ![t] = Known(count[CounterOf(t)])]
  /\ Goto(t, "update")
  /\ UNCHANGED <<motor, exchangeVars, mit, feedback, count, snapshot,
                 unreported, stolen>>

(* ... and a write of each counter, and the end of the guard's scope.      *)
KeepStats(t) == UNCHANGED <<stats, stolen>>
Release(t) == Unlock(t)

Update(t) == /\ count' = [count EXCEPT ![CounterOf(t)] = Known(seen[t] + 1)]
             /\ seen' = [seen EXCEPT ![t] = 0]
             /\ Release(t)
             /\ UNCHANGED <<snapshot, unreported>>

-----------------------------------------------------------------------------
(* Senders: MIT::dynamic_control from execute() and MIT::stop_motor from   *)
(* initMotors and the destructor, once per motor.                          *)

(* What a sender does when the last motor is done; execute() releases      *)
(* feedback_mutex_ and compute_mutex_ then.                                *)
Advance(t) ==
  IF motor[t] < Motors
    THEN /\ motor' = [motor EXCEPT ![t] = motor[t] + 1]
         /\ Goto(t, "command")
         /\ UNCHANGED feedback
    ELSE /\ motor' = [motor EXCEPT ![t] = 1]
         /\ Goto(t, IF t # Exchange THEN "wait"
                   ELSE IF fresh # 0 THEN "createReceiver" ELSE "deleteRun")
         /\ feedback' = [e \in Exec |-> IF feedback[e] = t THEN Free
                                        ELSE feedback[e]]

(* lock_guard(MIT::mutex); without MIT::init the command is refused.       *)
Command(t) ==
  /\ pc[t] = "command"
  /\ mit = Free
  /\ IF started
       THEN /\ mit' = t
            /\ Goto(t, "transmit")
            /\ UNCHANGED <<motor, feedback>>
       ELSE Advance(t) /\ UNCHANGED mit
  /\ UNCHANGED <<exchangeVars, statsVars>>

(* twai_transmit: the frame gets into the transmit queue ...               *)
Transmit(t) ==
  /\ pc[t] = "transmit"
  /\ Sent("tx")
  /\ Goto(t, "count")
  /\ UNCHANGED <<motor, exchangeVars, mit, feedback, stats, count, seen,
                 snapshot, stolen>>

(* ... or not within 20 ms; the callers go on with the next motor.         *)
KeepMit == mit
ReleaseMit == Free

TransmitTimeout(t) ==
  /\ pc[t] = "transmit"
  /\ mit' = ReleaseMit
  /\ Advance(t)
  /\ UNCHANGED <<exchangeVars, statsVars>>

EndCommand(t) ==
  /\ pc[t] = "update"
  /\ Update(t)
  /\ mit' = Free
  /\ Advance(t)
  /\ UNCHANGED exchangeVars

(* The executor task: compute() (which takes compute_mutex_ only) and      *)
(* execute(), which takes feedback_mutex_ for all motors together.         *)
StartCycle(e) ==
  /\ pc[Run(e)] = "wait"
  /\ feedback[e] = Free
  /\ feedback' = [feedback EXCEPT ![e] = Run(e)]
  /\ Goto(Run(e), "command")
  /\ UNCHANGED <<motor, exchangeVars, mit, statsVars>>

SenderStep(t) == \/ Command(t) \/ Transmit(t) \/ TransmitTimeout(t)
                 \/ LockStats(t) \/ EndCommand(t)

-----------------------------------------------------------------------------
(* canReceiveTask.  The receivers of the old and of the new executor take  *)
(* frames from one receive queue: each frame goes to one of them.          *)

Receive(e) ==
  LET t == Receiver(e) IN
  /\ pc[t] = "receive"
  /\ started
  /\ Sent("rx")
  /\ Goto(t, "count")
  /\ UNCHANGED <<motor, exchangeVars, mit, feedback, stats, count, seen,
                 snapshot, stolen>>

(* Command 9 carries a position for motor_position_feedback, others nothing*)
(* the task looks at.                                                      *)
EndReceive(e) ==
  LET t == Receiver(e) IN
  /\ pc[t] = "update"
  /\ Update(t)
  /\ \/ Goto(t, "store")
     \/ Goto(t, "receive")
  /\ UNCHANGED <<motor, exchangeVars, mit, feedback>>

KeepFeedback(e) == Receiver(e)
ReleaseFeedback(e) == Free

LockFeedback(e) ==
  /\ pc[Receiver(e)] = "store"
  /\ feedback[e] = Free
  /\ feedback' = [feedback EXCEPT ![e] = Receiver(e)]
  /\ Goto(Receiver(e), "stored")
  /\ UNCHANGED <<motor, exchangeVars, mit, statsVars>>
StoreFeedback(e) ==
  /\ pc[Receiver(e)] = "stored"
  /\ feedback' = [feedback EXCEPT ![e] = ReleaseFeedback(e)]
  /\ Goto(Receiver(e), "receive")
  /\ UNCHANGED <<motor, exchangeVars, mit, statsVars>>

ReceiverStep(e) == \/ LockStats(Receiver(e)) \/ EndReceive(e)
                   \/ LockFeedback(e) \/ StoreFeedback(e)

-----------------------------------------------------------------------------
(* busLoadMonitorTask, once per second.                                    *)

(* stats_mutex is taken and the counters are read ...                      *)
MonitorLock ==
  /\ pc[Monitor] = "sleep"
  /\ stats = Free
  /\ stats' = Monitor
  /\ snapshot' = [c \in Counter |-> Known(count[c])]
  /\ Goto(Monitor, "reset")
  /\ UNCHANGED <<motor, exchangeVars, mit, feedback, count, seen, unreported,
                 stolen>>

(* ... reset, and stats_mutex is unlocked by a call of the destructor.     *)
ResetCounts == Zero
ResetTxOnly == [count EXCEPT !["tx"] = 0]
ResetTo == ResetCounts

MonitorReset ==
  /\ pc[Monitor] = "reset"
  /\ count' = ResetTo
  /\ Release(Monitor)
  /\ Goto(Monitor, "post")
  /\ UNCHANGED <<motor, exchangeVars, mit, feedback, seen, snapshot,
                 unreported>>

(* The event is posted, or given up after 100 ms and its counts with it.   *)
(* Then the scope of the guard ends and it is destroyed a second time.     *)
EndReport == /\ unreported' = [c \in Counter |->
                                 Known(unreported[c] - snapshot[c])]
             /\ snapshot' = Zero
MonitorReport ==
  /\ pc[Monitor] = "post"
  /\ EndReport
  /\ Unlock(Monitor)
  /\ Goto(Monitor, "sleep")
  /\ UNCHANGED <<motor, exchangeVars, mit, feedback, count, seen>>

MonitorStep == MonitorLock \/ MonitorReset \/ MonitorReport

(* Each unlock by a task that does not own the mutex can fail an assertion.*)
UnlockFails ==
  /\ \/ pc[Monitor] = "post"
     \/ \E t \in Task : pc[t] \in {"update", "reset"} /\ stats # t
  /\ Restart

-----------------------------------------------------------------------------
(* The settings write.                                                     *)

(* vTaskDelete: the task's mutexes stay locked; a frame it had not counted *)
(* will never be.                                                          *)
LeftBehind(t, owner) == IF owner = t THEN Lost ELSE owner
Uncounted(t) == pc[t] \in {"count", "update"}
Delete(t) ==
  /\ mit' = LeftBehind(t, mit)
  /\ stats' = LeftBehind(t, stats)
  /\ feedback' = [e \in Exec |-> LeftBehind(t, feedback[e])]
  /\ unreported' = IF Uncounted(t)
                     THEN [unreported EXCEPT ![CounterOf(t)] = Known(@ - 1)]
                     ELSE unreported
  /\ seen' = [seen EXCEPT ![t] = 0]
  /\ motor' = IF t \in Senders THEN [motor EXCEPT ![t] = 1] ELSE motor
  /\ UNCHANGED <<count, snapshot, stolen>>
DeleteAnd(t, to) == pc' = [pc EXCEPT ![t] = "none", ![Exchange] = to]

(* SR6CANExecutor::SR6CANExecutor; the base class has started the task.    *)
Construct ==
  /\ pc[Exchange] = "idle"
  /\ nextExec \in Exec
  /\ fresh' = nextExec
  /\ nextExec' = nextExec + 1
  /\ pc' = [pc EXCEPT ![Exchange] = "init", ![Run(nextExec)] = "wait"]
  /\ UNCHANGED <<motor, old, current, started, mit, feedback, statsVars>>

(* MIT::init: the first executor installs and starts the driver and the    *)
(* bus-load task, which go on for ever.                                    *)
StartDriverAndReceiver ==
  /\ started' = TRUE
  /\ pc' = [pc EXCEPT ![Exchange] = "command", ![Receiver(fresh)] = "receive",
                      ![Monitor] = IF started THEN @ ELSE "sleep"]
StartDriver == /\ started' = TRUE
               /\ pc' = [pc EXCEPT ![Exchange] = "command",
                                   ![Monitor] = IF started THEN @ ELSE "sleep"]
InitMit ==
  /\ pc[Exchange] = "init"
  /\ mit = Free
  /\ StartDriver
  /\ UNCHANGED <<motor, fresh, old, current, nextExec, mit, feedback, statsVars>>

CreateReceiver ==
  /\ pc[Exchange] = "createReceiver"
  /\ pc' = [pc EXCEPT ![Exchange] = "store", ![Receiver(fresh)] = "receive"]
  /\ UNCHANGED <<motor, exchangeVars, mit, feedback, statsVars>>

(* The driver cannot be installed or there is no memory for the task: an   *)
(* exception, which ends in ~Executor; app_main does not catch it.         *)
CannotStart == pc[Exchange] = "init" /\ ~started /\ mit = Free
ConstructorThrows ==
  /\ CannotStart \/ pc[Exchange] = "createReceiver"
  /\ IF current = 0 THEN Restart
     ELSE /\ Delete(Run(fresh))
          /\ DeleteAnd(Run(fresh), "idle")
          /\ fresh' = 0
          /\ UNCHANGED <<old, current, nextExec, started>>

(* g_executor = ...: with what was built, or with an executor of another   *)
(* kind.                                                                   *)
Store ==
  /\ \/ pc[Exchange] = "store"
     \/ pc[Exchange] = "idle" /\ current # 0
  /\ current' = fresh
  /\ old' = current
  /\ fresh' = 0
  /\ Goto(Exchange, IF current = 0 THEN "idle" ELSE "deleteReceiver")
  /\ UNCHANGED <<motor, nextExec, started, mit, feedback, statsVars>>

(* ~SR6CANExecutor: the receiver is deleted, each motor is sent a stop ... *)
DeleteReceiver ==
  /\ pc[Exchange] = "deleteReceiver"
  /\ Delete(Receiver(old))
  /\ DeleteAnd(Receiver(old), "command")
  /\ UNCHANGED exchangeVars

(* ... and ~Executor deletes the executor task.                            *)
DeleteRun ==
  /\ pc[Exchange] = "deleteRun"
  /\ Delete(Run(old))
  /\ DeleteAnd(Run(old), "idle")
  /\ old' = 0
  /\ UNCHANGED <<fresh, current, nextExec, started>>

Begin == Construct \/ (pc[Exchange] = "idle" /\ Store)
Continue == \/ InitMit \/ CreateReceiver \/ ConstructorThrows
            \/ (pc[Exchange] = "store" /\ Store)
            \/ DeleteReceiver \/ DeleteRun \/ SenderStep(Exchange)

-----------------------------------------------------------------------------
Next == \/ Begin \/ Continue
        \/ \E e \in Exec : \/ StartCycle(e) \/ SenderStep(Run(e))
                           \/ Receive(e) \/ ReceiverStep(e)
        \/ MonitorStep
        \/ UnlockFails

Spec == Init /\ [][Next]_vars

(* Nothing spins, and FreeRTOS hands a mutex to the task that waits for it;*)
(* the timer of an executor ticks on.  The bus does not refuse every frame *)
(* for ever; nobody promises that a motor answers.                         *)
FairSpec == /\ Spec
            /\ SF_vars(Continue)
            /\ \A e \in Exec : /\ SF_vars(StartCycle(e) \/ SenderStep(Run(e)))
                               /\ SF_vars(ReceiverStep(e))
            /\ SF_vars(MonitorStep)

-----------------------------------------------------------------------------
(* Properties.                                                             *)

(* Every variable stays in its set.                                        *)
TypeOK ==
  /\ pc \in [Task -> {"none", "idle", "init", "command", "transmit", "count",
                      "update", "createReceiver", "store", "stored", "wait",
                      "deleteReceiver", "deleteRun", "receive", "sleep",
                      "reset", "post"}]
  /\ motor \in [Senders -> 1..Motors]
  /\ fresh \in Exec \cup {0} /\ old \in Exec \cup {0}
  /\ current \in Exec \cup {0} /\ nextExec \in 1..MaxExecutor + 1
  /\ started \in BOOLEAN /\ stolen \in BOOLEAN
  /\ mit \in Senders \cup {Free, Lost}
  /\ stats \in Task \cup {Free, Lost}
  /\ feedback \in [Exec -> Task \cup {Free, Lost}]
  /\ count \in [Counter -> Nat] /\ snapshot \in [Counter -> Nat]
  /\ seen \in [Task \ {Monitor} -> Nat]
  /\ unreported \in [Counter -> Int]

(* A mutex is held exactly by the task that is in its critical section, or *)
(* was deleted there: stats_mutex as long as the second unlock of the      *)
(* bus-load task took it from nobody.                                      *)
LocksHeld ==
  /\ \A t \in Senders : mit = t <=> pc[t] \in {"transmit", "count", "update"}
  /\ ~stolen => \A t \in Task : stats = t <=> pc[t] \in {"update", "reset"}
  /\ \A e \in Exec :
       /\ feedback[e] = Run(e) <=> pc[Run(e)] \notin {"none", "wait"}
       /\ feedback[e] = Receiver(e) <=> pc[Receiver(e)] = "stored"

(* No task outlives its executor, whether the constructor threw or another *)
(* executor took its place.                                                *)
NoStrayTask ==
  \A e \in Exec : (pc[Run(e)] # "none" \/ pc[Receiver(e)] # "none") =>
                  e \in {fresh, old, current}

Pending(c) == Cardinality({t \in Task \ {Monitor} :
                             CounterOf(t) = c /\ Uncounted(t)})

(* The reported bus load counts every frame of a live task exactly once,   *)
(* whatever the order of sends, feedback, snapshots and deletions, as long *)
(* as the second unlock of the bus-load task took the mutex from nobody.   *)
FramesCounted ==
  ~stolen => \A c \in Counter :
               unreported[c] = Pending(c) + count[c] +
                 (IF pc[Monitor] = "reset" THEN 0 ELSE snapshot[c])

(* A mutex that everything else on the bus needs was left locked.          *)
Stuck == mit = Lost \/ stats = Lost

(* A settings write that builds, replaces or removes an SR6CAN executor    *)
(* ends, although it sends commands on the bus the executor tasks, the     *)
(* receivers and the bus-load task use - unless a deleted task left        *)
(* MIT::mutex or stats_mutex locked, which ends all sending.               *)
CanExchangeEnds == pc[Exchange] # "idle" ~> (pc[Exchange] = "idle" \/ Stuck)

Installed == pc[Exchange] = "idle" /\ current # 0

(* An executor that stays installed goes on commanding its motors: the     *)
(* receivers, the bus-load task and the deletion of the previous executor's*)
(* receiver do not keep it from its locks, unless the bus is stuck.        *)
InstalledDrives ==
  Installed ~> (Installed => pc[Run(current)] = "transmit" \/ Stuck)

(* ... and the positions its motors report get stored, although execute()  *)
(* holds feedback_mutex_ over the commands to all motors.                  *)
FeedbackStored ==
  Installed /\ pc[Receiver(current)] = "store" ~>
    (Installed => pc[Receiver(current)] = "stored" \/ Stuck)
=============================================================================
