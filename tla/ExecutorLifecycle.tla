------------------------- MODULE ExecutorLifecycle -------------------------
(***************************************************************************)
(* The life of an Executor: its timer, its executor task, the event handler*)
(* it registers and the outputs it drives, while a settings write builds   *)
(* the next one, stores it in g_executor and destroys the previous one.    *)
(*                                                                         *)
(* Outputs are the LEDC channels of the OSR, SR6, TrRMax and O6 executors  *)
(* ("pwm") and the motors of SR6CAN on the CAN bus ("can"); all channels of*)
(* a kind are handled alike and one stands for them.  The parser task and  *)
(* exchanges that overlap are in PacketPipeline; here one task at a time   *)
(* replaces g_executor.  The task that receives motor feedback and the other*)
(* locks of the CAN bus are in CanBus.                                     *)
(***************************************************************************)
EXTENDS Naturals, Sequences

CONSTANTS MaxExecutor,     \* bound: executors built in a behaviour
          EventQueueSize   \* length of the default event loop's queue

ASSUME LifecycleAssumption == /\ MaxExecutor \in Nat \ {0}
                              /\ EventQueueSize \in Nat \ {0}

Exec == 1..MaxExecutor
Kind == {"pwm", "can"}
Lost == MaxExecutor + 1   \* owner of a mutex whose owner was deleted

VARIABLES pc,         \* where the task that replaces g_executor is
          fresh,      \* the executor it builds, 0 if none
          old,        \* the executor it destroys, 0 if none
          current,    \* g_executor, 0 for nullptr
          nextExec,   \* the next executor to build
          booted,     \* app_main has stored the first executor
          threw,      \* history: the last createExecutor threw
          kind,       \* the class of an executor
          phase,      \* how much of an executor is constructed
          timer,      \* whether an executor's timer runs
          tick,       \* its semaphore
          task,       \* where its executor task is
          handler,    \* argument of the registered eventHandler, 0 if none
          events,     \* queue of the default event loop
          loop,       \* where the event loop task is
          mit,        \* owner of MIT::mutex: 0, an executor, Lost
          driver,     \* who commanded an output last, 0 if it was stopped since
          ledcTimer   \* the executor whose frequency LEDC_TIMER_0 has

changeVars == <<pc, fresh, old, current, nextExec, booted, threw>>
objectVars == <<kind, phase, timer>>
eventVars == <<handler, events, loop>>
outputVars == <<mit, driver, ledcTimer>>
vars == <<changeVars, objectVars, tick, task, eventVars, outputVars>>

Init == /\ pc = "idle"
        /\ fresh = 0
        /\ old = 0
        /\ current = 0
        /\ nextExec = 1
        /\ booted = FALSE
        /\ threw = FALSE
        /\ kind = [e \in Exec |-> "pwm"]
        /\ phase = [e \in Exec |-> "none"]
        /\ timer = [e \in Exec |-> FALSE]
        /\ tick = [e \in Exec |-> FALSE]
        /\ task = [e \in Exec |-> "none"]
        /\ handler = 0
        /\ events = <<>>
        /\ loop = "idle"
        /\ mit = 0
        /\ driver = [k \in Kind |-> 0]
        /\ ledcTimer = 0

(* The CPU restarts and app_main begins again: an exception in app_main or *)
(* a call of compute() or execute() on an executor that is only an Executor*)
(* (the base class, where they are pure virtual).                          *)
Restart ==
  /\ pc' = "idle" /\ fresh' = 0 /\ old' = 0 /\ current' = 0
  /\ booted' = FALSE /\ threw' = FALSE
  /\ phase' = [e \in Exec |-> IF e < nextExec THEN "gone" ELSE "none"]
  /\ timer' = [e \in Exec |-> FALSE]
  /\ tick' = [e \in Exec |-> FALSE]
  /\ task' = [e \in Exec |-> "none"]
  /\ handler' = 0 /\ events' = <<>> /\ loop' = "idle"
  /\ mit' = 0 /\ driver' = [k \in Kind |-> 0] /\ ledcTimer' = 0
  /\ UNCHANGED <<nextExec, kind>>

-----------------------------------------------------------------------------
(* Construction.                                                           *)

(* esp_event_handler_register: the handler is the same function every time,*)
(* so that the loop keeps one registration and replaces its argument.      *)
RegisterOnce(e) == IF handler = 0 THEN e ELSE handler
Register(e) == e

(* Executor::Executor, from the semaphore to the start of the timer.       *)
TimerNotStarted == FALSE
TimerStarted == TRUE

BaseConstruct ==
  LET e == nextExec IN
  /\ pc = "idle"
  /\ e \in Exec
  /\ \E k \in Kind : kind' = [kind EXCEPT ![e] = k]
  /\ phase' = [phase EXCEPT ![e] = "base"]
  /\ timer' = [timer EXCEPT ![e] = TimerStarted]
  /\ task' = [task EXCEPT ![e] = "wait"]
  /\ handler' = Register(e)
  /\ nextExec' = e + 1
  /\ fresh' = e
  /\ pc' = "base"
  /\ UNCHANGED <<old, current, booted, threw, tick, events, loop, outputVars>>

(* It throws: everything is released but the registration, if it got so    *)
(* far.  In app_main nothing catches the exception.                        *)
BaseThrows ==
  LET e == nextExec IN
  /\ pc = "idle"
  /\ booted
  /\ e \in Exec
  /\ handler' \in {handler, Register(e)}
  /\ phase' = [phase EXCEPT ![e] = "gone"]
  /\ nextExec' = e + 1
  /\ threw' = TRUE
  /\ UNCHANGED <<pc, fresh, old, current, booted, kind, timer, tick, task,
                 events, loop, outputVars>>

(* createExecutor of a MODE that is not supported: nullptr.                *)
CreateNothing ==
  /\ pc = "idle"
  /\ fresh' = 0
  /\ pc' = "store"
  /\ UNCHANGED <<old, current, nextExec, booted, threw, objectVars, tick, task,
                 eventVars, outputVars>>

(* The base constructor returns and the derived one begins: from here on   *)
(* compute() and execute() are those of the derived class.                 *)
EnterDerived ==
  /\ pc = "base"
  /\ phase' = [phase EXCEPT ![fresh] = "derived"]
  /\ pc' = "derived"
  /\ UNCHANGED <<fresh, old, current, nextExec, booted, threw, kind, timer,
                 tick, task, eventVars, outputVars>>

(* initLEDC and the LEDCActuators: the timer gets this frequency, and the  *)
(* channels, which the previous executor uses too, duty 0.                 *)
ConfigurePwm ==
  /\ pc = "derived"
  /\ kind[fresh] = "pwm"
  /\ ledcTimer' = fresh
  /\ driver' = [driver EXCEPT !["pwm"] = 0]
  /\ pc' = "configured"
  /\ UNCHANGED <<fresh, old, current, nextExec, booted, threw, objectVars,
                 tick, task, eventVars, mit>>

(* stop_motor for each motor.  TWAI::send gives up after 20 ms without room*)
(* in the transmit queue; the callers go on.                               *)
StopMotors == driver' \in {driver, [driver EXCEPT !["can"] = 0]}

(* MIT::init and initMotors: both take MIT::mutex.                         *)
ConfigureCan ==
  /\ pc = "derived"
  /\ kind[fresh] = "can"
  /\ mit = 0
  /\ StopMotors
  /\ pc' = "configured"
  /\ UNCHANGED <<fresh, old, current, nextExec, booted, threw, objectVars,
                 tick, task, eventVars, mit, ledcTimer>>

Constructed ==
  /\ pc = "configured"
  /\ phase' = [phase EXCEPT ![fresh] = "built"]
  /\ pc' = "store"
  /\ UNCHANGED <<fresh, old, current, nextExec, booted, threw, kind, timer,
                 tick, task, eventVars, outputVars>>

(* A frequency outside 50..333 Hz, no RMT channel left, a driver that      *)
(* cannot be installed, no memory for a task.  The actuators built so far  *)
(* are reset (ledc_stop) and ~Executor runs.                               *)
DerivedThrows ==
  /\ pc \in {"derived", "configured"}
  /\ IF booted
       THEN /\ threw' = TRUE
            /\ phase' = [phase EXCEPT ![fresh] = "baseDying"]
            /\ driver' = IF pc = "configured" /\ kind[fresh] = "pwm"
                         THEN [driver EXCEPT !["pwm"] = 0] ELSE driver
            /\ old' = fresh
            /\ fresh' = 0
            /\ pc' = "stopTimer"
            /\ UNCHANGED <<current, nextExec, booted, kind, timer, tick, task,
                           eventVars, mit, ledcTimer>>
       ELSE Restart

(* g_executor = createExecutor(...)                                        *)
DestroyIfAny == IF current = 0 THEN "idle" ELSE "destroy"

Store ==
  /\ pc = "store"
  /\ current' = fresh
  /\ fresh' = 0
  /\ old' = current
  /\ booted' = TRUE
  /\ threw' = FALSE
  /\ pc' = DestroyIfAny
  /\ UNCHANGED <<nextExec, objectVars, tick, task, eventVars, outputVars>>

-----------------------------------------------------------------------------
(* Destruction of the previous executor, or of one whose constructor threw.*)

(* The derived destructor: actuators are reset, which stops the LEDC       *)
(* channels (also those of the new executor), or the motors are stopped.   *)
DestroyPwm ==
  /\ pc = "destroy"
  /\ kind[old] = "pwm"
  /\ phase' = [phase EXCEPT ![old] = "dying"]
  /\ driver' = [driver EXCEPT !["pwm"] = 0]
  /\ pc' = "baseDestroy"
  /\ UNCHANGED <<fresh, old, current, nextExec, booted, threw, kind, timer,
                 tick, task, eventVars, mit, ledcTimer>>

DestroyCan ==
  /\ pc = "destroy"
  /\ kind[old] = "can"
  /\ mit = 0
  /\ phase' = [phase EXCEPT ![old] = "dying"]
  /\ StopMotors
  /\ pc' = "baseDestroy"
  /\ UNCHANGED <<fresh, old, current, nextExec, booted, threw, kind, timer,
                 tick, task, eventVars, mit, ledcTimer>>

(* ~Executor begins: compute() and execute() are pure virtual again.       *)
EnterBaseDestructor ==
  /\ pc = "baseDestroy"
  /\ phase' = [phase EXCEPT ![old] = "baseDying"]
  /\ pc' = "stopTimer"
  /\ UNCHANGED <<fresh, old, current, nextExec, booted, threw, kind, timer,
                 tick, task, eventVars, outputVars>>

(* taskRunning = false, esp_timer_stop, xSemaphoreGive ...                 *)
StopTimer ==
  /\ pc = "stopTimer"
  /\ timer' = [timer EXCEPT ![old] = FALSE]
  /\ tick' = [tick EXCEPT ![old] = TRUE]
  /\ pc' = "deleteTask"
  /\ UNCHANGED <<fresh, old, current, nextExec, booted, threw, kind, phase,
                 task, eventVars, outputVars>>

(* ... and vTaskDelete at once, wherever the task is.  A mutex it holds    *)
(* stays locked.  If it has already left its loop and deleted itself, its  *)
(* handle is stale: nothing more happens, or the CPU restarts.             *)
TaskLeft(e) == task[e]
TaskRemoved(e) == "none"

DeleteTask ==
  /\ pc = "deleteTask"
  /\ \/ /\ task' = [task EXCEPT ![old] = TaskRemoved(old)]
        /\ tick' = [tick EXCEPT ![old] = FALSE]
        /\ phase' = [phase EXCEPT ![old] = "gone"]
        /\ mit' = IF mit = old THEN Lost ELSE mit
        /\ old' = 0
        /\ pc' = "idle"
        /\ UNCHANGED <<fresh, current, nextExec, booted, threw, kind, timer,
                       eventVars, driver, ledcTimer>>
     \/ /\ task[old] = "none"
        /\ Restart

(* A settings write that has begun runs on to its end.                     *)
Begin == BaseConstruct \/ BaseThrows \/ CreateNothing
Continue == \/ EnterDerived \/ ConfigurePwm \/ ConfigureCan \/ Constructed
            \/ DerivedThrows \/ Store \/ DestroyPwm \/ DestroyCan
            \/ EnterBaseDestructor \/ StopTimer \/ DeleteTask

-----------------------------------------------------------------------------
(* The timer and the executor task.                                        *)

Tick(e) ==
  /\ timer[e]
  /\ ~tick[e]
  /\ tick' = [tick EXCEPT ![e] = TRUE]
  /\ UNCHANGED <<changeVars, objectVars, task, eventVars, outputVars>>

Goto(e, to) == task' = [task EXCEPT ![e] = to]

Take(e) ==
  /\ task[e] = "wait"
  /\ tick[e]
  /\ tick' = [tick EXCEPT ![e] = FALSE]
  /\ Goto(e, "startCompute")
  /\ UNCHANGED <<changeVars, objectVars, eventVars, outputVars>>

(* taskRunning is looked at when a cycle is over.                          *)
Stopping(e) == e = old /\ pc = "deleteTask"

After(e) == CASE task[e] = "startCompute" -> "compute"
              [] task[e] = "endCompute" -> "startExecute"
              [] task[e] = "startExecute" -> "execute"
              [] task[e] = "endExecute" -> IF Stopping(e) THEN "none" ELSE "wait"

(* sendComputeEvent and sendExecuteEvent wait for room without a limit.    *)
Posting(e) == task[e] \in {"startCompute", "endCompute", "startExecute",
                           "endExecute"}
Post(e) ==
  /\ Posting(e)
  /\ Len(events) < EventQueueSize
  /\ events' = Append(events, "cycle")
  /\ Goto(e, After(e))
  /\ UNCHANGED <<changeVars, objectVars, tick, handler, loop, outputVars>>

Whole(e) == phase[e] \in {"derived", "built", "dying"}

Compute(e) ==
  /\ task[e] = "compute"
  /\ IF Whole(e)
       THEN /\ Goto(e, "endCompute")
            /\ UNCHANGED <<changeVars, objectVars, tick, eventVars, outputVars>>
       ELSE Restart

(* execute() with LEDC: ledc_update_duty starts the channel if it was      *)
(* stopped.  In the derived constructor the actuators may not exist yet.   *)
(* If its actuators are reset while it uses them the behaviour is          *)
(* undefined: nothing is driven, or the CPU restarts.                      *)
ExecutePwm(e) ==
  /\ task[e] = "execute"
  /\ kind[e] = "pwm"
  /\ \/ /\ phase[e] \in {"derived", "built"}
        /\ driver' = [driver EXCEPT !["pwm"] = e]
        /\ Goto(e, "endExecute")
        /\ UNCHANGED <<changeVars, objectVars, tick, eventVars, mit, ledcTimer>>
     \/ /\ phase[e] \in {"derived", "dying"}
        /\ Goto(e, "endExecute")
        /\ UNCHANGED <<changeVars, objectVars, tick, eventVars, outputVars>>
     \/ /\ phase[e] \in {"dying", "base", "baseDying"}
        /\ Restart

(* execute() with motors: MIT::dynamic_control takes MIT::mutex ...        *)
ExecuteCan(e) ==
  /\ task[e] = "execute"
  /\ kind[e] = "can"
  /\ IF Whole(e)
       THEN /\ mit = 0
            /\ mit' = e
            /\ Goto(e, "send")
            /\ UNCHANGED <<changeVars, objectVars, tick, eventVars, driver,
                           ledcTimer>>
       ELSE Restart

(* ... and holds it in TWAI::send until the frame is in the transmit queue *)
(* or 20 ms are over.                                                      *)
KeepMutex(e) == e
ReleaseMutex(e) == 0

EndSend(e) ==
  /\ task[e] = "send"
  /\ mit' = ReleaseMutex(e)
  /\ Goto(e, "endExecute")
  /\ UNCHANGED <<changeVars, objectVars, tick, eventVars, ledcTimer>>
Send(e) == driver' = [driver EXCEPT !["can"] = e] /\ EndSend(e)
SendTimeout(e) == UNCHANGED driver /\ EndSend(e)

ExecutorTask(e) == \/ Take(e) \/ Post(e) \/ Compute(e) \/ ExecutePwm(e)
                   \/ ExecuteCan(e) \/ Send(e) \/ SendTimeout(e)

-----------------------------------------------------------------------------
(* The default event loop.                                                 *)

(* eventHandler; once a window of EXECUTOR_STATS_WINDOW_SECONDS is over it *)
(* prints and posts MOTION_EVENT_STATS to the queue it is served from ...  *)
HandleEvent ==
  /\ loop = "idle"
  /\ events # <<>>
  /\ events' = Tail(events)
  /\ \/ loop' = "idle"
     \/ Head(events) = "cycle" /\ loop' = "stats"
  /\ UNCHANGED <<changeVars, objectVars, tick, task, handler, outputVars>>

PostStats ==
  /\ loop = "stats"
  /\ Len(events) < EventQueueSize
  /\ events' = Append(events, "stats")
  /\ loop' = "idle"
  /\ UNCHANGED <<changeVars, objectVars, tick, task, handler, outputVars>>

(* ... and gives up after 100 ms.                                          *)
NeverGivesUp == FALSE
GivesUp == loop = "stats" /\ Len(events) = EventQueueSize

PostStatsTimeout ==
  /\ GivesUp
  /\ loop' = "idle"
  /\ UNCHANGED <<changeVars, objectVars, tick, task, handler, events,
                 outputVars>>

EventLoop == HandleEvent \/ PostStats \/ PostStatsTimeout

-----------------------------------------------------------------------------
Next == \/ Begin
        \/ Continue
        \/ \E e \in Exec : Tick(e) \/ ExecutorTask(e)
        \/ EventLoop

Spec == Init /\ [][Next]_vars

(* Nothing spins.  MIT::mutex is handed to the highest-priority waiter and *)
(* is held for one frame; a full event queue wakes the task that waits for *)
(* room, and the statistics fill it once per window only.  The CAN bus does*)
(* not refuse every frame.                                                 *)
FairSpec == /\ Spec
            /\ SF_vars(Continue)
            /\ WF_vars(EventLoop)
            /\ \A e \in Exec : /\ WF_vars(Tick(e))
                               /\ SF_vars(ExecutorTask(e))
                               /\ SF_vars(Send(e))

-----------------------------------------------------------------------------
(* Properties.                                                             *)

(* Every variable stays in its set; an executor under construction and one *)
(* under destruction exist exactly while somebody builds or destroys them. *)
TypeOK ==
  /\ pc \in {"idle", "base", "derived", "configured", "store", "destroy",
             "baseDestroy", "stopTimer", "deleteTask"}
  /\ fresh \in Exec \cup {0} /\ old \in Exec \cup {0}
  /\ current \in Exec \cup {0}
  /\ nextExec \in 1..MaxExecutor + 1
  /\ booted \in BOOLEAN /\ threw \in BOOLEAN
  /\ kind \in [Exec -> Kind]
  /\ phase \in [Exec -> {"none", "base", "derived", "built", "dying",
                         "baseDying", "gone"}]
  /\ timer \in [Exec -> BOOLEAN] /\ tick \in [Exec -> BOOLEAN]
  /\ task \in [Exec -> {"none", "wait", "startCompute", "compute",
                        "endCompute", "startExecute", "execute", "send",
                        "endExecute"}]
  /\ handler \in Exec \cup {0}
  /\ events \in Seq({"cycle", "stats"}) /\ Len(events) <= EventQueueSize
  /\ loop \in {"idle", "stats"}
  /\ mit \in Exec \cup {0, Lost}
  /\ driver \in [Kind -> Exec \cup {0}]
  /\ ledcTimer \in Exec \cup {0}
  /\ pc = "idle" => fresh = 0 /\ old = 0
  /\ pc \in {"base", "derived", "configured"} => fresh # 0
  /\ pc \in {"destroy", "baseDestroy", "stopTimer", "deleteTask"} => old # 0

(* When nobody is replacing g_executor, the timers that run and the        *)
(* executor tasks that exist are those of g_executor, which is whole: no   *)
(* compute() or execute() reaches an executor that was destroyed or whose  *)
(* constructor threw.                                                      *)
OneTicker ==
  pc = "idle" =>
    /\ {e \in Exec : timer[e]} = {current} \ {0}
    /\ {e \in Exec : task[e] # "none"} = {current} \ {0}
    /\ current # 0 => phase[current] = "built"

(* When nobody is replacing g_executor and the last createExecutor did not *)
(* throw, what every constructor sets for the whole chip is set for        *)
(* g_executor: the argument of the event handler and the frequency of      *)
(* LEDC_TIMER_0.  After an exception both can belong to an executor that   *)
(* no longer exists while the previous one goes on.                        *)
SharedSetForCurrent ==
  pc = "idle" /\ ~threw /\ current # 0 =>
    /\ handler = current
    /\ kind[current] = "pwm" => ledcTimer = current

(* An executor that stays installed drives its outputs, although the       *)
(* destructor of the previous one has just stopped them - unless a task was*)
(* deleted while it held MIT::mutex.                                       *)
DrivenAgain ==
  \A e \in Exec :
    (pc = "idle" /\ current = e) ~>
      (driver[kind[e]] = e \/ pc # "idle" \/ current # e \/ mit = Lost)

(* A settings write that replaces g_executor ends, although it waits for a *)
(* mutex the executor tasks use - unless a task was deleted while it held  *)
(* MIT::mutex.                                                             *)
ReplacementEnds == pc # "idle" ~> (pc = "idle" \/ mit = Lost)

(* The event loop never waits for itself: it is the only task that empties *)
(* the queue it posts the statistics to.                                   *)
LoopGoesOn == loop = "stats" ~> loop = "idle"
=============================================================================
