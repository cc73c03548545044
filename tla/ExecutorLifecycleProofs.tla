----------------------- MODULE ExecutorLifecycleProofs -----------------------
(***************************************************************************)
(* Theorems about ExecutorLifecycle, for every value of its constants: any *)
(* number of executors and any length of the event queue.                  *)
(***************************************************************************)
EXTENDS ExecutorLifecycle, TLAPS

(* What is being built, destroyed and used are different executors; their  *)
(* timers run and their tasks exist, but for the one whose timer has been  *)
(* stopped.                                                                *)
LifeInv ==
  /\ fresh # 0 => /\ old = 0 /\ fresh # current
                  /\ pc \in {"base", "derived", "configured", "store"}
  /\ old # 0 => /\ old # current
                /\ pc \in {"destroy", "baseDestroy", "stopTimer", "deleteTask"}
  /\ fresh < nextExec /\ old < nextExec /\ current < nextExec
  /\ \A e \in Exec : timer[e] <=> \/ e = fresh \/ e = current
                                  \/ e = old /\ pc # "deleteTask"
  /\ \A e \in Exec : task[e] # "none" => e = fresh \/ e = old \/ e = current
  /\ \A e \in Exec : e = fresh \/ e = current => task[e] # "none"
  /\ current # 0 => phase[current] = "built"
  /\ pc = "store" /\ fresh # 0 => phase[fresh] = "built"

(* The executor that was built last has set what is set for the whole chip.*)
SharedInv ==
  /\ fresh # 0 => handler = fresh
  /\ fresh # 0 /\ pc \in {"configured", "store"} /\ kind[fresh] = "pwm" =>
       ledcTimer = fresh
  /\ fresh = 0 /\ pc # "store" /\ ~threw /\ current # 0 =>
       /\ handler = current
       /\ kind[current] = "pwm" => ledcTimer = current

IInv == TypeOK /\ LifeInv /\ SharedInv

-----------------------------------------------------------------------------
LEMMA IInvInit == Init => IInv
<1> SUFFICES ASSUME Init PROVE IInv
  OBVIOUS
<1> USE LifecycleAssumption DEF Init, Exec, Kind
<1>1. TypeOK
  <2>1. /\ kind \in [Exec -> Kind]
        /\ phase \in [Exec -> {"none"}] /\ task \in [Exec -> {"none"}]
    OBVIOUS
  <2>3. /\ timer \in [Exec -> BOOLEAN] /\ tick \in [Exec -> BOOLEAN]
        /\ driver \in [Kind -> {0}]
    OBVIOUS
  <2>4. nextExec \in 1..MaxExecutor + 1
    OBVIOUS
  <2>2. events \in Seq({"cycle", "stats"}) /\ Len(events) <= EventQueueSize
    OBVIOUS
  <2> QED
    BY <2>1, <2>2, <2>3, <2>4 DEF TypeOK
<1>2. LifeInv /\ SharedInv
  BY DEF LifeInv, SharedInv
<1> QED
  BY <1>1, <1>2 DEF IInv

(* Nothing of the old world is left after a restart.                       *)
LEMMA RestartKeepsType == TypeOK /\ Restart => TypeOK'
<1> SUFFICES ASSUME TypeOK, Restart PROVE TypeOK'
  OBVIOUS
<1> USE LifecycleAssumption DEF Restart
<1>1. /\ phase' \in [Exec -> {"none", "gone"}] /\ task' \in [Exec -> {"none"}]
      /\ timer' \in [Exec -> BOOLEAN] /\ tick' \in [Exec -> BOOLEAN]
      /\ driver' \in [Kind -> {0}]
  OBVIOUS
<1>2. events' \in Seq({"cycle", "stats"}) /\ Len(events') <= EventQueueSize
  OBVIOUS
<1> QED
  BY <1>1, <1>2 DEF TypeOK

LEMMA RestartKeepsLife == TypeOK /\ Restart => LifeInv' /\ SharedInv'
  BY LifecycleAssumption DEF Restart, TypeOK, LifeInv, SharedInv, Exec

(* What execute() does short of restarting the CPU.                        *)
LEMMA ExecutePwmRunsOn ==
  ASSUME NEW e, ExecutePwm(e), ~Restart
  PROVE  /\ task' = [task EXCEPT ![e] = "endExecute"] /\ task[e] = "execute"
         /\ driver' \in {driver, [driver EXCEPT !["pwm"] = e]}
         /\ UNCHANGED <<changeVars, objectVars, tick, eventVars>>
         /\ UNCHANGED <<mit, ledcTimer>>
  BY DEF ExecutePwm, Goto, outputVars

(* Types.                                                                  *)
LEMMA TypeStep == IInv /\ [Next]_vars => TypeOK'
<1> SUFFICES ASSUME IInv, [Next]_vars PROVE TypeOK'
  OBVIOUS
<1>0. TypeOK
  BY DEF IInv
<1> USE LifecycleAssumption
    DEF IInv, TypeOK, changeVars, objectVars, eventVars, outputVars, Exec,
        Kind, Lost
<1>1. CASE BaseConstruct
  BY <1>1 DEF BaseConstruct, TimerStarted, Register
<1>2. CASE BaseThrows
  BY <1>2 DEF BaseThrows, Register
<1>3. CASE CreateNothing
  BY <1>3 DEF CreateNothing
<1>4. CASE EnterDerived
  BY <1>4 DEF EnterDerived
<1>5. CASE ConfigurePwm
  BY <1>5 DEF ConfigurePwm
<1>6. CASE ConfigureCan
  BY <1>6 DEF ConfigureCan, StopMotors
<1>7. CASE Constructed
  BY <1>7 DEF Constructed
<1>8. CASE DerivedThrows
  <2>1. CASE Restart
    BY <1>0, <2>1, RestartKeepsType
  <2>2. CASE ~Restart
    <3>1. fresh \in Exec /\ phase' = [phase EXCEPT ![fresh] = "baseDying"]
      BY <1>8, <2>2 DEF DerivedThrows
    <3>2. driver' \in [Kind -> Exec \cup {0}]
      BY <1>8, <2>2 DEF DerivedThrows
    <3> QED
      BY <1>8, <2>2, <3>1, <3>2 DEF DerivedThrows
  <2> QED
    BY <2>1, <2>2
<1>9. CASE Store
  BY <1>9 DEF Store, DestroyIfAny
<1>10. CASE DestroyPwm
  BY <1>10 DEF DestroyPwm
<1>11. CASE DestroyCan
  BY <1>11 DEF DestroyCan, StopMotors
<1>12. CASE EnterBaseDestructor
  BY <1>12 DEF EnterBaseDestructor
<1>13. CASE StopTimer
  BY <1>13 DEF StopTimer
<1>14. CASE DeleteTask
  <2>1. CASE Restart
    BY <1>0, <2>1, RestartKeepsType
  <2>2. CASE ~Restart
    <3>1. /\ task' = [task EXCEPT ![old] = "none"]
          /\ tick' = [tick EXCEPT ![old] = FALSE]
          /\ phase' = [phase EXCEPT ![old] = "gone"]
          /\ mit' \in {mit, Lost}
          /\ old' = 0 /\ pc' = "idle" /\ fresh = 0
          /\ UNCHANGED <<fresh, current, nextExec, booted, threw, kind, timer,
                         eventVars, driver, ledcTimer>>
      BY <1>14, <2>2 DEF DeleteTask, TaskRemoved, LifeInv
    <3> QED
      BY <3>1
  <2> QED
    BY <2>1, <2>2
<1>15. ASSUME NEW e \in Exec, Tick(e) PROVE TypeOK'
  BY <1>15 DEF Tick
<1>16. ASSUME NEW e \in Exec, Take(e) PROVE TypeOK'
  BY <1>16 DEF Take, Goto
<1>17. ASSUME NEW e \in Exec, Post(e) PROVE TypeOK'
  <2>1. events' \in Seq({"cycle", "stats"}) /\ Len(events') <= EventQueueSize
    BY <1>0, <1>17 DEF Post
  <2>2. After(e) \in {"none", "wait", "compute", "startExecute", "execute"}
    BY <1>17 DEF Post, Posting, After
  <2>3. task' = [task EXCEPT ![e] = After(e)]
    BY <1>17 DEF Post, Goto
  <2> QED
    BY <1>0, <1>17, <2>1, <2>2, <2>3 DEF Post
<1>18. ASSUME NEW e \in Exec, Compute(e) PROVE TypeOK'
  <2>1. CASE Restart
    BY <1>0, <2>1, RestartKeepsType
  <2>2. CASE ~Restart
    BY <1>18, <2>2 DEF Compute, Goto
  <2> QED
    BY <2>1, <2>2
<1>19. ASSUME NEW e \in Exec, ExecutePwm(e) PROVE TypeOK'
  <2>1. CASE Restart
    BY <1>0, <2>1, RestartKeepsType
  <2>2. CASE ~Restart
    <3>1. /\ task' = [task EXCEPT ![e] = "endExecute"] /\ task[e] = "execute"
          /\ driver' \in {driver, [driver EXCEPT !["pwm"] = e]}
          /\ UNCHANGED <<changeVars, objectVars, tick, eventVars>>
         /\ UNCHANGED <<mit, ledcTimer>>
      BY <1>19, <2>2, ExecutePwmRunsOn
    <3> QED
      BY <3>1
  <2> QED
    BY <2>1, <2>2
<1>20. ASSUME NEW e \in Exec, ExecuteCan(e) PROVE TypeOK'
  <2>1. CASE Restart
    BY <1>0, <2>1, RestartKeepsType
  <2>2. CASE ~Restart
    BY <1>20, <2>2 DEF ExecuteCan, Goto
  <2> QED
    BY <2>1, <2>2
<1>21. ASSUME NEW e \in Exec, Send(e) PROVE TypeOK'
  BY <1>21 DEF Send, EndSend, Goto, ReleaseMutex
<1>22. ASSUME NEW e \in Exec, SendTimeout(e) PROVE TypeOK'
  BY <1>22 DEF SendTimeout, EndSend, Goto, ReleaseMutex
<1>23. CASE HandleEvent
  BY <1>23 DEF HandleEvent
<1>24. CASE PostStats
  BY <1>24 DEF PostStats
<1>25. CASE PostStatsTimeout
  BY <1>25 DEF PostStatsTimeout, GivesUp
<1>26. CASE UNCHANGED vars
  BY <1>26 DEF vars
<1> QED
  BY <1>1, <1>2, <1>3, <1>4, <1>5, <1>6, <1>7, <1>8, <1>9, <1>10, <1>11,
     <1>12, <1>13, <1>14, <1>15, <1>16, <1>17, <1>18, <1>19, <1>20, <1>21,
     <1>22, <1>23, <1>24, <1>25, <1>26
     DEF Next, Begin, Continue, ExecutorTask, EventLoop

(* Who exists.                                                             *)
LEMMA LifeStep == IInv /\ [Next]_vars => LifeInv'
<1> SUFFICES ASSUME IInv, [Next]_vars PROVE LifeInv'
  OBVIOUS
<1>0. TypeOK
  BY DEF IInv
<1> USE LifecycleAssumption
    DEF IInv, TypeOK, changeVars, objectVars, eventVars, outputVars, LifeInv,
        Exec
<1>1. CASE BaseConstruct
  BY <1>1 DEF BaseConstruct, TimerStarted, Register
<1>2. CASE BaseThrows
  BY <1>2 DEF BaseThrows, Register
<1>3. CASE CreateNothing
  BY <1>3 DEF CreateNothing
<1>4. CASE EnterDerived
  BY <1>4 DEF EnterDerived
<1>5. CASE ConfigurePwm
  BY <1>5 DEF ConfigurePwm
<1>6. CASE ConfigureCan
  BY <1>6 DEF ConfigureCan, StopMotors
<1>7. CASE Constructed
  BY <1>7 DEF Constructed
<1>8. CASE DerivedThrows
  <2>1. CASE Restart
    BY <1>0, <2>1, RestartKeepsLife
  <2>2. CASE ~Restart
    BY <1>8, <2>2 DEF DerivedThrows
  <2> QED
    BY <2>1, <2>2
<1>9. CASE Store
  BY <1>9 DEF Store, DestroyIfAny
<1>10. CASE DestroyPwm
  BY <1>10 DEF DestroyPwm
<1>11. CASE DestroyCan
  BY <1>11 DEF DestroyCan, StopMotors
<1>12. CASE EnterBaseDestructor
  BY <1>12 DEF EnterBaseDestructor
<1>13. CASE StopTimer
  BY <1>13 DEF StopTimer
<1>14. CASE DeleteTask
  <2>1. CASE Restart
    BY <1>0, <2>1, RestartKeepsLife
  <2>2. CASE ~Restart
    BY <1>14, <2>2 DEF DeleteTask, TaskRemoved
  <2> QED
    BY <2>1, <2>2
<1>15. ASSUME NEW e \in Exec, Tick(e) PROVE LifeInv'
  BY <1>15 DEF Tick
<1>16. ASSUME NEW e \in Exec, Take(e) PROVE LifeInv'
  BY <1>16 DEF Take, Goto
<1>17. ASSUME NEW e \in Exec, Post(e) PROVE LifeInv'
  BY <1>17 DEF Post, Goto, Posting, After, Stopping
<1>18. ASSUME NEW e \in Exec, Compute(e) PROVE LifeInv'
  <2>1. CASE Restart
    BY <1>0, <2>1, RestartKeepsLife
  <2>2. CASE ~Restart
    <3>1. /\ task[e] = "compute" /\ task' = [task EXCEPT ![e] = "endCompute"]
          /\ UNCHANGED <<changeVars, objectVars, tick, eventVars, outputVars>>
      BY <1>18, <2>2 DEF Compute, Goto
    <3> QED
      BY <3>1
  <2> QED
    BY <2>1, <2>2
<1>19. ASSUME NEW e \in Exec, ExecutePwm(e) PROVE LifeInv'
  <2>1. CASE Restart
    BY <1>0, <2>1, RestartKeepsLife
  <2>2. CASE ~Restart
    <3>1. /\ task' = [task EXCEPT ![e] = "endExecute"] /\ task[e] = "execute"
          /\ driver' \in {driver, [driver EXCEPT !["pwm"] = e]}
          /\ UNCHANGED <<changeVars, objectVars, tick, eventVars>>
         /\ UNCHANGED <<mit, ledcTimer>>
      BY <1>19, <2>2, ExecutePwmRunsOn
    <3> QED
      BY <3>1
  <2> QED
    BY <2>1, <2>2
<1>20. ASSUME NEW e \in Exec, ExecuteCan(e) PROVE LifeInv'
  <2>1. CASE Restart
    BY <1>0, <2>1, RestartKeepsLife
  <2>2. CASE ~Restart
    BY <1>20, <2>2 DEF ExecuteCan, Goto
  <2> QED
    BY <2>1, <2>2
<1>21. ASSUME NEW e \in Exec, Send(e) PROVE LifeInv'
  BY <1>21 DEF Send, EndSend, Goto, ReleaseMutex
<1>22. ASSUME NEW e \in Exec, SendTimeout(e) PROVE LifeInv'
  BY <1>22 DEF SendTimeout, EndSend, Goto, ReleaseMutex
<1>23. CASE HandleEvent
  BY <1>23 DEF HandleEvent
<1>24. CASE PostStats
  BY <1>24 DEF PostStats
<1>25. CASE PostStatsTimeout
  BY <1>25 DEF PostStatsTimeout, GivesUp
<1>26. CASE UNCHANGED vars
  BY <1>26 DEF vars
<1> QED
  BY <1>1, <1>2, <1>3, <1>4, <1>5, <1>6, <1>7, <1>8, <1>9, <1>10, <1>11,
     <1>12, <1>13, <1>14, <1>15, <1>16, <1>17, <1>18, <1>19, <1>20, <1>21,
     <1>22, <1>23, <1>24, <1>25, <1>26
     DEF Next, Begin, Continue, ExecutorTask, EventLoop

(* What is set for the whole chip.                                         *)
LEMMA SharedStep == IInv /\ [Next]_vars => SharedInv'
<1> SUFFICES ASSUME IInv, [Next]_vars PROVE SharedInv'
  OBVIOUS
<1>0. TypeOK
  BY DEF IInv
<1> USE LifecycleAssumption
    DEF IInv, TypeOK, changeVars, objectVars, eventVars, outputVars, LifeInv,
        SharedInv, Exec
<1>1. CASE BaseConstruct
  BY <1>1 DEF BaseConstruct, TimerStarted, Register
<1>2. CASE BaseThrows
  BY <1>2 DEF BaseThrows, Register
<1>3. CASE CreateNothing
  BY <1>3 DEF CreateNothing
<1>4. CASE EnterDerived
  BY <1>4 DEF EnterDerived
<1>5. CASE ConfigurePwm
  BY <1>5 DEF ConfigurePwm
<1>6. CASE ConfigureCan
  BY <1>6 DEF ConfigureCan, StopMotors
<1>7. CASE Constructed
  BY <1>7 DEF Constructed
<1>8. CASE DerivedThrows
  <2>1. CASE Restart
    BY <1>0, <2>1, RestartKeepsLife
  <2>2. CASE ~Restart
    BY <1>8, <2>2 DEF DerivedThrows
  <2> QED
    BY <2>1, <2>2
<1>9. CASE Store
  BY <1>9 DEF Store, DestroyIfAny
<1>10. CASE DestroyPwm
  BY <1>10 DEF DestroyPwm
<1>11. CASE DestroyCan
  BY <1>11 DEF DestroyCan, StopMotors
<1>12. CASE EnterBaseDestructor
  BY <1>12 DEF EnterBaseDestructor
<1>13. CASE StopTimer
  BY <1>13 DEF StopTimer
<1>14. CASE DeleteTask
  <2>1. CASE Restart
    BY <1>0, <2>1, RestartKeepsLife
  <2>2. CASE ~Restart
    BY <1>14, <2>2 DEF DeleteTask, TaskRemoved
  <2> QED
    BY <2>1, <2>2
<1>15. ASSUME NEW e \in Exec, Tick(e) PROVE SharedInv'
  BY <1>15 DEF Tick
<1>16. ASSUME NEW e \in Exec, Take(e) PROVE SharedInv'
  BY <1>16 DEF Take, Goto
<1>17. ASSUME NEW e \in Exec, Post(e) PROVE SharedInv'
  BY <1>17 DEF Post, Goto, Posting, After, Stopping
<1>18. ASSUME NEW e \in Exec, Compute(e) PROVE SharedInv'
  <2>1. CASE Restart
    BY <1>0, <2>1, RestartKeepsLife
  <2>2. CASE ~Restart
    <3>1. /\ task[e] = "compute" /\ task' = [task EXCEPT ![e] = "endCompute"]
          /\ UNCHANGED <<changeVars, objectVars, tick, eventVars, outputVars>>
      BY <1>18, <2>2 DEF Compute, Goto
    <3> QED
      BY <3>1
  <2> QED
    BY <2>1, <2>2
<1>19. ASSUME NEW e \in Exec, ExecutePwm(e) PROVE SharedInv'
  <2>1. CASE Restart
    BY <1>0, <2>1, RestartKeepsLife
  <2>2. CASE ~Restart
    <3>1. /\ task' = [task EXCEPT ![e] = "endExecute"] /\ task[e] = "execute"
          /\ driver' \in {driver, [driver EXCEPT !["pwm"] = e]}
          /\ UNCHANGED <<changeVars, objectVars, tick, eventVars>>
         /\ UNCHANGED <<mit, ledcTimer>>
      BY <1>19, <2>2, ExecutePwmRunsOn
    <3> QED
      BY <3>1
  <2> QED
    BY <2>1, <2>2
<1>20. ASSUME NEW e \in Exec, ExecuteCan(e) PROVE SharedInv'
  <2>1. CASE Restart
    BY <1>0, <2>1, RestartKeepsLife
  <2>2. CASE ~Restart
    BY <1>20, <2>2 DEF ExecuteCan, Goto
  <2> QED
    BY <2>1, <2>2
<1>21. ASSUME NEW e \in Exec, Send(e) PROVE SharedInv'
  BY <1>21 DEF Send, EndSend, Goto, ReleaseMutex
<1>22. ASSUME NEW e \in Exec, SendTimeout(e) PROVE SharedInv'
  BY <1>22 DEF SendTimeout, EndSend, Goto, ReleaseMutex
<1>23. CASE HandleEvent
  BY <1>23 DEF HandleEvent
<1>24. CASE PostStats
  BY <1>24 DEF PostStats
<1>25. CASE PostStatsTimeout
  BY <1>25 DEF PostStatsTimeout, GivesUp
<1>26. CASE UNCHANGED vars
  BY <1>26 DEF vars
<1> QED
  BY <1>1, <1>2, <1>3, <1>4, <1>5, <1>6, <1>7, <1>8, <1>9, <1>10, <1>11,
     <1>12, <1>13, <1>14, <1>15, <1>16, <1>17, <1>18, <1>19, <1>20, <1>21,
     <1>22, <1>23, <1>24, <1>25, <1>26
     DEF Next, Begin, Continue, ExecutorTask, EventLoop

(* The strengthening of the three properties below is inductive.           *)
THEOREM Invariant == Spec => []IInv
<1>1. IInv /\ [Next]_vars => IInv'
  BY TypeStep, LifeStep, SharedStep DEF IInv
<1> QED
  BY <1>1, IInvInit, PTL DEF Spec

(* Every variable stays in its set; an executor under construction or under*)
(* destruction exists while somebody builds or destroys it (executor.cpp). *)
THEOREM TypeCorrect == Spec => []TypeOK
<1>1. IInv => TypeOK
  BY DEF IInv
<1> QED
  BY <1>1, Invariant, PTL

(* Between two settings writes the only timer that runs and the only       *)
(* executor task are those of g_executor, which is whole, whatever was     *)
(* thrown, deleted or restarted before (Executor::Executor, ~Executor).    *)
THEOREM OnlyCurrentTicks == Spec => []OneTicker
<1>1. IInv => OneTicker
  BY LifecycleAssumption DEF IInv, TypeOK, LifeInv, OneTicker, Exec
<1> QED
  BY <1>1, Invariant, PTL

(* Unless the last createExecutor threw, the event handler's argument and  *)
(* the frequency of LEDC_TIMER_0 are those of g_executor.                  *)
THEOREM SharedStateFollows == Spec => []SharedSetForCurrent
<1>1. IInv => SharedSetForCurrent
  BY DEF IInv, TypeOK, SharedInv, SharedSetForCurrent
<1> QED
  BY <1>1, Invariant, PTL

=============================================================================
