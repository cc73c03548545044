------------------------ MODULE PacketPipelineProofs ------------------------
(***************************************************************************)
(* Theorems about PacketPipeline, for every value of its constants.        *)
(***************************************************************************)
EXTENDS PacketPipeline, TLAPS

(* A task holds a packet exactly while it prepares one.                    *)
HoldsWhilePreparing ==
  \A t \in Task : pc[t] \in {"filling", "sending"} <=> cur[t] # 0

TypeInv == TypeOK /\ HoldsWhilePreparing

LEMMA TypeInvInit == Init => TypeInv
<1> SUFFICES ASSUME Init PROVE TypeInv
  OBVIOUS
<1> USE BoundAssumption DEF Init, Pid, Exec
<1>1. queue \in Seq(Pid) /\ Len(queue) <= QueueSize
  OBVIOUS
<1>2. pc \in [Task -> {"booting", "idle"}]
  OBVIOUS
<1>3. HoldsWhilePreparing
  BY <1>2 DEF HoldsWhilePreparing
<1>4. applied \in [Exec -> [Task -> Pid \cup {0}]]
  OBVIOUS
<1>5. blocks \in [Pid -> SUBSET Block]
  OBVIOUS
<1>6. current \in Exec \cup {0} /\ nextExec \in 1..MaxExecutor + 1
  OBVIOUS
<1>7. /\ cur \in [Task -> Pid \cup {0}]
      /\ nextPacket \in 1..MaxPacket + 1
      /\ origin \in [Pid -> Source \cup {"none"}]
  OBVIOUS
<1>8. /\ parser \in [Exec -> {"none"}]
      /\ running \in [Exec -> BOOLEAN]
      /\ got \in [Exec -> Pid \cup {0}]
  OBVIOUS
<1>9. /\ fresh \in [Task -> Exec \cup {0}]
      /\ old \in [Task -> Exec \cup {0}]
  OBVIOUS
<1> QED
  BY <1>1, <1>2, <1>3, <1>4, <1>5, <1>6, <1>7, <1>8, <1>9 DEF TypeInv, TypeOK

(* Every input is served by one of the tasks.                              *)
LEMMA TaskOfInTask == \A s : TaskOf(s) \in Task
  BY DEF TaskOf, Task

LEMMA TypeInvStep == TypeInv /\ [Next]_vars => TypeInv'
<1> SUFFICES ASSUME TypeInv, [Next]_vars
             PROVE  TypeInv'
  OBVIOUS
<1> USE DEF TypeInv, TypeOK, HoldsWhilePreparing, Pid, Exec, Block
<1>1. CASE SelectInit
  BY <1>1 DEF SelectInit, packetVars, parserVars, swapVars, Task
<1>2. ASSUME NEW s \in AllSource, AllocPacket(s)
      PROVE  TypeInv'
  <2>1. TaskOf(s) \in Task
    BY TaskOfInTask
  <2> QED
    BY <1>2, <2>1, BoundAssumption DEF AllocPacket, parserVars, swapVars
<1>3. ASSUME NEW t \in Task, AllocData(t)
      PROVE  TypeInv'
  BY <1>3 DEF AllocData, UserBlock, parserVars, swapVars
<1>4. ASSUME NEW t \in Task, AllocDataFails(t)
      PROVE  TypeInv'
  BY <1>4 DEF AllocDataFails, parserVars, swapVars
<1>5. ASSUME NEW t \in Task, Send(t)
      PROVE  TypeInv'
  BY <1>5, BoundAssumption
     DEF Send, SendToBack, QueueHasRoom, parserVars, swapVars
<1>6. ASSUME NEW t \in Task, SendTimeout(t)
      PROVE  TypeInv'
  BY <1>6 DEF SendTimeout, LeftAfterTimeout, parserVars, swapVars
<1>7. ASSUME NEW e \in Exec, ParserLoop(e)
      PROVE  TypeInv'
  BY <1>7 DEF ParserLoop, ExitOrWait, packetVars, swapVars
<1>8. ASSUME NEW e \in Exec, ParserReceive(e)
      PROVE  TypeInv'
  <2>1. /\ Head(queue) \in Pid
        /\ Tail(queue) \in Seq(Pid)
        /\ Len(Tail(queue)) <= QueueSize
    BY <1>8, BoundAssumption DEF ParserReceive
  <2> QED
    BY <1>8, <2>1 DEF ParserReceive, PopQueue, packetVars, swapVars
<1>9. ASSUME NEW e \in Exec, ParserPreprocess(e)
      PROVE  TypeInv'
  BY <1>9 DEF ParserPreprocess, packetVars, swapVars
<1>10. ASSUME NEW e \in Exec,
              ParserSkip(e) \/ ParserReply(e) \/ ParserReplyEnds(e)
       PROVE  TypeInv'
  BY <1>10 DEF ParserSkip, ParserReply, ParserReplyEnds, packetVars, swapVars
<1>11. ASSUME NEW e \in Exec, ParserFree(e)
       PROVE  TypeInv'
  BY <1>11 DEF ParserFree, swapVars
<1>12. ASSUME NEW t \in Task, CreateExecutor(t)
       PROVE  TypeInv'
  BY <1>12, BoundAssumption DEF CreateExecutor, packetVars
<1>13. ASSUME NEW t \in Task, CreateNothing(t)
       PROVE  TypeInv'
  BY <1>13 DEF CreateNothing, packetVars, parserVars, swapVars
<1>14. ASSUME NEW t \in Task, ConstructorThrows(t)
       PROVE  TypeInv'
  BY <1>14 DEF ConstructorThrows, packetVars, parserVars
<1>15. ASSUME NEW t \in Task, LoadOld(t)
       PROVE  TypeInv'
  BY <1>15 DEF LoadOld, packetVars, parserVars
<1>16. ASSUME NEW t \in Task, StoreNew(t)
       PROVE  TypeInv'
  BY <1>16 DEF StoreNew, AfterStore, Done, packetVars, parserVars
<1>17. ASSUME NEW t \in Task, StopParser(t)
       PROVE  TypeInv'
  BY <1>17 DEF StopParser, Doomed, Done, packetVars
<1>18. ASSUME NEW t \in Task, DeleteParser(t)
       PROVE  TypeInv'
  BY <1>18 DEF DeleteParser, Doomed, Done, packetVars
<1>19. CASE UNCHANGED vars
  BY <1>19 DEF vars, packetVars, parserVars, swapVars
<1> QED
  BY <1>1, <1>2, <1>3, <1>4, <1>5, <1>6, <1>7, <1>8, <1>9, <1>10, <1>11,
     <1>12, <1>13, <1>14, <1>15, <1>16, <1>17, <1>18, <1>19
     DEF Next, Receive, TcpHandleClientData, UdpHandleData, UartHandleData,
         Uart2HandleData, WebsocketHandler, BleWriteTcode, HandyVector,
         AllSource, Producer, Parser, ParserWork, Reconfigure

(* Every variable keeps its type and the queue never exceeds its length.   *)
THEOREM TypeCorrect == Spec => []TypeOK
<1>1. TypeInv => TypeOK
  BY DEF TypeInv
<1> QED
  BY TypeInvInit, TypeInvStep, <1>1, PTL DEF Spec

-----------------------------------------------------------------------------
(* A pointer to an executor points to one that was built.                  *)
PointersBuilt ==
  /\ current < nextExec
  /\ \A t \in Task : fresh[t] < nextExec /\ old[t] < nextExec

LEMMA PointersBuiltInit == Init => PointersBuilt
  BY DEF Init, PointersBuilt

LEMMA PointersBuiltStep ==
  TypeInv /\ PointersBuilt /\ [Next]_vars => PointersBuilt'
<1> SUFFICES ASSUME TypeInv, PointersBuilt, [Next]_vars
             PROVE  PointersBuilt'
  OBVIOUS
<1> USE BoundAssumption DEF TypeInv, TypeOK, PointersBuilt, Exec
<1>1. ASSUME UNCHANGED <<nextExec, current, fresh, old>>
      PROVE  PointersBuilt'
  BY <1>1
<1>2. ASSUME NEW t \in Task, CreateExecutor(t)
      PROVE  PointersBuilt'
  <2>1. /\ nextExec' = nextExec + 1
        /\ fresh' = [fresh EXCEPT ![t] = nextExec]
        /\ UNCHANGED <<current, old>>
    BY <1>2 DEF CreateExecutor
  <2>2. nextExec \in Nat /\ current \in Nat
    OBVIOUS
  <2>3. \A u \in Task : fresh[u] \in Nat /\ old[u] \in Nat
    OBVIOUS
  <2>4. \A u \in Task : fresh'[u] \in {fresh[u], nextExec} /\ old'[u] = old[u]
    BY <2>1
  <2>5. /\ current' < nextExec'
        /\ \A u \in Task : fresh[u] < nextExec' /\ old[u] < nextExec'
    BY <2>1, <2>2, <2>3
  <2>6. nextExec < nextExec'
    BY <2>1, <2>2
  <2> QED
    BY ONLY <2>4, <2>5, <2>6 DEF PointersBuilt
<1>3. ASSUME NEW t \in Task, ConstructorThrows(t)
      PROVE  PointersBuilt'
  BY <1>3 DEF ConstructorThrows
<1>4. ASSUME NEW t \in Task, LoadOld(t)
      PROVE  PointersBuilt'
  BY <1>4 DEF LoadOld
<1>5. ASSUME NEW t \in Task, StoreNew(t)
      PROVE  PointersBuilt'
  BY <1>5 DEF StoreNew
<1>6. ASSUME NEW t \in Task, StopParser(t) \/ DeleteParser(t)
      PROVE  PointersBuilt'
  <2>1. /\ old' = old \/ old' = [old EXCEPT ![t] = 0]
        /\ UNCHANGED <<nextExec, current, fresh>>
    BY <1>6 DEF StopParser, DeleteParser
  <2>2. 0 < nextExec
    OBVIOUS
  <2> QED
    BY <2>1, <2>2
<1>7. CASE SelectInit \/ Receive
  BY <1>7, <1>1
     DEF SelectInit, Receive, TcpHandleClientData, UdpHandleData,
         UartHandleData, Uart2HandleData, WebsocketHandler, BleWriteTcode,
         HandyVector, AllocPacket, swapVars
<1>8. ASSUME NEW t \in Task, Producer(t) \/ CreateNothing(t)
      PROVE  PointersBuilt'
  BY <1>8, <1>1 DEF Producer, AllocData, AllocDataFails, Send, SendTimeout,
                    CreateNothing, swapVars
<1>9. ASSUME NEW e \in Exec, Parser(e)
      PROVE  PointersBuilt'
  BY <1>9, <1>1
     DEF Parser, ParserWork, ParserLoop, ParserReceive, ParserPreprocess,
         ParserSkip, ParserReply, ParserReplyEnds, ParserFree, swapVars
<1>10. CASE UNCHANGED vars
  BY <1>10, <1>1 DEF vars, swapVars
<1> QED
  BY <1>2, <1>3, <1>4, <1>5, <1>6, <1>7, <1>8, <1>9, <1>10
     DEF Next, Reconfigure

(* A parser task has a packet exactly between receiving and freeing it,    *)
(* unless it was deleted; an executor not yet built has no parser task.    *)
ParserHolds ==
  \A e \in Exec :
    /\ parser[e] \in {"handling", "replying", "freeing"} => got[e] # 0
    /\ parser[e] \in {"none", "looping", "waiting"} => got[e] = 0
    /\ e >= nextExec => parser[e] = "none"

LEMMA ParserHoldsInit == Init => ParserHolds
  BY DEF Init, ParserHolds

LEMMA ParserHoldsStep ==
  TypeInv /\ PointersBuilt /\ ParserHolds /\ [Next]_vars => ParserHolds'
<1> SUFFICES ASSUME TypeInv, PointersBuilt, ParserHolds, [Next]_vars
             PROVE  ParserHolds'
  OBVIOUS
<1> USE DEF TypeInv, TypeOK, ParserHolds, Exec
<1>1. ASSUME UNCHANGED <<parser, got, nextExec>>
      PROVE  ParserHolds'
  BY <1>1
<1>2. ASSUME NEW e \in Exec, ParserLoop(e)
      PROVE  ParserHolds'
  BY <1>2 DEF ParserLoop, ExitOrWait, swapVars
<1>3. ASSUME NEW e \in Exec, ParserReceive(e)
      PROVE  ParserHolds'
  <2>1. Head(queue) \in Pid
    BY <1>3 DEF ParserReceive
  <2> QED
    BY <1>3, <2>1 DEF ParserReceive, swapVars, Pid
<1>4. ASSUME NEW e \in Exec, \/ ParserPreprocess(e) \/ ParserSkip(e)
                              \/ ParserReply(e) \/ ParserReplyEnds(e)
      PROVE  ParserHolds'
  BY <1>4
     DEF ParserPreprocess, ParserSkip, ParserReply, ParserReplyEnds, swapVars
<1>5. ASSUME NEW e \in Exec, ParserFree(e)
      PROVE  ParserHolds'
  BY <1>5 DEF ParserFree, swapVars
<1>6. ASSUME NEW t \in Task, CreateExecutor(t)
      PROVE  ParserHolds'
  BY <1>6 DEF CreateExecutor
<1>7. ASSUME NEW t \in Task, DeleteParser(t)
      PROVE  ParserHolds'
  BY <1>7 DEF DeleteParser, Doomed, PointersBuilt
<1>8. CASE SelectInit \/ Receive
  BY <1>8, <1>1
     DEF SelectInit, Receive, TcpHandleClientData, UdpHandleData,
         UartHandleData, Uart2HandleData, WebsocketHandler, BleWriteTcode,
         HandyVector, AllocPacket, parserVars, swapVars
<1>9. ASSUME NEW t \in Task, Producer(t)
      PROVE  ParserHolds'
  BY <1>9, <1>1 DEF Producer, AllocData, AllocDataFails, Send, SendTimeout,
                    parserVars, swapVars
<1>10. ASSUME NEW t \in Task,
              CreateNothing(t) \/ ConstructorThrows(t) \/ LoadOld(t)
                \/ StoreNew(t) \/ StopParser(t)
       PROVE  ParserHolds'
  BY <1>10, <1>1 DEF CreateNothing, ConstructorThrows, LoadOld, StoreNew,
                     StopParser, parserVars, swapVars
<1>11. CASE UNCHANGED vars
  BY <1>11, <1>1 DEF vars, parserVars, swapVars
<1> QED
  BY <1>2, <1>3, <1>4, <1>5, <1>6, <1>7, <1>8, <1>9, <1>10, <1>11
     DEF Next, Parser, ParserWork, Reconfigure

(* The packets: one owner each, memory exactly while owned, ids not yet    *)
(* allocated unused.                                                       *)
UnusedBeyondNext ==
  \A p \in Pid : p >= nextPacket => ~InQueue(p) /\ ~OnTask(p) /\ ~InParser(p)

SentIsComplete ==
  \A t \in Task :
    pc[t] = "sending" => {"packet", "data"} \subseteq blocks[cur[t]]

PacketInv == SingleOwner /\ HeapAccounted /\ UnusedBeyondNext /\ SentIsComplete

IInv == TypeInv /\ PointersBuilt /\ ParserHolds /\ PacketInv

LEMMA PacketInvInit == Init => PacketInv
<1> SUFFICES ASSUME Init PROVE PacketInv
  OBVIOUS
<1> USE BoundAssumption DEF Init
<1>1. /\ queue = <<>>
      /\ \A t \in Task : cur[t] = 0 /\ pc[t] # "sending"
      /\ \A e \in Exec : got[e] = 0
      /\ \A p \in Pid : blocks[p] = {}
  OBVIOUS
<1>2. \A p \in Pid : ~InQueue(p) /\ ~OnTask(p) /\ ~InParser(p)
  BY <1>1 DEF InQueue, OnTask, InParser, Pid
<1>3. SingleOwner
  BY <1>1, <1>2 DEF SingleOwner
<1> QED
  BY <1>1, <1>2, <1>3
     DEF PacketInv, HeapAccounted, UnusedBeyondNext, SentIsComplete

(* A step that moves no packet and lets no task start sending.             *)
LEMMA PacketFrame ==
  ASSUME PacketInv,
         UNCHANGED <<queue, cur, nextPacket, origin, blocks, got>>,
         \A t \in Task : pc'[t] = "sending" => pc[t] = "sending"
  PROVE  PacketInv'
<1>1. \A p \in Pid : /\ InQueue(p)' <=> InQueue(p)
                     /\ OnTask(p)' <=> OnTask(p)
                     /\ InParser(p)' <=> InParser(p)
  BY DEF InQueue, OnTask, InParser
<1>2. SingleOwner'
  BY <1>1 DEF PacketInv, SingleOwner
<1>3. HeapAccounted'
  BY <1>1 DEF PacketInv, HeapAccounted
<1>4. UnusedBeyondNext' /\ SentIsComplete'
  BY <1>1 DEF PacketInv, UnusedBeyondNext, SentIsComplete
<1> QED
  BY <1>2, <1>3, <1>4 DEF PacketInv

LEMMA AllocPacketInv ==
  ASSUME IInv, NEW s \in AllSource, AllocPacket(s)
  PROVE  PacketInv'
<1> DEFINE t == TaskOf(s)
<1>1. t \in Task /\ pc[t] = "idle" /\ cur[t] = 0
  BY TaskOfInTask DEF AllocPacket, IInv, TypeInv, HoldsWhilePreparing
<1>2. /\ nextPacket \in Pid
      /\ nextPacket' = nextPacket + 1
      /\ cur' = [cur EXCEPT ![t] = nextPacket]
      /\ blocks' = [blocks EXCEPT ![nextPacket] = {"packet"}]
      /\ origin' = [origin EXCEPT ![nextPacket] = s]
      /\ pc' = [pc EXCEPT ![t] = "filling"]
      /\ UNCHANGED <<queue, got>>
  BY BoundAssumption DEF AllocPacket, IInv, TypeInv, TypeOK, Pid, parserVars
<1>3. ~InQueue(nextPacket) /\ ~OnTask(nextPacket) /\ ~InParser(nextPacket)
  BY <1>2 DEF IInv, PacketInv, UnusedBeyondNext, Pid
<1>4. \A p \in Pid : /\ InQueue(p)' <=> InQueue(p)
                     /\ InParser(p)' <=> InParser(p)
  BY <1>2 DEF InQueue, InParser
<1>5. \A p \in Pid : OnTask(p)' <=> OnTask(p) \/ p = nextPacket
  BY <1>1, <1>2 DEF OnTask, IInv, TypeInv, TypeOK, Pid
<1>6. SingleOwner'
  <2>1. \A u, v \in Task : cur'[u] = cur'[v] /\ cur'[u] # 0 => u = v
    BY <1>1, <1>2, <1>3
       DEF IInv, PacketInv, SingleOwner, OnTask, TypeInv, TypeOK
  <2> QED
    BY <2>1, <1>2, <1>3, <1>4, <1>5 DEF IInv, PacketInv, SingleOwner
<1>7. HeapAccounted'
  BY <1>2, <1>3, <1>4, <1>5
     DEF IInv, PacketInv, HeapAccounted, TypeInv, TypeOK
<1>8. UnusedBeyondNext'
  BY <1>2, <1>4, <1>5
     DEF IInv, PacketInv, UnusedBeyondNext, Pid, TypeInv, TypeOK
<1>9. SentIsComplete'
  <2> SUFFICES ASSUME NEW u \in Task, pc'[u] = "sending"
               PROVE  {"packet", "data"} \subseteq blocks'[cur'[u]]
    BY DEF SentIsComplete
  <2>1. u # t /\ pc[u] = "sending" /\ cur'[u] = cur[u]
    BY <1>1, <1>2 DEF IInv, TypeInv, TypeOK
  <2>2. cur[u] # nextPacket
    BY <1>3 DEF OnTask
  <2> QED
    BY <1>2, <2>1, <2>2 DEF IInv, PacketInv, SentIsComplete, TypeInv, TypeOK
<1> QED
  BY <1>6, <1>7, <1>8, <1>9 DEF PacketInv

(* The handler lets go of its packet and frees it.                         *)
LEMMA ReleaseInv ==
  ASSUME IInv, NEW t \in Task,
         pc[t] \in {"filling", "sending"},
         blocks' = [blocks EXCEPT ![cur[t]] = {}],
         cur' = [cur EXCEPT ![t] = 0],
         pc' = [pc EXCEPT ![t] = "idle"],
         UNCHANGED <<queue, nextPacket, origin, got>>
  PROVE  PacketInv'
<1>1. cur[t] \in Pid
  BY DEF IInv, TypeInv, TypeOK, HoldsWhilePreparing
<1>2. \A p \in Pid : /\ InQueue(p)' <=> InQueue(p)
                     /\ InParser(p)' <=> InParser(p)
  BY DEF InQueue, InParser
<1>3. \A p \in Pid : OnTask(p)' <=> OnTask(p) /\ p # cur[t]
  BY <1>1 DEF OnTask, IInv, TypeInv, TypeOK, Pid, PacketInv, SingleOwner
<1>4. SingleOwner'
  <2>1. \A u, v \in Task : cur'[u] = cur'[v] /\ cur'[u] # 0 => u = v
    BY DEF IInv, PacketInv, SingleOwner, TypeInv, TypeOK
  <2> QED
    BY <2>1, <1>2, <1>3 DEF IInv, PacketInv, SingleOwner
<1>5. ~InQueue(cur[t]) /\ ~InParser(cur[t])
  BY <1>1 DEF IInv, PacketInv, SingleOwner, OnTask
<1>6. HeapAccounted'
  BY <1>1, <1>2, <1>3, <1>5
     DEF IInv, PacketInv, HeapAccounted, TypeInv, TypeOK
<1>7. UnusedBeyondNext'
  BY <1>2, <1>3 DEF IInv, PacketInv, UnusedBeyondNext
<1>8. SentIsComplete'
  <2> SUFFICES ASSUME NEW u \in Task, pc'[u] = "sending"
               PROVE  {"packet", "data"} \subseteq blocks'[cur'[u]]
    BY DEF SentIsComplete
  <2>1. u # t /\ pc[u] = "sending" /\ cur'[u] = cur[u] /\ cur[u] \in Pid
    BY DEF IInv, TypeInv, TypeOK, HoldsWhilePreparing
  <2>2. cur[u] # cur[t]
    BY <2>1, <1>1 DEF IInv, PacketInv, SingleOwner, Pid
  <2> QED
    BY <2>1, <2>2, <1>1 DEF IInv, PacketInv, SentIsComplete, TypeInv, TypeOK
<1> QED
  BY <1>4, <1>6, <1>7, <1>8 DEF PacketInv

LEMMA AllocDataInv ==
  ASSUME IInv, NEW t \in Task, AllocData(t)
  PROVE  PacketInv'
<1>1. pc[t] = "filling" /\ cur[t] \in Pid
  BY DEF AllocData, IInv, TypeInv, TypeOK, HoldsWhilePreparing
<1>2. /\ UNCHANGED <<queue, cur, nextPacket, origin, got>>
      /\ pc' = [pc EXCEPT ![t] = "sending"]
  BY DEF AllocData, parserVars
<1>3. PICK user \in UserBlock(cur[t]) :
        blocks' = [blocks EXCEPT ![cur[t]] = {"packet", "data"} \cup user]
  BY DEF AllocData
<1>4. "user" \in user => origin[cur[t]] = "UDP"
  BY <1>3 DEF UserBlock
<1>5. \A p \in Pid : /\ InQueue(p)' <=> InQueue(p)
                     /\ OnTask(p)' <=> OnTask(p)
                     /\ InParser(p)' <=> InParser(p)
  BY <1>2 DEF InQueue, OnTask, InParser
<1>6. SingleOwner' /\ UnusedBeyondNext'
  BY <1>2, <1>5 DEF IInv, PacketInv, SingleOwner, UnusedBeyondNext
<1>7. OnTask(cur[t])
  BY DEF OnTask
<1>8. HeapAccounted'
  BY <1>1, <1>2, <1>3, <1>4, <1>5, <1>7
     DEF IInv, PacketInv, HeapAccounted, TypeInv, TypeOK
<1>9. SentIsComplete'
  BY <1>1, <1>2, <1>3
     DEF IInv, PacketInv, SentIsComplete, SingleOwner, TypeInv, TypeOK,
         HoldsWhilePreparing
<1> QED
  BY <1>6, <1>8, <1>9 DEF PacketInv

LEMMA SendInv ==
  ASSUME IInv, NEW t \in Task, Send(t)
  PROVE  PacketInv'
<1>1. pc[t] = "sending" /\ cur[t] \in Pid
  BY DEF Send, IInv, TypeInv, TypeOK, HoldsWhilePreparing
<1>2. /\ queue' = Append(queue, cur[t])
      /\ cur' = [cur EXCEPT ![t] = 0]
      /\ pc' = [pc EXCEPT ![t] = "idle"]
      /\ UNCHANGED <<nextPacket, origin, blocks, got>>
  BY DEF Send, SendToBack, parserVars
<1>3. /\ Len(queue') = Len(queue) + 1
      /\ \A i \in 1..Len(queue) : queue'[i] = queue[i]
      /\ queue'[Len(queue) + 1] = cur[t]
      /\ Len(queue) \in Nat
  BY <1>1, <1>2 DEF IInv, TypeInv, TypeOK
<1>4. \A p \in Pid : InQueue(p)' <=> InQueue(p) \/ p = cur[t]
  BY <1>3 DEF InQueue
<1>5. \A p \in Pid : OnTask(p)' <=> OnTask(p) /\ p # cur[t]
  BY <1>1, <1>2 DEF OnTask, IInv, TypeInv, TypeOK, Pid, PacketInv, SingleOwner
<1>6. \A p \in Pid : InParser(p)' <=> InParser(p)
  BY <1>2 DEF InParser
<1>7. OnTask(cur[t]) /\ ~InQueue(cur[t]) /\ ~InParser(cur[t])
  BY <1>1 DEF IInv, PacketInv, SingleOwner, OnTask
<1>8. SingleOwner'
  <2>1. \A i, j \in 1..Len(queue') : queue'[i] = queue'[j] => i = j
    BY <1>3, <1>7 DEF IInv, PacketInv, SingleOwner, InQueue
  <2>2. \A u, v \in Task : cur'[u] = cur'[v] /\ cur'[u] # 0 => u = v
    BY <1>2 DEF IInv, PacketInv, SingleOwner, TypeInv, TypeOK
  <2> QED
    BY <2>1, <2>2, <1>2, <1>4, <1>5, <1>6, <1>7
       DEF IInv, PacketInv, SingleOwner
<1>9. HeapAccounted'
  BY <1>1, <1>2, <1>4, <1>5, <1>6
     DEF IInv, PacketInv, HeapAccounted, SentIsComplete
<1>10. UnusedBeyondNext'
  BY <1>2, <1>4, <1>5, <1>6, <1>7 DEF IInv, PacketInv, UnusedBeyondNext
<1>11. SentIsComplete'
  BY <1>2 DEF IInv, PacketInv, SentIsComplete, TypeInv, TypeOK
<1> QED
  BY <1>8, <1>9, <1>10, <1>11 DEF PacketInv

LEMMA ParserReceiveInv ==
  ASSUME IInv, NEW e \in Exec, ParserReceive(e)
  PROVE  PacketInv'
<1> DEFINE h == Head(queue)
<1>1. /\ queue # <<>>
      /\ got[e] = 0
      /\ got' = [got EXCEPT ![e] = h]
      /\ queue' = Tail(queue)
      /\ UNCHANGED <<cur, nextPacket, origin, blocks, pc>>
  BY DEF ParserReceive, PopQueue, packetVars, IInv, ParserHolds
<1>2. /\ h \in Pid
      /\ Len(queue) \in Nat \ {0}
      /\ queue[1] = h
      /\ Len(queue') = Len(queue) - 1
      /\ \A i \in 1..Len(queue') : queue'[i] = queue[i + 1]
  BY <1>1 DEF IInv, TypeInv, TypeOK
<1>3. \A p \in Pid : InQueue(p)' <=> InQueue(p) /\ p # h
  <2> TAKE p \in Pid
  <2>1. InQueue(p)' => InQueue(p) /\ p # h
    BY <1>2 DEF InQueue, IInv, PacketInv, SingleOwner
  <2>2. ASSUME InQueue(p), p # h PROVE InQueue(p)'
    <3>1. PICK i \in 1..Len(queue) : queue[i] = p
      BY <2>2 DEF InQueue
    <3>2. i # 1 /\ i - 1 \in 1..Len(queue') /\ queue'[i - 1] = p
      BY <3>1, <2>2, <1>2
    <3> QED
      BY <3>2 DEF InQueue
  <2> QED
    BY <2>1, <2>2
<1>4. \A p \in Pid : OnTask(p)' <=> OnTask(p)
  BY <1>1 DEF OnTask
<1>5. \A p \in Pid : InParser(p)' <=> InParser(p) \/ p = h
  BY <1>1 DEF InParser, IInv, TypeInv, TypeOK, Pid
<1>6. InQueue(h) /\ ~OnTask(h) /\ ~InParser(h)
  BY <1>2 DEF InQueue, IInv, PacketInv, SingleOwner
<1>7. SingleOwner'
  <2>1. \A i, j \in 1..Len(queue') : queue'[i] = queue'[j] => i = j
    <3> TAKE i, j \in 1..Len(queue')
    <3>1. i + 1 \in 1..Len(queue) /\ j + 1 \in 1..Len(queue)
      BY <1>2
    <3> QED
      BY <3>1, <1>2 DEF IInv, PacketInv, SingleOwner
  <2>2. \A c, d \in Exec : got'[c] = got'[d] /\ got'[c] # 0 => c = d
    BY <1>1, <1>6 DEF IInv, PacketInv, SingleOwner, InParser, TypeInv, TypeOK
  <2> QED
    BY <2>1, <2>2, <1>1, <1>3, <1>4, <1>5, <1>6
       DEF IInv, PacketInv, SingleOwner
<1>8. HeapAccounted'
  BY <1>1, <1>3, <1>4, <1>5, <1>6 DEF IInv, PacketInv, HeapAccounted
<1>9. UnusedBeyondNext'
  BY <1>1, <1>3, <1>4, <1>5, <1>6 DEF IInv, PacketInv, UnusedBeyondNext
<1>10. SentIsComplete'
  BY <1>1 DEF IInv, PacketInv, SentIsComplete
<1> QED
  BY <1>7, <1>8, <1>9, <1>10 DEF PacketInv

LEMMA ParserFreeInv ==
  ASSUME IInv, NEW e \in Exec, ParserFree(e)
  PROVE  PacketInv'
<1>1. /\ got[e] \in Pid
      /\ blocks' = [blocks EXCEPT ![got[e]] = {}]
      /\ got' = [got EXCEPT ![e] = 0]
      /\ UNCHANGED <<queue, cur, nextPacket, origin, pc>>
  BY DEF ParserFree, IInv, ParserHolds, TypeInv, TypeOK
<1>2. \A p \in Pid : /\ InQueue(p)' <=> InQueue(p)
                     /\ OnTask(p)' <=> OnTask(p)
  BY <1>1 DEF InQueue, OnTask
<1>3. \A p \in Pid : InParser(p)' <=> InParser(p) /\ p # got[e]
  BY <1>1 DEF InParser, IInv, TypeInv, TypeOK, Pid, PacketInv, SingleOwner
<1>4. InParser(got[e]) /\ ~InQueue(got[e]) /\ ~OnTask(got[e])
  BY <1>1 DEF IInv, PacketInv, SingleOwner, InParser
<1>5. SingleOwner'
  <2>1. \A c, d \in Exec : got'[c] = got'[d] /\ got'[c] # 0 => c = d
    BY <1>1 DEF IInv, PacketInv, SingleOwner, TypeInv, TypeOK
  <2> QED
    BY <2>1, <1>1, <1>2, <1>3 DEF IInv, PacketInv, SingleOwner
<1>6. HeapAccounted'
  BY <1>1, <1>2, <1>3, <1>4 DEF IInv, PacketInv, HeapAccounted, TypeInv, TypeOK
<1>7. UnusedBeyondNext'
  BY <1>1, <1>2, <1>3 DEF IInv, PacketInv, UnusedBeyondNext
<1>8. SentIsComplete'
  BY <1>1, <1>4 DEF IInv, PacketInv, SentIsComplete, OnTask, TypeInv, TypeOK
<1> QED
  BY <1>5, <1>6, <1>7, <1>8 DEF PacketInv

LEMMA PacketInvStep == IInv /\ [Next]_vars => PacketInv'
<1> SUFFICES ASSUME IInv, [Next]_vars
             PROVE  PacketInv'
  OBVIOUS
<1>1. ASSUME NEW s \in AllSource, AllocPacket(s)
      PROVE  PacketInv'
  BY <1>1, AllocPacketInv
<1>2. ASSUME NEW t \in Task, AllocData(t)
      PROVE  PacketInv'
  BY <1>2, AllocDataInv
<1>3. ASSUME NEW t \in Task, AllocDataFails(t)
      PROVE  PacketInv'
  BY <1>3, ReleaseInv DEF AllocDataFails, parserVars
<1>4. ASSUME NEW t \in Task, Send(t)
      PROVE  PacketInv'
  BY <1>4, SendInv
<1>5. ASSUME NEW t \in Task, SendTimeout(t)
      PROVE  PacketInv'
  BY <1>5, ReleaseInv DEF SendTimeout, LeftAfterTimeout, parserVars
<1>6. ASSUME NEW e \in Exec, ParserReceive(e)
      PROVE  PacketInv'
  BY <1>6, ParserReceiveInv
<1>7. ASSUME NEW e \in Exec, ParserFree(e)
      PROVE  PacketInv'
  BY <1>7, ParserFreeInv
<1>8. ASSUME NEW e \in Exec,
             \/ ParserLoop(e) \/ ParserPreprocess(e) \/ ParserSkip(e)
             \/ ParserReply(e) \/ ParserReplyEnds(e)
      PROVE  PacketInv'
  BY <1>8, PacketFrame
     DEF ParserLoop, ParserPreprocess, ParserSkip, ParserReply,
         ParserReplyEnds, packetVars, IInv
<1>9. CASE SelectInit
  BY <1>9, PacketFrame DEF SelectInit, packetVars, parserVars, IInv, TypeInv,
                           TypeOK
<1>10. ASSUME NEW t \in Task, Reconfigure(t)
       PROVE  PacketInv'
  <2>1. UNCHANGED <<queue, cur, nextPacket, origin, blocks, got>>
    BY <1>10 DEF Reconfigure, CreateExecutor, CreateNothing, ConstructorThrows,
                 LoadOld, StoreNew, StopParser, DeleteParser, packetVars,
                 parserVars
  <2>2. \E l : l # "sending" /\ pc' = [pc EXCEPT ![t] = l]
    BY <1>10 DEF Reconfigure, CreateExecutor, CreateNothing, ConstructorThrows,
                 LoadOld, StoreNew, AfterStore, StopParser, DeleteParser, Done
  <2>3. \A u \in Task : pc'[u] = "sending" => pc[u] = "sending"
    BY <2>2 DEF IInv, TypeInv, TypeOK
  <2> QED
    BY <2>1, <2>3, PacketFrame DEF IInv
<1>11. CASE UNCHANGED vars
  BY <1>11, PacketFrame DEF vars, packetVars, parserVars, IInv
<1> QED
  BY <1>1, <1>2, <1>3, <1>4, <1>5, <1>6, <1>7, <1>8, <1>9, <1>10, <1>11
     DEF Next, Receive, TcpHandleClientData, UdpHandleData, UartHandleData,
         Uart2HandleData, WebsocketHandler, BleWriteTcode, HandyVector,
         AllSource, Producer, Parser, ParserWork

LEMMA IInvCorrect == Spec => []IInv
<1>1. Init => IInv
  BY TypeInvInit, PointersBuiltInit, ParserHoldsInit, PacketInvInit DEF IInv
<1>2. IInv /\ [Next]_vars => IInv'
  BY TypeInvStep, PointersBuiltStep, ParserHoldsStep, PacketInvStep DEF IInv
<1> QED
  BY <1>1, <1>2, PTL DEF Spec

(* Every packet has one owner at a time.                                   *)
THEOREM OneOwner == Spec => []SingleOwner
<1>1. IInv => SingleOwner
  BY DEF IInv, PacketInv
<1> QED
  BY IInvCorrect, <1>1, PTL

(* Memory is allocated exactly for the packets somebody owns.              *)
THEOREM NoOtherLeak == Spec => []HeapAccounted
<1>1. IInv => HeapAccounted
  BY DEF IInv, PacketInv
<1> QED
  BY IInvCorrect, <1>1, PTL

-----------------------------------------------------------------------------
(* PacketPipeline implements CommandChannel: an initial state maps to an   *)
(* initial state, and a step maps to a step of the channel or to none.     *)

(* A step that moves no packet is invisible to the channel.                *)
LEMMA ChannelStutter ==
  ASSUME UNCHANGED <<queue, cur, nextPacket, got>>
  PROVE  UNCHANGED Channel!cvars
  BY DEF Channel!cvars, Seen, Offered, Taken

LEMMA AllocOffers ==
  ASSUME IInv, NEW s \in AllSource, AllocPacket(s)
  PROVE  Channel!Offer(nextPacket)
<1> DEFINE t == TaskOf(s)
<1>1. /\ t \in Task
      /\ cur[t] = 0
      /\ nextPacket \in Pid
      /\ nextPacket' = nextPacket + 1
      /\ cur' = [cur EXCEPT ![t] = nextPacket]
      /\ UNCHANGED <<queue, got>>
  BY TaskOfInTask, BoundAssumption
     DEF AllocPacket, parserVars, IInv, TypeInv, TypeOK, HoldsWhilePreparing,
         Pid
<1>2. nextPacket \notin Seen /\ Seen' = Seen \cup {nextPacket}
  BY <1>1 DEF Seen, Pid
<1>3. Offered' = Offered \cup {nextPacket}
  BY <1>1 DEF Offered, Pid, IInv, TypeInv, TypeOK
<1>4. Taken' = Taken
  BY <1>1 DEF Taken
<1> QED
  BY <1>1, <1>2, <1>3, <1>4 DEF Channel!Offer

(* What a task that lets go of its packet still offers.                    *)
LEMMA OfferedWithout ==
  ASSUME IInv, NEW t \in Task, cur[t] # 0, cur' = [cur EXCEPT ![t] = 0]
  PROVE  Offered' = Offered \ {cur[t]}
  BY DEF Offered, IInv, TypeInv, TypeOK, PacketInv, SingleOwner

LEMMA ReleaseRefuses ==
  ASSUME IInv, NEW t \in Task, AllocDataFails(t) \/ SendTimeout(t)
  PROVE  Channel!Refuse(cur[t])
<1>1. /\ cur[t] # 0
      /\ cur' = [cur EXCEPT ![t] = 0]
      /\ UNCHANGED <<queue, nextPacket, got>>
  BY DEF AllocDataFails, SendTimeout, parserVars, IInv, TypeInv,
         HoldsWhilePreparing
<1>2. cur[t] \in Offered
  BY <1>1 DEF Offered
<1> QED
  BY <1>1, <1>2, OfferedWithout DEF Channel!Refuse, Seen, Taken

LEMMA SendAccepts ==
  ASSUME IInv, NEW t \in Task, Send(t)
  PROVE  Channel!Accept(cur[t])
<1>1. /\ cur[t] # 0
      /\ Len(queue) < QueueSize
      /\ queue' = Append(queue, cur[t])
      /\ cur' = [cur EXCEPT ![t] = 0]
      /\ UNCHANGED <<nextPacket, got>>
  BY DEF Send, SendToBack, QueueHasRoom, parserVars, IInv, TypeInv,
         HoldsWhilePreparing
<1>2. cur[t] \in Offered
  BY <1>1 DEF Offered
<1> QED
  BY <1>1, <1>2, OfferedWithout DEF Channel!Accept, Seen, Taken

LEMMA ReceiveTakes ==
  ASSUME IInv, NEW e \in Exec, ParserReceive(e)
  PROVE  Channel!Take
<1>1. /\ queue # <<>>
      /\ got[e] = 0
      /\ Head(queue) \in Pid
      /\ got' = [got EXCEPT ![e] = Head(queue)]
      /\ queue' = Tail(queue)
      /\ UNCHANGED <<cur, nextPacket>>
  BY DEF ParserReceive, PopQueue, packetVars, IInv, ParserHolds, TypeInv,
         TypeOK
<1>2. Taken' = Taken \cup {Head(queue)}
  BY <1>1 DEF Taken, Pid, IInv, TypeInv, TypeOK
<1> QED
  BY <1>1, <1>2 DEF Channel!Take, Seen, Offered

LEMMA FreeFinishes ==
  ASSUME IInv, NEW e \in Exec, ParserFree(e)
  PROVE  got[e] \in Pid /\ Channel!Finish(got[e])
<1>1. /\ got[e] \in Pid
      /\ got' = [got EXCEPT ![e] = 0]
      /\ UNCHANGED <<queue, cur, nextPacket>>
  BY DEF ParserFree, IInv, ParserHolds, TypeInv, TypeOK
<1>2. got[e] \in Taken /\ Taken' = Taken \ {got[e]}
  BY <1>1 DEF Taken, Pid, IInv, TypeInv, TypeOK, PacketInv, SingleOwner
<1> QED
  BY <1>1, <1>2 DEF Channel!Finish, Seen, Offered

LEMMA ChannelInit == Init => Channel!Init
<1> SUFFICES ASSUME Init PROVE Channel!Init
  OBVIOUS
<1>1. Seen = {} /\ Offered = {} /\ Taken = {}
  BY DEF Init, Seen, Offered, Taken
<1> QED
  BY <1>1 DEF Init, Channel!Init

LEMMA ChannelStep == IInv /\ [Next]_vars => [Channel!Next]_(Channel!cvars)
<1> SUFFICES ASSUME IInv, [Next]_vars
             PROVE  [Channel!Next]_(Channel!cvars)
  OBVIOUS
<1>1. ASSUME NEW s \in AllSource, AllocPacket(s)
      PROVE  Channel!Next
  <2>1. nextPacket \in Pid
    BY <1>1, BoundAssumption DEF AllocPacket, IInv, TypeInv, TypeOK, Pid
  <2> QED
    BY <1>1, <2>1, AllocOffers DEF Channel!Next
<1>2. ASSUME NEW t \in Task, AllocDataFails(t) \/ SendTimeout(t) \/ Send(t)
      PROVE  Channel!Next
  <2>1. cur[t] \in Pid
    BY <1>2 DEF AllocDataFails, SendTimeout, Send, IInv, TypeInv, TypeOK,
                HoldsWhilePreparing
  <2> QED
    BY <1>2, <2>1, ReleaseRefuses, SendAccepts DEF Channel!Next
<1>3. ASSUME NEW e \in Exec, ParserReceive(e) \/ ParserFree(e)
      PROVE  Channel!Next
  BY <1>3, ReceiveTakes, FreeFinishes DEF Channel!Next
<1>4. ASSUME NEW e \in Exec,
             \/ ParserLoop(e) \/ ParserPreprocess(e) \/ ParserSkip(e)
             \/ ParserReply(e) \/ ParserReplyEnds(e)
      PROVE  UNCHANGED Channel!cvars
  BY <1>4, ChannelStutter
     DEF ParserLoop, ParserPreprocess, ParserSkip, ParserReply,
         ParserReplyEnds, packetVars
<1>5. ASSUME NEW t \in Task, AllocData(t) \/ Reconfigure(t)
      PROVE  UNCHANGED Channel!cvars
  BY <1>5, ChannelStutter
     DEF AllocData, Reconfigure, CreateExecutor, CreateNothing,
         ConstructorThrows, LoadOld, StoreNew, StopParser, DeleteParser,
         packetVars, parserVars
<1>6. CASE SelectInit \/ UNCHANGED vars
  <2>1. UNCHANGED <<queue, cur, nextPacket, got>>
    BY <1>6 DEF SelectInit, vars, packetVars, parserVars
  <2> QED
    BY <2>1, ChannelStutter
<1> QED
  BY <1>1, <1>2, <1>3, <1>4, <1>5, <1>6
     DEF Next, Receive, TcpHandleClientData, UdpHandleData, UartHandleData,
         Uart2HandleData, WebsocketHandler, BleWriteTcode, HandyVector,
         AllSource, Producer, Parser, ParserWork

(* The pipeline, with its seven inputs, allocation failures, timeouts and  *)
(* replaced executors, implements the bounded at-most-once FIFO channel.   *)
THEOREM ImplementsChannel == Spec => ChannelSpec
  BY ChannelInit, ChannelStep, IInvCorrect, PTL
     DEF Spec, ChannelSpec, Channel!Spec
-----------------------------------------------------------------------------
(* The commands of one task stay in the order in which it allocated their  *)
(* packets: a packet is newer than the ones of its task that the parsers   *)
(* have applied or hold, and than those before it in the queue.            *)
Sender(p) == TaskOf(origin[p])

NewerThanHandled(p, t) ==
  \A e \in Exec : /\ applied[e][t] < p
                  /\ got[e] # 0 /\ Sender(got[e]) = t => got[e] < p

NewerThanQueued(p, t, n) ==
  \A i \in 1..n : Sender(queue[i]) = t => queue[i] < p

NextIsNewest ==
  \A t \in Task : /\ NewerThanHandled(nextPacket, t)
                  /\ NewerThanQueued(nextPacket, t, Len(queue))

PreparedInOrder ==
  \A t \in Task : cur[t] # 0 => /\ cur[t] < nextPacket
                                /\ Sender(cur[t]) = t
                                /\ NewerThanHandled(cur[t], t)
                                /\ NewerThanQueued(cur[t], t, Len(queue))

QueuedInOrder ==
  \A i \in 1..Len(queue) :
    /\ NewerThanHandled(queue[i], Sender(queue[i]))
    /\ NewerThanQueued(queue[i], Sender(queue[i]), i - 1)

HandledInOrder ==
  \A e \in Exec : got[e] # 0 => applied[e][Sender(got[e])] <= got[e]

OrderInv ==
  NextIsNewest /\ PreparedInOrder /\ QueuedInOrder /\ HandledInOrder

LEMMA OrderInvInit == Init => OrderInv
<1> SUFFICES ASSUME Init PROVE OrderInv
  OBVIOUS
<1>1. NextIsNewest
  BY DEF Init, NextIsNewest, NewerThanHandled, NewerThanQueued
<1> QED
  BY <1>1 DEF Init, OrderInv, PreparedInOrder, QueuedInOrder, HandledInOrder

(* A step that moves no packet and applies none.                           *)
LEMMA OrderFrame ==
  ASSUME OrderInv, UNCHANGED <<queue, cur, nextPacket, origin, got, applied>>
  PROVE  OrderInv'
BY DEF OrderInv, NextIsNewest, PreparedInOrder, QueuedInOrder, HandledInOrder,
       NewerThanHandled, NewerThanQueued, Sender

LEMMA AllocPacketInOrder ==
  ASSUME IInv, OrderInv, NEW s \in AllSource, AllocPacket(s)
  PROVE  OrderInv'
<1> DEFINE u == TaskOf(s)
<1>1. /\ u \in Task
      /\ nextPacket \in Pid
      /\ nextPacket' = nextPacket + 1
      /\ cur' = [cur EXCEPT ![u] = nextPacket]
      /\ origin' = [origin EXCEPT ![nextPacket] = s]
      /\ UNCHANGED <<queue, got, applied>>
  BY TaskOfInTask, BoundAssumption
     DEF AllocPacket, IInv, TypeInv, TypeOK, Pid, parserVars
<1>2. TaskOf(origin'[nextPacket]) = u
  BY <1>1 DEF IInv, TypeInv, TypeOK
<1>3. \A p \in Pid : p # nextPacket => Sender(p)' = Sender(p)
  BY <1>1 DEF Sender, IInv, TypeInv, TypeOK
<1>4. \A e \in Exec : got[e] # 0 => got[e] \in Pid /\ got[e] < nextPacket
  BY <1>1 DEF IInv, TypeInv, TypeOK, PacketInv, UnusedBeyondNext, InParser, Pid
<1>5. \A i \in 1..Len(queue) : queue[i] \in Pid /\ queue[i] < nextPacket
  <2> TAKE i \in 1..Len(queue)
  <2>1. queue[i] \in Pid /\ InQueue(queue[i])
    BY DEF IInv, TypeInv, TypeOK, InQueue
  <2> QED
    BY <1>1, <2>1 DEF IInv, PacketInv, UnusedBeyondNext, Pid
<1>6. \A e \in Exec, t \in Task : applied[e][t] \in Nat
                                  /\ applied[e][t] < nextPacket
  BY DEF OrderInv, NextIsNewest, NewerThanHandled, IInv, TypeInv, TypeOK, Pid
<1>7. NextIsNewest'
  BY <1>1, <1>4, <1>5, <1>6
     DEF NextIsNewest, NewerThanHandled, NewerThanQueued, Pid
<1>8. PreparedInOrder'
  <2> SUFFICES ASSUME NEW t \in Task, cur'[t] # 0
               PROVE  /\ cur'[t] < nextPacket'
                      /\ Sender(cur[t])' = t
                      /\ NewerThanHandled(cur[t], t)'
                      /\ NewerThanQueued(cur[t], t, Len(queue))'
    BY DEF PreparedInOrder
  <2>1. CASE t = u
    <3>1. cur'[t] = nextPacket
      BY <1>1, <2>1 DEF IInv, TypeInv, TypeOK
    <3> QED
      BY <3>1, <2>1, <1>1, <1>2, <1>4, <1>5, <1>6
         DEF NewerThanHandled, NewerThanQueued, Sender, Pid
  <2>2. CASE t # u
    <3>1. cur'[t] = cur[t] /\ cur[t] \in Pid /\ cur[t] < nextPacket
      BY <1>1, <2>2 DEF IInv, TypeInv, TypeOK, OrderInv, PreparedInOrder
    <3>2. /\ Sender(cur[t]) = t
          /\ NewerThanHandled(cur[t], t)
          /\ NewerThanQueued(cur[t], t, Len(queue))
      BY <3>1 DEF OrderInv, PreparedInOrder, Pid
    <3>3. Sender(cur[t])' = t
      BY <1>1, <1>3, <3>1, <3>2 DEF Sender, Pid
    <3>4. NewerThanHandled(cur[t], t)'
      BY <1>1, <1>3, <1>4, <3>1, <3>2 DEF NewerThanHandled, Sender, Pid
    <3>5. NewerThanQueued(cur[t], t, Len(queue))'
      BY <1>1, <1>3, <1>5, <3>1, <3>2 DEF NewerThanQueued, Sender, Pid
    <3> QED
      BY <1>1, <3>1, <3>3, <3>4, <3>5 DEF Pid
  <2> QED
    BY <2>1, <2>2
<1>9. QueuedInOrder'
  <2> SUFFICES ASSUME NEW i \in 1..Len(queue)
               PROVE  /\ NewerThanHandled(queue[i], Sender(queue[i]))'
                      /\ NewerThanQueued(queue[i], Sender(queue[i]), i - 1)'
    BY <1>1 DEF QueuedInOrder
  <2>1. \A p \in Pid : p < nextPacket => TaskOf(origin'[p]) = TaskOf(origin[p])
    BY <1>1, <1>3 DEF Sender, Pid
  <2>2. /\ NewerThanHandled(queue[i], Sender(queue[i]))
        /\ NewerThanQueued(queue[i], Sender(queue[i]), i - 1)
    BY DEF OrderInv, QueuedInOrder
  <2>3. NewerThanHandled(queue[i], Sender(queue[i]))'
    BY <1>1, <1>4, <1>5, <2>1, <2>2 DEF NewerThanHandled, Sender
  <2>4. \A j \in 1..(i - 1) : j \in 1..Len(queue)
    BY DEF IInv, TypeInv, TypeOK
  <2>5. NewerThanQueued(queue[i], Sender(queue[i]), i - 1)'
    BY <1>1, <1>5, <2>1, <2>2, <2>4 DEF NewerThanQueued, Sender
  <2> QED
    BY <2>3, <2>5
<1>10. HandledInOrder'
  BY <1>1, <1>3, <1>4 DEF OrderInv, HandledInOrder, Sender, Pid
<1> QED
  BY <1>7, <1>8, <1>9, <1>10 DEF OrderInv

(* The handler lets go of its packet and frees it.                         *)
LEMMA ReleaseInOrder ==
  ASSUME IInv, OrderInv, NEW t \in Task, cur' = [cur EXCEPT ![t] = 0],
         UNCHANGED <<queue, nextPacket, origin, got, applied>>
  PROVE  OrderInv'
<1>1. \A v \in Task : cur'[v] # 0 => cur'[v] = cur[v]
  BY DEF IInv, TypeInv, TypeOK
<1>2. PreparedInOrder'
  BY <1>1 DEF OrderInv, PreparedInOrder, NewerThanHandled, NewerThanQueued,
              Sender
<1> QED
  BY <1>2 DEF OrderInv, NextIsNewest, QueuedInOrder, HandledInOrder,
              NewerThanHandled, NewerThanQueued, Sender

LEMMA SendInOrder ==
  ASSUME IInv, OrderInv, NEW t \in Task, Send(t)
  PROVE  OrderInv'
<1>1. /\ cur[t] \in Pid
      /\ cur[t] < nextPacket
      /\ Sender(cur[t]) = t
      /\ NewerThanHandled(cur[t], t)
      /\ NewerThanQueued(cur[t], t, Len(queue))
  BY DEF Send, IInv, TypeInv, TypeOK, HoldsWhilePreparing, OrderInv,
         PreparedInOrder
<1>2. /\ queue' = Append(queue, cur[t])
      /\ cur' = [cur EXCEPT ![t] = 0]
      /\ UNCHANGED <<nextPacket, origin, got, applied>>
  BY DEF Send, SendToBack, parserVars
<1>3. /\ Len(queue') = Len(queue) + 1
      /\ \A i \in 1..Len(queue) : queue'[i] = queue[i]
      /\ queue'[Len(queue) + 1] = cur[t]
      /\ Len(queue) \in Nat
  BY <1>1, <1>2 DEF IInv, TypeInv, TypeOK
<1>4. \A i \in 1..Len(queue') :
         \/ i \in 1..Len(queue) /\ queue'[i] = queue[i]
         \/ i = Len(queue) + 1 /\ queue'[i] = cur[t]
  BY <1>3
<1>5. NextIsNewest'
  BY <1>1, <1>2, <1>4 DEF OrderInv, NextIsNewest, NewerThanHandled,
                          NewerThanQueued, Sender
<1>6. PreparedInOrder'
  <2> SUFFICES ASSUME NEW v \in Task, cur'[v] # 0
               PROVE  /\ cur'[v] < nextPacket'
                      /\ Sender(cur[v])' = v
                      /\ NewerThanHandled(cur[v], v)'
                      /\ NewerThanQueued(cur[v], v, Len(queue))'
    BY DEF PreparedInOrder
  <2>1. v # t /\ cur'[v] = cur[v]
    BY <1>2 DEF IInv, TypeInv, TypeOK
  <2>2. /\ cur[v] < nextPacket
        /\ Sender(cur[v]) = v
        /\ NewerThanHandled(cur[v], v)
        /\ NewerThanQueued(cur[v], v, Len(queue))
    BY <2>1 DEF OrderInv, PreparedInOrder
  <2>3. NewerThanQueued(cur[v], v, Len(queue))'
    BY <1>1, <1>2, <1>4, <2>1, <2>2 DEF NewerThanQueued, Sender
  <2> QED
    BY <1>2, <2>1, <2>2, <2>3 DEF NewerThanHandled, Sender
<1>7. QueuedInOrder'
  <2> SUFFICES ASSUME NEW i \in 1..Len(queue')
               PROVE  /\ NewerThanHandled(queue[i], Sender(queue[i]))'
                      /\ NewerThanQueued(queue[i], Sender(queue[i]), i - 1)'
    BY DEF QueuedInOrder
  <2>1. CASE i \in 1..Len(queue)
    <3>1. /\ NewerThanHandled(queue[i], Sender(queue[i]))
          /\ NewerThanQueued(queue[i], Sender(queue[i]), i - 1)
      BY <2>1 DEF OrderInv, QueuedInOrder
    <3>2. \A j \in 1..(i - 1) : j \in 1..Len(queue)
      BY <2>1, <1>3
    <3> QED
      BY <1>2, <1>3, <2>1, <3>1, <3>2
         DEF NewerThanHandled, NewerThanQueued, Sender
  <2>2. CASE i = Len(queue) + 1
    <3>1. i - 1 = Len(queue)
      BY <2>2, <1>3
    <3> QED
      BY <1>1, <1>2, <1>3, <2>2, <3>1
         DEF NewerThanHandled, NewerThanQueued, Sender
  <2> QED
    BY <1>4, <2>1, <2>2
<1>8. HandledInOrder'
  BY <1>2 DEF OrderInv, HandledInOrder, Sender
<1> QED
  BY <1>5, <1>6, <1>7, <1>8 DEF OrderInv

LEMMA ParserReceiveInOrder ==
  ASSUME IInv, OrderInv, NEW e \in Exec, ParserReceive(e)
  PROVE  OrderInv'
<1> DEFINE h == Head(queue)
<1>1. /\ got' = [got EXCEPT ![e] = h]
      /\ queue' = Tail(queue)
      /\ UNCHANGED <<cur, nextPacket, origin, applied>>
  BY DEF ParserReceive, PopQueue, packetVars
<1>2. /\ h \in Pid
      /\ Len(queue) \in Nat \ {0}
      /\ queue[1] = h
      /\ Len(queue') = Len(queue) - 1
      /\ \A i \in 1..Len(queue') : queue'[i] = queue[i + 1]
  BY <1>1 DEF ParserReceive, IInv, TypeInv, TypeOK
<1>3. \A i \in 1..Len(queue') : i + 1 \in 1..Len(queue)
  BY <1>2
<1>4. \A d \in Exec : got'[d] = got[d] \/ got'[d] = h
  BY <1>1 DEF IInv, TypeInv, TypeOK
<1>5. 1 \in 1..Len(queue)
  BY <1>2
<1>6. NextIsNewest'
  BY <1>1, <1>2, <1>3, <1>4, <1>5
     DEF OrderInv, NextIsNewest, NewerThanHandled, NewerThanQueued, Sender
<1>7. PreparedInOrder'
  BY <1>1, <1>2, <1>3, <1>4, <1>5
     DEF OrderInv, PreparedInOrder, NewerThanHandled, NewerThanQueued, Sender
<1>8. QueuedInOrder'
  <2> SUFFICES ASSUME NEW i \in 1..Len(queue')
               PROVE  /\ NewerThanHandled(queue[i], Sender(queue[i]))'
                      /\ NewerThanQueued(queue[i], Sender(queue[i]), i - 1)'
    BY DEF QueuedInOrder
  <2>1. /\ queue'[i] = queue[i + 1]
        /\ NewerThanHandled(queue[i + 1], Sender(queue[i + 1]))
        /\ NewerThanQueued(queue[i + 1], Sender(queue[i + 1]), i)
    <3>1. (i + 1) - 1 = i
      BY <1>2
    <3> QED
      BY <3>1, <1>2, <1>3 DEF OrderInv, QueuedInOrder
  <2>2. 1 \in 1..i
    BY <1>2
  <2>3. \A j \in 1..(i - 1) : j + 1 \in 1..i /\ j \in 1..Len(queue')
    BY <1>2
  <2>4. NewerThanHandled(queue[i], Sender(queue[i]))'
    BY <1>1, <1>2, <1>4, <2>1, <2>2
       DEF NewerThanHandled, NewerThanQueued, Sender
  <2>5. NewerThanQueued(queue[i], Sender(queue[i]), i - 1)'
    BY <1>1, <1>2, <2>1, <2>3 DEF NewerThanQueued, Sender
  <2> QED
    BY <2>4, <2>5
<1>9. HandledInOrder'
  <2>1. \A d \in Exec : /\ applied[d][Sender(h)] < h
                        /\ applied[d][Sender(h)] \in Nat
    <3>1. Sender(h) \in Task
      BY TaskOfInTask DEF Sender
    <3> QED
      BY <3>1, <1>2, <1>5 DEF OrderInv, QueuedInOrder, NewerThanHandled, IInv,
                              TypeInv, TypeOK, Pid
  <2>2. \A d \in Exec : applied[d][Sender(h)] <= h
    BY <2>1, <1>2 DEF Pid
  <2> QED
    BY <1>1, <1>4, <2>2 DEF OrderInv, HandledInOrder, Sender
<1> QED
  BY <1>6, <1>7, <1>8, <1>9 DEF OrderInv

(* The parser's write of the axes: what it applies is not older than what  *)
(* was applied, and older than all that is still to come.                  *)
LEMMA ParserPreprocessInOrder ==
  ASSUME IInv, OrderInv, NEW e \in Exec, ParserPreprocess(e)
  PROVE  OrderInv'
<1> DEFINE u == Sender(got[e])
<1>1. /\ got[e] # 0
      /\ applied' = [applied EXCEPT ![e][u] = got[e]]
      /\ UNCHANGED <<queue, cur, nextPacket, origin, got>>
  BY DEF ParserPreprocess, packetVars, Sender, IInv, ParserHolds
<1>2. \A d \in Exec, t \in Task :
         \/ applied'[d][t] = applied[d][t]
         \/ d = e /\ t = u /\ applied'[d][t] = got[e]
  BY <1>1 DEF IInv, TypeInv, TypeOK
<1>3. ASSUME NEW p, NEW t \in Task, NewerThanHandled(p, t)
      PROVE  \A d \in Exec : applied'[d][t] < p
  BY <1>1, <1>2, <1>3 DEF NewerThanHandled
<1>4. \A p : Sender(p) \in Task
  BY TaskOfInTask DEF Sender
<1>5. NextIsNewest'
  BY <1>1, <1>3 DEF OrderInv, NextIsNewest, NewerThanHandled, NewerThanQueued,
                    Sender
<1>6. PreparedInOrder'
  BY <1>1, <1>3 DEF OrderInv, PreparedInOrder, NewerThanHandled,
                    NewerThanQueued, Sender
<1>7. QueuedInOrder'
  BY <1>1, <1>3, <1>4 DEF OrderInv, QueuedInOrder, NewerThanHandled,
                          NewerThanQueued, Sender
<1>8. HandledInOrder'
  <2>1. got[e] <= got[e]
    BY DEF IInv, TypeInv, TypeOK, Pid
  <2>2. \A d \in Exec : got'[d] # 0 => applied'[d][Sender(got[d])] <= got[d]
    BY <1>1, <1>2, <1>4, <2>1 DEF OrderInv, HandledInOrder
  <2> QED
    BY <2>2, <1>1 DEF HandledInOrder, Sender
<1> QED
  BY <1>5, <1>6, <1>7, <1>8 DEF OrderInv

LEMMA ParserFreeInOrder ==
  ASSUME IInv, OrderInv, NEW e \in Exec, ParserFree(e)
  PROVE  OrderInv'
<1>1. /\ got' = [got EXCEPT ![e] = 0]
      /\ UNCHANGED <<queue, cur, nextPacket, origin, applied>>
  BY DEF ParserFree
<1>2. \A d \in Exec : got'[d] = got[d] \/ got'[d] = 0
  BY <1>1 DEF IInv, TypeInv, TypeOK
<1> QED
  BY <1>1, <1>2 DEF OrderInv, NextIsNewest, PreparedInOrder, QueuedInOrder,
                    HandledInOrder, NewerThanHandled, NewerThanQueued, Sender

LEMMA OrderInvStep == IInv /\ OrderInv /\ [Next]_vars => OrderInv'
<1> SUFFICES ASSUME IInv, OrderInv, [Next]_vars
             PROVE  OrderInv'
  OBVIOUS
<1>1. ASSUME NEW s \in AllSource, AllocPacket(s)
      PROVE  OrderInv'
  BY <1>1, AllocPacketInOrder
<1>2. ASSUME NEW t \in Task, AllocDataFails(t) \/ SendTimeout(t)
      PROVE  OrderInv'
  BY <1>2, ReleaseInOrder DEF AllocDataFails, SendTimeout, parserVars
<1>3. ASSUME NEW t \in Task, Send(t)
      PROVE  OrderInv'
  BY <1>3, SendInOrder
<1>4. ASSUME NEW e \in Exec, ParserReceive(e) \/ ParserPreprocess(e)
      PROVE  OrderInv'
  BY <1>4, ParserReceiveInOrder, ParserPreprocessInOrder
<1>5. ASSUME NEW e \in Exec, ParserFree(e)
      PROVE  OrderInv'
  BY <1>5, ParserFreeInOrder
<1>6. ASSUME NEW e \in Exec, \/ ParserLoop(e) \/ ParserSkip(e)
                              \/ ParserReply(e) \/ ParserReplyEnds(e)
      PROVE  OrderInv'
  BY <1>6, OrderFrame
     DEF ParserLoop, ParserSkip, ParserReply, ParserReplyEnds, packetVars
<1>7. ASSUME NEW t \in Task, AllocData(t) \/ Reconfigure(t)
      PROVE  OrderInv'
  BY <1>7, OrderFrame
     DEF AllocData, Reconfigure, CreateExecutor, CreateNothing,
         ConstructorThrows, LoadOld, StoreNew, StopParser, DeleteParser,
         packetVars, parserVars
<1>8. CASE SelectInit \/ UNCHANGED vars
  <2>1. UNCHANGED <<queue, cur, nextPacket, origin, got, applied>>
    BY <1>8 DEF SelectInit, vars, packetVars, parserVars
  <2> QED
    BY <2>1, OrderFrame
<1> QED
  BY <1>1, <1>2, <1>3, <1>4, <1>5, <1>6, <1>7, <1>8
     DEF Next, Receive, TcpHandleClientData, UdpHandleData, UartHandleData,
         Uart2HandleData, WebsocketHandler, BleWriteTcode, HandyVector,
         AllSource, Producer, Parser, ParserWork

(* Only the parser writes the axes, and never an older command over a      *)
(* newer one of the same task.                                             *)
LEMMA OrderKept ==
  IInv /\ OrderInv /\ [Next]_vars
    => \A e \in Exec, t \in Task : applied[e][t] <= applied'[e][t]
<1> SUFFICES ASSUME IInv, OrderInv, [Next]_vars, NEW e \in Exec, NEW t \in Task
             PROVE  applied[e][t] <= applied'[e][t]
  OBVIOUS
<1>1. applied[e][t] \in Nat
  BY DEF IInv, TypeInv, TypeOK, Pid
<1>2. ASSUME NEW d \in Exec, ParserPreprocess(d)
      PROVE  applied[e][t] <= applied'[e][t]
  <2>1. /\ got[d] # 0
        /\ applied' = [applied EXCEPT ![d][Sender(got[d])] = got[d]]
    BY <1>2 DEF ParserPreprocess, Sender, IInv, ParserHolds
  <2>2. \/ applied'[e][t] = applied[e][t]
        \/ e = d /\ t = Sender(got[d]) /\ applied'[e][t] = got[d]
    BY <2>1 DEF IInv, TypeInv, TypeOK
  <2> QED
    BY <1>1, <2>1, <2>2 DEF OrderInv, HandledInOrder
<1>3. CASE UNCHANGED applied
  BY <1>1, <1>3
<1> QED
  BY <1>2, <1>3
     DEF Next, SelectInit, Receive, TcpHandleClientData, UdpHandleData,
         UartHandleData, Uart2HandleData, WebsocketHandler, BleWriteTcode,
         HandyVector, AllocPacket, Producer, AllocData, AllocDataFails, Send,
         SendTimeout, Reconfigure, CreateExecutor, CreateNothing,
         ConstructorThrows, LoadOld, StoreNew, StopParser, DeleteParser,
         Parser, ParserWork, ParserLoop, ParserReceive, ParserSkip,
         ParserReply, ParserReplyEnds, ParserFree, vars, parserVars

(* Two commands of one task reach an executor's tcode in the order they    *)
(* were received, with any number of inputs, executors and replacements.   *)
THEOREM InOrder == Spec => CommandsInOrder
<1>1. Init => IInv /\ OrderInv
  BY TypeInvInit, PointersBuiltInit, ParserHoldsInit, PacketInvInit,
     OrderInvInit DEF IInv
<1>2. IInv /\ OrderInv /\ [Next]_vars => OrderInv'
  BY OrderInvStep
<1>3. IInv /\ OrderInv /\ [Next]_vars
        => [\A e \in Exec, t \in Task : applied[e][t] <= applied'[e][t]]_vars
  BY OrderKept
<1> QED
  BY <1>1, <1>2, <1>3, IInvCorrect, PTL DEF Spec, CommandsInOrder

-----------------------------------------------------------------------------
(* Replacing g_executor leaves one parser task, unless two replacements    *)
(* overlap between the load and the store of the pointer.                  *)


(* Where a task is when it carries a pointer.                              *)
PointersInUse ==
  \A t \in Task :
    /\ fresh[t] # 0 => pc[t] \in {"building", "storing"}
    /\ pc[t] \in {"destroying", "deleting"} => old[t] # 0

(* An executor that was built and not yet stored is known to its builder   *)
(* alone.                                                                  *)
FreshIsPrivate ==
  \A t \in Task : fresh[t] # 0 =>
    /\ fresh[t] # current
    /\ \A u \in Task : old[u] # fresh[t]
    /\ \A u \in Task : fresh[u] = fresh[t] => u = t

(* The run flag of a parser task that is running is set, and is cleared    *)
(* before the task is deleted.                                             *)
RunningIsLive ==
  /\ \A e \in Exec : running[e] => Live(e)
  /\ \A t \in Task : \A e \in Exec :
       pc[t] = "deleting" /\ old[t] = e => ~running[e]

Doing(t) == pc[t] \in {"destroying", "deleting"}

(* As long as no store lost a pointer, destructors run on distinct         *)
(* executors, none of them g_executor.                                     *)
DestroyedOnce ==
  \A t \in Task : Doing(t) =>
    /\ old[t] # current
    /\ \A u \in Task : Doing(u) /\ old[u] = old[t] => u = t

(* ... an executor that is installed, being built or about to be destroyed *)
(* still runs its parser task ...                                          *)
KnownRuns ==
  \A e \in Exec :
    (\/ e = current
     \/ \E t \in Task : fresh[t] = e
     \/ \E t \in Task : old[t] = e /\ pc[t] = "destroying") => running[e]

(* ... and every parser task belongs to an executor somebody points to.    *)
LiveIsKnown ==
  \A e \in Exec : Live(e) =>
    \/ e = current
    \/ \E t \in Task : fresh[t] = e
    \/ \E t \in Task : old[t] = e /\ Doing(t)

ExchangeInv ==
  /\ PointersInUse
  /\ FreshIsPrivate
  /\ RunningIsLive
  /\ ~raced => DestroyedOnce /\ KnownRuns /\ LiveIsKnown

Base == TypeInv /\ PointersBuilt /\ ParserHolds

LEMMA BaseCorrect == Spec => []Base
<1>1. IInv => Base
  BY DEF IInv, Base
<1> QED
  BY IInvCorrect, <1>1, PTL

LEMMA ExchangeInit == Init => ExchangeInv
<1> SUFFICES ASSUME Init PROVE ExchangeInv
  OBVIOUS
<1>1. /\ current = 0
      /\ \A t \in Task : /\ fresh[t] = 0
                         /\ old[t] = 0
                         /\ pc[t] \in {"booting", "idle"}
      /\ \A e \in Exec : parser[e] = "none" /\ ~running[e] /\ e # 0
  BY BoundAssumption DEF Init, Exec
<1> QED
  BY <1>1 DEF ExchangeInv, PointersInUse, FreshIsPrivate, RunningIsLive,
              DestroyedOnce, KnownRuns, LiveIsKnown, Live, Doing

(* A step of a task that neither builds, stores nor destroys, or of a      *)
(* parser task that stays alive.                                           *)
LEMMA ExchangeFrame ==
  ASSUME Base, ExchangeInv,
         UNCHANGED <<current, fresh, old, running, raced>>,
         \A e \in Exec : Live(e)' <=> Live(e),
         \A t \in Task : \/ pc'[t] = pc[t]
                         \/ ~Reconfiguring(t) /\ ~Reconfiguring(t)'
  PROVE  ExchangeInv'
  BY DEF ExchangeInv, PointersInUse, FreshIsPrivate, RunningIsLive,
         DestroyedOnce, KnownRuns, LiveIsKnown, Doing, Reconfiguring

LEMMA CreateExecutorInv ==
  ASSUME Base, ExchangeInv, NEW t \in Task, CreateExecutor(t)
  PROVE  ExchangeInv'
<1> USE DEF Base, TypeInv, TypeOK, Exec
<1>1. /\ pc[t] = "idle"
      /\ nextExec \in Exec
      /\ fresh' = [fresh EXCEPT ![t] = nextExec]
      /\ parser' = [parser EXCEPT ![nextExec] = "looping"]
      /\ running' = [running EXCEPT ![nextExec] = TRUE]
      /\ pc' = [pc EXCEPT ![t] = "building"]
      /\ UNCHANGED <<current, old, raced>>
  BY BoundAssumption DEF CreateExecutor
<1>2. /\ current # nextExec
      /\ \A u \in Task : fresh[u] # nextExec /\ old[u] # nextExec
  BY DEF PointersBuilt
<1>3. fresh[t] = 0 /\ ~Doing(t)
  BY <1>1 DEF ExchangeInv, PointersInUse, Doing
<1>4. \A u \in Task : fresh'[u] = (IF u = t THEN nextExec ELSE fresh[u])
  BY <1>1
<1>5. \A u \in Task : u # t => pc'[u] = pc[u]
  BY <1>1
<1>6. pc'[t] = "building"
  BY <1>1
<1>7. \A e \in Exec : /\ Live(e)' <=> Live(e) \/ e = nextExec
                      /\ running'[e] <=> running[e] \/ e = nextExec
  BY <1>1 DEF Live
<1>8. PointersInUse'
  BY <1>1, <1>3, <1>4, <1>5, <1>6 DEF ExchangeInv, PointersInUse
<1>9. FreshIsPrivate'
  BY <1>1, <1>2, <1>4 DEF ExchangeInv, FreshIsPrivate
<1>10. RunningIsLive'
  BY <1>1, <1>2, <1>5, <1>6, <1>7 DEF ExchangeInv, RunningIsLive
<1>11. \A u \in Task : Doing(u)' <=> Doing(u)
  BY <1>3, <1>5, <1>6 DEF Doing
<1>12. ~raced' => DestroyedOnce'
  BY <1>1, <1>11 DEF ExchangeInv, DestroyedOnce
<1>13. ~raced' => KnownRuns'
  BY <1>1, <1>2, <1>4, <1>5, <1>6, <1>7 DEF ExchangeInv, KnownRuns
<1>14. ~raced' => LiveIsKnown'
  BY <1>1, <1>3, <1>4, <1>7, <1>11 DEF ExchangeInv, LiveIsKnown
<1> QED
  BY <1>8, <1>9, <1>10, <1>12, <1>13, <1>14 DEF ExchangeInv

LEMMA ConstructorThrowsInv ==
  ASSUME Base, ExchangeInv, NEW t \in Task, ConstructorThrows(t)
  PROVE  ExchangeInv'
<1> USE DEF Base, TypeInv, TypeOK
<1>1. /\ pc[t] = "building" /\ fresh[t] # 0
      /\ old' = [old EXCEPT ![t] = fresh[t]]
      /\ fresh' = [fresh EXCEPT ![t] = 0]
      /\ pc' = [pc EXCEPT ![t] = "destroying"]
      /\ UNCHANGED <<current, parser, running, raced>>
  BY DEF ConstructorThrows, parserVars
<1>2. fresh[t] \in Exec /\ ~Doing(t)
  BY <1>1 DEF Doing
<1>3. \A u \in Task : /\ u # t => /\ pc'[u] = pc[u]
                                  /\ fresh'[u] = fresh[u]
                                  /\ old'[u] = old[u]
                      /\ pc'[t] = "destroying"
                      /\ fresh'[t] = 0
                      /\ old'[t] = fresh[t]
  BY <1>1
<1>4. \A e \in Exec : Live(e)' <=> Live(e)
  BY <1>1 DEF Live
<1>5. PointersInUse'
  BY <1>1, <1>3 DEF ExchangeInv, PointersInUse
<1>6. FreshIsPrivate'
  BY <1>1, <1>3 DEF ExchangeInv, FreshIsPrivate
<1>7. RunningIsLive'
  BY <1>1, <1>3, <1>4 DEF ExchangeInv, RunningIsLive
<1>8. ~raced' => DestroyedOnce'
  BY <1>1, <1>2, <1>3 DEF ExchangeInv, DestroyedOnce, FreshIsPrivate, Doing
<1>9. ~raced' => KnownRuns'
  <2> SUFFICES ASSUME ~raced, NEW e \in Exec,
                      \/ e = current
                      \/ \E u \in Task : fresh'[u] = e
                      \/ \E u \in Task : old'[u] = e /\ pc'[u] = "destroying"
               PROVE  running[e]
    BY <1>1 DEF KnownRuns
  <2>1. \/ e = current
        \/ \E u \in Task : fresh[u] = e
        \/ \E u \in Task : old[u] = e /\ pc[u] = "destroying"
    BY <1>3 DEF Exec
  <2> QED
    BY <2>1 DEF ExchangeInv, KnownRuns
<1>10. ~raced' => LiveIsKnown'
  <2> SUFFICES ASSUME ~raced, NEW e \in Exec, Live(e)
               PROVE  \/ e = current
                      \/ \E u \in Task : fresh'[u] = e
                      \/ \E u \in Task : old'[u] = e /\ Doing(u)'
    BY <1>1, <1>4 DEF LiveIsKnown
  <2>1. CASE e = current
    BY <2>1
  <2>2. ASSUME NEW u \in Task, fresh[u] = e
        PROVE  \/ \E v \in Task : fresh'[v] = e
               \/ \E v \in Task : old'[v] = e /\ Doing(v)'
    BY <2>2, <1>3 DEF Doing
  <2>3. ASSUME NEW u \in Task, old[u] = e, Doing(u)
        PROVE  \E v \in Task : old'[v] = e /\ Doing(v)'
    BY <2>3, <1>2, <1>3 DEF Doing
  <2> QED
    BY <2>1, <2>2, <2>3 DEF ExchangeInv, LiveIsKnown
<1> QED
  BY <1>5, <1>6, <1>7, <1>8, <1>9, <1>10 DEF ExchangeInv

LEMMA LoadOldInv ==
  ASSUME Base, ExchangeInv, NEW t \in Task, LoadOld(t)
  PROVE  ExchangeInv'
<1> USE DEF Base, TypeInv, TypeOK
<1>1. /\ pc[t] = "building"
      /\ old' = [old EXCEPT ![t] = current]
      /\ pc' = [pc EXCEPT ![t] = "storing"]
      /\ UNCHANGED <<current, fresh, parser, running, raced>>
  BY DEF LoadOld, parserVars
<1>2. \A u \in Task : /\ u # t => pc'[u] = pc[u] /\ old'[u] = old[u]
                      /\ pc'[t] = "storing"
                      /\ old'[t] = current
  BY <1>1
<1>3. \A u \in Task : Doing(u)' <=> Doing(u)
  BY <1>1, <1>2 DEF Doing
<1>4. \A e \in Exec : Live(e)' <=> Live(e)
  BY <1>1 DEF Live
<1>5. PointersInUse'
  BY <1>1, <1>2 DEF ExchangeInv, PointersInUse
<1>6. FreshIsPrivate'
  BY <1>1, <1>2 DEF ExchangeInv, FreshIsPrivate
<1>7. RunningIsLive'
  BY <1>1, <1>2, <1>4 DEF ExchangeInv, RunningIsLive
<1>8. ~raced' => DestroyedOnce'
  BY <1>1, <1>2, <1>3 DEF ExchangeInv, DestroyedOnce, Doing
<1>9. ~raced' => KnownRuns' /\ LiveIsKnown'
  <2> SUFFICES ASSUME ~raced
               PROVE  KnownRuns' /\ LiveIsKnown'
    BY <1>1
  <2>1. \A u \in Task : \A e \in Exec :
          old'[u] = e /\ pc'[u] = "destroying"
            => old[u] = e /\ pc[u] = "destroying"
    BY <1>2
  <2>2. KnownRuns'
    BY <1>1, <2>1 DEF ExchangeInv, KnownRuns
  <2>3. \A u \in Task : \A e \in Exec :
          old[u] = e /\ Doing(u) => old'[u] = e /\ Doing(u)'
    BY <1>1, <1>2, <1>3 DEF Doing
  <2>4. LiveIsKnown'
    BY <1>1, <1>4, <2>3 DEF ExchangeInv, LiveIsKnown
  <2> QED
    BY <2>2, <2>4
<1> QED
  BY <1>5, <1>6, <1>7, <1>8, <1>9 DEF ExchangeInv

LEMMA StoreNewInv ==
  ASSUME Base, ExchangeInv, NEW t \in Task, StoreNew(t)
  PROVE  ExchangeInv'
<1> USE DEF Base, TypeInv, TypeOK
<1>1. /\ pc[t] = "storing"
      /\ current' = fresh[t]
      /\ raced' = (raced \/ current # old[t])
      /\ fresh' = [fresh EXCEPT ![t] = 0]
      /\ pc' = [pc EXCEPT ![t] = AfterStore(t)]
      /\ UNCHANGED <<old, parser, running>>
  BY DEF StoreNew, parserVars
<1>2. \A u \in Task : /\ u # t => pc'[u] = pc[u] /\ fresh'[u] = fresh[u]
                      /\ fresh'[t] = 0
                      /\ old'[u] = old[u]
  BY <1>1
<1>3. \/ old[t] = 0 /\ pc'[t] \in {"idle", "finished"}
      \/ old[t] # 0 /\ pc'[t] = "destroying"
  BY <1>1 DEF AfterStore, Done
<1>4. \A e \in Exec : /\ Live(e)' <=> Live(e)
                      /\ e # 0
  BY <1>1 DEF Live, Exec
<1>5. PointersInUse'
  BY <1>1, <1>2, <1>3 DEF ExchangeInv, PointersInUse
<1>6. FreshIsPrivate'
  BY <1>1, <1>2 DEF ExchangeInv, FreshIsPrivate
<1>7. RunningIsLive'
  BY <1>1, <1>2, <1>3, <1>4 DEF ExchangeInv, RunningIsLive
<1>8. ASSUME ~raced'
      PROVE  DestroyedOnce' /\ KnownRuns' /\ LiveIsKnown'
  <2>1. ~raced /\ current = old[t]
    BY <1>1, <1>8
  <2>2. DestroyedOnce /\ KnownRuns /\ LiveIsKnown
    BY <2>1 DEF ExchangeInv
  <2>3. \A u \in Task : Doing(u)' <=> Doing(u) \/ (u = t /\ old[t] # 0)
    BY <1>1, <1>2, <1>3 DEF Doing
  <2>4. \A u \in Task : Doing(u) => old[u] # old[t] /\ old[u] # 0
    BY <2>1, <2>2 DEF DestroyedOnce, ExchangeInv, PointersInUse, Doing
  <2>5. \A u \in Task : fresh[t] # 0 => old[u] # fresh[t]
    BY DEF ExchangeInv, FreshIsPrivate
  <2>6. DestroyedOnce'
    <3> SUFFICES ASSUME NEW u \in Task, Doing(u)'
                 PROVE  /\ old[u] # fresh[t]
                        /\ \A v \in Task :
                             Doing(v)' /\ old[v] = old[u] => v = u
      BY <1>1, <1>2 DEF DestroyedOnce
    <3>1. old[u] # 0
      BY <2>3, <2>4
    <3>2. old[u] # fresh[t]
      BY <3>1, <2>5
    <3>3. \A v \in Task : Doing(v)' /\ old[v] = old[u] => v = u
      BY <2>2, <2>3, <2>4 DEF DestroyedOnce
    <3> QED
      BY <3>2, <3>3
  <2>7. KnownRuns'
    <3> SUFFICES ASSUME NEW e \in Exec,
                        \/ e = fresh[t]
                        \/ \E u \in Task : fresh'[u] = e
                        \/ \E u \in Task : old[u] = e /\ pc'[u] = "destroying"
                 PROVE  running[e]
      BY <1>1, <1>2 DEF KnownRuns
    <3>1. \/ e = current
          \/ \E u \in Task : fresh[u] = e
          \/ \E u \in Task : old[u] = e /\ pc[u] = "destroying"
      BY <1>2, <1>4, <2>1
    <3> QED
      BY <3>1, <2>2 DEF KnownRuns
  <2>8. LiveIsKnown'
    <3> SUFFICES ASSUME NEW e \in Exec, Live(e)
                 PROVE  \/ e = fresh[t]
                        \/ \E u \in Task : fresh'[u] = e
                        \/ \E u \in Task : old[u] = e /\ Doing(u)'
      BY <1>1, <1>2, <1>4 DEF LiveIsKnown
    <3>1. CASE e = current
      BY <3>1, <1>4, <2>1, <2>3
    <3>2. CASE \E u \in Task : fresh[u] = e
      BY <3>2, <1>2
    <3>3. CASE \E u \in Task : old[u] = e /\ Doing(u)
      BY <3>3, <2>3
    <3> QED
      BY <3>1, <3>2, <3>3, <2>2 DEF LiveIsKnown
  <2> QED
    BY <2>6, <2>7, <2>8
<1> QED
  BY <1>5, <1>6, <1>7, <1>8 DEF ExchangeInv

LEMMA StopParserInv ==
  ASSUME Base, ExchangeInv, NEW t \in Task, StopParser(t)
  PROVE  ExchangeInv'
<1> USE DEF Base, TypeInv, TypeOK
<1> DEFINE o == old[t]
<1>1. /\ pc[t] = "destroying"
      /\ running' = [running EXCEPT ![o] = FALSE]
      /\ pc' = [pc EXCEPT ![t] = IF running[o] THEN "deleting" ELSE Done(t)]
      /\ old' = IF running[o] THEN old ELSE [old EXCEPT ![t] = 0]
      /\ UNCHANGED <<current, fresh, parser, raced>>
  BY DEF StopParser, Doomed
<1>2. o \in Exec
  BY <1>1 DEF ExchangeInv, PointersInUse
<1>3. \A e \in Exec : /\ Live(e)' <=> Live(e)
                      /\ running'[e] <=> running[e] /\ e # o
  BY <1>1 DEF Live
<1>4. \A u \in Task : u # t => pc'[u] = pc[u] /\ old'[u] = old[u]
  BY <1>1
<1>5. \/ running[o] /\ pc'[t] = "deleting" /\ old'[t] = o
      \/ ~running[o] /\ pc'[t] \in {"idle", "finished"} /\ old'[t] = 0
  BY <1>1 DEF Done
<1>6. PointersInUse'
  BY <1>1, <1>2, <1>4, <1>5 DEF ExchangeInv, PointersInUse, Exec
<1>7. FreshIsPrivate'
  BY <1>1, <1>4, <1>5 DEF ExchangeInv, FreshIsPrivate
<1>8. RunningIsLive'
  <2>1. \A e \in Exec : running'[e] => Live(e)'
    BY <1>3 DEF ExchangeInv, RunningIsLive
  <2>2. \A u \in Task : \A e \in Exec :
          pc'[u] = "deleting" /\ old'[u] = e => ~running'[e]
    <3> SUFFICES ASSUME NEW u \in Task, NEW e \in Exec,
                        pc'[u] = "deleting", old'[u] = e
                 PROVE  ~running'[e]
      OBVIOUS
    <3>1. CASE u = t
      BY <1>3, <1>5, <3>1
    <3>2. CASE u # t
      BY <1>3, <1>4, <3>2 DEF ExchangeInv, RunningIsLive
    <3> QED
      BY <3>1, <3>2
  <2> QED
    BY <2>1, <2>2 DEF RunningIsLive
<1>9. ASSUME ~raced
      PROVE  DestroyedOnce' /\ KnownRuns' /\ LiveIsKnown'
  <2>1. DestroyedOnce /\ KnownRuns /\ LiveIsKnown
    BY <1>9 DEF ExchangeInv
  <2>2. running[o]
    BY <2>1, <1>1, <1>2 DEF KnownRuns
  <2>3. /\ \A u \in Task : old'[u] = old[u]
        /\ \A u \in Task : Doing(u)' <=> Doing(u)
    BY <2>2, <1>1, <1>4, <1>5 DEF Doing
  <2>4. DestroyedOnce'
    BY <2>1, <2>3, <1>1 DEF DestroyedOnce
  <2>5. KnownRuns'
    <3> SUFFICES ASSUME NEW e \in Exec,
                        \/ e = current
                        \/ \E u \in Task : fresh[u] = e
                        \/ \E u \in Task : old[u] = e /\ pc'[u] = "destroying"
                 PROVE  running[e] /\ e # o
      BY <1>1, <1>3, <2>3 DEF KnownRuns
    <3>1. CASE e = current
      BY <3>1, <2>1, <1>1 DEF KnownRuns, DestroyedOnce, Doing
    <3>2. CASE \E u \in Task : fresh[u] = e
      BY <3>2, <2>1, <1>2 DEF KnownRuns, ExchangeInv, FreshIsPrivate, Exec
    <3>3. CASE \E u \in Task : old[u] = e /\ pc'[u] = "destroying"
      <4>1. PICK u \in Task : old[u] = e /\ pc'[u] = "destroying"
        BY <3>3
      <4>2. u # t /\ pc[u] = "destroying"
        BY <4>1, <1>4, <1>5
      <4> QED
        BY <4>1, <4>2, <2>1, <1>1 DEF KnownRuns, DestroyedOnce, Doing
    <3> QED
      BY <3>1, <3>2, <3>3
  <2>6. LiveIsKnown'
    BY <2>1, <2>3, <1>1, <1>3 DEF LiveIsKnown
  <2> QED
    BY <2>4, <2>5, <2>6
<1> QED
  BY <1>1, <1>6, <1>7, <1>8, <1>9 DEF ExchangeInv

LEMMA DeleteParserInv ==
  ASSUME Base, ExchangeInv, NEW t \in Task, DeleteParser(t)
  PROVE  ExchangeInv'
<1> USE DEF Base, TypeInv, TypeOK
<1> DEFINE o == old[t]
<1>1. /\ pc[t] = "deleting"
      /\ parser' = [parser EXCEPT ![o] = "deleted"]
      /\ old' = [old EXCEPT ![t] = 0]
      /\ pc' = [pc EXCEPT ![t] = Done(t)]
      /\ UNCHANGED <<current, fresh, running, raced>>
  BY DEF DeleteParser, Doomed
<1>2. o \in Exec /\ ~running[o]
  BY <1>1 DEF ExchangeInv, PointersInUse, RunningIsLive
<1>3. \A e \in Exec : Live(e)' <=> Live(e) /\ e # o
  BY <1>1, <1>2 DEF Live
<1>4. \A u \in Task : /\ u # t => pc'[u] = pc[u] /\ old'[u] = old[u]
                      /\ pc'[t] \in {"idle", "finished"}
                      /\ old'[t] = 0
  BY <1>1 DEF Done
<1>5. PointersInUse'
  BY <1>1, <1>4 DEF ExchangeInv, PointersInUse
<1>6. FreshIsPrivate'
  BY <1>1, <1>4 DEF ExchangeInv, FreshIsPrivate
<1>7. RunningIsLive'
  BY <1>1, <1>2, <1>3, <1>4 DEF ExchangeInv, RunningIsLive
<1>8. \A u \in Task : Doing(u)' <=> Doing(u) /\ u # t
  BY <1>4 DEF Doing
<1>9. ~raced' => DestroyedOnce'
  BY <1>1, <1>4, <1>8 DEF ExchangeInv, DestroyedOnce
<1>10. ~raced' => KnownRuns'
  <2> SUFFICES ASSUME ~raced, NEW e \in Exec,
                      \/ e = current
                      \/ \E u \in Task : fresh[u] = e
                      \/ \E u \in Task : old'[u] = e /\ pc'[u] = "destroying"
               PROVE  running[e]
    BY <1>1 DEF KnownRuns
  <2>1. \/ e = current
        \/ \E u \in Task : fresh[u] = e
        \/ \E u \in Task : old[u] = e /\ pc[u] = "destroying"
    BY <1>4
  <2> QED
    BY <2>1 DEF ExchangeInv, KnownRuns
<1>11. ~raced' => LiveIsKnown'
  BY <1>1, <1>3, <1>4, <1>8 DEF ExchangeInv, LiveIsKnown
<1> QED
  BY <1>5, <1>6, <1>7, <1>9, <1>10, <1>11 DEF ExchangeInv

LEMMA ParserLoopInv ==
  ASSUME Base, ExchangeInv, NEW e \in Exec, ParserLoop(e)
  PROVE  ExchangeInv'
<1> USE DEF Base, TypeInv, TypeOK
<1>1. /\ parser[e] = "looping"
      /\ parser' = [parser EXCEPT ![e] = ExitOrWait(e)]
      /\ UNCHANGED <<pc, current, fresh, old, running, raced>>
  BY DEF ParserLoop, swapVars
<1>2. \A d \in Exec : /\ Live(d)' => Live(d)
                      /\ running[d] /\ Live(d) => Live(d)'
  BY <1>1 DEF Live, ExitOrWait
<1>3. RunningIsLive'
  BY <1>1, <1>2 DEF ExchangeInv, RunningIsLive
<1>4. PointersInUse' /\ FreshIsPrivate'
  BY <1>1 DEF ExchangeInv, PointersInUse, FreshIsPrivate
<1>5. ~raced' => DestroyedOnce' /\ KnownRuns' /\ LiveIsKnown'
  BY <1>1, <1>2 DEF ExchangeInv, DestroyedOnce, KnownRuns, LiveIsKnown, Doing
<1> QED
  BY <1>3, <1>4, <1>5 DEF ExchangeInv

LEMMA ExchangeStep == Base /\ ExchangeInv /\ [Next]_vars => ExchangeInv'
<1> SUFFICES ASSUME Base, ExchangeInv, [Next]_vars
             PROVE  ExchangeInv'
  OBVIOUS
<1>1. ASSUME NEW t \in Task, CreateExecutor(t) \/ ConstructorThrows(t)
               \/ LoadOld(t) \/ StoreNew(t) \/ StopParser(t) \/ DeleteParser(t)
      PROVE  ExchangeInv'
  BY <1>1, CreateExecutorInv, ConstructorThrowsInv, LoadOldInv, StoreNewInv,
     StopParserInv, DeleteParserInv
<1>2. ASSUME NEW t \in Task, CreateNothing(t)
      PROVE  ExchangeInv'
  <2>1. /\ UNCHANGED <<current, fresh, old, running, parser, raced>>
        /\ pc[t] = "idle" /\ pc' = [pc EXCEPT ![t] = "building"]
    BY <1>2 DEF CreateNothing, parserVars, swapVars
  <2>2. \A u \in Task : /\ u # t => pc'[u] = pc[u]
                        /\ pc'[t] = "building"
    BY <2>1 DEF Base, TypeInv, TypeOK
  <2>3. \A u \in Task : Doing(u)' <=> Doing(u)
    BY <2>1, <2>2 DEF Doing
  <2>4. \A e \in Exec : Live(e)' <=> Live(e)
    BY <2>1 DEF Live
  <2>5. PointersInUse' /\ FreshIsPrivate' /\ RunningIsLive'
    BY <2>1, <2>2, <2>4
       DEF ExchangeInv, PointersInUse, FreshIsPrivate, RunningIsLive
  <2>6. ~raced' => DestroyedOnce' /\ LiveIsKnown'
    BY <2>1, <2>3, <2>4 DEF ExchangeInv, DestroyedOnce, LiveIsKnown
  <2>7. ~raced' => KnownRuns'
    BY <2>1, <2>2 DEF ExchangeInv, KnownRuns
  <2> QED
    BY <2>5, <2>6, <2>7 DEF ExchangeInv
<1>3. ASSUME NEW t \in Task, NEW l \in {"idle", "filling", "sending"},
             UNCHANGED <<parserVars, swapVars>>,
             ~Reconfiguring(t),
             pc' = [pc EXCEPT ![t] = l]
      PROVE  ExchangeInv'
  <2>1. /\ UNCHANGED <<current, fresh, old, running, raced>>
        /\ \A e \in Exec : Live(e)' <=> Live(e)
    BY <1>3 DEF parserVars, swapVars, Live
  <2>2. \A u \in Task : \/ pc'[u] = pc[u]
                        \/ ~Reconfiguring(u) /\ ~Reconfiguring(u)'
    BY <1>3 DEF Reconfiguring, Base, TypeInv, TypeOK
  <2> QED
    BY <2>1, <2>2, ExchangeFrame
<1>4. CASE SelectInit
  BY <1>4, <1>3 DEF SelectInit, Reconfiguring, Task
<1>5. ASSUME NEW s \in AllSource, AllocPacket(s)
      PROVE  ExchangeInv'
  BY <1>5, <1>3, TaskOfInTask DEF AllocPacket, Reconfiguring
<1>6. ASSUME NEW t \in Task, Producer(t)
      PROVE  ExchangeInv'
  BY <1>6, <1>3 DEF Producer, AllocData, AllocDataFails, Send, SendTimeout,
                    Reconfiguring
<1>7. ASSUME NEW e \in Exec, ParserLoop(e)
      PROVE  ExchangeInv'
  BY <1>7, ParserLoopInv
<1>8. ASSUME NEW e \in Exec, ParserReceive(e) \/ ParserPreprocess(e)
               \/ ParserSkip(e) \/ ParserReply(e) \/ ParserReplyEnds(e)
               \/ ParserFree(e)
      PROVE  ExchangeInv'
  <2>1. UNCHANGED <<pc, current, fresh, old, running, raced>>
    BY <1>8
       DEF ParserReceive, ParserPreprocess, ParserSkip, ParserReply,
           ParserReplyEnds, ParserFree, swapVars
  <2>2. \A d \in Exec : Live(d)' <=> Live(d)
    BY <1>8
       DEF ParserReceive, ParserPreprocess, ParserSkip, ParserReply,
           ParserReplyEnds, ParserFree, Live, Base, TypeInv, TypeOK
  <2> QED
    BY <2>1, <2>2, ExchangeFrame
<1>9. CASE UNCHANGED vars
  <2>1. /\ UNCHANGED <<pc, current, fresh, old, running, raced>>
        /\ \A e \in Exec : Live(e)' <=> Live(e)
    BY <1>9 DEF vars, parserVars, swapVars, Live
  <2> QED
    BY <2>1, ExchangeFrame
<1> QED
  BY <1>1, <1>2, <1>4, <1>5, <1>6, <1>7, <1>8, <1>9
     DEF Next, Receive, TcpHandleClientData, UdpHandleData, UartHandleData,
         Uart2HandleData, WebsocketHandler, BleWriteTcode, HandyVector,
         AllSource, Parser, ParserWork, Reconfigure

LEMMA ExchangeCorrect == Spec => []ExchangeInv
  BY BaseCorrect, ExchangeInit, ExchangeStep, PTL DEF Spec

(* Whenever nobody is replacing g_executor and no replacement has lost a   *)
(* pointer, the one parser task alive is that of g_executor.               *)
THEOREM OneConsumer == Spec => []SingleConsumer
<1>1. Base /\ ExchangeInv => SingleConsumer
  <2> SUFFICES ASSUME Base, ExchangeInv, ~raced,
                      \A t \in Task : ~Reconfiguring(t)
               PROVE  {e \in Exec : Live(e)} = {current} \ {0}
    BY DEF SingleConsumer
  <2>1. \A t \in Task : fresh[t] = 0 /\ ~Doing(t)
    BY DEF ExchangeInv, PointersInUse, Reconfiguring, Doing
  <2>2. \A e \in Exec : Live(e) => e = current /\ e # 0
    BY <2>1 DEF ExchangeInv, LiveIsKnown, Exec
  <2>3. current \in Exec => Live(current)
    BY DEF ExchangeInv, KnownRuns, RunningIsLive
  <2>4. current # 0 => current \in Exec
    BY DEF Base, TypeInv, TypeOK
  <2> QED
    BY <2>2, <2>3, <2>4
<1> QED
  BY BaseCorrect, ExchangeCorrect, <1>1, PTL
=============================================================================
