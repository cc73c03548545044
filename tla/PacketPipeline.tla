--------------------------- MODULE PacketPipeline ---------------------------
(***************************************************************************)
(* The command path of the firmware.  Seven inputs allocate a data_packet_t*)
(* and send its pointer to global_rx_queue; the parser task of an Executor *)
(* receives the pointer, applies the command and frees the packet.  A      *)
(* settings write (HTTP POST or BLE) builds a second Executor, exchanges it*)
(* with g_executor and destroys the first one, parser task included, while *)
(* packets keep arriving.                                                  *)
(*                                                                         *)
(* Every task is a sequential process with its own program counter pc; an  *)
(* action is the code between two points where another task can be         *)
(* scheduled and see a difference.                                         *)
(***************************************************************************)
EXTENDS Naturals, Sequences, FiniteSets

CONSTANTS Source,       \* inputs compiled in (Kconfig)
          Endpoint,     \* tasks that serve a settings write
          QueueSize,    \* length of global_rx_queue
          MaxPacket,    \* bound: packets allocated in a behaviour
          MaxExecutor   \* bound: executors built in a behaviour

AllSource == {"TCP", "UDP", "UART", "UART2", "WEBSOCKET", "BLE", "HANDY"}
Task == {"main", "select", "httpd", "nimble", "handy"}

ASSUME SourceAssumption == Source \subseteq AllSource
ASSUME EndpointAssumption == Endpoint \subseteq {"httpd", "nimble"}
ASSUME BoundAssumption == /\ QueueSize \in Nat \ {0}
                          /\ MaxPacket \in Nat \ {0}
                          /\ MaxExecutor \in Nat \ {0}

Pid == 1..MaxPacket
Exec == 1..MaxExecutor
Block == {"packet", "data", "user"}

VARIABLES queueReady,   \* global_rx_queue # NULL
          queue,        \* global_rx_queue, packet ids
          pc,           \* where each task is
          cur,          \* the packet a task is preparing, 0 if none
          nextPacket,   \* the next id to allocate
          origin,       \* packet->source
          blocks,       \* the heap blocks of a packet that are allocated
          parser,       \* the parser task of an executor
          running,      \* parserTaskRunning of an executor
          got,          \* the packet a parser has received, 0 if none
          applied,      \* the last packet of each task in executor's tcode
          nextExec,     \* the next executor to build
          current,      \* g_executor, 0 for nullptr
          fresh,        \* the executor a task has built and not yet stored
          old,          \* the pointer a task has read to destroy
          raced         \* history: a store overwrote a pointer it had not read

packetVars == <<cur, nextPacket, origin, blocks>>
parserVars == <<parser, running, got, applied>>
swapVars == <<nextExec, current, fresh, old, raced>>
vars == <<queueReady, queue, pc, packetVars, parserVars, swapVars>>

Init == /\ queueReady = FALSE
        /\ queue = <<>>
        /\ pc = [t \in Task |-> IF t = "main" THEN "booting" ELSE "idle"]
        /\ cur = [t \in Task |-> 0]
        /\ nextPacket = 1
        /\ origin = [p \in Pid |-> "none"]
        /\ blocks = [p \in Pid |-> {}]
        /\ parser = [e \in Exec |-> "none"]
        /\ running = [e \in Exec |-> FALSE]
        /\ got = [e \in Exec |-> 0]
        /\ applied = [e \in Exec |-> [t \in Task |-> 0]]
        /\ nextExec = 1
        /\ current = 0
        /\ fresh = [t \in Task |-> 0]
        /\ old = [t \in Task |-> 0]
        /\ raced = FALSE

-----------------------------------------------------------------------------
(* The inputs.                                                             *)

TaskOf(s) == CASE s = "WEBSOCKET" -> "httpd"
               [] s = "BLE" -> "nimble"
               [] s = "HANDY" -> "handy"
               [] OTHER -> "select"

(* select_init: the queue exists before the select task does.              *)
SelectInit ==
  /\ pc["main"] = "booting"
  /\ ~queueReady
  /\ queueReady' = TRUE
  /\ pc' = [pc EXCEPT !["main"] = "idle"]
  /\ UNCHANGED <<queue, packetVars, parserVars, swapVars>>

(* malloc(sizeof(data_packet_t)).  When it fails the handler returns with  *)
(* nothing changed, which is a stuttering step.  Every input checks or     *)
(* follows the creation of the queue.                                      *)
AllocPacket(s) ==
  LET t == TaskOf(s) IN
  /\ s \in Source
  /\ queueReady
  /\ pc[t] = "idle"
  /\ nextPacket <= MaxPacket
  /\ nextPacket' = nextPacket + 1
  /\ cur' = [cur EXCEPT ![t] = nextPacket]
  /\ origin' = [origin EXCEPT ![nextPacket] = s]
  /\ blocks' = [blocks EXCEPT ![nextPacket] = {"packet"}]
  /\ pc' = [pc EXCEPT ![t] = "filling"]
  /\ UNCHANGED <<queueReady, queue, parserVars, swapVars>>

TcpHandleClientData == AllocPacket("TCP")
UdpHandleData == AllocPacket("UDP")
UartHandleData == AllocPacket("UART")
Uart2HandleData == AllocPacket("UART2")
WebsocketHandler == AllocPacket("WEBSOCKET")
BleWriteTcode == AllocPacket("BLE")
HandyVector == AllocPacket("HANDY")

Receive == \/ TcpHandleClientData \/ UdpHandleData \/ UartHandleData
           \/ Uart2HandleData \/ WebsocketHandler \/ BleWriteTcode
           \/ HandyVector

(* malloc of the data, and for UDP of the sender's address, whose failure  *)
(* the code tolerates (user_data = NULL).                                  *)
UserBlock(p) == IF origin[p] = "UDP" THEN {{}, {"user"}} ELSE {{}}

AllocData(t) ==
  /\ pc[t] = "filling"
  /\ \E user \in UserBlock(cur[t]) :
       blocks' = [blocks EXCEPT ![cur[t]] = {"packet", "data"} \cup user]
  /\ pc' = [pc EXCEPT ![t] = "sending"]
  /\ UNCHANGED <<queueReady, queue, cur, nextPacket, origin,
                 parserVars, swapVars>>

AllocDataFails(t) ==
  /\ pc[t] = "filling"
  /\ blocks' = [blocks EXCEPT ![cur[t]] = {}]
  /\ cur' = [cur EXCEPT ![t] = 0]
  /\ pc' = [pc EXCEPT ![t] = "idle"]
  /\ UNCHANGED <<queueReady, queue, nextPacket, origin, parserVars, swapVars>>

QueueHasRoom == Len(queue) < QueueSize

SendToFront(q, p) == <<p>> \o q
SendToBack(q, p) == Append(q, p)

(* xQueueSend succeeds: the queue owns the packet.                         *)
Send(t) ==
  /\ pc[t] = "sending"
  /\ QueueHasRoom
  /\ queue' = SendToBack(queue, cur[t])
  /\ cur' = [cur EXCEPT ![t] = 0]
  /\ pc' = [pc EXCEPT ![t] = "idle"]
  /\ UNCHANGED <<queueReady, nextPacket, origin, blocks, parserVars, swapVars>>

(* xQueueSend gives up after 10 or 100 ms of a full queue, and the handler *)
(* frees the packet.                                                       *)
LeftWithoutUserFree(p) == blocks[p] \cap {"user"}
LeftAfterTimeout(p) == {}

SendTimeout(t) ==
  /\ pc[t] = "sending"
  /\ ~QueueHasRoom
  /\ blocks' = [blocks EXCEPT ![cur[t]] = LeftAfterTimeout(cur[t])]
  /\ cur' = [cur EXCEPT ![t] = 0]
  /\ pc' = [pc EXCEPT ![t] = "idle"]
  /\ UNCHANGED <<queueReady, queue, nextPacket, origin, parserVars, swapVars>>

-----------------------------------------------------------------------------
(* The parser task of executor e.                                          *)

(* while (parserTaskRunning): fall out of the loop, or block in            *)
(* xQueueReceive once the queue exists.  Without a queue the task polls.   *)
ExitOrWait(e) == IF running[e] THEN "waiting" ELSE "exited"

ParserLoop(e) ==
  /\ parser[e] = "looping"
  /\ running[e] => queueReady
  /\ parser' = [parser EXCEPT ![e] = ExitOrWait(e)]
  /\ UNCHANGED <<queueReady, queue, pc, packetVars, running, got, applied,
                 swapVars>>

PeekQueue == queue
PopQueue == Tail(queue)

ParserReceive(e) ==
  /\ parser[e] = "waiting"
  /\ queue # <<>>
  /\ got' = [got EXCEPT ![e] = Head(queue)]
  /\ queue' = PopQueue
  /\ parser' = [parser EXCEPT ![e] = "handling"]
  /\ UNCHANGED <<queueReady, pc, packetVars, running, applied, swapVars>>

(* A TCode command updates the executor's tcode; a blank line does nothing,*)
(* nor does a D1 query on an input that has no answer.                     *)
ParserPreprocess(e) ==
  LET t == TaskOf(origin[got[e]]) IN
  /\ parser[e] = "handling"
  /\ applied' = [applied EXCEPT ![e][t] = got[e]]
  /\ parser' = [parser EXCEPT ![e] = "freeing"]
  /\ UNCHANGED <<queueReady, queue, pc, packetVars, running, got, swapVars>>

ParserSkip(e) ==
  /\ parser[e] = "handling"
  /\ parser' = [parser EXCEPT ![e] = "freeing"]
  /\ UNCHANGED <<queueReady, queue, pc, packetVars, running, got, applied,
                 swapVars>>

(* A D1 query is answered on the input it came from.  The answer can take  *)
(* as long as it likes: those of TCP and UDP wait for lwip_mutex, which may*)
(* never be free again, and a send of TCP has no timeout (TcpServer).      *)
Answered == {"TCP", "UDP", "WEBSOCKET", "UART"}

ParserReply(e) ==
  /\ parser[e] = "handling"
  /\ origin[got[e]] \in Answered
  /\ parser' = [parser EXCEPT ![e] = "replying"]
  /\ UNCHANGED <<queueReady, queue, pc, packetVars, running, got, applied,
                 swapVars>>

ParserReplyEnds(e) ==
  /\ parser[e] = "replying"
  /\ parser' = [parser EXCEPT ![e] = "freeing"]
  /\ UNCHANGED <<queueReady, queue, pc, packetVars, running, got, applied,
                 swapVars>>

ParserFree(e) ==
  /\ parser[e] = "freeing"
  /\ blocks' = [blocks EXCEPT ![got[e]] = {}]
  /\ got' = [got EXCEPT ![e] = 0]
  /\ parser' = [parser EXCEPT ![e] = "looping"]
  /\ UNCHANGED <<queueReady, queue, pc, cur, nextPacket, origin, running,
                 applied, swapVars>>

ParserWork(e) == \/ ParserLoop(e) \/ ParserReceive(e)
                 \/ ParserPreprocess(e) \/ ParserSkip(e) \/ ParserReply(e)
                 \/ ParserFree(e)
Parser(e) == ParserWork(e) \/ ParserReplyEnds(e)

-----------------------------------------------------------------------------
(* Replacing g_executor.                                                   *)

Reconfigurer == Endpoint \cup {"main"}

(* createExecutor, supported MODE: the base constructor starts the parser, *)
(* which runs before the derived constructor has configured the actuators. *)
CreateExecutor(t) ==
  /\ pc[t] = "idle"
  /\ t \in Reconfigurer
  /\ nextExec <= MaxExecutor
  /\ nextExec' = nextExec + 1
  /\ fresh' = [fresh EXCEPT ![t] = nextExec]
  /\ parser' = [parser EXCEPT ![nextExec] = "looping"]
  /\ running' = [running EXCEPT ![nextExec] = TRUE]
  /\ pc' = [pc EXCEPT ![t] = "building"]
  /\ UNCHANGED <<queueReady, queue, packetVars, got, applied, current, old,
                 raced>>

(* createExecutor, any other MODE: nullptr, and the assignment still runs. *)
CreateNothing(t) ==
  /\ pc[t] = "idle"
  /\ t \in Reconfigurer
  /\ pc' = [pc EXCEPT ![t] = "building"]
  /\ UNCHANGED <<queueReady, queue, packetVars, parserVars, swapVars>>

(* The derived constructor throws after the base constructor returned: the *)
(* base destructor runs and the endpoint answers with an error.  Nothing   *)
(* catches it in app_main, where the firmware restarts instead.            *)
ConstructorThrows(t) ==
  /\ pc[t] = "building"
  /\ t # "main"
  /\ fresh[t] # 0
  /\ old' = [old EXCEPT ![t] = fresh[t]]
  /\ fresh' = [fresh EXCEPT ![t] = 0]
  /\ pc' = [pc EXCEPT ![t] = "destroying"]
  /\ UNCHANGED <<queueReady, queue, packetVars, parserVars, nextExec, current,
                 raced>>

(* g_executor = ...: unique_ptr::reset loads the old pointer, stores the   *)
(* new one and then deletes the old one.  No lock is held, so another      *)
(* task's assignment can run between the load and the store.               *)
LoadOld(t) ==
  /\ pc[t] = "building"
  /\ old' = [old EXCEPT ![t] = current]
  /\ pc' = [pc EXCEPT ![t] = "storing"]
  /\ UNCHANGED <<queueReady, queue, packetVars, parserVars, nextExec, current,
                 fresh, raced>>

Done(t) == IF t = "main" THEN "finished" ELSE "idle"

AfterStoreWithoutDelete(t) == Done(t)
AfterStore(t) == IF old[t] = 0 THEN Done(t) ELSE "destroying"

StoreNew(t) ==
  /\ pc[t] = "storing"
  /\ current' = fresh[t]
  /\ raced' = (raced \/ current # old[t])
  /\ fresh' = [fresh EXCEPT ![t] = 0]
  /\ pc' = [pc EXCEPT ![t] = AfterStore(t)]
  /\ UNCHANGED <<queueReady, queue, packetVars, parserVars, nextExec, old>>

(* ~Executor: parserTaskRunning = false ...  A second destructor of the    *)
(* same object, possible only after a race, is undefined; modelled is the  *)
(* outcome where it finds the flag already cleared.                        *)
DoomedNew(t) == IF current = 0 THEN old[t] ELSE current
Doomed(t) == old[t]

StopParser(t) ==
  LET e == Doomed(t) IN
  /\ pc[t] = "destroying"
  /\ running' = [running EXCEPT ![e] = FALSE]
  /\ pc' = [pc EXCEPT ![t] = IF running[e] THEN "deleting" ELSE Done(t)]
  /\ old' = IF running[e] THEN old ELSE [old EXCEPT ![t] = 0]
  /\ UNCHANGED <<queueReady, queue, packetVars, parser, got, applied,
                 nextExec, current, fresh, raced>>

(* ... then vTaskDelete, at once and wherever the parser task is: a packet *)
(* it has received is neither applied nor freed.                           *)
DeleteParser(t) ==
  LET e == Doomed(t) IN
  /\ pc[t] = "deleting"
  /\ parser' = [parser EXCEPT ![e] = "deleted"]
  /\ old' = [old EXCEPT ![t] = 0]
  /\ pc' = [pc EXCEPT ![t] = Done(t)]
  /\ UNCHANGED <<queueReady, queue, packetVars, running, got, applied,
                 nextExec, current, fresh, raced>>

Reconfigure(t) == \/ CreateExecutor(t) \/ CreateNothing(t)
                  \/ ConstructorThrows(t) \/ LoadOld(t) \/ StoreNew(t)
                  \/ StopParser(t) \/ DeleteParser(t)

-----------------------------------------------------------------------------
Producer(t) == AllocData(t) \/ AllocDataFails(t) \/ Send(t) \/ SendTimeout(t)

Next == \/ SelectInit
        \/ Receive
        \/ \E t \in Task : Producer(t) \/ Reconfigure(t)
        \/ \E e \in Exec : Parser(e)

Spec == Init /\ [][Next]_vars

(* The parser task has the highest priority of the application's tasks and *)
(* no other one spins, so a step it can take is eventually taken; only that*)
(* an answer ever ends is not assumed.                                     *)
FairSpec == Spec /\ \A e \in Exec : WF_vars(ParserWork(e))

-----------------------------------------------------------------------------
(* Properties.                                                             *)

InQueue(p) == \E i \in 1..Len(queue) : queue[i] = p
OnTask(p) == \E t \in Task : cur[t] = p
InParser(p) == \E e \in Exec : got[e] = p
Live(e) == parser[e] \in {"looping", "waiting", "handling", "replying",
                          "freeing"}
Reconfiguring(t) == pc[t] \in {"building", "storing", "destroying", "deleting"}

(* Every variable stays in its set.  In particular xQueueSend never puts   *)
(* more than RX_QUEUE_SIZE pointers into global_rx_queue, and the program  *)
(* points of the inputs and of the endpoints are those of their handlers.  *)
TypeOK ==
  /\ queueReady \in BOOLEAN
  /\ queue \in Seq(Pid)
  /\ Len(queue) <= QueueSize
  /\ pc \in [Task -> {"booting", "idle", "filling", "sending", "building",
                      "storing", "destroying", "deleting", "finished"}]
  /\ cur \in [Task -> Pid \cup {0}]
  /\ nextPacket \in 1..MaxPacket + 1
  /\ origin \in [Pid -> Source \cup {"none"}]
  /\ blocks \in [Pid -> SUBSET Block]
  /\ parser \in [Exec -> {"none", "looping", "waiting", "handling",
                          "replying", "freeing", "exited", "deleted"}]
  /\ running \in [Exec -> BOOLEAN]
  /\ got \in [Exec -> Pid \cup {0}]
  /\ applied \in [Exec -> [Task -> Pid \cup {0}]]
  /\ nextExec \in 1..MaxExecutor + 1
  /\ current \in Exec \cup {0}
  /\ fresh \in [Task -> Exec \cup {0}]
  /\ old \in [Task -> Exec \cup {0}]
  /\ raced \in BOOLEAN

(* One owner: a packet is in at most one place - one cell of the queue,    *)
(* one task that is preparing it, one parser that received it.             *)
(* (xQueueSend hands the pointer over; nobody touches it afterwards.)      *)
SingleOwner ==
  /\ \A i, j \in 1..Len(queue) : queue[i] = queue[j] => i = j
  /\ \A t, u \in Task : cur[t] = cur[u] /\ cur[t] # 0 => t = u
  /\ \A d, e \in Exec : got[d] = got[e] /\ got[d] # 0 => d = e
  /\ \A p \in Pid : /\ ~(InQueue(p) /\ OnTask(p))
                    /\ ~(InQueue(p) /\ InParser(p))
                    /\ ~(OnTask(p) /\ InParser(p))

(* The heap is accounted for: a packet without an owner holds no memory,   *)
(* so the only leak is a packet whose parser was deleted while it had it;  *)
(* a packet the queue or a parser owns is complete, so the parser reads    *)
(* allocated memory; an address block belongs to a UDP packet.             *)
HeapAccounted ==
  \A p \in Pid :
    /\ ~InQueue(p) /\ ~OnTask(p) /\ ~InParser(p) => blocks[p] = {}
    /\ InQueue(p) \/ InParser(p) => {"packet", "data"} \subseteq blocks[p]
    /\ "user" \in blocks[p] => origin[p] = "UDP"

(* One consumer: unless two settings writes overlapped in the exchange of  *)
(* g_executor, when no exchange is in progress the only parser task alive  *)
(* is that of g_executor (none when MODE is not supported).                *)
SingleConsumer ==
  ~raced /\ (\A t \in Task : ~Reconfiguring(t))
    => {e \in Exec : Live(e)} = {current} \ {0}

(* Two commands of one input reach an executor's tcode in the order the    *)
(* input received them, whatever happens to g_executor meanwhile.          *)
CommandsInOrder ==
  [][\A e \in Exec, t \in Task : applied[e][t] <= applied'[e][t]]_vars

(* A command the queue accepted does not stay there while an executor is   *)
(* installed: replacing executors never leaves the queue without a reader -*)
(* unless the parser of the last one is in an answer that never ends.      *)
Replying == current # 0 /\ parser[current] = "replying"
AcceptedTaken ==
  []<>~Replying => \A p \in Pid : InQueue(p) ~> (~InQueue(p) \/ current = 0)

(* The pipeline implements the bounded at-most-once channel: commands are   *)
(* packet ids, the channel is global_rx_queue, a task offers the packet it *)
(* prepares and a parser has taken the packet it received.                 *)
Seen == 1..(nextPacket - 1)
Offered == {cur[t] : t \in Task} \ {0}
Taken == {got[e] : e \in Exec} \ {0}

Channel == INSTANCE CommandChannel WITH
             Command <- Pid, Capacity <- QueueSize,
             seen <- Seen, offered <- Offered, chan <- queue, taken <- Taken

ChannelSpec == Channel!Spec
=============================================================================
