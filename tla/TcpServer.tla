------------------------------ MODULE TcpServer ------------------------------
(***************************************************************************)
(* The TCP side of the firmware: the select task, the table                *)
(* tcp_client_fds[0 .. tcp_client_count - 1], the lwip_mutex it shares with*)
(* the parser task, and the D1 query, which the parser answers on the file *)
(* descriptor recorded when the query was read.  Peers connect, send, ask, *)
(* and close at any time; a settings write may delete the parser task and  *)
(* start the next one at any time.                                         *)
(*                                                                         *)
(* UDP and the two UARTs only delay the select task and are left out; so   *)
(* is select_stop, which nothing calls.                                    *)
(***************************************************************************)
EXTENDS Naturals, Sequences, FiniteSets, SequencesExt

CONSTANTS Conn,         \* connections peers open, each once
          MAX_CLIENTS,  \* length of tcp_client_fds
          QueueSize,    \* length of global_rx_queue
          MaxReplace,   \* bound: settings writes
          None          \* no connection, no task

ASSUME TcpAssumption == /\ MAX_CLIENTS \in Nat \ {0}
                        /\ QueueSize \in Nat \ {0}
                        /\ MaxReplace \in Nat
                        /\ None \notin Conn

(* lwIP hands out the lowest free descriptor; one more than the table      *)
(* holds is in use while a connection is being rejected.                   *)
Fd == 1..MAX_CLIENTS + 1

VARIABLES peer,         \* what each peer has done
          sock,         \* socket table: the connection behind a descriptor
          unread,       \* connections with received bytes to read
          clients,      \* tcp_client_fds[0 .. tcp_client_count - 1]
          lock,         \* owner of lwip_mutex
          spc,          \* where the select task is
          read_fds,     \* the set select returned
          client_count, \* the count read before select
          fd,           \* client_fd of the handler
          queue,        \* global_rx_queue
          ppc,          \* where the parser task is
          packet,       \* the packet the parser received
          room,         \* has the connection it sends to room for the reply
          reply,        \* history: who asked, who got the last reply
          replaced      \* settings writes so far

socketVars == <<peer, sock, unread>>
selectVars == <<clients, spc, read_fds, client_count, fd>>
parserVars == <<ppc, packet, room, reply>>
vars == <<socketVars, selectVars, parserVars, lock, queue, replaced>>

NoReply == [asker |-> None, reader |-> None]

(* What the parser needs of a packet: of a D1 query the descriptor to      *)
(* answer on (and, for the properties, the connection it came from); any   *)
(* other command is applied without using client_fd.                       *)
Query(f, c) == [fd |-> f, from |-> c]
Command == [fd |-> 0, from |-> None]

Init == /\ peer = [c \in Conn |-> "new"]
        /\ sock = [f \in Fd |-> None]
        /\ unread = {}
        /\ clients = <<>>
        /\ lock = None
        /\ spc = "select"
        /\ read_fds = {}
        /\ client_count = 0
        /\ fd = 0
        /\ queue = <<>>
        /\ ppc = "receive"
        /\ packet = Command
        /\ room = TRUE
        /\ reply = NoReply
        /\ replaced = 0

-----------------------------------------------------------------------------
(* Peers (external).  A connection waits in the backlog until accepted; one*)
(* that closes before that looks like one that closes right after.  A reset*)
(* is a close: recv returns <= 0 for both.                                 *)

Connect(c) ==
  /\ peer[c] = "new"
  /\ peer' = [peer EXCEPT ![c] = "pending"]
  /\ UNCHANGED <<sock, unread, selectVars, parserVars, lock, queue, replaced>>

PeerSends(c) ==
  /\ peer[c] \in {"pending", "open"}
  /\ c \notin unread
  /\ unread' = unread \cup {c}
  /\ UNCHANGED <<peer, sock, selectVars, parserVars, lock, queue, replaced>>

PeerCloses(c) ==
  /\ peer[c] = "open"
  /\ peer' = [peer EXCEPT ![c] = "closed"]
  /\ room' = (room \/ sock[packet.fd] = c)
  /\ UNCHANGED <<sock, unread, selectVars, ppc, packet, reply, lock, queue,
                 replaced>>

(* The peer of the reply reads, which it need not do as long as it keeps   *)
(* the connection open.                                                    *)
PeerReads ==
  /\ ~room
  /\ room' = TRUE
  /\ UNCHANGED <<socketVars, selectVars, ppc, packet, reply, lock, queue,
                 replaced>>

-----------------------------------------------------------------------------
(* The select task.                                                        *)

Listen == 0      \* tcp_server_fd in the set select returns

Readable(f) == sock[f] \in unread \/ peer[sock[f]] = "closed"

Ready == {f \in Range(clients) : Readable(f)}
         \cup (IF \E c \in Conn : peer[c] = "pending" THEN {Listen} ELSE {})

(* select returns what is readable now; the loop acts on this snapshot.    *)
Select ==
  /\ spc = "select"
  /\ Ready # {}
  /\ read_fds' = Ready
  /\ client_count' = Len(clients)
  /\ spc' = IF Listen \in Ready THEN "accept" ELSE "scan"
  /\ UNCHANGED <<socketVars, clients, fd, parserVars, lock, queue,
                 replaced>>

FreeFd == CHOOSE f \in Fd : /\ sock[f] = None
                            /\ \A g \in Fd : sock[g] = None => f <= g

TableFull == Len(clients) >= MAX_CLIENTS

(* tcp_server_handle_new_client, whole under lwip_mutex: accept, then close*)
(* at once if the table is full.                                           *)
HandleNewClient ==
  /\ spc = "accept"
  /\ lock = None
  /\ \E c \in Conn :
       /\ peer[c] = "pending"
       /\ IF TableFull
            THEN /\ peer' = [peer EXCEPT ![c] = "closed"]
                 /\ UNCHANGED <<sock, clients>>
            ELSE /\ peer' = [peer EXCEPT ![c] = "open"]
                 /\ sock' = [sock EXCEPT ![FreeFd] = c]
                 /\ clients' = Append(clients, FreeFd)
  /\ spc' = "scan"
  /\ UNCHANGED <<unread, read_fds, client_count, fd, parserVars, lock, queue,
                 replaced>>

EverySlot == 1..client_count
ReadySlots == {i \in 1..client_count : clients[i] \in read_fds}

(* The first readable client of the snapshot is handled, then break.  The  *)
(* snapshot is not used again: it is cleared to keep equal states equal.   *)
LastSlot == Max(ReadySlots)
ServedSlot == Min(ReadySlots)

Scan ==
  /\ spc = "scan"
  /\ IF ReadySlots = {}
       THEN spc' = "select" /\ UNCHANGED fd
       ELSE spc' = "recv" /\ fd' = clients[ServedSlot]
  /\ read_fds' = {}
  /\ client_count' = 0
  /\ UNCHANGED <<socketVars, clients, parserVars, lock, queue, replaced>>

(* tcp_server_handle_client_data: recv, and on end of file close, under    *)
(* lwip_mutex.  The table still lists the descriptor after close.          *)
RecvData ==
  /\ spc = "recv"
  /\ lock = None
  /\ sock[fd] \in unread
  /\ unread' = unread \ {sock[fd]}
  /\ spc' = "push"
  /\ UNCHANGED <<peer, sock, clients, read_fds, client_count, fd, parserVars,
                 lock, queue, replaced>>

RecvEnd ==
  /\ spc = "recv"
  /\ lock = None
  /\ sock[fd] \notin unread
  /\ sock' = [sock EXCEPT ![fd] = None]
  /\ spc' = "remove"
  /\ UNCHANGED <<peer, unread, clients, read_fds, client_count, fd,
                 parserVars, lock, queue, replaced>>

(* The entry is removed by shifting the ones behind it, without the lock.  *)
WithoutLast(s, f) == Front(s)
WithoutFd(s, f) == RemoveAt(s, CHOOSE i \in 1..Len(s) : s[i] = f)

RemoveClient ==
  /\ spc = "remove"
  /\ clients' = WithoutFd(clients, fd)
  /\ fd' = 0
  /\ spc' = "select"
  /\ UNCHANGED <<socketVars, read_fds, client_count, parserVars, lock, queue,
                 replaced>>

(* packet->client_fd                                                       *)
ReplyFdFirstSlot == clients[1]
ReplyFd == fd

(* The packet goes to global_rx_queue, or is dropped after 100 ms of a full*)
(* queue (a failed malloc drops it too).                                   *)
PushPacket ==
  /\ spc = "push"
  /\ \/ /\ Len(queue) < QueueSize
        /\ \E p \in {Query(ReplyFd, sock[fd]), Command} :
             queue' = Append(queue, p)
     \/ UNCHANGED queue
  /\ fd' = 0
  /\ spc' = "select"
  /\ UNCHANGED <<socketVars, clients, read_fds, client_count, parserVars, lock,
                 replaced>>

SelectTask == \/ Select \/ HandleNewClient \/ Scan \/ RecvData \/ RecvEnd
              \/ RemoveClient \/ PushPacket

-----------------------------------------------------------------------------
(* The parser task.                                                        *)

ParserReceive ==
  /\ ppc = "receive"
  /\ queue # <<>>
  /\ packet' = Head(queue)
  /\ queue' = Tail(queue)
  /\ ppc' = IF Head(queue) # Command THEN "reply" ELSE "free"
  /\ UNCHANGED <<socketVars, selectVars, room, reply, lock, replaced>>

(* tcp_server_send_response: take lwip_mutex.  A peer that has not read for*)
(* a while leaves no room in its window and in the connection's buffer ... *)
LockForReply ==
  /\ ppc = "reply"
  /\ lock = None
  /\ lock' = "parser"
  /\ ppc' = "send"
  /\ \/ room' = TRUE
     \/ /\ sock[packet.fd] # None /\ peer[sock[packet.fd]] # "closed"
        /\ room' = FALSE
  /\ UNCHANGED <<socketVars, selectVars, packet, reply, queue, replaced>>

(* ... and send to the recorded descriptor, to whatever connection is      *)
(* behind it now; the lock_guard releases the mutex.  Sending on a closed  *)
(* descriptor is an error that is only logged.  The socket blocks and has  *)
(* no send timeout: without room for the reply, send waits with the mutex. *)
KeepLock == lock
Unlock == None

SendResponse ==
  /\ ppc = "send" /\ room
  /\ reply' = IF sock[packet.fd] = None THEN reply
              ELSE [asker |-> packet.from, reader |-> sock[packet.fd]]
  /\ lock' = Unlock
  /\ ppc' = "free"
  /\ UNCHANGED <<socketVars, selectVars, packet, room, queue, replaced>>

ParserFree ==
  /\ ppc = "free"
  /\ packet' = Command
  /\ reply' = NoReply
  /\ ppc' = "receive"
  /\ UNCHANGED <<socketVars, selectVars, room, lock, queue, replaced>>

ParserTask == ParserReceive \/ LockForReply \/ SendResponse \/ ParserFree

(* A settings write deletes this parser task, with the packet it holds and *)
(* with lwip_mutex if it is in send, and the next executor's parser starts.*)
ReplaceExecutor ==
  /\ replaced < MaxReplace
  /\ replaced' = replaced + 1
  /\ lock' = IF ppc = "send" THEN "deleted" ELSE lock
  /\ packet' = Command
  /\ room' = TRUE
  /\ reply' = NoReply
  /\ ppc' = "receive"
  /\ UNCHANGED <<socketVars, selectVars, queue>>

-----------------------------------------------------------------------------
Next == \/ \E c \in Conn : Connect(c) \/ PeerSends(c) \/ PeerCloses(c)
        \/ PeerReads
        \/ SelectTask
        \/ ParserTask
        \/ ReplaceExecutor

Spec == Init /\ [][Next]_vars

(* FreeRTOS runs both tasks; neither spins.  The mutex is handed to the    *)
(* highest-priority waiter, and the parser task, the only other user,      *)
(* blocks on the queue between two replies.  That a peer ever makes room   *)
(* for its reply is not assumed.                                           *)
FairSpec == Spec /\ SF_vars(SelectTask) /\ WF_vars(ParserTask)

-----------------------------------------------------------------------------
(* Properties.                                                             *)

Packet == [fd : Fd, from : Conn] \cup {Command}

(* Every variable stays in its set.  In particular the sixth client that   *)
(* tcp_server_accept_connection accepts never gets a slot of client_fds,   *)
(* and the queue of packets keeps its length.                              *)
TypeOK ==
  /\ peer \in [Conn -> {"new", "pending", "open", "closed"}]
  /\ sock \in [Fd -> Conn \cup {None}]
  /\ unread \subseteq Conn
  /\ clients \in Seq(Fd)
  /\ Len(clients) <= MAX_CLIENTS
  /\ lock \in {None, "parser", "deleted"}
  /\ spc \in {"select", "accept", "scan", "recv", "push", "remove"}
  /\ read_fds \subseteq Fd \cup {Listen}
  /\ client_count \in 0..MAX_CLIENTS
  /\ fd \in Fd \cup {0}
  /\ queue \in Seq(Packet)
  /\ Len(queue) <= QueueSize
  /\ ppc \in {"receive", "reply", "send", "free"}
  /\ packet \in Packet
  /\ room \in BOOLEAN
  /\ reply \in [asker : Conn \cup {None}, reader : Conn \cup {None}]
  /\ replaced \in 0..MaxReplace

(* The table is the socket table: its entries are distinct and are the     *)
(* accepted descriptors that are open, the one being removed excepted.     *)
(* Otherwise a client is never served, or select and recv use a descriptor *)
(* that belongs to nobody or to somebody else.                             *)
TableMatchesSockets ==
  /\ IsInjective(clients)
  /\ Range(clients) = {f \in Fd : sock[f] # None}
                      \cup (IF spc = "remove" THEN {fd} ELSE {})

(* The snapshot is still good when it is used: recv is called on a         *)
(* descriptor that is open and in the table, and would not block while the *)
(* task holds lwip_mutex.                                                  *)
RecvDoesNotBlock ==
  spc = "recv" => fd \in Range(clients) /\ sock[fd] # None /\ Readable(fd)

(* A reply can reach a connection that did not ask only after the one that *)
(* asked has closed.                                                       *)
MisdeliveryNeedsClose ==
  reply.reader # reply.asker => peer[reply.asker] = "closed"

(* A reply is sent to the connection the query came from.                  *)
ReplyReachesAsker == reply.reader = reply.asker

Held(c) == \E f \in Fd : sock[f] = c

(* lwip_mutex is with a parser task that cannot go on: it was deleted      *)
(* inside send, or its send waits for a peer that does not read.           *)
Blocked == lock = "deleted" \/ ~room

(* A connecting peer is accepted or rejected whatever the others send,     *)
(* unless lwip_mutex is lost for good with a parser task in send.          *)
PendingAnswered ==
  []<>~Blocked => \A c \in Conn : peer[c] = "pending" ~> peer[c] # "pending"

(* The connection in the first slot gives its descriptor back once its peer*)
(* has closed, whatever the others send, unless lwip_mutex is lost for good*)
(* with a parser task in send.  The loop serves the first readable slot    *)
(* only, so the later slots have no such guarantee.                        *)
FirstSlotReleased ==
  []<>~Blocked =>
    \A c \in Conn :
      (clients # <<>> /\ sock[clients[1]] = c /\ peer[c] = "closed")
        ~> ~Held(c)
=============================================================================
