--------------------------- MODULE TcpServerProofs ---------------------------
(***************************************************************************)
(* Theorems about TcpServer, for every value of its constants: any number  *)
(* of connections, slots of tcp_client_fds, queued packets and settings    *)
(* writes.                                                                 *)
(***************************************************************************)
EXTENDS TcpServer, FiniteSetTheorems, SequenceTheorems, TLAPS

(* The snapshot of select lists open sockets that would not block, and     *)
(* slots the table still has.                                              *)
ScanInv ==
  /\ client_count <= Len(clients)
  /\ \A f \in read_fds \ {Listen} : sock[f] # None /\ Readable(f)
  /\ spc \notin {"accept", "scan"} => read_fds = {} /\ client_count = 0

(* The descriptor being handled is in the table, and open until closed.    *)
FdInv ==
  /\ spc \in {"recv", "push", "remove"} => fd \in Range(clients)
  /\ spc \in {"recv", "push"} => sock[fd] # None
  /\ spc = "recv" => Readable(fd)
  /\ spc = "remove" => sock[fd] = None

(* A query waits for its answer on the descriptor of its connection, or    *)
(* that connection has closed.                                             *)
Answerable(p) ==
  p # Command => sock[p.fd] = p.from \/ peer[p.from] = "closed"
AnswerInv ==
  /\ \A i \in 1..Len(queue) : Answerable(queue[i])
  /\ Answerable(packet)
  /\ ppc \in {"reply", "send"} => packet # Command

ReplyInv == /\ MisdeliveryNeedsClose
            /\ reply.asker = None => reply.reader = None

IInv == /\ TypeOK /\ TableMatchesSockets /\ ScanInv /\ FdInv
        /\ AnswerInv /\ ReplyInv

-----------------------------------------------------------------------------
(* A free descriptor and a ready slot are found by taking the least.       *)

LEMMA LeastNatural ==
  ASSUME NEW S \in SUBSET Nat, S # {}, NEW n \in Nat, S \subseteq 0..n
  PROVE  \E x \in S : \A y \in S : x <= y
<1> DEFINE T == {0..x-1 : x \in S}
           R == StrictSubsetOrdering(0..n)
<1>1. IsWellFoundedOn(R, FiniteSubsetsOf(0..n))
  BY FS_StrictSubsetOrderingWellFounded
<1>2. \A x \in S : 0..x-1 \subseteq 0..n /\ IsFiniteSet(0..x-1)
  BY FS_Interval
<1>3. T \subseteq FiniteSubsetsOf(0..n)
  BY <1>2 DEF FiniteSubsetsOf
<1>4. T # {}
  OBVIOUS
<1>5. \E t \in T : \A u \in T : <<u, t>> \notin R
  <2> HIDE DEF R, T
  <2> QED
    BY <1>1, <1>3, <1>4, WFMin
<1>6. PICK x \in S : \A y \in S : <<0..y-1, 0..x-1>> \notin R
  BY <1>5
<1>7. ASSUME NEW y \in S, y < x PROVE FALSE
  <2>1. y \in 0..x-1 /\ y \notin 0..y-1
    BY <1>7
  <2>2. 0..y-1 \subseteq 0..x-1 /\ 0..y-1 # 0..x-1
    BY <1>7, <2>1
  <2>3. 0..y-1 \in SUBSET (0..n) /\ 0..x-1 \in SUBSET (0..n)
    BY <1>2
  <2>4. <<0..y-1, 0..x-1>> \in R
    BY <2>2, <2>3 DEF StrictSubsetOrdering
  <2> QED
    BY <1>6, <2>4
<1> QED
  BY <1>7

(* A table that is not full leaves a descriptor unused.                    *)
LEMMA UnusedFd ==
  ASSUME NEW s \in Seq(Fd), Len(s) <= MAX_CLIENTS
  PROVE  \E f \in Fd : f \notin Range(s)
<1>1. SUFFICES ASSUME Fd \subseteq Range(s) PROVE FALSE
  OBVIOUS
<1>2. s \in Surjection(1..Len(s), Range(s))
  BY DEF Surjection, Range
<1>3. Cardinality(Range(s)) <= Len(s) /\ IsFiniteSet(Range(s))
  <2>1. IsFiniteSet(1..Len(s)) /\ Cardinality(1..Len(s)) = Len(s)
    BY FS_Interval
  <2> QED
    BY <1>2, <2>1, FS_Surjection
<1>4. Cardinality(Fd) = MAX_CLIENTS + 1
  BY FS_Interval, TcpAssumption DEF Fd
<1>5. Cardinality(Fd) <= Cardinality(Range(s))
  BY <1>1, <1>3, FS_Subset
<1> QED
  BY <1>3, <1>4, <1>5, FS_CardinalityType, TcpAssumption

LEMMA FreeFdIsFree ==
  ASSUME TypeOK, NEW g \in Fd, sock[g] = None
  PROVE  FreeFd \in Fd /\ sock[FreeFd] = None
<1> DEFINE S == {f \in Fd : sock[f] = None}
<1>1. PICK x \in S : \A y \in S : x <= y
  <2>1. S \in SUBSET Nat /\ S # {} /\ S \subseteq 0..MAX_CLIENTS + 1
    BY TcpAssumption DEF Fd
  <2>2. MAX_CLIENTS + 1 \in Nat
    BY TcpAssumption
  <2> HIDE DEF S
  <2> QED
    BY <2>1, <2>2, LeastNatural
<1>2. /\ x \in Fd /\ sock[x] = None
      /\ \A f \in Fd : sock[f] = None => x <= f
  BY <1>1
<1> QED
  BY <1>2 DEF FreeFd

LEMMA ServedSlotIsReady ==
  ASSUME TypeOK, ReadySlots # {} PROVE ServedSlot \in ReadySlots
<1>1. /\ ReadySlots \in SUBSET Nat /\ ReadySlots \subseteq 0..client_count
      /\ client_count \in Nat
  BY TcpAssumption DEF TypeOK, ReadySlots
<1>2. \E x \in ReadySlots : \A y \in ReadySlots : x <= y
  BY <1>1, LeastNatural
<1> QED
  BY <1>2 DEF ServedSlot, Min

(* The table when a client is added and when one is removed.               *)
LEMMA AddedToTable ==
  ASSUME NEW s \in Seq(Fd), NEW f \in Fd, IsInjective(s), f \notin Range(s)
  PROVE  /\ Append(s, f) \in Seq(Fd) /\ Len(Append(s, f)) = Len(s) + 1
         /\ IsInjective(Append(s, f))
         /\ Range(Append(s, f)) = Range(s) \cup {f}
         /\ \A i \in 1..Len(s) : Append(s, f)[i] = s[i]
  BY DEF IsInjective, Range

LEMMA RemovedFromTable ==
  ASSUME NEW s \in Seq(Fd), NEW f \in Range(s), IsInjective(s)
  PROVE  /\ WithoutFd(s, f) \in Seq(Fd)
         /\ Len(WithoutFd(s, f)) = Len(s) - 1
         /\ IsInjective(WithoutFd(s, f))
         /\ Range(WithoutFd(s, f)) = Range(s) \ {f}
<1> DEFINE i == CHOOSE j \in 1..Len(s) : s[j] = f
           r == WithoutFd(s, f)
<1>1. i \in 1..Len(s) /\ s[i] = f
  BY DEF Range
<1> HIDE DEF i
<1>2. r = SubSeq(s, 1, i - 1) \o SubSeq(s, i + 1, Len(s))
  BY DEF i, WithoutFd, RemoveAt
<1>3. /\ r \in Seq(Fd) /\ Len(r) = Len(s) - 1
      /\ \A k \in 1..Len(r) : r[k] = IF k < i THEN s[k] ELSE s[k + 1]
  <2> DEFINE p == SubSeq(s, 1, i - 1)
             q == SubSeq(s, i + 1, Len(s))
  <2>1. /\ p \in Seq(Fd) /\ Len(p) = i - 1
        /\ \A k \in 1..i - 1 : p[k] = s[k]
    BY <1>1
  <2>2. /\ q \in Seq(Fd) /\ Len(q) = Len(s) - i
        /\ \A k \in 1..Len(s) - i : q[k] = s[k + i]
    BY <1>1
  <2>3. r = p \o q
    BY <1>2
  <2> HIDE DEF p, q, r
  <2>4. r \in Seq(Fd) /\ Len(r) = Len(p) + Len(q)
    BY <2>1, <2>2, <2>3
  <2>5. ASSUME NEW k \in 1..Len(r)
        PROVE  r[k] = IF k < i THEN s[k] ELSE s[k + 1]
    <3>1. CASE k < i
      BY <1>1, <2>1, <2>2, <2>3, <2>5, <3>1
    <3>2. CASE k >= i
      <4>1. r[k] = q[k - Len(p)]
        <5>1. k \in 1..Len(p) + Len(q) /\ ~(k <= Len(p))
          BY <1>1, <2>1, <2>4, <2>5, <3>2
        <5> QED
          BY <2>1, <2>2, <2>3, <5>1, ConcatProperties
      <4>2. k - Len(p) \in 1..Len(s) - i
        BY <1>1, <2>1, <2>2, <2>4, <2>5, <3>2
      <4> QED
        BY <1>1, <2>1, <2>2, <4>1, <4>2, <3>2
    <3> QED
      BY <1>1, <2>5, <3>1, <3>2
  <2> QED
    BY <1>1, <2>1, <2>2, <2>4, <2>5
<1> HIDE DEF r
<1>4. IsInjective(r)
  BY <1>3, <1>1 DEF IsInjective
<1>5. Range(r) \subseteq Range(s) \ {f}
  <2>1. ASSUME NEW k \in 1..Len(r) PROVE r[k] \in Range(s) /\ r[k] # f
    <3>1. PICK j \in 1..Len(s) : r[k] = s[j] /\ j # i
      BY <1>1, <1>3, <2>1
    <3>2. s[j] # s[i]
      BY <1>1, <3>1 DEF IsInjective
    <3> QED
      BY <1>1, <3>1, <3>2 DEF Range
  <2> QED
    BY <2>1, <1>3 DEF Range
<1>6. Range(s) \ {f} \subseteq Range(r)
  <2>1. ASSUME NEW k \in 1..Len(s), k # i PROVE s[k] \in Range(r)
    <3>1. CASE k < i
      BY <1>1, <1>3, <2>1, <3>1 DEF Range
    <3>2. CASE k > i
      <4>1. k - 1 \in 1..Len(r) /\ r[k - 1] = s[k]
        BY <1>1, <1>3, <2>1, <3>2
      <4> QED
        BY <1>3, <4>1 DEF Range
    <3> QED
      BY <2>1, <1>1, <3>1, <3>2
  <2> QED
    BY <2>1, <1>1 DEF Range
<1> QED
  BY <1>3, <1>4, <1>5, <1>6 DEF r

-----------------------------------------------------------------------------
LEMMA IInvInit == Init => IInv
<1> SUFFICES ASSUME Init PROVE IInv
  OBVIOUS
<1> USE TcpAssumption DEF Init, Command, NoReply
<1>1. TypeOK
  BY DEF TypeOK, Packet, Fd
<1>2. TableMatchesSockets
  BY DEF TableMatchesSockets, IsInjective, Range
<1>3. ScanInv /\ FdInv
  BY DEF ScanInv, FdInv
<1>4. AnswerInv /\ ReplyInv
  BY DEF AnswerInv, Answerable, ReplyInv, MisdeliveryNeedsClose
<1> QED
  BY <1>1, <1>2, <1>3, <1>4 DEF IInv

(* What HandleNewClient adds.                                              *)
LEMMA NewClient ==
  ASSUME IInv, HandleNewClient, ~TableFull
  PROVE  /\ FreeFd \in Fd /\ sock[FreeFd] = None
         /\ clients' \in Seq(Fd) /\ Len(clients') = Len(clients) + 1
         /\ Len(clients') <= MAX_CLIENTS
         /\ \A i \in 1..Len(clients) : clients'[i] = clients[i]
         /\ IsInjective(clients')
         /\ Range(clients') = Range(clients) \cup {FreeFd}
         /\ \E c \in Conn : /\ sock' = [sock EXCEPT ![FreeFd] = c]
                           /\ peer' = [peer EXCEPT ![c] = "open"]
                           /\ peer[c] = "pending"
<1>1. Len(clients) < MAX_CLIENTS /\ clients \in Seq(Fd)
  BY TcpAssumption DEF IInv, TypeOK, TableFull
<1>2. IsInjective(clients) /\ Range(clients) = {f \in Fd : sock[f] # None}
  BY DEF IInv, TableMatchesSockets, HandleNewClient
<1>3. \E g \in Fd : sock[g] = None
  BY <1>1, <1>2, UnusedFd, TcpAssumption
<1>4. FreeFd \in Fd /\ sock[FreeFd] = None
  BY <1>3, FreeFdIsFree DEF IInv
<1>5. FreeFd \notin Range(clients)
  BY <1>2, <1>4
<1>6. clients' = Append(clients, FreeFd)
  BY DEF HandleNewClient
<1>7. /\ clients' \in Seq(Fd) /\ Len(clients') = Len(clients) + 1
      /\ IsInjective(clients')
      /\ Range(clients') = Range(clients) \cup {FreeFd}
      /\ \A i \in 1..Len(clients) : clients'[i] = clients[i]
  BY <1>1, <1>2, <1>4, <1>5, <1>6, AddedToTable
<1> QED
  BY <1>1, <1>4, <1>7, TcpAssumption DEF HandleNewClient

(* What a step keeps answerable.                                           *)
LEMMA StaysAnswerable ==
  ASSUME TypeOK, NEW p \in Packet, Answerable(p),
         \A c \in Conn : peer[c] = "closed" => peer'[c] = "closed",
         p # Command /\ sock[p.fd] = p.from =>
           sock'[p.fd] = p.from \/ peer'[p.from] = "closed"
  PROVE  Answerable(p)'
  BY DEF TypeOK, Packet, Answerable, Command

LEMMA PeersStayClosed ==
  ASSUME IInv, [Next]_vars, NEW c \in Conn, peer[c] = "closed"
  PROVE  peer'[c] = "closed"
<1> USE DEF IInv, TypeOK, socketVars
<1>1. ASSUME NEW d \in Conn, Connect(d) \/ PeerSends(d) \/ PeerCloses(d)
      PROVE  peer'[c] = "closed"
  BY <1>1 DEF Connect, PeerSends, PeerCloses
<1>2. CASE SelectTask
  BY <1>2 DEF SelectTask, Select, HandleNewClient, Scan, RecvData, RecvEnd,
              RemoveClient, PushPacket
<1>3. CASE ParserTask \/ ReplaceExecutor
  BY <1>3 DEF ParserTask, ParserReceive, LockForReply, SendResponse,
              ParserFree, ReplaceExecutor
<1>4. CASE PeerReads
  BY <1>4 DEF PeerReads
<1>5. CASE UNCHANGED vars
  BY <1>5 DEF vars
<1> QED
  BY <1>1, <1>2, <1>3, <1>5, <1>4 DEF Next

(* Types.                                                                  *)
LEMMA TypeStep == IInv /\ [Next]_vars => TypeOK'
<1> SUFFICES ASSUME IInv, [Next]_vars PROVE TypeOK'
  OBVIOUS
<1> USE TcpAssumption DEF IInv, TypeOK, socketVars, selectVars, parserVars, Fd
<1>1. ASSUME NEW c \in Conn, Connect(c) PROVE TypeOK'
  BY <1>1 DEF Connect
<1>2. ASSUME NEW c \in Conn, PeerSends(c) PROVE TypeOK'
  BY <1>2 DEF PeerSends
<1>3. ASSUME NEW c \in Conn, PeerCloses(c) PROVE TypeOK'
  BY <1>3 DEF PeerCloses
<1>4. CASE PeerReads
  BY <1>4 DEF PeerReads
<1>5. CASE Select
  <2>1. read_fds' \subseteq Fd \cup {Listen}
    BY <1>5 DEF Select, Ready, Range
  <2>2. client_count' \in 0..MAX_CLIENTS
    BY <1>5 DEF Select
  <2> QED
    BY <1>5, <2>1, <2>2 DEF Select
<1>6. CASE HandleNewClient
  <2>1. CASE TableFull
    BY <1>6, <2>1 DEF HandleNewClient
  <2>2. CASE ~TableFull
    <3>1. /\ clients' \in Seq(Fd) /\ Len(clients') <= MAX_CLIENTS
      BY <1>6, <2>2, NewClient
    <3>2. PICK c \in Conn : /\ sock' = [sock EXCEPT ![FreeFd] = c]
                             /\ peer' = [peer EXCEPT ![c] = "open"]
      BY <1>6, <2>2, NewClient
    <3>3. /\ sock' \in [Fd -> Conn \cup {None}]
          /\ peer' \in [Conn -> {"new", "pending", "open", "closed"}]
      BY <3>2
    <3> QED
      BY <1>6, <2>2, <3>1, <3>3 DEF HandleNewClient
  <2> QED
    BY <2>1, <2>2
<1>7. CASE Scan
  <2>1. CASE ReadySlots = {}
    BY <1>7, <2>1 DEF Scan
  <2>2. CASE ReadySlots # {}
    <3>1. ServedSlot \in 1..Len(clients)
      BY <2>2, ServedSlotIsReady DEF ReadySlots, ScanInv
    <3> QED
      BY <1>7, <2>2, <3>1 DEF Scan
  <2> QED
    BY <2>1, <2>2
<1>8. CASE RecvData
  BY <1>8 DEF RecvData, FdInv
<1>9. CASE RecvEnd
  BY <1>9 DEF RecvEnd
<1>10. CASE RemoveClient
  BY <1>10, RemovedFromTable DEF RemoveClient, FdInv, TableMatchesSockets
<1>11. CASE PushPacket
  <2>1. Query(fd, sock[fd]) \in Packet /\ Command \in Packet
    BY <1>11 DEF PushPacket, FdInv, Packet, Query, Range
  <2>2. queue' \in Seq(Packet) /\ Len(queue') <= QueueSize
    <3>1. \/ queue' = queue
          \/ /\ Len(queue) < QueueSize
             /\ \E p \in Packet : queue' = Append(queue, p)
      BY <1>11, <2>1 DEF PushPacket, ReplyFd
    <3>2. queue \in Seq(Packet) /\ Len(queue) <= QueueSize
      OBVIOUS
    <3>3. ASSUME NEW p \in Packet, Len(queue) < QueueSize
          PROVE  /\ Append(queue, p) \in Seq(Packet)
                 /\ Len(Append(queue, p)) <= QueueSize
      <4> HIDE DEF Packet
      <4> QED
        BY <3>2, <3>3
    <3> QED
      <4> HIDE DEF Packet
      <4> QED
        BY <3>1, <3>2, <3>3
  <2> QED
    BY <1>11, <2>2 DEF PushPacket
<1>12. CASE ParserReceive
  BY <1>12 DEF ParserReceive, Command, Packet
<1>13. CASE LockForReply
  BY <1>13 DEF LockForReply
<1>14. CASE SendResponse
  <2>1. packet.from \in Conn \cup {None}
    BY DEF Packet, Command
  <2>2. packet.fd \in Fd
    BY <1>14 DEF SendResponse, AnswerInv, Packet
  <2> QED
    BY <1>14, <2>1, <2>2 DEF SendResponse, Unlock
<1>15. CASE ParserFree
  BY <1>15 DEF ParserFree, NoReply, Command, Packet
<1>16. CASE ReplaceExecutor
  BY <1>16 DEF ReplaceExecutor, Packet, NoReply, Command
<1>17. CASE UNCHANGED vars
  BY <1>17 DEF vars
<1> QED
  BY <1>1, <1>2, <1>3, <1>4, <1>5, <1>6, <1>7, <1>8, <1>9, <1>10, <1>11,
     <1>12, <1>13, <1>14, <1>15, <1>16, <1>17
     DEF Next, SelectTask, ParserTask

(* The table follows the sockets.                                          *)
LEMMA TableStep == IInv /\ [Next]_vars => TableMatchesSockets'
<1> SUFFICES ASSUME IInv, [Next]_vars PROVE TableMatchesSockets'
  OBVIOUS
<1> USE TcpAssumption
    DEF IInv, TypeOK, socketVars, selectVars, parserVars, TableMatchesSockets
<1>1. ASSUME NEW c \in Conn, Connect(c) PROVE TableMatchesSockets'
  BY <1>1 DEF Connect
<1>2. ASSUME NEW c \in Conn, PeerSends(c) PROVE TableMatchesSockets'
  BY <1>2 DEF PeerSends
<1>3. ASSUME NEW c \in Conn, PeerCloses(c) PROVE TableMatchesSockets'
  BY <1>3 DEF PeerCloses
<1>4. CASE PeerReads
  BY <1>4 DEF PeerReads
<1>5. CASE Select
  BY <1>5 DEF Select, Ready, Readable
<1>6. CASE HandleNewClient
  <2>1. CASE TableFull
    BY <1>6, <2>1 DEF HandleNewClient
  <2>2. CASE ~TableFull
    <3>1. /\ IsInjective(clients')
          /\ Range(clients') = Range(clients) \cup {FreeFd}
      BY <1>6, <2>2, NewClient
    <3>2. spc # "remove" /\ spc' # "remove"
      BY <1>6 DEF HandleNewClient
    <3>3. {f \in Fd : sock'[f] # None}
            = {f \in Fd : sock[f] # None} \cup {FreeFd}
      BY <1>6, <2>2, NewClient
    <3> QED
      BY <3>1, <3>2, <3>3
  <2> QED
    BY <2>1, <2>2
<1>7. CASE Scan
  BY <1>7 DEF Scan
<1>8. CASE RecvData
  BY <1>8 DEF RecvData
<1>9. CASE RecvEnd
  BY <1>9 DEF RecvEnd, FdInv
<1>10. CASE RemoveClient
  BY <1>10, RemovedFromTable DEF RemoveClient, FdInv
<1>11. CASE PushPacket
  BY <1>11 DEF PushPacket, ReplyFd, Query, Command
<1>12. CASE ParserReceive
  BY <1>12 DEF ParserReceive, Command
<1>13. CASE LockForReply
  BY <1>13 DEF LockForReply
<1>14. CASE SendResponse
  BY <1>14 DEF SendResponse, Unlock
<1>15. CASE ParserFree
  BY <1>15 DEF ParserFree, NoReply, Command
<1>16. CASE ReplaceExecutor
  BY <1>16 DEF ReplaceExecutor
<1>17. CASE UNCHANGED vars
  BY <1>17 DEF vars
<1> QED
  BY <1>1, <1>2, <1>3, <1>4, <1>5, <1>6, <1>7, <1>8, <1>9, <1>10, <1>11,
     <1>12, <1>13, <1>14, <1>15, <1>16, <1>17
     DEF Next, SelectTask, ParserTask

(* The snapshot stays good until it is used.                               *)
LEMMA ScanStep == IInv /\ [Next]_vars => ScanInv'
<1> SUFFICES ASSUME IInv, [Next]_vars PROVE ScanInv'
  OBVIOUS
<1> USE TcpAssumption
    DEF IInv, TypeOK, socketVars, selectVars, parserVars, ScanInv, Readable
<1>1. ASSUME NEW c \in Conn, Connect(c) PROVE ScanInv'
  BY <1>1 DEF Connect
<1>2. ASSUME NEW c \in Conn, PeerSends(c) PROVE ScanInv'
  BY <1>2 DEF PeerSends
<1>3. ASSUME NEW c \in Conn, PeerCloses(c) PROVE ScanInv'
  BY <1>3 DEF PeerCloses
<1>4. CASE PeerReads
  BY <1>4 DEF PeerReads
<1>5. CASE Select
  BY <1>5 DEF Select, Ready, Readable, TableMatchesSockets
<1>6. CASE HandleNewClient
  <2>1. CASE TableFull
    BY <1>6, <2>1 DEF HandleNewClient
  <2>2. CASE ~TableFull
    <3>1. /\ Len(clients') = Len(clients) + 1
          /\ FreeFd \in Fd /\ sock[FreeFd] = None
      BY <1>6, <2>2, NewClient
    <3>2. PICK c \in Conn : /\ sock' = [sock EXCEPT ![FreeFd] = c]
                            /\ peer' = [peer EXCEPT ![c] = "open"]
                            /\ peer[c] = "pending"
      BY <1>6, <2>2, NewClient
    <3>3. \A f \in read_fds \ {Listen} :
            sock'[f] = sock[f] /\ Readable(f)'
      BY <1>6, <3>1, <3>2 DEF HandleNewClient, Fd
    <3> QED
      BY <1>6, <3>1, <3>2, <3>3 DEF HandleNewClient
  <2> QED
    BY <2>1, <2>2
<1>7. CASE Scan
  BY <1>7 DEF Scan
<1>8. CASE RecvData
  BY <1>8 DEF RecvData
<1>9. CASE RecvEnd
  BY <1>9 DEF RecvEnd
<1>10. CASE RemoveClient
  BY <1>10 DEF RemoveClient
<1>11. CASE PushPacket
  BY <1>11 DEF PushPacket, ReplyFd, Query, Command
<1>12. CASE ParserReceive
  BY <1>12 DEF ParserReceive, Command
<1>13. CASE LockForReply
  BY <1>13 DEF LockForReply
<1>14. CASE SendResponse
  BY <1>14 DEF SendResponse, Unlock
<1>15. CASE ParserFree
  BY <1>15 DEF ParserFree, NoReply, Command
<1>16. CASE ReplaceExecutor
  BY <1>16 DEF ReplaceExecutor
<1>17. CASE UNCHANGED vars
  BY <1>17 DEF vars
<1> QED
  BY <1>1, <1>2, <1>3, <1>4, <1>5, <1>6, <1>7, <1>8, <1>9, <1>10, <1>11,
     <1>12, <1>13, <1>14, <1>15, <1>16, <1>17
     DEF Next, SelectTask, ParserTask

(* The descriptor being handled is one of the table.                       *)
LEMMA FdStep == IInv /\ [Next]_vars => FdInv'
<1> SUFFICES ASSUME IInv, [Next]_vars PROVE FdInv'
  OBVIOUS
<1> USE TcpAssumption
    DEF IInv, TypeOK, socketVars, selectVars, parserVars, FdInv, Readable
<1>1. ASSUME NEW c \in Conn, Connect(c) PROVE FdInv'
  BY <1>1 DEF Connect
<1>2. ASSUME NEW c \in Conn, PeerSends(c) PROVE FdInv'
  BY <1>2 DEF PeerSends
<1>3. ASSUME NEW c \in Conn, PeerCloses(c) PROVE FdInv'
  BY <1>3 DEF PeerCloses
<1>4. CASE PeerReads
  BY <1>4 DEF PeerReads
<1>5. CASE Select
  BY <1>5 DEF Select, Ready, Readable
<1>6. CASE HandleNewClient
  BY <1>6 DEF HandleNewClient, TableFull
<1>7. CASE Scan
  <2>1. CASE ReadySlots = {}
    BY <1>7, <2>1 DEF Scan
  <2>2. CASE ReadySlots # {}
    <3>1. /\ ServedSlot \in 1..Len(clients)
          /\ clients[ServedSlot] \in read_fds
      BY <2>2, ServedSlotIsReady DEF ReadySlots, ScanInv
    <3>2. clients[ServedSlot] \in Range(clients) \cap Fd
      BY <3>1 DEF Range
    <3>3. clients[ServedSlot] # Listen
      BY <3>2 DEF Listen, Fd
    <3>4. /\ sock[clients[ServedSlot]] # None
          /\ Readable(clients[ServedSlot])
      BY <3>1, <3>3 DEF ScanInv
    <3> QED
      BY <1>7, <2>2, <3>2, <3>4 DEF Scan
  <2> QED
    BY <2>1, <2>2
<1>8. CASE RecvData
  BY <1>8 DEF RecvData
<1>9. CASE RecvEnd
  <2>1. fd \in Fd
    BY <1>9 DEF RecvEnd, Range
  <2> QED
    BY <1>9, <2>1 DEF RecvEnd
<1>10. CASE RemoveClient
  BY <1>10 DEF RemoveClient
<1>11. CASE PushPacket
  BY <1>11 DEF PushPacket, ReplyFd, Query, Command
<1>12. CASE ParserReceive
  BY <1>12 DEF ParserReceive, Command
<1>13. CASE LockForReply
  BY <1>13 DEF LockForReply
<1>14. CASE SendResponse
  BY <1>14 DEF SendResponse, Unlock
<1>15. CASE ParserFree
  BY <1>15 DEF ParserFree, NoReply, Command
<1>16. CASE ReplaceExecutor
  BY <1>16 DEF ReplaceExecutor
<1>17. CASE UNCHANGED vars
  BY <1>17 DEF vars
<1> QED
  BY <1>1, <1>2, <1>3, <1>4, <1>5, <1>6, <1>7, <1>8, <1>9, <1>10, <1>11,
     <1>12, <1>13, <1>14, <1>15, <1>16, <1>17
     DEF Next, SelectTask, ParserTask

(* Every packet stays answerable, wherever it waits.                       *)
LEMMA SocketsKeepAnswers ==
  ASSUME IInv, [Next]_vars, NEW p \in Packet, Answerable(p)
  PROVE  Answerable(p)'
<1>1. \A c \in Conn : peer[c] = "closed" => peer'[c] = "closed"
  BY PeersStayClosed
<1>2. TypeOK
  BY DEF IInv
<1>3. SUFFICES ASSUME p # Command, sock[p.fd] = p.from
               PROVE  sock'[p.fd] = p.from \/ peer'[p.from] = "closed"
  BY <1>1, <1>2, StaysAnswerable
<1>4. p.fd \in Fd /\ p.from \in Conn
  BY <1>3 DEF Packet, Command
<1>5. CASE HandleNewClient
  <2>1. CASE TableFull
    BY <1>3, <1>5, <2>1 DEF HandleNewClient
  <2>2. CASE ~TableFull
    <3>1. p.fd # FreeFd
      BY <1>3, <1>4, <1>5, <2>2, NewClient, TcpAssumption
    <3> QED
      BY <1>2, <1>3, <1>4, <1>5, <2>2, <3>1 DEF HandleNewClient, TypeOK
  <2> QED
    BY <2>1, <2>2
<1>6. CASE RecvEnd
  <2>1. sock[fd] # None /\ Readable(fd) /\ sock[fd] \notin unread
    BY <1>6 DEF RecvEnd, IInv, FdInv
  <2>2. peer[sock[fd]] = "closed"
    BY <2>1 DEF Readable
  <2> QED
    BY <1>1, <1>2, <1>3, <1>4, <1>6, <2>2 DEF RecvEnd, TypeOK
<1>7. CASE sock' = sock
  BY <1>3, <1>7
<1>8. sock' = sock \/ HandleNewClient \/ RecvEnd
  BY DEF Next, Connect, PeerSends, PeerCloses, PeerReads, SelectTask, Select,
         Scan, RecvData, RemoveClient, PushPacket, ParserTask, ParserReceive,
         LockForReply, SendResponse, ParserFree, ReplaceExecutor, socketVars,
         vars
<1> QED
  BY <1>5, <1>6, <1>7, <1>8

LEMMA AnswerStep == IInv /\ [Next]_vars => AnswerInv'
<1> SUFFICES ASSUME IInv, [Next]_vars PROVE AnswerInv'
  OBVIOUS
<1> DEFINE Good(p) == p \in Packet /\ Answerable(p)
<1>1. /\ queue \in Seq(Packet)
      /\ \A i \in 1..Len(queue) : Good(queue[i])
      /\ Good(packet)
      /\ ppc \in {"reply", "send"} => packet # Command
  BY DEF IInv, TypeOK, AnswerInv
<1>2. Good(Command)
  BY DEF Packet, Answerable
<1>3. /\ \A i \in 1..Len(queue') : Good(queue'[i])
      /\ Good(packet')
      /\ ppc' \in {"reply", "send"} => packet' # Command
  <2>1. CASE PushPacket
    <3>1. Good(Query(fd, sock[fd]))
      <4>1. fd \in Fd /\ sock[fd] \in Conn
        BY <2>1 DEF PushPacket, IInv, TypeOK, FdInv, Range
      <4> QED
        BY <4>1 DEF Query, Packet, Answerable
    <3>2. \/ queue' = queue
          \/ \E p : Good(p) /\ queue' = Append(queue, p)
      BY <1>2, <2>1, <3>1 DEF PushPacket, ReplyFd
    <3>3. \A i \in 1..Len(queue') : Good(queue'[i])
      <4>1. ASSUME NEW p, Good(p), queue' = Append(queue, p)
            PROVE  \A i \in 1..Len(queue') : Good(queue'[i])
        <5>1. /\ Len(queue') = Len(queue) + 1
              /\ \A i \in 1..Len(queue) : queue'[i] = queue[i]
              /\ queue'[Len(queue) + 1] = p
          BY <1>1, <4>1
        <5> HIDE DEF Good
        <5> QED
          BY <1>1, <4>1, <5>1
      <4> QED
        BY <1>1, <3>2, <4>1
    <3> QED
      BY <1>1, <2>1, <3>3 DEF PushPacket, parserVars
  <2>2. CASE ParserReceive
    <3>1. /\ queue # <<>> /\ packet' = Head(queue) /\ queue' = Tail(queue)
          /\ ppc' = IF packet' # Command THEN "reply" ELSE "free"
      BY <2>2 DEF ParserReceive
    <3>2. /\ Head(queue) = queue[1] /\ 1 \in 1..Len(queue)
          /\ \A i \in 1..Len(queue') :
               i + 1 \in 1..Len(queue) /\ queue'[i] = queue[i + 1]
      BY <1>1, <3>1
    <3> HIDE DEF Good
    <3> QED
      BY <1>1, <3>1, <3>2
  <2>3. CASE LockForReply \/ SendResponse \/ ParserFree \/ ReplaceExecutor
    BY <1>1, <1>2, <2>3
       DEF LockForReply, SendResponse, ParserFree, ReplaceExecutor
  <2>4. CASE UNCHANGED <<queue, ppc, packet>>
    BY <1>1, <2>4
  <2>5. \/ PushPacket \/ ParserReceive \/ LockForReply \/ SendResponse
        \/ ParserFree \/ ReplaceExecutor \/ UNCHANGED <<queue, ppc, packet>>
    BY DEF Next, Connect, PeerSends, PeerCloses, PeerReads, SelectTask, Select,
           HandleNewClient, Scan, RecvData, RecvEnd, RemoveClient, ParserTask,
           parserVars, vars
  <2> QED
    BY <2>1, <2>2, <2>3, <2>4, <2>5
<1>4. ASSUME NEW p, Good(p) PROVE Answerable(p)'
  BY <1>4, SocketsKeepAnswers
<1> QED
  BY <1>3, <1>4 DEF AnswerInv, Answerable

(* A reply that reaches another connection was late.                       *)
LEMMA ReplyStep == IInv /\ [Next]_vars => ReplyInv'
<1> SUFFICES ASSUME IInv, [Next]_vars PROVE ReplyInv'
  OBVIOUS
<1> USE DEF ReplyInv, MisdeliveryNeedsClose
<1>1. CASE SendResponse
  <2>1. packet # Command /\ packet.from \in Conn /\ peer' = peer
    BY <1>1, TcpAssumption
       DEF SendResponse, IInv, TypeOK, AnswerInv, Packet, Command, socketVars
  <2>2. sock[packet.fd] = packet.from \/ peer[packet.from] = "closed"
    BY <2>1 DEF IInv, AnswerInv, Answerable
  <2> QED
    BY <1>1, <2>1, <2>2, TcpAssumption DEF SendResponse, IInv
<1>2. CASE reply' = NoReply
  BY <1>2 DEF NoReply
<1>3. CASE reply' = reply
  <2>1. CASE reply.asker = None
    BY <1>3, <2>1 DEF IInv
  <2>2. CASE reply.asker # None
    <3>1. reply.asker \in Conn
      BY <2>2 DEF IInv, TypeOK
    <3> QED
      BY <1>3, <2>2, <3>1, PeersStayClosed DEF IInv
  <2> QED
    BY <2>1, <2>2
<1>4. SendResponse \/ reply' = NoReply \/ reply' = reply
  BY DEF Next, Connect, PeerSends, PeerCloses, PeerReads, SelectTask, Select,
         HandleNewClient, Scan, RecvData, RecvEnd, RemoveClient, PushPacket,
         ParserTask, ParserReceive, LockForReply, ParserFree, ReplaceExecutor,
         parserVars, vars
<1> QED
  BY <1>1, <1>2, <1>3, <1>4

-----------------------------------------------------------------------------
(* The strengthening of the four properties below is inductive.            *)
THEOREM Invariant == Spec => []IInv
<1>1. IInv /\ [Next]_vars => IInv'
  BY TypeStep, TableStep, ScanStep, FdStep, AnswerStep, ReplyStep DEF IInv
<1> QED
  BY <1>1, IInvInit, PTL DEF Spec

(* Every variable stays in its set: neither tcp_client_fds nor the receive *)
(* queue is ever longer than its array (tcp_server.cpp).                   *)
THEOREM TypeCorrect == Spec => []TypeOK
<1>1. IInv => TypeOK
  BY DEF IInv
<1> QED
  BY <1>1, Invariant, PTL

(* tcp_client_fds lists the accepted sockets, each once, whatever peers and*)
(* settings writes do between accept, select, recv and close.              *)
THEOREM TableIsSockets == Spec => []TableMatchesSockets
<1>1. IInv => TableMatchesSockets
  BY DEF IInv
<1> QED
  BY <1>1, Invariant, PTL

(* tcp_server_handle_client_data, which holds lwip_mutex, never blocks in  *)
(* recv and never reads a descriptor that is not the server's.             *)
THEOREM RecvReady == Spec => []RecvDoesNotBlock
<1>1. IInv => RecvDoesNotBlock
  BY DEF IInv, FdInv, RecvDoesNotBlock
<1> QED
  BY <1>1, Invariant, PTL

(* tcp_server_send_response reaches a connection that did not ask only if  *)
(* the one that asked has closed.                                          *)
THEOREM OnlyLateRepliesStray == Spec => []MisdeliveryNeedsClose
<1>1. IInv => MisdeliveryNeedsClose
  BY DEF IInv, ReplyInv
<1> QED
  BY <1>1, Invariant, PTL

=============================================================================
