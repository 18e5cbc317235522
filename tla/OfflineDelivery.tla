--------------------------- MODULE OfflineDelivery ---------------------------
(***************************************************************************)
(* Delivery of packets to users who come and go: OfflineManager and        *)
(* MessageRouter on the server's main thread, OfflineQueueRepository on    *)
(* its database thread, the login that AuthHandler completes, and the      *)
(* recipients' clients at the other end of the sockets.                    *)
(*                                                                         *)
(* The threads talk through Qt's queued signals: dbQueue holds the         *)
(* requests posted to the database thread, results what it posted back;    *)
(* both are FIFO. An action is one event handled by one thread.            *)
(***************************************************************************)
EXTENDS SessionManager, Sequences, FiniteSets, SequencesExt

CONSTANTS
    Messages,       \* serverIds of receive_message packets: acknowledged
    Notices,        \* msgIds of group and friend notifications: not acknowledged
    MaxCrashes      \* bound on server crashes

ASSUME PacketAssumption ==
    /\ Messages \cap Notices = {}
    /\ IsFiniteSet(Users)
    /\ MaxCrashes \in Nat

VARIABLES
    toClient,       \* packets on the wire to the client, per connection
    toServer,       \* message_received_acks on the wire to the server
    pendingAckIds,  \* m_pendingAckIds[user][msgId] = offline_queue id, 0 if absent
    dbQueue,        \* requests posted to the database thread
    results,        \* offlineLoaded signals posted to the main thread
    rows,           \* every row ever inserted in offline_queue; its id is its index
    live,           \* ids of the rows still in offline_queue
    \* what the system is observed to do
    addressed,      \* users each packet was submitted for, {} before it is
    received,       \* packets each user's client has handled
    dupRemoved,     \* rows removed as duplicates of an unacknowledged delivery
    crashes         \* number of server crashes so far

deliveryVars == <<toClient, toServer, pendingAckIds, dbQueue, results, rows,
                  live, addressed, received, dupRemoved, crashes>>
vars == <<sessionVars, deliveryVars>>

Packets == Messages \cup Notices

Row == [user : Users, msg : Packets]

QueueOfflineReq == [op : {"queueOffline"}, user : Users, msg : Packets]
LoadOfflineReq == [op : {"loadOffline"}, user : Users]
MarkDeliveredReq == [op : {"markOfflineDelivered"}, ids : SUBSET (Nat \ {0})]
DbRequest == QueueOfflineReq \cup LoadOfflineReq \cup MarkDeliveredReq

\* OfflineLoadResult: packets are named by their row ids, delivered in id order
LoadResult == [user : Users, ids : SUBSET (Nat \ {0})]

Init ==
    /\ SessionInit
    /\ toClient = [c \in Conns |-> <<>>]
    /\ toServer = [c \in Conns |-> <<>>]
    /\ pendingAckIds = [u \in Users |-> [m \in Packets |-> 0]]
    /\ dbQueue = <<>>
    /\ results = <<>>
    /\ rows = <<>>
    /\ live = {}
    /\ addressed = [m \in Packets |-> {}]
    /\ received = [u \in Users |-> {}]
    /\ dupRemoved = {}
    /\ crashes = 0

-----------------------------------------------------------------------------
(***************************************************************************)
(* Connections                                                             *)
(***************************************************************************)

\* ServerApp::onNewConnection
OnNewConnection(c) ==
    /\ Attach(c)
    /\ UNCHANGED deliveryVars

\* What was on the wire to the client is lost; what the client wrote may still be read
ConnectionLost(c) ==
    /\ LinkFails(c)
    /\ toClient' = [toClient EXCEPT ![c] = <<>>]
    /\ UNCHANGED <<toServer, pendingAckIds, dbQueue, results, rows, live,
                   addressed, received, dupRemoved, crashes>>

\* ServerApp::onClientDisconnected: detach, then OfflineManager::onUserDisconnected
OnClientDisconnected(c) ==
    /\ Detach(c)
    /\ pendingAckIds' = [u \in Users |-> IF u = sessUser[c]
                                         THEN [m \in Packets |-> 0]
                                         ELSE pendingAckIds[u]]
    /\ toClient' = [toClient EXCEPT ![c] = <<>>]
    /\ toServer' = [toServer EXCEPT ![c] = <<>>]
    /\ UNCHANGED <<dbQueue, results, rows, live, addressed, received, dupRemoved,
                   crashes>>

(***************************************************************************)
(* AuthHandler::handleConnect of an accepted login. The main thread blocks *)
(* on ensureUserAndGetNickname, which the database thread runs after every *)
(* request posted before, so at that point dbQueue is empty. The client    *)
(* sends one connect packet per connection.                                *)
(***************************************************************************)
HandleConnect(c, u) ==
    /\ sessUser[c] = NoUser
    /\ dbQueue = <<>>
    /\ Authenticate(c, u)
    /\ dbQueue' = Append(dbQueue, [op |-> "loadOffline", user |-> u])
    /\ UNCHANGED <<toClient, toServer, pendingAckIds, results, rows, live,
                   addressed, received, dupRemoved, crashes>>

-----------------------------------------------------------------------------
(***************************************************************************)
(* OfflineManager and MessageRouter                                        *)
(***************************************************************************)

\* routeToUser for every user of R: ClientSession::sendPacket writes to the socket of
\* the user's current session, and drops the packets when that socket is not usable
Routed(R, packets) ==
    [c \in Conns |-> IF link[c] = "up" /\ \E u \in R : userMap[u] = c
                     THEN toClient[c] \o packets
                     ELSE toClient[c]]

(***************************************************************************)
(* enqueueIfOffline, called once per recipient with the same packet by     *)
(* MessageDeliveryService and by the group and friend services. The msgId  *)
(* of a packet is a fresh UUID.                                            *)
(***************************************************************************)
EnqueueIfOfflineMany(R, m) ==
    /\ addressed[m] = {}
    /\ addressed' = [addressed EXCEPT ![m] = R]
    /\ toClient' = Routed({u \in R : Online(u)}, <<m>>)
    /\ \E offline \in SetToSeqs({u \in R : ~Online(u)}) :
          dbQueue' = dbQueue \o
             [i \in DOMAIN offline |->
                 [op |-> "queueOffline", user |-> offline[i], msg |-> m]]
    /\ UNCHANGED <<sessionVars, toServer, pendingAckIds, results, rows, live,
                   received, dupRemoved, crashes>>

\* Fault: the query has no ORDER BY
AnyOrder(ids) == SetToSeqs(ids)

\* The elements of a finite set of ids in ascending order (the only such sequence)
Ascending(ids) ==
    {s \in [1..Cardinality(ids) -> ids] :
        \A i, j \in DOMAIN s : i < j => s[i] < s[j]}

(***************************************************************************)
(* The rows of a load result that onOfflineLoaded takes for duplicates:    *)
(* messages sent to the user already and not acknowledged yet.             *)
(***************************************************************************)
Duplicates(u, ids) ==
    {i \in ids : rows[i].msg \in Messages /\ pendingAckIds[u][rows[i].msg] # 0}

\* Fault: the row of a message goes as soon as it has been routed
RemovableOnceRouted(u, ids) ==
    IF Online(u) THEN ids ELSE {}

\* Fault: a notification waits for an acknowledgement that no client sends
RemovableDuplicates(u, ids) ==
    {i \in Duplicates(u, ids) : Online(u) \/ \A j \in ids \ Duplicates(u, ids) : i < j}

(***************************************************************************)
(* The rows of a load result that onOfflineLoaded has deleted: duplicates, *)
(* and the notifications it routes. For a user who is offline the loop     *)
(* stops at the first row it has to route.                                 *)
(***************************************************************************)
Removable(u, ids) ==
    LET dup == Duplicates(u, ids)
        fresh == ids \ dup
    IN  IF Online(u)
        THEN dup \cup {i \in fresh : rows[i].msg \in Notices}
        ELSE {i \in dup : \A j \in fresh : i < j}

(***************************************************************************)
(* onOfflineLoaded. Routing fails for all rows or for none, since the      *)
(* session registry does not change during the loop. Rows are written from *)
(* packets with a msgId and decode again, so the two branches for damaged  *)
(* rows are never taken.                                                   *)
(***************************************************************************)
OnOfflineLoaded ==
    /\ results # <<>>
    /\ LET u == Head(results).user
           ids == Head(results).ids
           dup == Duplicates(u, ids)
           fresh == ids \ dup
           removable == Removable(u, ids)
       IN  /\ IF Online(u)
              THEN /\ \E s \in Ascending(fresh) :
                        toClient' = Routed({u}, [k \in DOMAIN s |-> rows[s[k]].msg])
                   /\ pendingAckIds' = [pendingAckIds EXCEPT ![u] =
                        [m \in Packets |->
                           IF m \in Messages /\ \E i \in fresh : rows[i].msg = m
                           THEN CHOOSE i \in fresh : rows[i].msg = m
                           ELSE pendingAckIds[u][m]]]
              ELSE UNCHANGED <<toClient, pendingAckIds>>
           /\ dbQueue' = IF removable = {} THEN dbQueue
                         ELSE Append(dbQueue, [op |-> "markOfflineDelivered",
                                               ids |-> removable])
           /\ dupRemoved' = dupRemoved \cup (removable \cap dup)
    /\ results' = Tail(results)
    /\ UNCHANGED <<sessionVars, toServer, rows, live, addressed, received, crashes>>

\* MessageHandler::handleMessageReceivedAck, OfflineManager::handleMessageReceivedAck
HandleMessageReceivedAck(c) ==
    /\ Attached(c) /\ toServer[c] # <<>>
    /\ toServer' = [toServer EXCEPT ![c] = Tail(@)]
    /\ LET u == sessUser[c]
           m == Head(toServer[c])
       IN  IF IsAuthenticated(c) /\ pendingAckIds[u][m] # 0
           THEN /\ pendingAckIds' = [pendingAckIds EXCEPT ![u][m] = 0]
                /\ dbQueue' = Append(dbQueue, [op |-> "markOfflineDelivered",
                                               ids |-> {pendingAckIds[u][m]}])
           ELSE UNCHANGED <<pendingAckIds, dbQueue>>
    /\ UNCHANGED <<sessionVars, toClient, results, rows, live, addressed,
                   received, dupRemoved, crashes>>

-----------------------------------------------------------------------------
(***************************************************************************)
(* OfflineQueueRepository, on the database thread                          *)
(***************************************************************************)

\* Fault: the id of the row is off by one
QueueOfflineNextId(req) ==
    /\ req.op = "queueOffline"
    /\ rows' = Append(rows, [user |-> req.user, msg |-> req.msg])
    /\ live' = live \cup {Len(rows) + 2}
    /\ UNCHANGED results

\* INSERT INTO offline_queue; ids are AUTOINCREMENT
QueueOffline(req) ==
    /\ req.op = "queueOffline"
    /\ rows' = Append(rows, [user |-> req.user, msg |-> req.msg])
    /\ live' = live \cup {Len(rows) + 1}
    /\ UNCHANGED results

\* Fault: the query has no WHERE clause
LoadOfflineOfAll(req) ==
    /\ req.op = "loadOffline"
    /\ results' = Append(results, [user |-> req.user, ids |-> live])
    /\ UNCHANGED <<rows, live>>

\* SELECT ... WHERE recipient_user_id = ? ORDER BY id, then the offlineLoaded signal
LoadOffline(req) ==
    /\ req.op = "loadOffline"
    /\ results' = Append(results, [user |-> req.user,
                                   ids |-> {i \in live : rows[i].user = req.user}])
    /\ UNCHANGED <<rows, live>>

\* DELETE FROM offline_queue WHERE id IN (...)
MarkOfflineDelivered(req) ==
    /\ req.op = "markOfflineDelivered"
    /\ live' = live \ req.ids
    /\ UNCHANGED <<rows, results>>

DbStep ==
    /\ dbQueue # <<>>
    /\ LET req == Head(dbQueue)
       IN  QueueOffline(req) \/ LoadOffline(req) \/ MarkOfflineDelivered(req)
    /\ dbQueue' = Tail(dbQueue)
    /\ UNCHANGED <<sessionVars, toClient, toServer, pendingAckIds, addressed,
                   received, dupRemoved, crashes>>

-----------------------------------------------------------------------------
(***************************************************************************)
(* The client, and the end of the server process                           *)
(***************************************************************************)

\* NetworkService::handleIncomingPacket: a receive_message is handed to the use case
\* and acknowledged, a notification is only handled
ClientReceive(c) ==
    /\ link[c] = "up" /\ toClient[c] # <<>>
    /\ toClient' = [toClient EXCEPT ![c] = Tail(@)]
    /\ LET m == Head(toClient[c])
       IN  /\ received' = [received EXCEPT ![sessUser[c]] = @ \cup {m}]
           /\ toServer' = IF m \in Messages
                          THEN [toServer EXCEPT ![c] = Append(@, m)]
                          ELSE toServer
    /\ UNCHANGED <<sessionVars, pendingAckIds, dbQueue, results, rows, live,
                   addressed, dupRemoved, crashes>>

\* The server process stops or dies: both threads' queues and the memory of the main
\* thread are gone, the database file stays
ServerCrash ==
    /\ crashes < MaxCrashes
    /\ crashes' = crashes + 1
    /\ AllSessionsEnd
    /\ toClient' = [c \in Conns |-> <<>>]
    /\ toServer' = [c \in Conns |-> <<>>]
    /\ pendingAckIds' = [u \in Users |-> [m \in Packets |-> 0]]
    /\ dbQueue' = <<>>
    /\ results' = <<>>
    /\ UNCHANGED <<rows, live, addressed, received, dupRemoved>>

Next ==
    \/ \E c \in Conns : OnNewConnection(c)
    \/ \E c \in Conns : ConnectionLost(c)
    \/ \E c \in Conns : OnClientDisconnected(c)
    \/ \E c \in Conns, u \in Users : HandleConnect(c, u)
    \/ \E R \in SUBSET Users \ {{}}, m \in Packets : EnqueueIfOfflineMany(R, m)
    \/ OnOfflineLoaded
    \/ \E c \in Conns : HandleMessageReceivedAck(c)
    \/ DbStep
    \/ \E c \in Conns : ClientReceive(c)
    \/ ServerCrash

Spec == Init /\ [][Next]_vars

(***************************************************************************)
(* Both event loops keep running, a connected client handles what reaches  *)
(* it, and a dead connection is noticed (by TCP, or by the heartbeat       *)
(* sweep). Nothing obliges users to connect or to send.                    *)
(***************************************************************************)
Fairness ==
    /\ WF_vars(OnOfflineLoaded)
    /\ WF_vars(DbStep)
    /\ \A c \in Conns : /\ WF_vars(HandleMessageReceivedAck(c))
                        /\ WF_vars(ClientReceive(c))
                        /\ WF_vars(OnClientDisconnected(c))

FairSpec == Spec /\ Fairness

-----------------------------------------------------------------------------
(***************************************************************************)
(* Properties                                                              *)
(***************************************************************************)

\* Every variable keeps its type: in particular the offline_queue ids in flight between
\* the threads name rows that were inserted.
TypeOK ==
    /\ SessionTypeOK
    /\ toClient \in [Conns -> Seq(Packets)]
    /\ toServer \in [Conns -> Seq(Messages)]
    /\ rows \in Seq(Row)
    /\ pendingAckIds \in [Users -> [Packets -> 0..Len(rows)]]
    /\ dbQueue \in Seq(DbRequest)
    /\ results \in Seq(LoadResult)
    /\ live \subseteq 1..Len(rows)
    /\ addressed \in [Packets -> SUBSET Users]
    /\ received \in [Users -> SUBSET Packets]
    /\ dupRemoved \subseteq 1..Len(rows)
    /\ crashes \in 0..MaxCrashes

RowIsMessage(i) == rows[i].msg \in Messages
RowReceived(i) == rows[i].msg \in received[rows[i].user]

\* A message row leaves offline_queue only if the recipient's own client has handled the
\* message, or by the duplicate rule of onOfflineLoaded: acknowledgements of other group
\* members, stale load results, reconnections and crashes never remove it.
LossOnlyByDuplicateRule ==
    \A i \in 1..Len(rows) :
        RowIsMessage(i) /\ i \notin live => RowReceived(i) \/ i \in dupRemoved

\* What the comment in onOfflineLoaded says: a deliverable message stays in the queue
\* until the client acknowledges it.
KeptUntilReceived ==
    \A i \in 1..Len(rows) : RowIsMessage(i) /\ i \notin live => RowReceived(i)

\* For a user the server takes to be online, every queued row is on its way: awaiting an
\* acknowledgement, or named by a request or a load result in flight. In particular no row
\* slips in between the login and the load it posts (HandleConnect, enqueueIfOffline).
NoStrandedRow ==
    \A u \in Users : Online(u) =>
        /\ \A k \in DOMAIN dbQueue :
              dbQueue[k].op = "queueOffline" => dbQueue[k].user # u
        /\ \A i \in live : rows[i].user = u =>
              \/ RowIsMessage(i) /\ pendingAckIds[u][rows[i].msg] = i
              \/ \E k \in DOMAIN dbQueue :
                    \/ dbQueue[k].op = "loadOffline" /\ dbQueue[k].user = u
                    \/ dbQueue[k].op = "markOfflineDelivered" /\ i \in dbQueue[k].ids
              \/ \E k \in DOMAIN results : results[k].user = u /\ i \in results[k].ids

\* Queued messages reach a user for the first time in the order they were queued, over
\* any number of interrupted deliveries and redeliveries.
FirstReceivedInOrder ==
    \A i, j \in 1..Len(rows) :
        /\ i < j /\ rows[i].user = rows[j].user
        /\ RowIsMessage(i) /\ RowIsMessage(j) /\ RowReceived(j)
        => RowReceived(i) \/ i \in dupRemoved

\* A client handles only packets addressed to the user it logged in as.
OnlyRecipientsReceive ==
    \A u \in Users : \A m \in received[u] : u \in addressed[m]

\* enqueueIfOffline's contract: a packet is queued only for a user who is not online.
QueuedOnlyWhenOffline ==
    [][\A u \in Users :
          (\E m \in Packets :
              /\ addressed[m] = {} /\ u \in addressed'[m]
              /\ [op |-> "queueOffline", user |-> u, msg |-> m] \in Range(dbQueue'))
          => ~\E c \in Conns : link[c] = "up" /\ sessUser[c] = u]_vars

\* A user whose registered connection works from some point on has every queued row
\* delivered and removed.
ConnectedUp(u) == userMap[u] # NoConn /\ link[userMap[u]] = "up"

QueueDrains ==
    \A u \in Users : <>[]ConnectedUp(u) => <>[](\A i \in live : rows[i].user # u)
=============================================================================
