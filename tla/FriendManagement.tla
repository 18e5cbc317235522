-------------------------- MODULE FriendManagement --------------------------
(***************************************************************************)
(* Friends, from one user's click to the other user's lists: FriendHandler *)
(* and FriendManagementService on the server's main thread, FriendRepository *)
(* on its database thread, the offline queue their notifications may take, *)
(* and FriendRequestUseCase in the clients, which mirrors the tables.      *)
(*                                                                         *)
(* A user has one connection at a time, and the server knows that it ended *)
(* before the user logs in again; OfflineDelivery has the other case. A    *)
(* packet from a client is handled when it is sent: the two of one client  *)
(* that matter for the lists keep their order.                             *)
(***************************************************************************)
EXTENDS Naturals, Sequences, FiniteSets, SequencesExt

CONSTANTS
    Users,          \* user ids
    NoUser,         \* a packet that names no user
    MaxOps,         \* bound on the friend_request, accept and reject packets
    MaxLogins,      \* bound on the logins of all users
    MaxFailures,    \* bound on failing database queries
    MaxCrashes      \* bound on server crashes

ASSUME FriendAssumption ==
    /\ IsFiniteSet(Users) /\ NoUser \notin Users
    /\ {MaxOps, MaxLogins, MaxFailures, MaxCrashes} \subseteq Nat

VARIABLES
    users,          \* users table
    requests,       \* friend_requests table; a row's request_id is its index
    friendships,    \* friendships table
    offlineRows,    \* offline_queue: the notices waiting for a user
    dbQueue,        \* requests posted to the database thread
    results,        \* results posted to the main thread
    conn,           \* the connection of a user
    logins,         \* number of logins of a user: names the session
    toClient,       \* packets on the wire to a user's client
    friendList,     \* m_friendList of the client
    requestList,    \* m_friendRequestList: the status shown, "none" if not listed
    localRequests,  \* friend_requests table of the client, "none" if absent
    contacts,       \* contacts table of the client; each row has the status friend
    ops,
    failures,
    crashes

serverTables == <<users, requests, friendships, offlineRows>>
queues == <<dbQueue, results>>
sessions == <<conn, logins>>
views == <<friendList, requestList, localRequests, contacts>>
counters == <<ops, failures, crashes>>
vars == <<serverTables, queues, sessions, toClient, views, counters>>

RequestIds == 1..MaxOps
Status == {"none", "pending", "accepted", "rejected"}

\* a notification waiting in offline_queue: of a request, or of a new friend
Notice == [kind : {"friendRequestNotify", "friendChanged"}, id : RequestIds,
           to : Users, friend : Users \cup {NoUser}]

\* down, up, or broken without the server knowing
ConnState == {"down", "up", "dead"}

FriendRow == [from : Users, to : Users, status : Status \ {"none"}]

DbRequest == [op : {"create", "accepted", "rejected", "friendList", "requestList",
                    "queueOffline", "loadOffline", "markOfflineDelivered"},
              by : Users, login : Nat, to : Users \cup {NoUser},
              id : 0..MaxOps, notices : SUBSET Notice]

Result == [req : DbRequest, ok : BOOLEAN, id : 0..MaxOps,
           friends : SUBSET Users, shown : [RequestIds -> Status]]

\* a packet for a client; the fields a kind has no use for are empty
ToClient == [kind : {"connectAck", "friendRequestAck", "friendDecisionAck", "friendListAck",
                     "friendRequestListAck", "friendRequestNotify", "friendChanged"},
             ok : BOOLEAN, id : 0..MaxOps, op : Status,
             friends : SUBSET Users, shown : [RequestIds -> Status]]

NoneShown == [r \in RequestIds |-> "none"]

Init ==
    /\ users = {}
    /\ requests = <<>>
    /\ friendships = {}
    /\ offlineRows = {}
    /\ dbQueue = <<>>
    /\ results = <<>>
    /\ conn = [u \in Users |-> "down"]
    /\ logins = [u \in Users |-> 0]
    /\ toClient = [u \in Users |-> <<>>]
    /\ friendList = [u \in Users |-> {}]
    /\ requestList = [u \in Users |-> NoneShown]
    /\ localRequests = [u \in Users |-> NoneShown]
    /\ contacts = [u \in Users |-> {}]
    /\ ops = 0
    /\ failures = 0
    /\ crashes = 0

-----------------------------------------------------------------------------
(***************************************************************************)
(* Packets and postings                                                    *)
(***************************************************************************)

Online(u) == conn[u] # "down"

Blank(kind) == [kind |-> kind, ok |-> TRUE, id |-> 0, op |-> "none",
                friends |-> {}, shown |-> NoneShown]

NoticePacket(n) ==
    IF n.kind = "friendRequestNotify"
    THEN [Blank("friendRequestNotify") EXCEPT !.id = n.id]
    ELSE [Blank("friendChanged") EXCEPT !.id = n.id, !.friends = {n.friend}]

NoticePackets(s) == [i \in DOMAIN s |-> NoticePacket(s[i])]

DbReq(op, by, to, id, notices) ==
    [op |-> op, by |-> by, login |-> logins[by], to |-> to, id |-> id, notices |-> notices]

Post(reqs) == dbQueue' = dbQueue \o reqs

\* the acknowledgement to the session that asked, if it is still there; a client does
\* nothing about the refusal of a request or decision but say so, and it is left out
ToSession(req, packet) ==
    [u \in Users |-> IF /\ u = req.by /\ req.login = logins[u]
                        /\ packet.ok \/ req.op \in {"friendList", "requestList"}
                     THEN <<packet>> ELSE <<>>]

\* what the main thread writes to a socket arrives only if the socket works
Written(u, packets) == IF conn[u] = "up" THEN toClient[u] \o packets ELSE toClient[u]

(***************************************************************************)
(* Acknowledge, then enqueueIfOffline each notice of N, at most one per    *)
(* user: to the user's session, or as a row of offline_queue.              *)
(***************************************************************************)
AckAndNotify(req, packet, N) ==
    /\ toClient' = [u \in Users |->
          Written(u, ToSession(req, packet)[u]
                     \o NoticePackets(SetToSeq({n \in N : n.to = u})))]
    /\ LET away == {n \in N : ~Online(n.to)}
       IN  \E s \in SetToSeqs(away) :
              Post([i \in DOMAIN s |-> DbReq("queueOffline", s[i].to, NoUser, 0, {s[i]})])

-----------------------------------------------------------------------------
(***************************************************************************)
(* Connections                                                             *)
(***************************************************************************)

\* AuthHandler::handleConnect of an accepted login: the database thread has run all
\* requests posted before when ensureUserAndGetNickname returns
Login(u) ==
    /\ conn[u] = "down" /\ FoldFunction(+, 0, logins) < MaxLogins
    /\ dbQueue = <<>>
    /\ users' = users \cup {u}
    /\ conn' = [conn EXCEPT ![u] = "up"]
    /\ logins' = [logins EXCEPT ![u] = @ + 1]
    /\ toClient' = [toClient EXCEPT ![u] = <<Blank("connectAck")>>]
    /\ dbQueue' = <<[DbReq("loadOffline", u, NoUser, 0, {}) EXCEPT !.login = logins'[u]]>>
    /\ UNCHANGED <<requests, friendships, offlineRows, results, views, counters>>

ConnectionLost(u) ==
    /\ conn[u] = "up"
    /\ conn' = [conn EXCEPT ![u] = "dead"]
    /\ toClient' = [toClient EXCEPT ![u] = <<>>]
    /\ UNCHANGED <<serverTables, queues, logins, views, counters>>

\* ServerApp::onClientDisconnected
OnClientDisconnected(u) ==
    /\ conn[u] = "dead"
    /\ conn' = [conn EXCEPT ![u] = "down"]
    /\ UNCHANGED <<serverTables, queues, logins, toClient, views, counters>>

ServerCrash ==
    /\ crashes < MaxCrashes
    /\ crashes' = crashes + 1
    /\ conn' = [u \in Users |-> "down"]
    /\ toClient' = [u \in Users |-> <<>>]
    /\ dbQueue' = <<>> /\ results' = <<>>
    /\ UNCHANGED <<serverTables, logins, views, ops, failures>>

-----------------------------------------------------------------------------
(***************************************************************************)
(* Requests of the clients: FriendHandler, FriendManagementService         *)
(***************************************************************************)

Operation(u, op, to, id) ==
    /\ conn[u] = "up" /\ ops < MaxOps
    /\ ops' = ops + 1
    /\ Post(<<DbReq(op, u, to, id, {})>>)
    /\ UNCHANGED <<serverTables, results, sessions, toClient, views, failures, crashes>>

\* handleFriendRequest, createFriendRequest
HandleFriendRequest(u, v) == Operation(u, "create", v, 0)

\* handleFriendAccept, handleFriendReject: the server checks who decides about what
HandleFriendDecision(u, r, status) ==
    /\ r <= Len(requests)
    /\ Operation(u, status, NoUser, r)

-----------------------------------------------------------------------------
(***************************************************************************)
(* FriendRepository and OfflineQueueRepository, on the database thread     *)
(***************************************************************************)

Reply(req, ok, id, friends, shown) ==
    results' = Append(results, [req |-> req, ok |-> ok, id |-> id,
                                friends |-> friends, shown |-> shown])

\* Fault: only a request of the same direction counts as pending
MayCreateOneWay(req) ==
    /\ req.by # req.to /\ req.to \in users
    /\ {req.by, req.to} \notin friendships
    /\ ~\E r \in DOMAIN requests :
          requests[r] = [from |-> req.by, to |-> req.to, status |-> "pending"]

MayCreate(req) ==
    /\ req.by # req.to /\ req.to \in users
    /\ {req.by, req.to} \notin friendships
    /\ ~\E r \in DOMAIN requests :
          /\ {requests[r].from, requests[r].to} = {req.by, req.to}
          /\ requests[r].status = "pending"

\* Fault: the request_id in the result is off by one
CreateFriendRequestNextId(req) ==
    /\ req.op = "create" /\ MayCreate(req)
    /\ requests' = Append(requests, [from |-> req.by, to |-> req.to, status |-> "pending"])
    /\ Reply(req, TRUE, Len(requests) + 2, {}, NoneShown)
    /\ UNCHANGED <<friendships, offlineRows>>

\* the INSERT; request ids are UUIDs in the code
CreateFriendRequest(req) ==
    /\ req.op = "create" /\ MayCreate(req)
    /\ requests' = Append(requests, [from |-> req.by, to |-> req.to, status |-> "pending"])
    /\ Reply(req, TRUE, Len(requests) + 1, {}, NoneShown)
    /\ UNCHANGED <<friendships, offlineRows>>

\* only the recipient decides, and only once
MayDecide(req) ==
    /\ requests[req.id].to = req.by
    /\ requests[req.id].status = "pending"

\* accepting is one transaction
DecideFriendRequest(req) ==
    /\ req.op \in {"accepted", "rejected"} /\ MayDecide(req)
    /\ requests' = [requests EXCEPT ![req.id].status = req.op]
    /\ friendships' = IF req.op = "accepted"
                      THEN friendships \cup {{requests[req.id].from, requests[req.id].to}}
                      ELSE friendships
    /\ Reply(req, TRUE, req.id, {}, NoneShown)
    /\ UNCHANGED offlineRows

\* refused by a business rule
Refused(req) ==
    /\ \/ req.op = "create" /\ ~MayCreate(req)
       \/ req.op \in {"accepted", "rejected"} /\ ~MayDecide(req)
    /\ Reply(req, FALSE, req.id, {}, NoneShown)
    /\ UNCHANGED <<requests, friendships, offlineRows>>

FriendsOf(u) == {v \in Users : {u, v} \in friendships}

LoadFriendList(req) ==
    /\ req.op = "friendList"
    /\ Reply(req, TRUE, 0, FriendsOf(req.by), NoneShown)
    /\ UNCHANGED <<requests, friendships, offlineRows>>

Involves(r, u) == r \in DOMAIN requests /\ u \in {requests[r].from, requests[r].to}

LoadFriendRequestList(req) ==
    /\ req.op = "requestList"
    /\ Reply(req, TRUE, 0, {}, [r \in RequestIds |->
          IF Involves(r, req.by) THEN requests[r].status ELSE "none"])
    /\ UNCHANGED <<requests, friendships, offlineRows>>

\* the offline queue, as OfflineDelivery has it; its rows are notices here
OfflineQueueStep(req) ==
    /\ \/ /\ req.op = "queueOffline"
          /\ offlineRows' = offlineRows \cup req.notices
          /\ UNCHANGED results
       \/ /\ req.op = "loadOffline"
          /\ results' = Append(results,
                [req |-> [req EXCEPT !.notices = {n \in offlineRows : n.to = req.by}],
                 ok |-> TRUE, id |-> 0, friends |-> {}, shown |-> NoneShown])
          /\ UNCHANGED offlineRows
       \/ /\ req.op = "markOfflineDelivered"
          /\ offlineRows' = offlineRows \ req.notices
          /\ UNCHANGED results
    /\ UNCHANGED <<requests, friendships>>

DbStep ==
    /\ dbQueue # <<>>
    /\ LET req == Head(dbQueue)
       IN  \/ CreateFriendRequest(req)
           \/ DecideFriendRequest(req)
           \/ Refused(req)
           \/ LoadFriendList(req)
           \/ LoadFriendRequestList(req)
           \/ OfflineQueueStep(req)
    /\ dbQueue' = Tail(dbQueue)
    /\ UNCHANGED <<users, sessions, toClient, views, counters>>

\* a statement for the friends' tables fails; a transaction is rolled back
DbFails ==
    /\ dbQueue # <<>> /\ failures < MaxFailures
    /\ Head(dbQueue).op \in {"create", "accepted", "rejected", "friendList", "requestList"}
    /\ failures' = failures + 1
    /\ Reply(Head(dbQueue), FALSE, Head(dbQueue).id, {}, NoneShown)
    /\ dbQueue' = Tail(dbQueue)
    /\ UNCHANGED <<serverTables, sessions, toClient, views, ops, crashes>>

-----------------------------------------------------------------------------
(***************************************************************************)
(* Results, on the main thread                                             *)
(***************************************************************************)

RequestNotice(r) ==
    [kind |-> "friendRequestNotify", id |-> r, to |-> requests[r].to, friend |-> NoUser]

FriendNotice(r, u, v) == [kind |-> "friendChanged", id |-> r, to |-> u, friend |-> v]

\* onFriendRequestCreated
OnFriendRequestCreated(res) ==
    /\ res.req.op = "create"
    /\ AckAndNotify(res.req,
                    [Blank("friendRequestAck") EXCEPT !.ok = res.ok, !.id = res.id],
                    IF res.ok THEN {RequestNotice(res.id)} ELSE {})

\* both users are told that they are friends; a rejection is not announced
NewFriends(res) ==
    LET r == requests[res.id]
    IN  IF res.ok /\ res.req.op = "accepted"
        THEN {FriendNotice(res.id, r.from, r.to), FriendNotice(res.id, r.to, r.from)}
        ELSE {}

\* onFriendDecisionCompleted
OnFriendDecisionCompleted(res) ==
    /\ res.req.op \in {"accepted", "rejected"}
    /\ AckAndNotify(res.req,
                    [Blank("friendDecisionAck") EXCEPT
                        !.ok = res.ok, !.id = res.id, !.op = res.req.op],
                    NewFriends(res))

\* onFriendListLoaded, onFriendRequestListLoaded; a failed query has empty lists
OnListLoaded(res) ==
    /\ res.req.op \in {"friendList", "requestList"}
    /\ AckAndNotify(res.req,
                    [Blank(IF res.req.op = "friendList" THEN "friendListAck"
                           ELSE "friendRequestListAck") EXCEPT
                        !.ok = res.ok, !.friends = res.friends, !.shown = res.shown],
                    {})

\* OfflineManager::onOfflineLoaded: notices are routed and their rows removed
OnOfflineLoaded(res) ==
    /\ res.req.op = "loadOffline"
    /\ IF Online(res.req.by) /\ res.req.notices # {}
       THEN /\ \E s \in SetToSeqs(res.req.notices) :
                  toClient' = [toClient EXCEPT ![res.req.by] =
                                  Written(res.req.by, NoticePackets(s))]
            /\ Post(<<DbReq("markOfflineDelivered", res.req.by, NoUser, 0, res.req.notices)>>)
       ELSE UNCHANGED <<toClient, dbQueue>>

OnResult ==
    /\ results # <<>>
    /\ LET res == Head(results)
       IN  \/ OnFriendRequestCreated(res)
           \/ OnFriendDecisionCompleted(res)
           \/ OnListLoaded(res)
           \/ OnOfflineLoaded(res)
    /\ results' = Tail(results)
    /\ UNCHANGED <<serverTables, sessions, views, counters>>

-----------------------------------------------------------------------------
(***************************************************************************)
(* The client: NetworkService hands packets to FriendRequestUseCase        *)
(***************************************************************************)

\* FriendRepository::save of a contact that was not found; an existing one stays a friend
SaveContacts(u, S) == contacts' = [contacts EXCEPT ![u] = @ \cup S]

\* FriendRepository::save of requests: the upsert overwrites their status
SaveRequests(u, S, status) ==
    localRequests' = [localRequests EXCEPT ![u] =
        [r \in RequestIds |-> IF r \in S THEN status ELSE @[r]]]

\* Fault: after authentication only the requests are loaded
RefreshRequestsOnly(u, p) ==
    /\ p.kind = "connectAck"
    /\ Post(<<DbReq("requestList", u, NoUser, 0, {})>>)
    /\ UNCHANGED views

\* refreshAfterAuthentication
RefreshAfterAuthentication(u, p) ==
    /\ p.kind = "connectAck"
    /\ Post(<<DbReq("friendList", u, NoUser, 0, {}), DbReq("requestList", u, NoUser, 0, {})>>)
    /\ UNCHANGED views

\* the code of a friend_list_ack is not looked at
OnFriendListAck(u, p) ==
    /\ p.kind = "friendListAck"
    /\ friendList' = [friendList EXCEPT ![u] = p.friends]
    /\ SaveContacts(u, p.friends)
    /\ UNCHANGED <<dbQueue, requestList, localRequests>>

\* every request of the list is saved as a new one: its status in the client's table
\* becomes pending
OnFriendRequestListAck(u, p) ==
    /\ p.kind = "friendRequestListAck"
    /\ requestList' = [requestList EXCEPT ![u] = p.shown]
    /\ SaveRequests(u, {r \in RequestIds : p.shown[r] # "none"}, "pending")
    /\ UNCHANGED <<dbQueue, friendList, contacts>>

\* the request is stored unless a row of it is found
OnFriendRequestAck(u, p) ==
    /\ p.kind = "friendRequestAck"
    /\ SaveRequests(u, {r \in {p.id} : localRequests[u][r] = "none"}, "pending")
    /\ UNCHANGED <<dbQueue, friendList, requestList, contacts>>

\* FriendRequest::accept and reject leave a request alone that is not pending; the
\* acknowledgement of a decision reaches only the recipient who made it
OnFriendDecisionAck(u, p) ==
    /\ p.kind = "friendDecisionAck"
    /\ requestList' = [requestList EXCEPT ![u][p.id] = "none"]
    /\ SaveRequests(u, {r \in {p.id} : localRequests[u][r] = "pending"}, p.op)
    /\ UNCHANGED <<dbQueue, friendList, contacts>>

\* a request that is listed already is left alone
OnFriendRequestNotified(u, p) ==
    /\ p.kind = "friendRequestNotify"
    /\ IF requestList[u][p.id] = "none"
       THEN /\ requestList' = [requestList EXCEPT ![u][p.id] = "pending"]
            /\ SaveRequests(u, {p.id}, "pending")
       ELSE UNCHANGED <<requestList, localRequests>>
    /\ UNCHANGED <<dbQueue, friendList, contacts>>

\* the private session of a new friend is Inbox's
OnFriendChanged(u, p) ==
    /\ p.kind = "friendChanged"
    /\ friendList' = [friendList EXCEPT ![u] = @ \cup p.friends]
    /\ SaveContacts(u, p.friends)
    /\ UNCHANGED <<dbQueue, requestList, localRequests>>

HandleIncomingPacket(u) ==
    /\ conn[u] = "up" /\ toClient[u] # <<>>
    /\ LET p == Head(toClient[u])
       IN  \/ RefreshAfterAuthentication(u, p)
           \/ OnFriendListAck(u, p)
           \/ OnFriendRequestListAck(u, p)
           \/ OnFriendRequestAck(u, p)
           \/ OnFriendDecisionAck(u, p)
           \/ OnFriendRequestNotified(u, p)
           \/ OnFriendChanged(u, p)
    /\ toClient' = [toClient EXCEPT ![u] = Tail(@)]
    /\ UNCHANGED <<serverTables, results, sessions, counters>>

-----------------------------------------------------------------------------

Next ==
    \/ \E u \in Users : Login(u)
    \/ \E u \in Users : ConnectionLost(u)
    \/ \E u \in Users : OnClientDisconnected(u)
    \/ ServerCrash
    \/ \E u, v \in Users : HandleFriendRequest(u, v)
    \/ \E u \in Users, r \in RequestIds, s \in {"accepted", "rejected"} :
          HandleFriendDecision(u, r, s)
    \/ DbStep
    \/ DbFails
    \/ OnResult
    \/ \E u \in Users : HandleIncomingPacket(u)

Spec == Init /\ [][Next]_vars

-----------------------------------------------------------------------------
(***************************************************************************)
(* Properties                                                              *)
(***************************************************************************)

\* Every variable keeps its type, and a result names a request that exists.
TypeOK ==
    /\ users \subseteq Users
    /\ requests \in Seq(FriendRow)
    /\ friendships \subseteq {{u, v} : u, v \in Users}
    /\ offlineRows \subseteq Notice
    /\ dbQueue \in Seq(DbRequest)
    /\ results \in Seq(Result)
    /\ \A i \in DOMAIN results : results[i].id <= Len(requests)
    /\ conn \in [Users -> ConnState]
    /\ logins \in [Users -> Nat]
    /\ toClient \in [Users -> Seq(ToClient)]
    /\ friendList \in [Users -> SUBSET Users]
    /\ requestList \in [Users -> [RequestIds -> Status]]
    /\ localRequests \in [Users -> [RequestIds -> Status]]
    /\ contacts \in [Users -> SUBSET Users]
    /\ ops \in 0..MaxOps /\ failures \in 0..MaxFailures /\ crashes \in 0..MaxCrashes

\* What the client of u shows and stores is what the server's tables say: its friends,
\* and the requests that wait for its decision.
ShowsTables(u) ==
    /\ friendList[u] = FriendsOf(u) /\ contacts[u] = FriendsOf(u)
    /\ \A r \in DOMAIN requests : requests[r].to = u =>
          (requestList[u][r] = "pending" <=> requests[r].status = "pending")

Quiet(u) ==
    /\ conn[u] = "up" /\ toClient[u] = <<>>
    /\ dbQueue = <<>> /\ results = <<>>

\* Whenever nothing is under way to a connected client, it shows what the tables say:
\* lists, acknowledgements, live notices and queued ones, repeated or lost over
\* reconnections and crashes, arrive in an order in which the last word is right. A query
\* that failed may have emptied a list, but what is stored of the friends stays true.
QuietViewsAgree ==
    \A u \in Users :
        /\ Quiet(u) /\ failures = 0 => ShowsTables(u)
        /\ friendList[u] \subseteq contacts[u] /\ contacts[u] \subseteq FriendsOf(u)

\* the requests of the table that wait for a decision
Pending ==
    {<<requests[r].from, requests[r].to>> :
        r \in {q \in DOMAIN requests : requests[q].status = "pending"}}

Rules == INSTANCE Friendship WITH friends <- friendships, asked <- Pending

\* The tables, behind two threads and any crash, follow the rules of Friendship: one
\* pending request per pair in either direction, decided once and by its recipient.
\* This is Rules!Spec: a step that leaves the two tables alone is a stutter of it.
FollowsTheRules ==
    /\ Rules!Init
    /\ [][UNCHANGED <<requests, friendships>> \/ Rules!Next]_vars

\* FriendRequest in shared/domain: a request that is handled never becomes pending again,
\* in the client's table.
HandledStaysHandled ==
    [][\A u \in Users, r \in RequestIds :
          localRequests[u][r] \in {"accepted", "rejected"}
              => localRequests'[u][r] = localRequests[u][r]]_vars
=============================================================================
