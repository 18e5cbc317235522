----------------------------- MODULE SessionSync -----------------------------
(***************************************************************************)
(* How the client of one user, Self, keeps its groups and group sessions   *)
(* in step with the server: SessionSyncUseCase, GroupManagementUseCase,    *)
(* ReceiveMessageUseCase and SwitchSessionUseCase on the client's only     *)
(* thread, composed with GroupManagement and the group list query on the   *)
(* server. The other users take part as authors of requests; the clients   *)
(* do not interact but through the server.                                 *)
(*                                                                         *)
(* Group notifications and messages reach Self at once or, when the server *)
(* takes Self for offline, through the offline queue. That protocol is     *)
(* OfflineDelivery's; here a packet of the queue is delivered at a login,  *)
(* and may be again. As there, a closed connection that is detached late   *)
(* makes the server take a connected user for offline.                     *)
(***************************************************************************)
EXTENDS GroupManagement, SequencesExt

CONSTANTS
    Self,           \* the user whose client is modelled
    NoUser,         \* the creator of a group the client knows only by its messages
    MaxLogins       \* bound on the logins of Self

ASSUME SyncAssumption ==
    /\ Self \in Users /\ NoUser \notin Users
    /\ MaxLogins \in Nat

VARIABLES
    connected,      \* the client's connection is up
    session,        \* number of Self's logins: names the ClientSession of the last one
    undetached,     \* closed connections of Self the server has not detached yet
    routed,         \* SessionManager::m_userMap has a connection of Self
    toServer,       \* a group_list request is on the wire
    toClient,       \* packets on the wire to the client
    asked,          \* requests of Self asked over this connection and not answered
    offlineRows,    \* packets for Self in offline_queue
    localGroups,    \* the client's tables groups and group_members
    localSessions,  \* group sessions in the client's table sessions
    shown,          \* group sessions in the session list
    current,        \* SwitchSessionUseCase::m_currentSessionId, if a group
    opening,        \* a new group that a 0 ms timer will open
    inProgress,     \* m_groupSyncInProgress
    recovery        \* m_pendingRecoveryAfterGroupSync

wire == <<connected, session, undetached, routed, toServer, toClient, asked, offlineRows>>
localTables == <<localGroups, localSessions>>
flags == <<inProgress, recovery>>
client == <<localTables, shown, current, opening, flags>>
syncVars == <<vars, wire, client>>

\* groups and their rows, as far as they are known
Listing(rows) == UNION {[D -> rows] : D \in SUBSET Groups}
LocalRow == [creator : Users \cup {NoUser}, members : SUBSET Users]

NoGroups == [g \in {} |-> {}]

\* what the tables say of the groups of Self
GroupsOfSelf ==
    [g \in {h \in DOMAIN groups : Self \in groups[h].members} |-> groups[g]]

Pushed == [kind : {"memberChanged", "message"}, group : Groups]
ClientPacket ==
    Pushed
    \cup [kind : {"connectAck"}]
    \cup [kind : {"groupListAck"}, ok : BOOLEAN, list : Listing(GroupRow)]
    \cup [kind : {"opAck"}, op : {"create", "add", "remove", "leave"}, ok : BOOLEAN,
          group : Groups \cup {NoGroup}, who : SUBSET Users]

\* The client starts on the tables an earlier run left: empty, up to date, or from a time
\* when only Self and the creator were in the groups
SyncInit ==
    /\ Init
    /\ connected = FALSE /\ session = 0 /\ undetached = 0 /\ routed = FALSE
    /\ toServer = FALSE /\ toClient = <<>>
    /\ asked = {} /\ offlineRows = {}
    /\ localGroups \in
          {NoGroups, GroupsOfSelf,
           [g \in DOMAIN groups |-> [groups[g] EXCEPT !.members = {groups[g].creator, Self}]]}
    /\ localSessions = DOMAIN localGroups
    /\ shown = {} /\ current = NoGroup /\ opening = NoGroup
    /\ inProgress = FALSE /\ recovery = FALSE

-----------------------------------------------------------------------------
(***************************************************************************)
(* Server: requests, and the group list query                              *)
(***************************************************************************)

\* a client acts on the groups it shows, but its 0 ms timer for a new group fires before a
\* request to leave that group is through
Requests(by) ==
    \/ \E invited \in SUBSET Users : HandleCreateGroup(by, invited)
    \/ \E g \in IF by = Self THEN shown \ {opening} ELSE Groups :
          \/ \E u \in Users : HandleAddMember(g, by, u) \/ HandleRemoveMember(g, by, u)
          \/ HandleLeaveGroup(g, by)
          \/ HandleGroupMessage(g, by)

\* Self's requests come over its connection, and are remembered with it
HandleClientRequest(by) ==
    /\ by = Self => connected
    /\ Requests(by)
    /\ asked' = IF by = Self THEN asked \cup (pendingRequests' \ pendingRequests) ELSE asked
    /\ UNCHANGED <<connected, session, undetached, routed, toServer, toClient, offlineRows,
                   client>>

\* GroupHandler::handleGroupList, loadGroupList; the query is named by its session
HandleGroupList ==
    /\ connected /\ toServer
    /\ toServer' = FALSE
    /\ Post("list", session, NoGroup, Self, {})
    /\ UNCHANGED <<tables, results, pending, nextId, history, connected, session, undetached,
                   routed, toClient, asked, offlineRows, client>>

\* GroupRepository::loadGroupList
LoadGroupList(req) ==
    /\ req.op = "list"
    /\ results' = Append(results, [req |-> req, ok |-> TRUE, list |-> GroupsOfSelf])

\* OfflineQueueRepository::loadOffline
LoadOffline(req) ==
    /\ req.op = "loadOffline"
    /\ results' = Append(results, [req |-> req, ok |-> TRUE, rows |-> offlineRows])

QueryStep ==
    /\ dbQueue # <<>>
    /\ LoadGroupList(Head(dbQueue)) \/ LoadOffline(Head(dbQueue))
    /\ dbQueue' = Tail(dbQueue)
    /\ UNCHANGED <<tables, pending, nextId, history, wire, client>>

ServerDbStep ==
    /\ DbStep \/ DbFails
    /\ UNCHANGED <<wire, client>>

-----------------------------------------------------------------------------
(***************************************************************************)
(* Server: results                                                         *)
(***************************************************************************)

\* what is written to a closed connection is lost
Written(packets) == IF connected THEN toClient \o packets ELSE toClient

\* ClientSession::sendPacket to the session that asked, if it is still the one
Answer(alive, p) == toClient' = IF alive THEN Written(<<p>>) ELSE toClient

(***************************************************************************)
(* enqueueIfOffline for Self. The row is inserted by the database thread,  *)
(* before the next login is: HandleConnect waits for it.                   *)
(***************************************************************************)
Push(told, p) ==
    /\ toClient' = IF told /\ routed THEN Written(<<p>>) ELSE toClient
    /\ offlineRows' = IF told /\ ~routed THEN offlineRows \cup {p} ELSE offlineRows

\* onGroupCreated, onMemberOpCompleted, with the handler's acknowledgement
AnswerOp ==
    /\ OnCompleted
    /\ LET res == Head(results)
       IN  /\ Answer(res.req.id \in asked,
                     [kind |-> "opAck", op |-> res.req.op, ok |-> res.ok,
                      group |-> res.group, who |-> res.req.who])
           /\ asked' = asked \ {res.req.id}
    /\ UNCHANGED <<connected, session, undetached, routed, toServer, offlineRows, client>>

PushNotification ==
    /\ OnGroupMembersForNotify
    /\ LET res == Head(results)
       IN  Push(res.ok /\ Self \in Recipients(res),
                [kind |-> "memberChanged", group |-> res.group])
    /\ UNCHANGED <<connected, session, undetached, routed, toServer, asked, client>>

PushMessage ==
    /\ OnGroupMembersForMessage
    /\ LET res == Head(results)
       IN  Push(res.ok /\ res.req.by \in res.members /\ Self \in res.members \ {res.req.by},
                [kind |-> "message", group |-> res.group])
    /\ UNCHANGED <<connected, session, undetached, routed, toServer, asked, client>>

\* onGroupListLoaded, of the service and of the handler
OnGroupListLoaded ==
    /\ results # <<>> /\ Head(results).req.op = "list"
    /\ LET res == Head(results)
       IN  Answer(res.req.id = session,
                  [kind |-> "groupListAck", ok |-> res.ok,
                   list |-> IF res.ok THEN res.list ELSE NoGroups])
    /\ results' = Tail(results)
    /\ UNCHANGED <<tables, dbQueue, pending, nextId, history, connected, session, undetached,
                   routed, toServer, asked, offlineRows, client>>

\* onOfflineLoaded. Delivered rows are deleted, messages once they are acknowledged: in
\* time for the next login, or not.
OnOfflineLoaded ==
    /\ results # <<>> /\ Head(results).req.op = "loadOffline"
    /\ LET res == Head(results)
           rows == IF res.ok THEN res.rows ELSE {}
       IN  IF ~routed
           THEN UNCHANGED <<toClient, offlineRows>>
           ELSE /\ \E s \in SetToSeqs(rows) : toClient' = Written(s)
                /\ \E deleted \in SUBSET rows : offlineRows' = offlineRows \ deleted
    /\ results' = Tail(results)
    /\ UNCHANGED <<tables, dbQueue, pending, nextId, history, connected, session, undetached,
                   routed, toServer, asked, client>>

-----------------------------------------------------------------------------
(***************************************************************************)
(* Connections                                                             *)
(***************************************************************************)

\* AuthHandler::handleConnect: ensureUserAndGetNickname runs behind the requests posted
\* before, and the offline rows are asked for
Login ==
    /\ ~connected /\ session < MaxLogins /\ dbQueue = <<>>
    /\ connected' = TRUE /\ routed' = TRUE /\ session' = session + 1
    /\ users' = users \cup {Self}
    /\ Post("loadOffline", session', NoGroup, Self, {})
    /\ toClient' = <<[kind |-> "connectAck"]>>
    /\ UNCHANGED <<groups, results, pending, nextId, history, undetached, toServer, asked,
                   offlineRows, client>>

\* resetRuntimeState, as on a connectionStateChanged to another state than Ready
ResetRuntimeState == inProgress' = FALSE /\ recovery' = FALSE

\* What is on the wire is lost, and the answers to what was asked over it will be
ConnectionEnds ==
    /\ connected' = FALSE /\ toClient' = <<>> /\ toServer' = FALSE /\ asked' = {}
    /\ ResetRuntimeState

ConnectionLost ==
    /\ connected
    /\ ConnectionEnds
    /\ undetached' = undetached + 1
    /\ UNCHANGED <<vars, session, routed, offlineRows, localTables, shown, current, opening>>

\* The user logs out, or the client is started again and forgets its timers: its tables
\* stay
LogoutOrRestart ==
    /\ ConnectionEnds
    /\ undetached' = IF connected THEN undetached + 1 ELSE undetached
    /\ shown' = {} /\ current' = NoGroup
    /\ opening' \in {opening, NoGroup}
    /\ UNCHANGED <<vars, session, routed, offlineRows, localTables>>

\* detach: m_userMap loses Self, whichever connection its entry names
OnClientDisconnected ==
    /\ undetached > 0
    /\ undetached' = undetached - 1 /\ routed' = FALSE
    /\ UNCHANGED <<vars, connected, session, toServer, toClient, asked, offlineRows, client>>

ServerStops ==
    /\ ServerCrash
    /\ ConnectionEnds
    /\ undetached' = 0 /\ routed' = FALSE
    /\ UNCHANGED <<session, offlineRows, localTables, shown, current, opening>>

-----------------------------------------------------------------------------
(***************************************************************************)
(* The client                                                              *)
(***************************************************************************)

\* syncGroupSessions: not while a list is being waited for
SyncGroupSessions ==
    /\ inProgress' = TRUE
    /\ toServer' = (toServer \/ ~inProgress)

\* loadSessions: every stored group gets a session, and the list shows them all
LoadSessions(stored, sessions) ==
    /\ localSessions' = sessions \cup DOMAIN stored
    /\ shown' = sessions \cup DOMAIN stored

\* initializeAfterAuthentication
OnAuthenticated(p) ==
    /\ p.kind = "connectAck"
    /\ inProgress' = TRUE /\ toServer' = TRUE /\ recovery' = TRUE
    /\ LoadSessions(localGroups, localSessions)
    /\ UNCHANGED <<localGroups, current, opening>>

\* Fault: a session that is gone stays open
KeepOpen(gone) == UNCHANGED current

\* clearCurrentSession, if the session is gone
CloseIf(gone) == current' = IF current \in gone THEN NoGroup ELSE current

(***************************************************************************)
(* groupListLoaded, groupListLoadFailed. applyGroupList replaces what is   *)
(* stored of the groups listed, and removes the stored groups that are not *)
(* listed with their sessions; then the session list is loaded again.      *)
(***************************************************************************)
OnGroupListAck(p) ==
    /\ p.kind = "groupListAck"
    /\ inProgress' = FALSE /\ recovery' = FALSE
    /\ LET stale == IF p.ok THEN DOMAIN localGroups \ DOMAIN p.list ELSE {}
           kept == IF p.ok THEN p.list ELSE localGroups
       IN  /\ localGroups' = kept
           /\ LoadSessions(kept, localSessions \ stale)
           /\ CloseIf(stale)
    /\ UNCHANGED <<toServer, opening>>

\* Fault: the code of the acknowledgement is not looked at
SucceededAlways(p) == TRUE

Succeeded(p) == p.ok

\* createGroupResult: the group is stored and shown, and opened by a 0 ms timer
OnCreateGroupAck(p) ==
    /\ p.kind = "opAck" /\ p.op = "create" /\ Succeeded(p)
    /\ LET row == IF p.group \in DOMAIN localGroups THEN localGroups[p.group]
                  ELSE [creator |-> Self, members |-> {}]
       IN  localGroups' = [g \in DOMAIN localGroups \cup {p.group} |->
                              IF g = p.group THEN [row EXCEPT !.members = {Self} \cup p.who]
                              ELSE localGroups[g]]
    /\ SyncGroupSessions
    /\ LoadSessions(localGroups', localSessions \cup {p.group})
    /\ opening' = p.group
    /\ UNCHANGED <<current, recovery>>

\* Group::addMember, and Group::removeMember, which does not remove the creator
MembersAfter(p, row) ==
    IF p.op # "add" THEN row.members \ (p.who \ {row.creator})
    ELSE IF Cardinality(row.members) < MaxMembers THEN row.members \cup p.who
    ELSE row.members

\* memberOpResult: what is stored of the group follows, if it is stored
OnMemberOpAck(p) ==
    /\ p.kind = "opAck" /\ p.op # "create" /\ Succeeded(p)
    /\ localGroups' = [g \in DOMAIN localGroups |->
                          IF g = p.group
                          THEN [localGroups[g] EXCEPT !.members = MembersAfter(p, localGroups[g])]
                          ELSE localGroups[g]]
    /\ SyncGroupSessions
    /\ UNCHANGED <<localSessions, shown, current, opening, recovery>>

OnRefused(p) ==
    /\ p.kind = "opAck" /\ ~p.ok
    /\ UNCHANGED <<toServer, client>>

\* Fault: the list is asked for again only for a group that is stored
OnGroupMemberChangedOfStored(p) ==
    /\ p.kind = "memberChanged"
    /\ IF p.group \in DOMAIN localGroups THEN SyncGroupSessions
       ELSE UNCHANGED <<inProgress, toServer>>
    /\ UNCHANGED <<localTables, shown, current, opening, recovery>>

\* groupMemberChanged
OnGroupMemberChanged(p) ==
    /\ p.kind = "memberChanged"
    /\ SyncGroupSessions
    /\ UNCHANGED <<localTables, shown, current, opening, recovery>>

\* onIncomingMessage: a group that is not stored is, without members
OnIncomingMessage(p) ==
    /\ p.kind = "message"
    /\ localGroups' = [g \in DOMAIN localGroups \cup {p.group} |->
                          IF g \in DOMAIN localGroups THEN localGroups[g]
                          ELSE [creator |-> NoUser, members |-> {}]]
    /\ localSessions' = localSessions \cup {p.group}
    /\ shown' = shown \cup {p.group}
    /\ UNCHANGED <<toServer, current, opening, flags>>

HandleIncomingPacket ==
    /\ connected /\ toClient # <<>>
    /\ LET p == Head(toClient)
       IN  \/ OnAuthenticated(p)
           \/ OnGroupListAck(p)
           \/ OnCreateGroupAck(p)
           \/ OnMemberOpAck(p)
           \/ OnRefused(p)
           \/ OnGroupMemberChanged(p)
           \/ OnIncomingMessage(p)
    /\ toClient' = Tail(toClient)
    /\ UNCHANGED <<vars, connected, session, undetached, routed, asked, offlineRows>>

\* switchToSession
SwitchToSession(g) ==
    /\ g \in shown /\ current # g
    /\ current' = g
    /\ UNCHANGED <<vars, wire, localTables, shown, opening, flags>>

\* deleteSession, then loadSessions: a stored group gets its session back
DeleteSession(g) ==
    /\ g \in shown
    /\ LoadSessions(localGroups, localSessions \ {g})
    /\ CloseIf({g})
    /\ UNCHANGED <<vars, wire, localGroups, opening, flags>>

\* The timer of a new group fires: packets may have been handled and the user may have
\* logged out since
OpenNewGroup ==
    /\ opening # NoGroup
    /\ opening' = NoGroup /\ current' = opening
    /\ UNCHANGED <<vars, wire, localTables, shown, flags>>

-----------------------------------------------------------------------------

SyncNext ==
    \/ \E by \in Users : HandleClientRequest(by)
    \/ HandleGroupList
    \/ QueryStep
    \/ ServerDbStep
    \/ AnswerOp
    \/ PushNotification
    \/ PushMessage
    \/ OnGroupListLoaded
    \/ OnOfflineLoaded
    \/ Login
    \/ ConnectionLost
    \/ LogoutOrRestart
    \/ OnClientDisconnected
    \/ ServerStops
    \/ HandleIncomingPacket
    \/ \E g \in Groups : SwitchToSession(g)
    \/ \E g \in Groups : DeleteSession(g)
    \/ OpenNewGroup

SyncSpec == SyncInit /\ [][SyncNext]_syncVars

-----------------------------------------------------------------------------
(***************************************************************************)
(* Properties                                                              *)
(***************************************************************************)

\* Every variable of the client and the wire holds a value of its kind; what is answered
\* or routed is for a login that has taken place (NetworkService::handleIncomingPacket)
SyncTypeOK ==
    /\ connected \in BOOLEAN /\ routed \in BOOLEAN
    /\ session \in 0..MaxLogins /\ undetached \in 0..MaxLogins
    /\ toServer \in BOOLEAN /\ (toServer => connected)
    /\ \A i \in DOMAIN toClient : toClient[i] \in ClientPacket
    /\ asked \subseteq Ids
    /\ offlineRows \subseteq Pushed
    /\ localGroups \in Listing(LocalRow)
    /\ localSessions \subseteq Groups
    /\ shown \subseteq Groups
    /\ {current, opening} \subseteq Groups \cup {NoGroup}
    /\ inProgress \in BOOLEAN /\ recovery \in BOOLEAN

Quiet == dbQueue = <<>> /\ results = <<>> /\ ~toServer /\ toClient = <<>>

(***************************************************************************)
(* Whatever changed, in whatever order lists, acknowledgements,            *)
(* notifications and old packets arrived, and however often the list was   *)
(* not asked for because one was on its way: a connected client the server *)
(* knows of, with nothing in flight, is not waiting for a list, for it     *)
(* would never ask again, and stores and shows the groups that have Self   *)
(* as a member, with their members (SessionSyncUseCase::applyGroupList,    *)
(* syncGroupSessions). Two exceptions are the code's: a failed query is    *)
(* not repeated, and who was removed is not told if the group is dissolved *)
(* before its members are loaded for the notification.                     *)
(***************************************************************************)
QuietClientInSync ==
    (connected /\ routed /\ Quiet) =>
        /\ ~inProgress /\ ~recovery
        /\ shown = DOMAIN localGroups
        /\ DOMAIN GroupsOfSelf \subseteq DOMAIN localGroups \/ failures > 0
        /\ \A g \in DOMAIN localGroups \cap DOMAIN groups :
              failures = 0 => Self \in groups[g].members /\ localGroups[g] = groups[g]

(***************************************************************************)
(* The client's tables and views agree at any time: a group has a session  *)
(* exactly if it is stored, the list shows only sessions that exist, and   *)
(* the open session is one of the list (staleGroupSessionCleared,          *)
(* deleteSession, loadSessions). A new group may be opened after a logout, *)
(* by its timer: then it exists, in a list that is empty.                  *)
(***************************************************************************)
SessionsConsistent ==
    /\ localSessions = DOMAIN localGroups
    /\ shown \subseteq localSessions
    /\ \/ current \in shown \cup {NoGroup}
       \/ shown = {} /\ current \in localSessions
=============================================================================
