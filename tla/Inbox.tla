-------------------------------- MODULE Inbox --------------------------------
(***************************************************************************)
(* What the client of one user keeps and shows of its messages: the tables *)
(* messages and sessions, the session list, and the chat of the open       *)
(* session, over ReceiveMessageUseCase, SwitchSessionUseCase,              *)
(* SessionSyncUseCase, SessionListController and ChatViewModel. All run on *)
(* the client's only thread; signals are direct calls, so an action is one *)
(* event with everything it sets off, and m_currentSessionId,              *)
(* m_activeSessionId and ChatViewModel::m_sessionId change together.       *)
(*                                                                         *)
(* A message is its timestamp. The server holds a message for the client   *)
(* until it sees its acknowledgement, as OfflineDelivery has it; what      *)
(* becomes of a message written here is SendMessage's, and what groups     *)
(* there are is SessionSync's.                                             *)
(***************************************************************************)
EXTENDS Naturals, FiniteSets, FiniteSetsExt

CONSTANTS
    Messages,       \* timestamps of the messages
    Outgoing,       \* the messages written on this client
    Sessions,       \* session ids
    Groups,         \* the group sessions
    SessionOf,      \* the session of a message
    NoSession,
    Limit,          \* messages a chat loads: 200
    MaxFaults       \* bound on failing transactions and lost acknowledgements

ASSUME InboxAssumption ==
    /\ Messages \subseteq Nat /\ IsFiniteSet(Messages)
    /\ Outgoing \subseteq Messages
    /\ Groups \subseteq Sessions /\ NoSession \notin Sessions
    /\ SessionOf \in [Messages -> Sessions]
    /\ Limit \in Nat \ {0} /\ MaxFaults \in Nat

VARIABLES
    rows,       \* messages table: number of rows of a message, each with an id of its own
    sessions,   \* sessions table: the unread_count of each session
    listed,     \* SessionListModel: the unread count shown of each session
    current,    \* SwitchSessionUseCase::m_currentSessionId
    chat,       \* MessageListModel: how often a message is shown
    opening,    \* the new group a 0 ms timer will open
    loggedIn,   \* m_isAuthenticated
    online,     \* the connection is Ready
    toDeliver,  \* the messages of others the server holds for this client
    \* what the system is observed to do
    displayed,  \* messages a chat has shown
    notStored,  \* messages whose transaction failed
    removed,    \* messages removed with their session
    unsaved,    \* sessions whose last save failed, unnoticed
    faults

tables == <<rows, sessions>>
views == <<listed, current, chat>>
connection == <<loggedIn, online, toDeliver>>
observed == <<displayed, notStored, removed, unsaved, faults>>
vars == <<tables, views, opening, connection, observed>>

Incoming == Messages \ Outgoing
Of(s) == {m \in Messages : SessionOf[m] = s}
NoneStored == [m \in Messages |-> 0]
NoSessions == [s \in {} |-> 0]

Init ==
    /\ rows = NoneStored /\ sessions = NoSessions
    /\ listed = NoSessions /\ current = NoSession /\ chat = NoneStored
    /\ opening = NoSession
    /\ loggedIn = FALSE /\ online = FALSE /\ toDeliver = Incoming
    /\ displayed = {} /\ notStored = {} /\ removed = {} /\ unsaved = {} /\ faults = 0

-----------------------------------------------------------------------------
(***************************************************************************)
(* The tables: MessageRepository, SessionRepository, DatabaseManager       *)
(***************************************************************************)

\* runInTransaction rolls back what it has written
TransactionFails == faults < MaxFaults /\ faults' = faults + 1

InsertMessage(m) == [rows EXCEPT ![m] = @ + 1]

\* the rows of m's session that come before those of m
Before(table, m) ==
    SumFunctionOnSet(table, {n \in Of(SessionOf[m]) : n < m})

\* fetchMessagesForSession: the oldest rows, up to the limit
Fetch(table, s) ==
    [m \in Messages |->
        IF SessionOf[m] = s
        THEN Min({table[m], Limit - Min({Limit, Before(table, m)})})
        ELSE 0]

\* a session that is not found is saved as a new one, without unread messages
With(table, S) ==
    [s \in DOMAIN table \cup S |-> IF s \in DOMAIN table THEN table[s] ELSE 0]

\* Session::markRead, if there is such a session; SessionListModel::clearUnread
MarkRead(table, s) ==
    [t \in DOMAIN table |-> IF t = s THEN 0 ELSE table[t]]

\* Session::processIncomingMessage
CountUnread(table, s) == [With(table, {s}) EXCEPT ![s] = @ + 1]

\* SessionRepository::save, whose result is ignored, makes the table `wanted`, or leaves it
Save(s, wanted) ==
    \/ /\ sessions' = wanted
       /\ unsaved' = IF s \in DOMAIN wanted /\ wanted[s] = 0 THEN unsaved \ {s} ELSE unsaved
       /\ UNCHANGED faults
    \/ /\ TransactionFails /\ wanted # sessions
       /\ unsaved' = unsaved \cup {s}
       /\ UNCHANGED sessions

\* Fault: all messages are deleted, not only those of the session
RemoveAllMessages(S) ==
    /\ rows' = IF S = {} THEN rows ELSE NoneStored
    /\ removed' = removed \cup {m \in Messages : SessionOf[m] \in S /\ rows[m] > 0}
    /\ unsaved' = unsaved \ S

\* SessionRepository::remove of the sessions S, but for their rows of the sessions table
RemoveMessages(S) ==
    /\ rows' = [m \in Messages |-> IF SessionOf[m] \in S THEN 0 ELSE rows[m]]
    /\ removed' = removed \cup {m \in Messages : SessionOf[m] \in S /\ rows[m] > 0}
    /\ unsaved' = unsaved \ S

Without(table, S) == [s \in DOMAIN table \ S |-> table[s]]

-----------------------------------------------------------------------------
(***************************************************************************)
(* The views: ChatViewModel, MessageListModel, SessionListModel            *)
(***************************************************************************)

\* loadMessagesForSession, resetMessages
LoadMessages(table, s) ==
    /\ chat' = Fetch(table, s)
    /\ displayed' = displayed \cup {m \in Messages : chat'[m] > 0}

\* currentSessionIdChanged, currentSessionChanged: every part learns of the open session
Show(s) == current' = s /\ LoadMessages(rows, s)

\* clearCurrentSession
Close == current' = NoSession /\ chat' = NoneStored /\ UNCHANGED displayed

CloseIf(condition) ==
    IF condition THEN Close ELSE UNCHANGED <<current, chat, displayed>>

\* loadSessions, onSessionsLoaded, refresh
LoadSessions(table) == listed' = table

\* Fault: a message counts as unread whatever session is open
UpsertUnread(s) == listed' = CountUnread(listed, s)

\* updateSessionPreview, upsertSession, with the incrementUnread of a received message
UpsertSession(s) ==
    listed' = IF s = current THEN With(listed, {s}) ELSE CountUnread(listed, s)

-----------------------------------------------------------------------------
(***************************************************************************)
(* Connections                                                             *)
(***************************************************************************)

\* onAuthSuccess, initializeAfterAuthentication
OnAuthSuccess ==
    /\ ~online
    /\ loggedIn' = TRUE /\ online' = TRUE
    /\ LoadSessions(sessions)
    /\ UNCHANGED <<tables, current, chat, opening, toDeliver, observed>>

ConnectionLost ==
    /\ online /\ online' = FALSE
    /\ UNCHANGED <<tables, views, opening, loggedIn, toDeliver, observed>>

\* Fault: the connection stays
LogoutOnline ==
    /\ loggedIn /\ loggedIn' = FALSE
    /\ Close /\ listed' = NoSessions
    /\ UNCHANGED <<tables, opening, online, toDeliver, notStored, removed, unsaved, faults>>

\* logout, or onAuthFailure of a reconnection: resetAfterAuthenticationCleared
AuthenticationCleared ==
    /\ loggedIn /\ loggedIn' = FALSE /\ online' = FALSE
    /\ Close /\ listed' = NoSessions
    /\ UNCHANGED <<tables, opening, toDeliver, notStored, removed, unsaved, faults>>

\* The client stops or dies, and starts again: its tables stay
Restart ==
    /\ loggedIn' = FALSE /\ online' = FALSE /\ opening' = NoSession
    /\ Close /\ listed' = NoSessions
    /\ UNCHANGED <<tables, toDeliver, notStored, removed, unsaved, faults>>

-----------------------------------------------------------------------------
(***************************************************************************)
(* Messages                                                                *)
(***************************************************************************)

\* The transaction of onIncomingMessage: the row, and the session with its unread count
Received(m) ==
    LET s == SessionOf[m]
        counted == CountUnread(sessions, s)
    IN  /\ rows' = InsertMessage(m)
        /\ sessions' = IF s = current THEN MarkRead(counted, s) ELSE counted

\* Fault: a message of the open session is marked read, but not loaded
ShowReceivedInList(m) ==
    /\ UpsertSession(SessionOf[m])
    /\ UNCHANGED <<chat, displayed>>

\* messageReceived: handleReceivedMessage and ChatViewModel::onMessageReceived
ShowReceived(m) ==
    /\ UpsertSession(SessionOf[m])
    /\ IF SessionOf[m] = current THEN LoadMessages(rows', current)
       ELSE UNCHANGED <<chat, displayed>>

\* onIncomingMessage; the server sends nobody their own messages
OnIncomingMessage(m) ==
    \/ /\ Received(m) /\ ShowReceived(m)
       /\ UNCHANGED <<notStored, faults>>
    \/ /\ TransactionFails
       /\ notStored' = notStored \cup {m}
       /\ UNCHANGED <<tables, listed, chat, displayed>>

\* receive_message is handled, then acknowledged, stored or not
ReceiveMessage(m) ==
    /\ online /\ m \in toDeliver
    /\ OnIncomingMessage(m)
    /\ toDeliver' = toDeliver \ {m}
    /\ UNCHANGED <<current, opening, loggedIn, online, removed, unsaved>>

\* The same, over a connection that dies before the acknowledgement is through: the
\* message comes again after the next login
ReceiveUnacknowledged(m) ==
    /\ online /\ m \in toDeliver /\ faults < MaxFaults
    /\ Received(m) /\ ShowReceived(m)
    /\ faults' = faults + 1 /\ online' = FALSE
    /\ UNCHANGED <<current, opening, loggedIn, toDeliver, notStored, removed, unsaved>>

\* sendMessage and onMessageSent: the row is inserted and the message shown at the end
SendMessage(m) ==
    /\ online /\ m \in Outgoing /\ m \notin displayed /\ SessionOf[m] = current
    /\ rows' = InsertMessage(m)
    /\ chat' = [chat EXCEPT ![m] = @ + 1]
    /\ displayed' = displayed \cup {m}
    /\ listed' = With(listed, {current})
    /\ UNCHANGED <<sessions, current, opening, connection, notStored, removed, unsaved, faults>>

-----------------------------------------------------------------------------
(***************************************************************************)
(* Sessions                                                                *)
(***************************************************************************)

\* switchToSession, of a session of the list
SwitchToSession(s) ==
    /\ s \in DOMAIN listed /\ s # current
    /\ Show(s)
    /\ Save(s, MarkRead(sessions, s))
    /\ listed' = MarkRead(listed, s)
    /\ UNCHANGED <<rows, opening, connection, notStored, removed>>

\* startPrivateChat: the session is saved, opened if it is not open, and marked read then
StartPrivateChat(s) ==
    /\ loggedIn /\ s \in Sessions \ Groups
    /\ IF s = current
       THEN Save(s, With(sessions, {s})) /\ UNCHANGED <<current, chat, displayed>>
       ELSE Save(s, MarkRead(With(sessions, {s}), s)) /\ Show(s)
    /\ LoadSessions(sessions')
    /\ UNCHANGED <<rows, opening, connection, notStored, removed>>

\* friendChanged: friendSessionReady loads the list, then switchToSessionIfNone
OnFriendChanged(s) ==
    /\ online /\ s \in Sessions \ Groups
    /\ IF current # NoSession
       THEN /\ Save(s, With(sessions, {s}))
            /\ LoadSessions(sessions')
            /\ UNCHANGED <<current, chat, displayed>>
       ELSE /\ Save(s, MarkRead(With(sessions, {s}), s))
            /\ listed' = MarkRead(sessions', s)
            /\ Show(s)
    /\ UNCHANGED <<rows, opening, connection, notStored, removed>>

\* deleteSession, loadSessions: a group gets its session back; if the removal fails all
\* stays, but the session is closed
DeleteSession(s) ==
    /\ s \in DOMAIN listed
    /\ \/ /\ RemoveMessages({s})
          /\ sessions' = With(Without(sessions, {s}), {s} \cap Groups)
          /\ UNCHANGED faults
       \/ /\ TransactionFails
          /\ UNCHANGED <<tables, removed, unsaved>>
    /\ CloseIf(s = current)
    /\ LoadSessions(sessions')
    /\ UNCHANGED <<opening, connection, notStored>>

\* applyGroupList: the groups of the list get their sessions, the others lose them. A
\* 0 ms timer fires before a request to leave the new group is through, and a list without it.
ApplyGroupList(G) ==
    /\ online /\ opening \in G \cup {NoSession}
    /\ LET stale == (DOMAIN sessions \cap Groups) \ G
       IN  /\ RemoveMessages(stale)
           /\ sessions' = With(Without(sessions, stale), G)
           /\ CloseIf(current \in stale)
    /\ LoadSessions(sessions')
    /\ UNCHANGED <<opening, connection, notStored, faults>>

\* createGroupResult, newGroupSessionReady: the new group is opened by a 0 ms timer
OnGroupCreated(g) ==
    /\ online /\ opening = NoSession /\ g \notin DOMAIN sessions
    /\ sessions' = With(sessions, {g})
    /\ LoadSessions(sessions')
    /\ opening' = g
    /\ UNCHANGED <<rows, current, chat, connection, observed>>

\* The timer fires; the user may have logged out since
OpenNewGroup ==
    /\ opening # NoSession /\ opening' = NoSession
    /\ IF opening = current
       THEN UNCHANGED <<sessions, views, displayed, unsaved, faults>>
       ELSE /\ Show(opening)
            /\ Save(opening, MarkRead(sessions, opening))
            /\ listed' = MarkRead(listed, opening)
    /\ UNCHANGED <<rows, connection, notStored, removed>>

Next ==
    \/ OnAuthSuccess
    \/ ConnectionLost
    \/ AuthenticationCleared
    \/ Restart
    \/ \E m \in Messages : ReceiveMessage(m)
    \/ \E m \in Messages : ReceiveUnacknowledged(m)
    \/ \E m \in Messages : SendMessage(m)
    \/ \E s \in Sessions : SwitchToSession(s)
    \/ \E s \in Sessions : StartPrivateChat(s)
    \/ \E s \in Sessions : OnFriendChanged(s)
    \/ \E s \in Sessions : DeleteSession(s)
    \/ \E G \in SUBSET Groups : ApplyGroupList(G)
    \/ \E g \in Groups : OnGroupCreated(g)
    \/ OpenNewGroup

Spec == Init /\ [][Next]_vars

-----------------------------------------------------------------------------
(***************************************************************************)
(* Properties                                                              *)
(***************************************************************************)

\* Every variable has its type; a client is online only while it is logged in, and
\* nothing is listed while it is not (AuthenticateUseCase::logout).
TypeOK ==
    /\ rows \in [Messages -> Nat]
    /\ DOMAIN sessions \subseteq Sessions /\ sessions \in [DOMAIN sessions -> Nat]
    /\ DOMAIN listed \subseteq Sessions /\ listed \in [DOMAIN listed -> Nat]
    /\ current \in Sessions \cup {NoSession}
    /\ chat \in [Messages -> Nat]
    /\ opening \in Groups \cup {NoSession}
    /\ loggedIn \in BOOLEAN /\ online \in BOOLEAN
    /\ online => loggedIn
    /\ loggedIn \/ listed = NoSessions
    /\ toDeliver \subseteq Incoming
    /\ displayed \subseteq Messages
    /\ notStored \subseteq Incoming /\ removed \subseteq Messages
    /\ unsaved \subseteq Sessions
    /\ faults \in 0..MaxFaults

\* The list shows the sessions of the table with their unread counts, and none for the
\* open session
ListMirrorsTable ==
    \A s \in Sessions \ unsaved :
        /\ s \in DOMAIN listed <=> s \in DOMAIN sessions
        /\ s \in DOMAIN sessions =>
              /\ listed[s] = sessions[s]
              /\ s = current => sessions[s] = 0

\* The chat shows each row of the open session once, all that a reload would show and
\* nothing else
ChatMirrorsTable ==
    \A m \in Messages :
        /\ chat[m] <= (IF SessionOf[m] = current THEN rows[m] ELSE 0)
        /\ Fetch(rows, current)[m] <= chat[m]

(***************************************************************************)
(* The list and the chat are kept by increments (upsertSession,            *)
(* appendMessage, clearUnread) and by reloads, over redeliveries, removed  *)
(* sessions, reconnections and new groups opened late: both say what the   *)
(* tables say, save for a session whose last save failed without anybody   *)
(* looking.                                                                *)
(***************************************************************************)
ViewsMirrorTables ==
    /\ loggedIn => ListMirrorsTable
    /\ ChatMirrorsTable

(***************************************************************************)
(* No message is taken for read that the user was never shown: of every    *)
(* session the messages not shown so far are counted as unread. The        *)
(* exception is the code's: a chat loads the oldest Limit messages, and    *)
(* those behind are marked read unseen (MessageRepository::                *)
(* fetchMessagesForSession).                                               *)
(***************************************************************************)
ReadWasShown ==
    \A s \in DOMAIN sessions :
        SumFunctionOnSet(rows, {m \in Of(s) \ displayed : Before(rows, m) < Limit})
            <= sessions[s]

(***************************************************************************)
(* What the server counts as delivered the client has stored, unless its   *)
(* transaction failed, which the acknowledgement does not tell, or the     *)
(* user or a group list removed the session since. It is stored once, but  *)
(* for a redelivery after a lost acknowledgement: nothing in the client    *)
(* recognises a message it has (NetworkService, onIncomingMessage).        *)
(***************************************************************************)
DeliveredIsStored ==
    \A m \in Incoming :
        /\ m \notin toDeliver => rows[m] > 0 \/ m \in notStored \cup removed
        /\ rows[m] <= 1 + faults
=============================================================================
