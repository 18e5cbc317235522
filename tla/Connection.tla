----------------------------- MODULE Connection -----------------------------
(***************************************************************************)
(* How a client connects, logs in, reconnects and logs out: the client's   *)
(* AuthenticateUseCase and NetworkService, its database and the token      *)
(* stored there, and the AuthHandler of the server. The client is one      *)
(* process with one thread, so an action of it is one event handler.       *)
(*                                                                         *)
(* NetworkService is the record `net`. Its methods call each other through *)
(* signals; they are functions from such a record to the next, composed in *)
(* the order in which the code runs them.                                  *)
(***************************************************************************)
EXTENDS SessionManager

CONSTANTS
    NoToken,        \* no session token
    NoPacket,       \* nothing on the wire
    MaxAttempts,    \* MAX_RECONNECT_ATTEMPTS
    MaxEpoch        \* bound on how often the tokens issued so far become invalid

ASSUME ConnectionAssumption ==
    /\ MaxAttempts \in Nat /\ MaxEpoch \in Nat \ {0}

VARIABLES
    net,                \* NetworkService and its QWebSocket
    conn,               \* the connection behind the open socket
    selfUserId,         \* AuthenticateUseCase::m_selfUserId
    isAuthenticated,    \* m_isAuthenticated: the chat is shown, not the login page
    usedCachedToken,    \* m_usedCachedToken
    hasRetried,         \* m_hasRetried
    db,                 \* whose database is open
    authState,          \* the auth_state row of each user's database
    connectPacket,      \* the connect packet the server has not read yet
    ack,                \* the connect_ack the client has not read yet
    epoch,              \* tokens issued in an earlier epoch are not accepted any more
    asked               \* users the person at the client asked to be logged in as

loginVars == <<selfUserId, isAuthenticated, usedCachedToken, hasRetried, db, authState>>
clientVars == <<net, conn, loginVars, asked>>
wireVars == <<connectPacket, ack>>
vars == <<sessionVars, clientVars, wireVars, epoch>>

Token == [user : Users, issued : 1..MaxEpoch]
Request == [user : Users, token : Token \cup {NoToken}]
Ack == [code : {200}, user : Users, token : Token] \cup [code : {401}]

\* "closing": close was called and the disconnected signal is still to come
SocketState == {"unconnected", "connecting", "connected", "closing"}

\* SocketConnected is passed through within one handler
ConnectionState == {"Disconnected", "Authenticating", "Ready", "AuthFailed"}

NetState ==
    [socket : SocketState, state : ConnectionState, connected : BOOLEAN,
     reconnectEnabled : BOOLEAN, attempts : 0..MaxAttempts, reconnectTimer : BOOLEAN,
     heartbeatTimer : BOOLEAN, userId : Users \cup {NoUser}, token : Token \cup {NoToken}]

NetInit ==
    [socket |-> "unconnected", state |-> "Disconnected", connected |-> FALSE,
     reconnectEnabled |-> TRUE, attempts |-> 0, reconnectTimer |-> FALSE,
     heartbeatTimer |-> FALSE, userId |-> NoUser, token |-> NoToken]

Init ==
    /\ SessionInit
    /\ net = NetInit /\ conn = NoConn
    /\ selfUserId = NoUser /\ isAuthenticated = FALSE
    /\ usedCachedToken = FALSE /\ hasRetried = FALSE
    /\ db = NoUser
    /\ authState = [u \in Users |-> NoToken]
    /\ connectPacket = [c \in Conns |-> NoPacket]
    /\ ack = NoPacket
    /\ epoch = 1
    /\ asked = {}

-----------------------------------------------------------------------------
(***************************************************************************)
(* NetworkService                                                          *)
(***************************************************************************)

\* QWebSocket::open deletes the socket it had, which then signals nothing any more
Open(n) == [n EXCEPT !.socket = "connecting"]

\* QWebSocket::close; a socket that is still connecting is closed once it is connected
Close(n) == [n EXCEPT !.socket = IF @ = "unconnected" THEN @ ELSE "closing"]

\* Fault: the user id is known only from the server's answer
ConnectToServerUnnamed(n, u, token) ==
    Open([n EXCEPT !.reconnectEnabled = TRUE, !.token = token, !.state = "Disconnected"])

ConnectToServer(n, u, token) ==
    Open([n EXCEPT !.reconnectEnabled = TRUE, !.userId = u, !.token = token,
                   !.state = "Disconnected"])

\* Fault: the timer of a reconnect already scheduled keeps running
ResetKeepingTimer(n) ==
    [n EXCEPT !.reconnectEnabled = FALSE, !.attempts = 0, !.connected = FALSE,
              !.heartbeatTimer = FALSE, !.state = "Disconnected"]

\* disconnectFromServer up to its call of close
Reset(n) ==
    [n EXCEPT !.reconnectEnabled = FALSE, !.reconnectTimer = FALSE, !.attempts = 0,
              !.connected = FALSE, !.heartbeatTimer = FALSE, !.state = "Disconnected"]

\* Fault: only a connection that was ready is restored
OnDisconnectedWhenReady(n) ==
    [n EXCEPT !.socket = "unconnected", !.connected = FALSE, !.state = "Disconnected",
              !.heartbeatTimer = FALSE,
              !.reconnectTimer = @ \/ (n.connected /\ n.attempts < MaxAttempts)]

\* The disconnected signal, scheduleReconnect
OnDisconnected(n) ==
    [n EXCEPT !.socket = "unconnected", !.connected = FALSE, !.state = "Disconnected",
              !.heartbeatTimer = FALSE,
              !.reconnectTimer = @ \/ /\ n.reconnectEnabled /\ n.state # "AuthFailed"
                                      /\ n.attempts < MaxAttempts]

\* Fault: the timer of a reconnect already scheduled keeps running
OnConnectedKeepingTimer(n) ==
    [n EXCEPT !.socket = "connected", !.attempts = 0, !.state = "Authenticating"]

\* The connected signal, sendConnectPacket
OnConnected(n) ==
    [n EXCEPT !.socket = "connected", !.attempts = 0, !.reconnectTimer = FALSE,
              !.state = "Authenticating"]

\* Fault: the attempts are counted from the last one
OnReconnectTimeoutAfresh(n) ==
    IF n.connected THEN [n EXCEPT !.reconnectTimer = FALSE]
    ELSE [Open(n) EXCEPT !.reconnectTimer = FALSE, !.attempts = 0]

\* The timer's handler
OnReconnectTimeout(n) ==
    IF n.connected \/ n.attempts >= MaxAttempts
    THEN [n EXCEPT !.reconnectTimer = FALSE]
    ELSE [Open(n) EXCEPT !.reconnectTimer = FALSE, !.attempts = @ + 1]

\* The socket of net' is not the connected one of net any more: the server finds out,
\* and what was on the wire to the client is not read
FollowSocket ==
    IF net'.socket = "connected"
    THEN UNCHANGED <<link, conn, ack>>
    ELSE /\ link' = [c \in Conns |-> IF c = conn /\ link[c] = "up" THEN "down" ELSE link[c]]
         /\ conn' = NoConn /\ ack' = NoPacket

\* The same, and the handler touches nothing else of the server or the wire
OnlyClientActs ==
    /\ FollowSocket
    /\ UNCHANGED <<sessUser, userMap, connectPacket, epoch>>

-----------------------------------------------------------------------------
(***************************************************************************)
(* AuthenticateUseCase and the login page                                  *)
(***************************************************************************)

\* loadAuthState, for the user of the database
CachedToken(u) ==
    IF authState[u] # NoToken /\ authState[u].user = u THEN authState[u] ELSE NoToken

\* saveAuthState and clearAuthState do nothing while no database is open
SaveAuthState(token) ==
    authState' = [u \in Users |-> IF u = db THEN token ELSE authState[u]]

ClearAuthState ==
    authState' = [u \in Users |-> IF u = db /\ CachedToken(u) # NoToken /\ u = selfUserId
                                  THEN NoToken ELSE authState[u]]

\* Fault: a database that is open already is kept
OpenDatabaseOnce(u) == db' = IF db = NoUser THEN u ELSE db

\* DatabaseManager::open succeeds
OpenDatabase(u) == db' = u

\* The login button is enabled; the client starts with an empty token field
LoginEnabled == ~isAuthenticated /\ net.state \in {"Disconnected", "AuthFailed"}

\* connectToServer with the database of u open
Login(u) ==
    /\ LoginEnabled
    /\ OpenDatabase(u)
    /\ selfUserId' = u
    /\ usedCachedToken' = (CachedToken(u) # NoToken)
    /\ hasRetried' = FALSE
    /\ net' = ConnectToServer(net, u, CachedToken(u))
    /\ asked' = {u}
    /\ OnlyClientActs
    /\ UNCHANGED <<isAuthenticated, authState>>

\* connectToServer when the database cannot be opened: the one that was open is closed,
\* and whatever NetworkService was doing goes on
LoginWithoutDatabase(u) ==
    /\ LoginEnabled
    /\ u # db
    /\ db' = NoUser
    /\ selfUserId' = u
    /\ asked' = asked \cup {u}
    /\ UNCHANGED <<sessionVars, net, conn, isAuthenticated, usedCachedToken, hasRetried,
                   authState, wireVars, epoch>>

\* The logout button of the chat: disconnectFromServer, then the login is forgotten
Logout ==
    /\ isAuthenticated
    /\ net' = Close(Reset(net))
    /\ ClearAuthState
    /\ isAuthenticated' = FALSE
    /\ selfUserId' = NoUser
    /\ asked' = {}
    /\ OnlyClientActs
    /\ UNCHANGED <<usedCachedToken, hasRetried, db>>

-----------------------------------------------------------------------------
(***************************************************************************)
(* The socket's signals, and the reconnect timer                           *)
(***************************************************************************)

SocketConnects(c) ==
    /\ net.socket = "connecting"
    /\ Attach(c)
    /\ net' = OnConnected(net)
    /\ conn' = c
    /\ connectPacket' = [connectPacket EXCEPT
                            ![c] = [user |-> net.userId, token |-> net.token]]
    /\ UNCHANGED <<loginVars, asked, ack, epoch>>

\* The server is not reached, or the socket was closed before it was connected, or is
\* being closed, or the connection is found dead
SocketDisconnects ==
    /\ \/ net.socket \in {"connecting", "closing"}
       \/ net.socket = "connected" /\ link[conn] # "up"
    /\ net' = OnDisconnected(net)
    /\ OnlyClientActs
    /\ UNCHANGED <<loginVars, asked>>

ReconnectTimerFires ==
    /\ net.reconnectTimer
    /\ net' = OnReconnectTimeout(net)
    /\ OnlyClientActs
    /\ UNCHANGED <<loginVars, asked>>

-----------------------------------------------------------------------------
(***************************************************************************)
(* The login on the server, and its answer                                 *)
(***************************************************************************)

\* JwtManager::verifyToken
Valid(token) == token.issued = epoch

\* AuthHandler::handleConnect; without a token the user id of the packet is taken
HandleConnect(c) ==
    /\ Attached(c) /\ connectPacket[c] # NoPacket
    /\ connectPacket' = [connectPacket EXCEPT ![c] = NoPacket]
    /\ LET req == connectPacket[c]
           u == IF req.token = NoToken THEN req.user ELSE req.token.user
           answer == IF req.token # NoToken /\ ~Valid(req.token)
                     THEN [code |-> 401]
                     ELSE [code |-> 200, user |-> u,
                           token |-> [user |-> u, issued |-> epoch]]
       IN  /\ IF answer.code = 200 THEN Authenticate(c, u) ELSE UNCHANGED sessionVars
           /\ ack' = IF c = conn /\ link[c] = "up" THEN answer ELSE ack
    /\ UNCHANGED <<clientVars, epoch>>

\* connect_ack(200): authenticated, onAuthSuccess, then the heartbeats start
OnConnectAck ==
    /\ ack # NoPacket /\ ack.code = 200
    /\ net' = [net EXCEPT !.connected = TRUE, !.state = "Ready", !.token = ack.token,
                          !.userId = ack.user, !.heartbeatTimer = TRUE]
    /\ selfUserId' = ack.user
    /\ SaveAuthState(ack.token)
    /\ isAuthenticated' = TRUE
    /\ ack' = NoPacket
    /\ UNCHANGED <<sessionVars, conn, usedCachedToken, hasRetried, db, connectPacket,
                   epoch, asked>>

(***************************************************************************)
(* connect_ack(401) for the cached token: onAuthFailure tries once more    *)
(* without it. disconnectFromServer emits connectionStateChanged before it *)
(* closes the socket, and connectToServer is called from there: the new    *)
(* socket is the one that is closed, and the reconnect that follows its    *)
(* disconnected signal is what logs in.                                    *)
(***************************************************************************)
RetryWithoutToken ==
    /\ ack # NoPacket /\ ack.code = 401
    /\ usedCachedToken /\ ~hasRetried
    /\ ClearAuthState
    /\ hasRetried' = TRUE
    /\ usedCachedToken' = FALSE
    /\ net' = Close(ConnectToServer(Reset(net), selfUserId, NoToken))
    /\ OnlyClientActs
    /\ UNCHANGED <<selfUserId, isAuthenticated, db, asked>>

\* connect_ack(401) otherwise: back to the login page
OnAuthFailure ==
    /\ ack # NoPacket /\ ack.code = 401
    /\ ~usedCachedToken \/ hasRetried
    /\ ClearAuthState
    /\ isAuthenticated' = FALSE
    /\ net' = Close([net EXCEPT !.state = "AuthFailed"])
    /\ OnlyClientActs
    /\ UNCHANGED <<selfUserId, usedCachedToken, hasRetried, db, asked>>

-----------------------------------------------------------------------------
(***************************************************************************)
(* The environment                                                         *)
(***************************************************************************)

\* A connection breaks, or sweepTimeouts closes it
ConnectionLost(c) ==
    /\ LinkFails(c)
    /\ UNCHANGED <<clientVars, wireVars, epoch>>

\* ServerApp::onClientDisconnected
OnClientDisconnected(c) ==
    /\ Detach(c)
    /\ connectPacket' = [connectPacket EXCEPT ![c] = NoPacket]
    /\ UNCHANGED <<clientVars, ack, epoch>>

\* Tokens expire, or the server restarts with another secret
TokensExpire ==
    /\ epoch < MaxEpoch
    /\ epoch' = epoch + 1
    /\ UNCHANGED <<sessionVars, clientVars, wireVars>>

ServerStops ==
    /\ AllSessionsEnd
    /\ connectPacket' = [c \in Conns |-> NoPacket]
    /\ UNCHANGED <<clientVars, ack, epoch>>

\* The client ends and starts again: the databases stay
ClientRestart ==
    /\ net' = NetInit
    /\ selfUserId' = NoUser /\ isAuthenticated' = FALSE
    /\ usedCachedToken' = FALSE /\ hasRetried' = FALSE
    /\ db' = NoUser
    /\ asked' = {}
    /\ OnlyClientActs
    /\ UNCHANGED authState

Next ==
    \/ \E u \in Users : Login(u)
    \/ \E u \in Users : LoginWithoutDatabase(u)
    \/ Logout
    \/ \E c \in Conns : SocketConnects(c)
    \/ SocketDisconnects
    \/ ReconnectTimerFires
    \/ \E c \in Conns : HandleConnect(c)
    \/ OnConnectAck
    \/ RetryWithoutToken
    \/ OnAuthFailure
    \/ \E c \in Conns : ConnectionLost(c)
    \/ \E c \in Conns : OnClientDisconnected(c)
    \/ TokensExpire
    \/ ServerStops
    \/ ClientRestart

Spec == Init /\ [][Next]_vars

(***************************************************************************)
(* Timers fire, a socket that is opened or closed signals how it ends, a   *)
(* dead connection is noticed (the client has the connect packet or a      *)
(* heartbeat outstanding), and both event loops run. Nothing obliges the   *)
(* user to do anything or the network to work.                             *)
(***************************************************************************)
SocketSignals == SocketDisconnects \/ \E c \in Conns : SocketConnects(c)

Fairness ==
    /\ WF_vars(SocketSignals)
    /\ WF_vars(ReconnectTimerFires)
    /\ WF_vars(OnConnectAck) /\ WF_vars(RetryWithoutToken) /\ WF_vars(OnAuthFailure)
    /\ \A c \in Conns : WF_vars(HandleConnect(c))

FairSpec == Spec /\ Fairness

-----------------------------------------------------------------------------
(***************************************************************************)
(* Properties                                                              *)
(***************************************************************************)

\* Every variable keeps its type; in particular no more than MAX_RECONNECT_ATTEMPTS
\* attempts are made in a row.
ConnectionTypeOK ==
    /\ SessionTypeOK
    /\ net \in NetState
    /\ conn \in Conns \cup {NoConn}
    /\ selfUserId \in Users \cup {NoUser}
    /\ isAuthenticated \in BOOLEAN
    /\ usedCachedToken \in BOOLEAN /\ hasRetried \in BOOLEAN
    /\ db \in Users \cup {NoUser}
    /\ authState \in [Users -> Token \cup {NoToken}]
    /\ connectPacket \in [Conns -> Request \cup {NoPacket}]
    /\ ack \in Ack \cup {NoPacket}
    /\ epoch \in 1..MaxEpoch
    /\ asked \subseteq Users

\* A client whose connection is ready shows the chat of the user the server has logged in
\* on that very connection, keeps it alive with heartbeats and has no reconnect under way,
\* after any sequence of lost connections, retries and logins as other users.
ReadyIsLoggedIn ==
    /\ net.connected <=> net.state = "Ready"
    /\ net.state = "Ready" =>
        /\ isAuthenticated /\ net.heartbeatTimer /\ ~net.reconnectTimer
        /\ net.socket = "connected" /\ net.userId = selfUserId
        /\ link[conn] = "up" => sessUser[conn] = selfUserId

\* A client is logged in only as a user it was asked for since the last logout or start:
\* an answer or a timer from before logs nobody in, and after a logout nothing reconnects.
LoginWasAsked ==
    /\ isAuthenticated => selfUserId \in asked
    /\ asked = {} => /\ ~net.reconnectTimer
                     /\ net.socket \in {"unconnected", "closing"}

\* While the chat is shown the open database is that of its user, or none is; and the
\* token kept in a database is its user's (DatabaseManager::open, onAuthSuccess).
DatabaseIsOwn ==
    /\ isAuthenticated => db \in {selfUserId, NoUser}
    /\ \A u \in Users : authState[u] # NoToken => authState[u].user = u

\* Without a socket and a reconnect to come, the user can log in again, or the client has
\* used up its attempts: no refused token, lost socket or nested reconnect leaves the chat
\* waiting, or the login page disabled (scheduleReconnect, onAuthFailure).
GivenUp == net.attempts = MaxAttempts

NeverStuck ==
    net.socket = "unconnected" /\ ~net.reconnectTimer =>
        LoginEnabled \/ (isAuthenticated /\ GivenUp)

\* However often tokens are refused and connections fail, the client does not connect for
\* ever: again and again it is ready, or waits for the user.
Settled ==
    \/ net.state = "Ready"
    \/ net.socket = "unconnected" /\ ~net.reconnectTimer

Settles == []<>Settled
=============================================================================
