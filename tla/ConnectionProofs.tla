--------------------------- MODULE ConnectionProofs ---------------------------
(***************************************************************************)
(* Proofs about Connection for any users, connections and tokens. The      *)
(* client is alive while something it has under way may still log it in;   *)
(* whatever is under way then, on either side of the wire, is for one user *)
(* who was asked for, and for whom the database is open.                   *)
(***************************************************************************)
EXTENDS Connection, TLAPS

\* A socket, a timer or a disconnected signal to come may lead to a login
Live ==
    \/ net.socket \in {"connecting", "connected"}
    \/ net.reconnectTimer
    \/ net.socket = "closing" /\ net.reconnectEnabled

TokenIsOf(token, u) == token # NoToken => token.user = u

LiveInv ==
    Live => /\ net.reconnectEnabled
            /\ net.userId \in asked
            /\ db \in {net.userId, NoUser}
            /\ TokenIsOf(net.token, net.userId)

SocketInv ==
    /\ net.socket = "connected" <=> conn # NoConn
    /\ net.socket = "connected" <=> net.state \in {"Authenticating", "Ready"}
    /\ net.reconnectTimer => net.socket \in {"unconnected", "connecting"}

LoginInv ==
    /\ \/ selfUserId \in asked /\ db \in {selfUserId, NoUser}
       \/ asked = {} /\ ~isAuthenticated
    /\ isAuthenticated => net.reconnectEnabled /\ net.state # "AuthFailed"

\* The request the server has not read, then its answer, are for the user of the socket
WireInv ==
    /\ (conn # NoConn /\ connectPacket[conn] # NoPacket) =>
          /\ net.state = "Authenticating" /\ ack = NoPacket
          /\ connectPacket[conn].user = net.userId
          /\ TokenIsOf(connectPacket[conn].token, net.userId)
    /\ ack # NoPacket => net.state = "Authenticating"
    /\ (ack # NoPacket /\ ack.code = 200) =>
          /\ ack.user = net.userId /\ ack.token.user = net.userId
          /\ link[conn] = "up" => sessUser[conn] = net.userId

IInv ==
    /\ ConnectionTypeOK
    /\ LiveInv
    /\ SocketInv
    /\ LoginInv
    /\ WireInv
    /\ ReadyIsLoggedIn
    /\ DatabaseIsOwn
    /\ NeverStuck

-----------------------------------------------------------------------------

LEMMA InitIInv == Init => IInv
<1> SUFFICES ASSUME Init PROVE IInv
  OBVIOUS
<1> USE DEF Init, SessionInit, NetInit
<1>1. ConnectionTypeOK
  <2>1. NetInit \in NetState
    BY ConnectionAssumption DEF NetState, SocketState, ConnectionState
  <2>2. SessionTypeOK
    BY DEF SessionTypeOK, LinkState
  <2>3. authState \in [Users -> Token \cup {NoToken}]
    OBVIOUS
  <2>4. connectPacket \in [Conns -> Request \cup {NoPacket}]
    OBVIOUS
  <2>5. epoch \in 1..MaxEpoch
    BY ConnectionAssumption
  <2> QED
    BY <2>1, <2>2, <2>3, <2>4, <2>5 DEF ConnectionTypeOK
<1>2. LiveInv /\ SocketInv /\ LoginInv /\ WireInv
  BY DEF LiveInv, Live, SocketInv, LoginInv, WireInv
<1>3. ReadyIsLoggedIn /\ DatabaseIsOwn /\ NeverStuck
  BY DEF ReadyIsLoggedIn, DatabaseIsOwn, NeverStuck, LoginEnabled
<1> QED
  BY <1>1, <1>2, <1>3 DEF IInv

\* The typed record of the client, in the terms its handlers update it
LEMMA NetTyped ==
    ASSUME IInv
    PROVE  /\ net \in NetState
           /\ 0 \in 0..MaxAttempts
           /\ net.attempts < MaxAttempts => net.attempts + 1 \in 0..MaxAttempts
  BY ConnectionAssumption DEF IInv, ConnectionTypeOK, NetState

(***************************************************************************)
(* A handler of the client after which no socket is connected: nothing is  *)
(* on the wire any more. What is left to show is about the client alone.   *)
(***************************************************************************)
LEMMA ClientActs ==
    ASSUME IInv, OnlyClientActs,
           net' \in NetState,
           net'.socket # "connected", net'.state \in {"Disconnected", "AuthFailed"},
           net'.connected = FALSE,
           net'.reconnectTimer => net'.socket \in {"unconnected", "connecting"},
           selfUserId' \in Users \cup {NoUser}, isAuthenticated' \in BOOLEAN,
           usedCachedToken' \in BOOLEAN, hasRetried' \in BOOLEAN,
           db' \in Users \cup {NoUser}, asked' \subseteq Users,
           authState' \in [Users -> Token \cup {NoToken}],
           LiveInv', LoginInv',
           \A u \in Users : authState'[u] \in {authState[u], NoToken},
           net'.socket = "unconnected" /\ ~net'.reconnectTimer /\ isAuthenticated' =>
              net'.attempts = MaxAttempts
    PROVE  IInv'
<1> USE DEF OnlyClientActs, FollowSocket
<1>1. conn' = NoConn /\ ack' = NoPacket
  OBVIOUS
<1>2. SessionTypeOK'
  BY DEF IInv, ConnectionTypeOK, SessionTypeOK, LinkState
<1>3. ConnectionTypeOK'
  BY <1>1, <1>2 DEF IInv, ConnectionTypeOK
<1>4. SocketInv' /\ WireInv'
  BY <1>1 DEF SocketInv, WireInv
<1>5. ReadyIsLoggedIn'
  BY DEF ReadyIsLoggedIn
<1>6. DatabaseIsOwn'
  BY DEF IInv, ConnectionTypeOK, DatabaseIsOwn, LoginInv
<1>7. NeverStuck'
  BY DEF NeverStuck, LoginEnabled, GivenUp
<1> QED
  BY <1>3, <1>4, <1>5, <1>6, <1>7 DEF IInv

\* The token a user has stored is the user's own
LEMMA CachedTokenIsOwn ==
    ASSUME IInv, NEW u \in Users
    PROVE  CachedToken(u) \in Token \cup {NoToken} /\ TokenIsOf(CachedToken(u), u)
  BY DEF IInv, ConnectionTypeOK, CachedToken, TokenIsOf

LEMMA ClearedIsNone ==
    ASSUME IInv, ClearAuthState
    PROVE  /\ authState' \in [Users -> Token \cup {NoToken}]
           /\ \A u \in Users : authState'[u] \in {authState[u], NoToken}
  BY DEF IInv, ConnectionTypeOK, ClearAuthState

LEMMA LoginStep ==
    ASSUME IInv, NEW u \in Users, Login(u)
    PROVE  IInv'
<1> USE DEF Login, OpenDatabase
<1>1. CachedToken(u) \in Token \cup {NoToken} /\ TokenIsOf(CachedToken(u), u)
  BY CachedTokenIsOwn
<1>2. net' = [net EXCEPT !.socket = "connecting", !.reconnectEnabled = TRUE, !.userId = u,
                         !.token = CachedToken(u), !.state = "Disconnected"]
  BY DEF ConnectToServer, Open, IInv, ConnectionTypeOK, NetState
<1>3. net' \in NetState /\ net.connected = FALSE /\ net'.connected = FALSE
  BY <1>1, <1>2 DEF IInv, ConnectionTypeOK, NetState, SocketState, ConnectionState,
     LoginEnabled, ReadyIsLoggedIn
<1>4. net'.socket = "connecting" /\ net'.state = "Disconnected" /\ net'.userId = u
      /\ net'.reconnectEnabled = TRUE /\ net'.token = CachedToken(u)
  BY <1>2 DEF IInv, ConnectionTypeOK, NetState
<1>5. LiveInv' /\ LoginInv'
  BY <1>1, <1>4 DEF LiveInv, LoginInv, LoginEnabled, TokenIsOf
<1> QED
  BY <1>3, <1>4, <1>5, ClientActs DEF IInv, ConnectionTypeOK, LoginEnabled

LEMMA LoginWithoutDatabaseStep ==
    ASSUME IInv, NEW u \in Users, LoginWithoutDatabase(u)
    PROVE  IInv'
<1> USE DEF LoginWithoutDatabase, LoginEnabled, sessionVars, wireVars
<1>1. ConnectionTypeOK'
  BY DEF IInv, ConnectionTypeOK, SessionTypeOK
<1>2. LiveInv' /\ SocketInv' /\ LoginInv' /\ WireInv'
  BY DEF IInv, LiveInv, Live, SocketInv, LoginInv, WireInv
<1>3. ReadyIsLoggedIn' /\ DatabaseIsOwn' /\ NeverStuck'
  BY DEF IInv, ReadyIsLoggedIn, DatabaseIsOwn, NeverStuck, GivenUp
<1> QED
  BY <1>1, <1>2, <1>3 DEF IInv

LEMMA LogoutStep ==
    ASSUME IInv, Logout
    PROVE  IInv'
<1> USE DEF Logout
<1>1. net' = [net EXCEPT !.reconnectEnabled = FALSE, !.reconnectTimer = FALSE,
                         !.attempts = 0, !.connected = FALSE, !.heartbeatTimer = FALSE,
                         !.state = "Disconnected",
                         !.socket = IF @ = "unconnected" THEN @ ELSE "closing"]
  BY DEF Close, Reset, IInv, ConnectionTypeOK, NetState
<1>2. net' \in NetState
  BY <1>1, NetTyped DEF NetState, SocketState, ConnectionState
<1>3. /\ net'.socket \in {"unconnected", "closing"} /\ net'.state = "Disconnected"
      /\ net'.connected = FALSE
      /\ net'.reconnectTimer = FALSE /\ net'.reconnectEnabled = FALSE
  BY <1>1 DEF IInv, ConnectionTypeOK, NetState
<1>4. LiveInv' /\ LoginInv'
  BY <1>3 DEF LiveInv, Live, LoginInv
<1> QED
  BY <1>2, <1>3, <1>4, ClientActs, ClearedIsNone DEF IInv, ConnectionTypeOK

LEMMA DisconnectedStep ==
    ASSUME IInv, SocketDisconnects
    PROVE  IInv'
<1> USE DEF SocketDisconnects, loginVars
<1> DEFINE again == /\ net.reconnectEnabled /\ net.state # "AuthFailed"
                    /\ net.attempts < MaxAttempts
<1>1. net' = [net EXCEPT !.socket = "unconnected", !.connected = FALSE,
                         !.state = "Disconnected", !.heartbeatTimer = FALSE,
                         !.reconnectTimer = @ \/ again]
  BY DEF OnDisconnected
<1>2. net' \in NetState
  BY <1>1 DEF IInv, ConnectionTypeOK, NetState, SocketState, ConnectionState
<1>3. /\ net'.socket = "unconnected" /\ net'.state = "Disconnected"
      /\ net'.connected = FALSE
      /\ net'.reconnectTimer <=> net.reconnectTimer \/ again
      /\ net'.reconnectEnabled = net.reconnectEnabled /\ net'.attempts = net.attempts
      /\ net'.userId = net.userId /\ net'.token = net.token
  BY <1>1 DEF IInv, ConnectionTypeOK, NetState
<1>4. LiveInv'
  BY <1>3 DEF IInv, LiveInv, Live
<1>5. LoginInv'
  BY <1>3 DEF IInv, LoginInv
<1>6. ~net'.reconnectTimer /\ isAuthenticated' => net'.attempts = MaxAttempts
  BY <1>3, ConnectionAssumption DEF IInv, LoginInv, ConnectionTypeOK, NetState
<1> QED
  BY <1>2, <1>3, <1>4, <1>5, <1>6, ClientActs DEF IInv, ConnectionTypeOK

LEMMA ReconnectStep ==
    ASSUME IInv, ReconnectTimerFires
    PROVE  IInv'
<1> USE DEF ReconnectTimerFires, loginVars
<1>1. net.reconnectTimer /\ net.socket \in {"unconnected", "connecting"}
      /\ net.state \in {"Disconnected", "AuthFailed"} /\ net.connected = FALSE
  BY DEF IInv, SocketInv, ReadyIsLoggedIn, ConnectionTypeOK, NetState, ConnectionState
<1>2. \/ /\ net.attempts = MaxAttempts
         /\ net' = [net EXCEPT !.reconnectTimer = FALSE]
      \/ /\ net.attempts < MaxAttempts
         /\ net' = [net EXCEPT !.socket = "connecting", !.reconnectTimer = FALSE,
                               !.attempts = @ + 1]
  BY <1>1, ConnectionAssumption DEF OnReconnectTimeout, Open, IInv, ConnectionTypeOK, NetState
<1>3. net' \in NetState
  BY <1>2, NetTyped DEF NetState, SocketState
<1>4. /\ net'.socket \in {"unconnected", "connecting"}
      /\ net'.socket = "unconnected" => net'.attempts = MaxAttempts
      /\ net'.state = net.state /\ net'.connected = FALSE
      /\ net'.reconnectTimer = FALSE /\ net'.reconnectEnabled = net.reconnectEnabled
      /\ net'.userId = net.userId /\ net'.token = net.token
  BY <1>1, <1>2 DEF IInv, ConnectionTypeOK, NetState
<1>5. LiveInv' /\ LoginInv'
  BY <1>1, <1>4 DEF IInv, LiveInv, Live, LoginInv
<1> QED
  BY <1>1, <1>3, <1>4, <1>5, ClientActs DEF IInv, ConnectionTypeOK

LEMMA RestartStep ==
    ASSUME IInv, ClientRestart
    PROVE  IInv'
<1> USE DEF ClientRestart, NetInit
<1>1. net' \in NetState
  BY ConnectionAssumption DEF NetState, SocketState, ConnectionState
<1>2. LiveInv' /\ LoginInv'
  BY DEF LiveInv, Live, LoginInv
<1> QED
  BY <1>1, <1>2, ClientActs DEF IInv, ConnectionTypeOK

-----------------------------------------------------------------------------
(***************************************************************************)
(* The login: the request, its handling by the server, and the answer      *)
(***************************************************************************)

LEMMA SocketConnectsStep ==
    ASSUME IInv, NEW c \in Conns, SocketConnects(c)
    PROVE  IInv'
<1> USE DEF SocketConnects, Attach, loginVars
<1>1. net' = [net EXCEPT !.socket = "connected", !.attempts = 0, !.reconnectTimer = FALSE,
                         !.state = "Authenticating"]
  BY DEF OnConnected
<1>2. net' \in NetState
  BY <1>1, NetTyped DEF NetState, SocketState, ConnectionState
<1>3. /\ net'.socket = "connected" /\ net'.state = "Authenticating"
      /\ net'.connected = net.connected /\ net'.reconnectTimer = FALSE
      /\ net'.reconnectEnabled = net.reconnectEnabled
      /\ net'.userId = net.userId /\ net'.token = net.token
  BY <1>1 DEF IInv, ConnectionTypeOK, NetState
<1>4. net.userId \in asked /\ net.userId \in Users /\ TokenIsOf(net.token, net.userId)
  BY DEF IInv, ConnectionTypeOK, LiveInv, Live
<1>5. conn = NoConn /\ ack = NoPacket /\ net.connected = FALSE
  BY DEF IInv, ConnectionTypeOK, SocketInv, WireInv, ReadyIsLoggedIn, NetState
<1>6. ConnectionTypeOK'
  <2>1. [user |-> net.userId, token |-> net.token] \in Request
    BY <1>4 DEF IInv, ConnectionTypeOK, NetState, Request
  <2>2. connectPacket' \in [Conns -> Request \cup {NoPacket}]
    BY <2>1 DEF IInv, ConnectionTypeOK
  <2>3. SessionTypeOK'
    BY DEF IInv, ConnectionTypeOK, SessionTypeOK, LinkState
  <2> QED
    BY <1>2, <2>2, <2>3 DEF IInv, ConnectionTypeOK
<1>7. LiveInv' /\ LoginInv'
  BY <1>3 DEF IInv, LiveInv, Live, LoginInv
<1>8. SocketInv'
  BY <1>3, SessionAssumption DEF SocketInv
<1>9. WireInv'
  BY <1>3, <1>4, <1>5 DEF IInv, ConnectionTypeOK, WireInv
<1>10. ReadyIsLoggedIn' /\ DatabaseIsOwn' /\ NeverStuck'
  BY <1>3, <1>5 DEF IInv, ReadyIsLoggedIn, DatabaseIsOwn, NeverStuck
<1> QED
  BY <1>6, <1>7, <1>8, <1>9, <1>10 DEF IInv

LEMMA HandleConnectStep ==
    ASSUME IInv, NEW c \in Conns, HandleConnect(c)
    PROVE  IInv'
<1> USE DEF HandleConnect, clientVars, loginVars
<1> DEFINE req == connectPacket[c]
           u == IF req.token = NoToken THEN req.user ELSE req.token.user
           granted == [code |-> 200, user |-> u, token |-> [user |-> u, issued |-> epoch]]
<1>1. /\ req \in Request /\ req # NoPacket
      /\ u \in Users
      /\ c = conn => u = net.userId
  <2>1. req \in Request /\ req # NoPacket
    BY DEF IInv, ConnectionTypeOK
  <2>2. u \in Users
    BY <2>1 DEF Request, Token
  <2>3. c = conn => req.user = net.userId /\ TokenIsOf(req.token, net.userId)
    BY <2>1, SessionAssumption DEF IInv, WireInv
  <2> QED
    BY <2>1, <2>2, <2>3 DEF TokenIsOf
<1>2. \/ /\ sessUser' = [sessUser EXCEPT ![c] = u] /\ userMap' = [userMap EXCEPT ![u] = c]
         /\ ack' = IF c = conn /\ link[c] = "up" THEN granted ELSE ack
      \/ /\ sessUser' = sessUser /\ userMap' = userMap
         /\ ack' = IF c = conn /\ link[c] = "up" THEN [code |-> 401] ELSE ack
  BY DEF Authenticate, sessionVars
<1>3. link' = link
  BY DEF Authenticate, sessionVars
<1>4. granted \in Ack /\ [code |-> 401] \in Ack
  BY <1>1 DEF Ack, Token, IInv, ConnectionTypeOK
<1> HIDE DEF u, req
<1>5. ConnectionTypeOK'
  <2>1. SessionTypeOK'
    BY <1>1, <1>2, <1>3 DEF IInv, ConnectionTypeOK, SessionTypeOK
  <2>2. ack' \in Ack \cup {NoPacket}
    BY <1>2, <1>4 DEF IInv, ConnectionTypeOK
  <2>3. connectPacket' \in [Conns -> Request \cup {NoPacket}]
    BY DEF IInv, ConnectionTypeOK
  <2> QED
    BY <2>1, <2>2, <2>3 DEF IInv, ConnectionTypeOK
<1>6. LiveInv' /\ SocketInv' /\ LoginInv'
  BY DEF IInv, LiveInv, Live, SocketInv, LoginInv
<1>7. WireInv'
  <2>1. CASE c = conn
    <3>1. net.state = "Authenticating" /\ ack = NoPacket /\ connectPacket'[conn] = NoPacket
      BY <1>1, <2>1, SessionAssumption DEF IInv, ConnectionTypeOK, WireInv, req
    <3> QED
      BY <1>1, <1>2, <1>3, <2>1, <3>1 DEF IInv, ConnectionTypeOK, SessionTypeOK, WireInv
  <2>2. CASE c # conn
    <3>1. ack' = ack
      BY <1>2, <2>2
    <3>2. conn # NoConn => sessUser'[conn] = sessUser[conn] /\ connectPacket'[conn] = connectPacket[conn]
      BY <1>2, <2>2 DEF IInv, ConnectionTypeOK, SessionTypeOK
    <3>3. ack # NoPacket => conn # NoConn
      BY DEF IInv, WireInv, SocketInv
    <3> QED
      BY <1>3, <3>1, <3>2, <3>3 DEF IInv, WireInv
  <2> QED
    BY <2>1, <2>2
<1>8. ReadyIsLoggedIn'
  BY <1>1, <1>2, <1>3 DEF IInv, ConnectionTypeOK, SessionTypeOK, ReadyIsLoggedIn, SocketInv
<1>9. DatabaseIsOwn' /\ NeverStuck'
  BY DEF IInv, DatabaseIsOwn, NeverStuck, LoginEnabled, GivenUp
<1> QED
  BY <1>5, <1>6, <1>7, <1>8, <1>9 DEF IInv

LEMMA ConnectAckStep ==
    ASSUME IInv, OnConnectAck
    PROVE  IInv'
<1> USE DEF OnConnectAck, sessionVars
<1>1. /\ ack.user \in Users /\ ack.token \in Token
      /\ ack.user = net.userId /\ ack.token.user = net.userId
      /\ net.state = "Authenticating" /\ net.socket = "connected" /\ ~net.reconnectTimer
      /\ link[conn] = "up" => sessUser[conn] = net.userId
  BY DEF IInv, ConnectionTypeOK, Ack, WireInv, SocketInv
<1>2. net' = [net EXCEPT !.connected = TRUE, !.state = "Ready", !.token = ack.token,
                         !.userId = ack.user, !.heartbeatTimer = TRUE]
  OBVIOUS
<1>3. net' \in NetState
  <2>1. net \in NetState
    BY DEF IInv, ConnectionTypeOK
  <2> QED
    BY <1>1, <1>2, <2>1, ZenonT(60) DEF NetState, ConnectionState
<1>4. /\ net'.socket = "connected" /\ net'.state = "Ready" /\ net'.connected = TRUE
      /\ net'.reconnectTimer = FALSE /\ net'.heartbeatTimer = TRUE
      /\ net'.reconnectEnabled = net.reconnectEnabled
      /\ net'.userId = net.userId /\ net'.token.user = net.userId
  BY <1>1, <1>2 DEF IInv, ConnectionTypeOK, NetState
<1>5. net.reconnectEnabled /\ net.userId \in asked /\ db \in {net.userId, NoUser}
  BY <1>1 DEF IInv, LiveInv, Live
<1>6. /\ authState' \in [Users -> Token \cup {NoToken}]
      /\ \A u \in Users : authState'[u] # NoToken => authState'[u].user = u
  BY <1>1, <1>5, SessionAssumption DEF SaveAuthState, IInv, ConnectionTypeOK, DatabaseIsOwn
<1>7. ConnectionTypeOK'
  BY <1>1, <1>3, <1>6 DEF IInv, ConnectionTypeOK, SessionTypeOK
<1>8. LiveInv' /\ LoginInv' /\ SocketInv'
  BY <1>1, <1>4, <1>5 DEF IInv, LiveInv, LoginInv, SocketInv, TokenIsOf
<1>9. WireInv'
  BY <1>1, <1>4 DEF IInv, WireInv
<1>10. ReadyIsLoggedIn' /\ DatabaseIsOwn' /\ NeverStuck'
  BY <1>1, <1>4, <1>5, <1>6 DEF ReadyIsLoggedIn, DatabaseIsOwn, NeverStuck
<1> QED
  BY <1>7, <1>8, <1>9, <1>10 DEF IInv

LEMMA RetryStep ==
    ASSUME IInv, RetryWithoutToken
    PROVE  IInv'
<1> USE DEF RetryWithoutToken
<1>1. net' = [net EXCEPT !.reconnectEnabled = TRUE, !.reconnectTimer = FALSE,
                         !.attempts = 0, !.connected = FALSE, !.heartbeatTimer = FALSE,
                         !.state = "Disconnected", !.socket = "closing",
                         !.userId = selfUserId, !.token = NoToken]
  BY DEF Close, ConnectToServer, Open, Reset, IInv, ConnectionTypeOK, NetState
<1>2. selfUserId \in asked /\ db \in {selfUserId, NoUser}
  BY DEF IInv, LoginInv, LiveInv, Live, WireInv, SocketInv
<1> HIDE DEF RetryWithoutToken
<1>3. net' \in NetState
  <2>1. selfUserId \in Users \cup {NoUser}
    BY DEF IInv, ConnectionTypeOK
  <2> QED
    BY <1>1, <2>1, NetTyped DEF NetState, SocketState, ConnectionState
<1>4. /\ net'.socket = "closing" /\ net'.state = "Disconnected" /\ net'.connected = FALSE
      /\ net'.reconnectTimer = FALSE /\ net'.reconnectEnabled = TRUE
      /\ net'.userId = selfUserId /\ net'.token = NoToken
  BY <1>1 DEF IInv, ConnectionTypeOK, NetState
<1> USE DEF RetryWithoutToken
<1>5. LiveInv' /\ LoginInv'
  BY <1>2, <1>4 DEF LiveInv, LoginInv, TokenIsOf
<1> QED
  BY <1>3, <1>4, <1>5, ClientActs, ClearedIsNone DEF IInv, ConnectionTypeOK

LEMMA AuthFailureStep ==
    ASSUME IInv, OnAuthFailure
    PROVE  IInv'
<1> USE DEF OnAuthFailure
<1>1. /\ net.socket = "connected" /\ net.state = "Authenticating"
      /\ net.connected = FALSE /\ ~net.reconnectTimer
  BY DEF IInv, WireInv, SocketInv, ReadyIsLoggedIn, ConnectionTypeOK, NetState
<1>2. net' = [net EXCEPT !.state = "AuthFailed", !.socket = "closing"]
  BY <1>1 DEF Close, IInv, ConnectionTypeOK, NetState
<1> HIDE DEF OnAuthFailure
<1>3. net' \in NetState
  BY <1>2, NetTyped DEF NetState, SocketState, ConnectionState
<1>4. /\ net'.socket = "closing" /\ net'.state = "AuthFailed" /\ net'.connected = FALSE
      /\ net'.reconnectTimer = FALSE /\ net'.reconnectEnabled = net.reconnectEnabled
      /\ net'.userId = net.userId /\ net'.token = net.token
  BY <1>1, <1>2, NetTyped DEF NetState
<1> USE DEF OnAuthFailure
<1>5. LiveInv' /\ LoginInv'
  BY <1>1, <1>4 DEF IInv, LiveInv, Live, LoginInv
<1> QED
  BY <1>3, <1>4, <1>5, ClientActs, ClearedIsNone DEF IInv, ConnectionTypeOK

-----------------------------------------------------------------------------
(***************************************************************************)
(* The environment                                                         *)
(***************************************************************************)

\* The server loses a session, or all: the client has not noticed yet
LEMMA ServerLoses ==
    ASSUME IInv, SessionTypeOK',
           connectPacket' \in [Conns -> Request \cup {NoPacket}],
           \A c \in Conns : connectPacket'[c] \in {connectPacket[c], NoPacket},
           \A c \in Conns : link'[c] = "up" => link[c] = "up" /\ sessUser'[c] = sessUser[c],
           epoch' \in 1..MaxEpoch,
           UNCHANGED <<clientVars, ack>>
    PROVE  IInv'
<1> USE DEF clientVars, loginVars
<1>1. ConnectionTypeOK'
  BY DEF IInv, ConnectionTypeOK
<1>2. LiveInv' /\ SocketInv' /\ LoginInv'
  BY DEF IInv, LiveInv, Live, SocketInv, LoginInv
<1>3. conn # NoConn => conn \in Conns
  BY DEF IInv, ConnectionTypeOK
<1>4. WireInv'
  <2>1. ack # NoPacket => conn # NoConn
    BY DEF IInv, WireInv, SocketInv
  <2> QED
    BY <1>3, <2>1 DEF IInv, WireInv
<1>5. ReadyIsLoggedIn'
  BY <1>3 DEF IInv, ReadyIsLoggedIn, SocketInv
<1>6. DatabaseIsOwn' /\ NeverStuck'
  BY DEF IInv, DatabaseIsOwn, NeverStuck, LoginEnabled, GivenUp
<1> QED
  BY <1>1, <1>2, <1>4, <1>5, <1>6 DEF IInv

LEMMA EnvironmentStep ==
    ASSUME IInv,
           \/ \E c \in Conns : ConnectionLost(c) \/ OnClientDisconnected(c)
           \/ TokensExpire
           \/ ServerStops
    PROVE  IInv'
<1> USE DEF IInv, ConnectionTypeOK, SessionTypeOK, LinkState
<1>1. ASSUME NEW c \in Conns, ConnectionLost(c) PROVE IInv'
  BY <1>1, ServerLoses DEF ConnectionLost, LinkFails, wireVars
<1>2. ASSUME NEW c \in Conns, OnClientDisconnected(c) PROVE IInv'
  BY <1>2, ServerLoses DEF OnClientDisconnected, Detach
<1>3. CASE TokensExpire
  BY <1>3, ServerLoses, ConnectionAssumption DEF TokensExpire, sessionVars, wireVars
<1>4. CASE ServerStops
  BY <1>4, ServerLoses DEF ServerStops, AllSessionsEnd
<1> QED
  BY <1>1, <1>2, <1>3, <1>4

-----------------------------------------------------------------------------

LEMMA NextIInv == IInv /\ [Next]_vars => IInv'
<1> SUFFICES ASSUME IInv, [Next]_vars PROVE IInv'
  OBVIOUS
<1>1. CASE Next
  BY <1>1, LoginStep, LoginWithoutDatabaseStep, LogoutStep, SocketConnectsStep,
     DisconnectedStep, ReconnectStep, HandleConnectStep, ConnectAckStep, RetryStep,
     AuthFailureStep, EnvironmentStep, RestartStep DEF Next
<1>2. CASE UNCHANGED vars
  BY <1>2, ServerLoses
  DEF vars, sessionVars, wireVars, IInv, ConnectionTypeOK, SessionTypeOK
<1> QED
  BY <1>1, <1>2

LEMMA Invariance == Spec => []IInv
  BY InitIInv, NextIInv, PTL DEF Spec

\* Every variable keeps its type, and no more than MAX_RECONNECT_ATTEMPTS attempts are made
\* in a row, for any users, connections and bound (NetworkService, scheduleReconnect).
THEOREM TypeCorrect == Spec => []ConnectionTypeOK
<1>1. IInv => ConnectionTypeOK
  BY DEF IInv
<1> QED
  BY <1>1, Invariance, PTL

\* A ready connection is that of the user the server has logged in on it (onAuthSuccess,
\* AuthHandler::handleConnect).
THEOREM ReadyLoggedIn == Spec => []ReadyIsLoggedIn
<1>1. IInv => ReadyIsLoggedIn
  BY DEF IInv
<1> QED
  BY <1>1, Invariance, PTL

\* Nobody is logged in unasked, and nothing reconnects after a logout
\* (disconnectFromServer).
THEOREM LoginAsked == Spec => []LoginWasAsked
<1>1. IInv => LoginWasAsked
  BY DEF IInv, ConnectionTypeOK, NetState, SocketState, LoginInv, LiveInv, Live, LoginWasAsked
<1> QED
  BY <1>1, Invariance, PTL

\* The open database, and the token stored in it, are the user's own
\* (DatabaseManager::open, saveAuthState).
THEOREM OwnDatabase == Spec => []DatabaseIsOwn
<1>1. IInv => DatabaseIsOwn
  BY DEF IInv
<1> QED
  BY <1>1, Invariance, PTL

\* Without a socket and a reconnect to come, the user can log in, or the client has used up
\* its attempts (scheduleReconnect, onAuthFailure).
THEOREM NotStuck == Spec => []NeverStuck
<1>1. IInv => NeverStuck
  BY DEF IInv
<1> QED
  BY <1>1, Invariance, PTL
=============================================================================
