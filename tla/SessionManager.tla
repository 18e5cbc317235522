--------------------------- MODULE SessionManager ---------------------------
(***************************************************************************)
(* server/src/services/session_manager.cpp: the registry of WebSocket      *)
(* sessions, kept on the server's main thread, together with the state of  *)
(* the sockets themselves, which the registry learns about only through    *)
(* the `disconnected` signal.                                              *)
(*                                                                         *)
(* The operators below are the state changes of the registry's methods.    *)
(* The handlers that call them are actions of the modules that extend this *)
(* one: each of them says what happens to every variable of its module.    *)
(***************************************************************************)
EXTENDS Naturals

CONSTANTS
    Users,      \* user ids
    Conns,      \* connection ids: a UUID each, so none is ever used twice
    NoUser,     \* userId() of a session that is not authenticated
    NoConn      \* m_userMap has no entry

ASSUME SessionAssumption ==
    /\ NoUser \notin Users
    /\ NoConn \notin Conns

VARIABLES
    link,       \* the socket behind each connection id, see LinkState
    sessUser,   \* ClientSession::m_userId
    userMap     \* m_userMap: user id -> connection id

sessionVars == <<link, sessUser, userMap>>

(***************************************************************************)
(* A socket is "up", or "down" once its peer is unreachable or has closed: *)
(* what the server writes is then lost, but until the disconnected signal  *)
(* is handled ("closed") the session stays registered.                     *)
(***************************************************************************)
LinkState == {"unused", "up", "down", "closed"}

SessionTypeOK ==
    /\ link \in [Conns -> LinkState]
    /\ sessUser \in [Conns -> Users \cup {NoUser}]
    /\ userMap \in [Users -> Conns \cup {NoConn}]

SessionInit ==
    /\ link = [c \in Conns |-> "unused"]
    /\ sessUser = [c \in Conns |-> NoUser]
    /\ userMap = [u \in Users |-> NoConn]

-----------------------------------------------------------------------------

\* m_connections.contains(c)
Attached(c) == link[c] \in {"up", "down"}

IsAuthenticated(c) == Attached(c) /\ sessUser[c] # NoUser

\* findByUserId(u) # nullptr: the map has an entry and it names a registered session
Online(u) == userMap[u] # NoConn /\ Attached(userMap[u])

\* ServerApp::onNewConnection, attach
Attach(c) ==
    /\ link[c] = "unused"
    /\ link' = [link EXCEPT ![c] = "up"]
    /\ UNCHANGED <<sessUser, userMap>>

\* markAuthenticated and m_userMap.insert, whatever the map held for u before
Authenticate(c, u) ==
    /\ Attached(c)
    /\ sessUser' = [sessUser EXCEPT ![c] = u]
    /\ userMap' = [userMap EXCEPT ![u] = c]
    /\ UNCHANGED link

\* Fault: a session that is not the user's current one leaves its entry alone
DetachCurrent(c) ==
    /\ link[c] = "down"
    /\ link' = [link EXCEPT ![c] = "closed"]
    /\ userMap' = [u \in Users |-> IF userMap[u] = c THEN NoConn ELSE userMap[u]]
    /\ sessUser' = [sessUser EXCEPT ![c] = NoUser]

\* detach removes m_userMap[userId] without looking at the connection it names;
\* the session object is deleted by the caller, ServerApp::onClientDisconnected
Detach(c) ==
    /\ link[c] = "down"
    /\ link' = [link EXCEPT ![c] = "closed"]
    /\ userMap' = [u \in Users |-> IF u = sessUser[c] THEN NoConn ELSE userMap[u]]
    /\ sessUser' = [sessUser EXCEPT ![c] = NoUser]

\* The peer goes away, or sweepTimeouts closes a socket without recent heartbeats
LinkFails(c) ==
    /\ link[c] = "up"
    /\ link' = [link EXCEPT ![c] = "down"]
    /\ UNCHANGED <<sessUser, userMap>>

\* The process ends and takes every session with it
AllSessionsEnd ==
    /\ link' = [c \in Conns |-> IF link[c] = "unused" THEN "unused" ELSE "closed"]
    /\ sessUser' = [c \in Conns |-> NoUser]
    /\ userMap' = [u \in Users |-> NoConn]
=============================================================================
