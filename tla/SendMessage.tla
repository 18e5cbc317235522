----------------------------- MODULE SendMessage -----------------------------
(***************************************************************************)
(* The client's SendMessageUseCase: a message is stored as Sending and as  *)
(* a pending acknowledgement, a 3 s timer is started and the packet        *)
(* written; an acknowledgement or the timer ends it, and a pending message *)
(* is sent again by the user or when its session is opened. Everything     *)
(* runs on the client's only thread, so an action is one event handler.    *)
(*                                                                         *)
(* The server is what MessageDelivery shows of it: each request it reads   *)
(* is answered, or ignored. Handlers of different messages touch different *)
(* state, so the wire is kept per message.                                 *)
(***************************************************************************)
EXTENDS Integers, Sequences, FiniteSets

CONSTANTS
    Messages,       \* msgIds, a UUID each
    Sessions,       \* session ids
    SessionOf,      \* the session a message is written in
    NoSession,      \* no session is open
    MaxSends,       \* bound on the number of times a message is sent
    MaxRestarts     \* bound on restarts of the client

ASSUME SendAssumption ==
    /\ SessionOf \in [Messages -> Sessions]
    /\ NoSession \notin Sessions
    /\ MaxSends \in Nat /\ MaxRestarts \in Nat

VARIABLES
    status,             \* messages.status, "none" without a row
    pendingAcks,        \* pending_acks table
    pendingMessages,    \* m_pendingMessages: messages whose latest timer is known
    orphans,            \* running timers of a message that m_pendingMessages does not name
    sessionId,          \* ChatViewModel::m_sessionId
    routes,             \* what the local tables say of each session
    connected,          \* NetworkService::m_connected
    requests,           \* send_message packets on the wire, per message
    acks,               \* codes of the send_message_acks on the wire, per message
    \* what the system is observed to do
    accepted,           \* messages the server has answered with 200
    refused,            \* messages refused for good: by the server, or for want of a route
    sends,              \* how often each message was sent
    restarts

tables == <<status, pendingAcks>>
timers == <<pendingMessages, orphans>>
wire == <<connected, requests, acks>>
vars == <<tables, timers, sessionId, routes, wire, accepted, refused, sends, restarts>>

Status == {"none", "Sending", "Delivered", "Failed"}

\* a private session may lack its peer, a group session its group row
PrivateRoutes == {"private", "noPeer"}
GroupRoutes == {"group", "noGroup"}

Codes == {200, 403, 500}

Init ==
    /\ status = [m \in Messages |-> "none"]
    /\ pendingAcks = {}
    /\ pendingMessages = {}
    /\ orphans = [m \in Messages |-> 0]
    /\ sessionId = NoSession
    /\ routes \in [Sessions -> PrivateRoutes \cup GroupRoutes]
    /\ connected = FALSE
    /\ requests = [m \in Messages |-> 0]
    /\ acks = [m \in Messages |-> <<>>]
    /\ accepted = {}
    /\ refused = {}
    /\ sends = [m \in Messages |-> 0]
    /\ restarts = 0

-----------------------------------------------------------------------------
(***************************************************************************)
(* startAckTimer, failMessage and sendText, each for a set of messages     *)
(***************************************************************************)

\* A running timer that is no longer named by m_pendingMessages
Orphaned(S) ==
    [m \in Messages |-> IF m \in S /\ m \in pendingMessages
                        THEN orphans[m] + 1 ELSE orphans[m]]

\* startAckTimer overwrites the entry of m_pendingMessages: an older timer keeps running
Arm(S) ==
    /\ pendingMessages' = pendingMessages \cup S
    /\ orphans' = Orphaned(S)

\* startAckTimer, then failMessage stops that timer and erases the entry
ArmAndFail(S) ==
    /\ pendingMessages' = pendingMessages \ S
    /\ orphans' = Orphaned(S)

\* sendText writes nothing unless the connection is ready
SendText(S) ==
    requests' = [m \in Messages |-> IF m \in S /\ connected THEN requests[m] + 1
                                    ELSE requests[m]]

(***************************************************************************)
(* The end of sendMessage, resendMessage and of each round of              *)
(* recoverPendingMessages: the messages S of session s are sent, or fail   *)
(* for good when the session has no route. `table` is messages.status as   *)
(* it is then, `pend` pending_acks.                                        *)
(***************************************************************************)
Dispatch(S, s, table, pend) ==
    /\ \A m \in S : sends[m] < MaxSends
    /\ sends' = [m \in Messages |-> IF m \in S THEN sends[m] + 1 ELSE sends[m]]
    /\ IF routes[s] \in {"private", "group"}
       THEN /\ status' = table
            /\ pendingAcks' = pend
            /\ Arm(S)
            /\ SendText(S)
            /\ UNCHANGED refused
       ELSE /\ status' = [m \in Messages |-> IF m \in S THEN "Failed" ELSE table[m]]
            /\ pendingAcks' = pend \ S
            /\ ArmAndFail(S)
            /\ refused' = refused \cup S
            /\ UNCHANGED requests

\* sendMessage; the input bar is enabled while canSend holds. A group session without
\* its group row is refused before anything is stored.
DoSendMessage(m) ==
    /\ status[m] = "none" /\ sends[m] = 0 /\ SessionOf[m] = sessionId /\ connected
    /\ routes[sessionId] # "noGroup"
    /\ Dispatch({m}, sessionId, [status EXCEPT ![m] = "Sending"], pendingAcks \cup {m})
    /\ UNCHANGED <<sessionId, routes, connected, acks, accepted, restarts>>

\* resendMessage; a message of the open session that failed shows a button for it
ResendMessage(m) ==
    /\ status[m] = "Failed" /\ SessionOf[m] = sessionId
    /\ Dispatch({m}, sessionId, [status EXCEPT ![m] = "Sending"], pendingAcks \cup {m})
    /\ UNCHANGED <<sessionId, routes, connected, acks, accepted, restarts>>

\* Fault: opening a session does not recover its pending messages
SetSessionIdUntimed(s) ==
    /\ s # sessionId
    /\ sessionId' = s
    /\ UNCHANGED <<tables, timers, routes, wire, accepted, refused, sends, restarts>>

\* ChatViewModel::setSessionId, recoverPendingMessages
SetSessionId(s) ==
    /\ s # sessionId
    /\ sessionId' = s
    /\ IF s = NoSession
       THEN UNCHANGED <<tables, timers, requests, refused, sends>>
       ELSE Dispatch({m \in pendingAcks : SessionOf[m] = s}, s, status, pendingAcks)
    /\ UNCHANGED <<routes, connected, acks, accepted, restarts>>

-----------------------------------------------------------------------------
(***************************************************************************)
(* Acknowledgements and timeouts                                           *)
(***************************************************************************)

\* updateMessageStatus: a message whose session was deleted has no row
SetStatus(m, s) ==
    status' = [status EXCEPT ![m] = IF @ = "none" THEN "none" ELSE s]

\* Fault: any answer with a code counts as success
OnAnyAckReceived(m) ==
    /\ acks[m] # <<>>
    /\ acks' = [acks EXCEPT ![m] = Tail(@)]
    /\ SetStatus(m, "Delivered")
    /\ pendingAcks' = pendingAcks \ {m}
    /\ pendingMessages' = pendingMessages \ {m}
    /\ UNCHANGED <<orphans, sessionId, routes, connected, requests, accepted, refused,
                   sends, restarts>>

\* onAckReceived; without an entry the acknowledgement is ignored
OnAckReceived(m) ==
    /\ acks[m] # <<>> /\ Head(acks[m]) = 200
    /\ acks' = [acks EXCEPT ![m] = Tail(@)]
    /\ IF m \in pendingMessages
       THEN /\ SetStatus(m, "Delivered")
            /\ pendingAcks' = pendingAcks \ {m}
            /\ pendingMessages' = pendingMessages \ {m}
       ELSE UNCHANGED <<tables, pendingMessages>>
    /\ UNCHANGED <<orphans, sessionId, routes, connected, requests, accepted, refused,
                   sends, restarts>>

\* onAckFailed, entry or not; after a server error the message stays pending
OnAckFailed(m) ==
    /\ acks[m] # <<>> /\ Head(acks[m]) # 200
    /\ acks' = [acks EXCEPT ![m] = Tail(@)]
    /\ pendingMessages' = pendingMessages \ {m}
    /\ SetStatus(m, "Failed")
    /\ pendingAcks' = IF Head(acks[m]) < 500 THEN pendingAcks \ {m} ELSE pendingAcks
    /\ UNCHANGED <<orphans, sessionId, routes, connected, requests, accepted, refused,
                   sends, restarts>>

\* Fault: a stopped timer still counts as running
AnyTimerFires(m) ==
    orphans' = [orphans EXCEPT ![m] = IF m \in pendingMessages THEN @ ELSE @ - 1]

\* The timer that fires is the one of the entry, or an orphan: then the entry goes, and
\* the timer it named becomes an orphan
TimerFires(m) ==
    \/ /\ m \in pendingMessages
       /\ UNCHANGED orphans
    \/ /\ orphans[m] > 0
       /\ orphans' = [orphans EXCEPT ![m] = IF m \in pendingMessages THEN @ ELSE @ - 1]

\* Fault: a message that timed out is given up
OnSendTimeoutForGood(m) ==
    /\ TimerFires(m)
    /\ pendingMessages' = pendingMessages \ {m}
    /\ SetStatus(m, "Failed")
    /\ pendingAcks' = pendingAcks \ {m}
    /\ UNCHANGED <<sessionId, routes, wire, accepted, refused, sends, restarts>>

\* onSendTimeout
OnSendTimeout(m) ==
    /\ TimerFires(m)
    /\ pendingMessages' = pendingMessages \ {m}
    /\ SetStatus(m, "Failed")
    /\ UNCHANGED <<pendingAcks, sessionId, routes, wire, accepted, refused, sends, restarts>>

-----------------------------------------------------------------------------
(***************************************************************************)
(* The environment: server, network, local tables, process                 *)
(***************************************************************************)

\* The server reads a request; it ignores a repeated group message whose first copy is
\* still in flight
ServerReads(m) ==
    /\ requests[m] > 0
    /\ requests' = [requests EXCEPT ![m] = @ - 1]
    /\ \/ \E code \in Codes :
             /\ acks' = [acks EXCEPT ![m] = Append(@, code)]
             /\ accepted' = IF code = 200 THEN accepted \cup {m} ELSE accepted
             /\ refused' = IF code = 403 THEN refused \cup {m} ELSE refused
       \/ UNCHANGED <<acks, accepted, refused>>
    /\ UNCHANGED <<tables, timers, sessionId, routes, connected, sends, restarts>>

\* NetworkService reaches the state Ready
Connected ==
    /\ ~connected /\ connected' = TRUE
    /\ UNCHANGED <<tables, timers, sessionId, routes, requests, acks, accepted, refused,
                   sends, restarts>>

\* The socket closes: what is on the wire is lost
Disconnected ==
    /\ connected /\ connected' = FALSE
    /\ requests' = [m \in Messages |-> 0]
    /\ acks' = [m \in Messages |-> <<>>]
    /\ UNCHANGED <<tables, timers, sessionId, routes, accepted, refused, sends, restarts>>

Close(s) == sessionId' = IF s = sessionId THEN NoSession ELSE sessionId

\* A peer or a group row is learned
RouteLearned(s) ==
    /\ \/ routes[s] = "noPeer" /\ routes' = [routes EXCEPT ![s] = "private"]
       \/ routes[s] = "noGroup" /\ routes' = [routes EXCEPT ![s] = "group"]
    /\ UNCHANGED <<tables, timers, sessionId, wire, accepted, refused, sends, restarts>>

\* applyGroupList removes a group whose session it then fails to remove
GroupRowRemoved(s) ==
    /\ routes[s] = "group" /\ routes' = [routes EXCEPT ![s] = "noGroup"]
    /\ Close(s)
    /\ UNCHANGED <<tables, timers, wire, accepted, refused, sends, restarts>>

\* SessionRepository::remove
RemoveMessages(s) ==
    /\ status' = [m \in Messages |-> IF SessionOf[m] = s THEN "none" ELSE status[m]]
    /\ pendingAcks' = {m \in pendingAcks : SessionOf[m] # s}

\* deleteSession by the user, or applyGroupList with the row of the group. The timers of
\* its messages keep running, and what is on the wire stays there.
DeleteSession(s) ==
    /\ RemoveMessages(s)
    /\ Close(s)
    /\ \E r \in IF routes[s] = "group" THEN GroupRoutes
               ELSE IF routes[s] = "private" THEN {"noPeer"} ELSE {routes[s]} :
          routes' = [routes EXCEPT ![s] = r]
    /\ UNCHANGED <<timers, wire, accepted, refused, sends, restarts>>

\* The client stops or dies, and starts again: the tables stay
ClientRestart ==
    /\ restarts < MaxRestarts
    /\ restarts' = restarts + 1
    /\ pendingMessages' = {}
    /\ orphans' = [m \in Messages |-> 0]
    /\ sessionId' = NoSession
    /\ connected' = FALSE
    /\ requests' = [m \in Messages |-> 0]
    /\ acks' = [m \in Messages |-> <<>>]
    /\ UNCHANGED <<tables, routes, accepted, refused, sends>>

Next ==
    \/ \E m \in Messages : DoSendMessage(m)
    \/ \E m \in Messages : ResendMessage(m)
    \/ \E s \in Sessions \cup {NoSession} : SetSessionId(s)
    \/ \E m \in Messages : OnAckReceived(m)
    \/ \E m \in Messages : OnAckFailed(m)
    \/ \E m \in Messages : OnSendTimeout(m)
    \/ \E m \in Messages : ServerReads(m)
    \/ Connected
    \/ Disconnected
    \/ \E s \in Sessions : RouteLearned(s)
    \/ \E s \in Sessions : GroupRowRemoved(s)
    \/ \E s \in Sessions : DeleteSession(s)
    \/ ClientRestart

Spec == Init /\ [][Next]_vars

\* A timer that was started fires. Nothing else is certain: the server may be
\* unreachable, the user may do nothing.
FairSpec == Spec /\ \A m \in Messages : WF_vars(OnSendTimeout(m))

-----------------------------------------------------------------------------
(***************************************************************************)
(* Properties                                                              *)
(***************************************************************************)

Stored(m) == status[m] # "none"
Timed(m) == m \in pendingMessages \/ orphans[m] > 0

\* Every variable keeps its type; no more timers stop than were started.
TypeOK ==
    /\ status \in [Messages -> Status]
    /\ pendingAcks \subseteq Messages
    /\ pendingMessages \subseteq Messages
    /\ orphans \in [Messages -> Nat]
    /\ sessionId \in Sessions \cup {NoSession}
    /\ routes \in [Sessions -> PrivateRoutes \cup GroupRoutes]
    /\ connected \in BOOLEAN
    /\ requests \in [Messages -> Nat]
    /\ acks \in [Messages -> Seq(Codes)]
    /\ accepted \subseteq Messages
    /\ refused \subseteq Messages
    /\ sends \in [Messages -> 0..MaxSends]
    /\ restarts \in 0..MaxRestarts

\* A message shown as delivered was accepted by the server, whatever was lost, repeated
\* or late on the way (onAckReceived).
DeliveredWasAccepted ==
    \A m \in Messages : status[m] = "Delivered" => m \in accepted

\* A stored message leaves pending_acks only when the server has accepted it or it is
\* refused for good: neither a timeout, a server error, a lost connection nor a restart
\* makes the client give it up. And none stays there whose session was deleted: it would
\* be sent if it came back.
NoSilentGiveUp ==
    \A m \in Messages :
        /\ Stored(m) /\ m \notin pendingAcks => m \in accepted \cup refused
        /\ m \in pendingAcks => Stored(m)

\* A message shown as being sent in the open session has a running timer, after any
\* sequence of resends, session switches and restarts; in another session it is at least
\* in pending_acks, so that opening that session sends it again (startAckTimer,
\* recoverPendingMessages).
SendingIsTimed ==
    \A m \in Messages : status[m] = "Sending" =>
        /\ m \in pendingAcks
        /\ SessionOf[m] = sessionId => Timed(m)

\* A message shown as being sent does not stay so while its session stays open.
SendingEnds ==
    \A m \in Messages :
        status[m] = "Sending" /\ SessionOf[m] = sessionId
            ~> status[m] # "Sending" \/ SessionOf[m] # sessionId

\* Message::markFailed: only a message being sent can fail.
FailedOnlyFromSending ==
    [][\A m \in Messages :
          status[m] # "Failed" /\ status'[m] = "Failed" => status[m] \in {"none", "Sending"}]_vars
=============================================================================
