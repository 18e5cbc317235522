-------------------------- MODULE SendMessageProofs --------------------------
(***************************************************************************)
(* Proofs about SendMessage for any messages and sessions, however often a *)
(* message is sent and the client restarted. What makes the invariant      *)
(* inductive is AcksAreTrue: an acknowledgement on the wire still says of  *)
(* its message what the server decided, whatever the client did meanwhile. *)
(***************************************************************************)
EXTENDS SendMessage, SequenceTheorems, TLAPS

\* The codes that are true of a message
TrueCodes(m) ==
    {code \in Codes : /\ code = 200 => m \in accepted
                      /\ code = 403 => m \in refused}

AcksAreTrue == \A m \in Messages : acks[m] \in Seq(TrueCodes(m))

IInv ==
    /\ TypeOK
    /\ AcksAreTrue
    /\ DeliveredWasAccepted
    /\ NoSilentGiveUp
    /\ SendingIsTimed

-----------------------------------------------------------------------------

LEMMA InitIInv == Init => IInv
<1> SUFFICES ASSUME Init PROVE IInv
  OBVIOUS
<1> USE DEF Init
<1>1. TypeOK
  <2>1. acks \in [Messages -> Seq(Codes)]
    BY EmptySeq
  <2>2. /\ status \in [Messages -> Status]
        /\ orphans \in [Messages -> Nat] /\ requests \in [Messages -> Nat]
        /\ sends \in [Messages -> 0..MaxSends] /\ restarts \in 0..MaxRestarts
    BY SendAssumption DEF Status
  <2> QED
    BY <2>1, <2>2 DEF TypeOK
<1>2. AcksAreTrue
  BY EmptySeq DEF AcksAreTrue
<1>3. DeliveredWasAccepted /\ NoSilentGiveUp /\ SendingIsTimed
  BY DEF DeliveredWasAccepted, NoSilentGiveUp, Stored, SendingIsTimed
<1> QED
  BY <1>1, <1>2, <1>3 DEF IInv

(***************************************************************************)
(* What the server decided is never taken back                             *)
(***************************************************************************)
LEMMA DecisionsStay ==
    ASSUME AcksAreTrue, accepted \subseteq accepted', refused \subseteq refused',
           \A m \in Messages : acks'[m] = acks[m]
    PROVE  AcksAreTrue'
<1>1. \A m \in Messages : TrueCodes(m) \subseteq TrueCodes(m)'
  BY DEF TrueCodes
<1> QED
  BY <1>1, SeqMonotonic DEF AcksAreTrue

(***************************************************************************)
(* Sending: Dispatch of the messages S of session s, on a table in which   *)
(* they are stored and pending. Those that are being sent are S or were    *)
(* sent before.                                                            *)
(***************************************************************************)
LEMMA DispatchStep ==
    ASSUME IInv,
           NEW s \in Sessions,
           NEW S \in SUBSET {m \in Messages : SessionOf[m] = s},
           NEW table \in [Messages -> Status],
           NEW pend \in SUBSET Messages,
           Dispatch(S, s, table, pend),
           \A m \in Messages \ S : table[m] = status[m] /\ (m \in pend <=> m \in pendingAcks),
           \A m \in S : table[m] # "none" /\ m \in pend,
           \A m \in S : table[m] = "Delivered" => status[m] = "Delivered",
           \A m \in pend : SessionOf[m] = sessionId' =>
               m \in S \/ sessionId' = sessionId,
           sessionId' \in Sessions \cup {NoSession},
           UNCHANGED <<routes, connected, acks, accepted, restarts>>
    PROVE  IInv'
<1> USE DEF Dispatch, Arm, ArmAndFail, Orphaned, SendText
<1>1. TypeOK'
  <2>1. sends' \in [Messages -> 0..MaxSends]
    BY SendAssumption DEF IInv, TypeOK
  <2>2. requests' \in [Messages -> Nat]
    <3>1. \A m \in Messages : requests[m] \in Nat /\ requests[m] + 1 \in Nat
      BY DEF IInv, TypeOK
    <3>2. requests' = requests \/ requests' = [m \in Messages |->
             IF m \in S /\ connected THEN requests[m] + 1 ELSE requests[m]]
      OBVIOUS
    <3> QED
      BY <3>1, <3>2 DEF IInv, TypeOK
  <2>3. orphans' \in [Messages -> Nat]
    <3>1. \A m \in Messages : orphans[m] \in Nat /\ orphans[m] + 1 \in Nat
      BY DEF IInv, TypeOK
    <3>2. orphans' = [m \in Messages |->
             IF m \in S /\ m \in pendingMessages THEN orphans[m] + 1 ELSE orphans[m]]
      OBVIOUS
    <3> QED
      BY <3>1, <3>2
  <2>4. status' \in [Messages -> Status]
    BY DEF IInv, TypeOK, Status
  <2>5. /\ pendingAcks' \subseteq Messages /\ pendingMessages' \subseteq Messages
        /\ refused' \subseteq Messages
    BY DEF IInv, TypeOK
  <2> QED
    BY <2>1, <2>2, <2>3, <2>4, <2>5 DEF IInv, TypeOK
<1>2. AcksAreTrue'
  BY DecisionsStay DEF IInv
<1>3. DeliveredWasAccepted'
  <2>1. \A m \in Messages : status'[m] = "Delivered" => status[m] = "Delivered"
    BY DEF IInv, TypeOK
  <2> QED
    BY <2>1 DEF IInv, DeliveredWasAccepted
<1>4. NoSilentGiveUp'
  BY DEF IInv, TypeOK, NoSilentGiveUp, Stored
<1>5. SendingIsTimed'
  <2> SUFFICES ASSUME NEW m \in Messages, status'[m] = "Sending"
               PROVE  m \in pendingAcks' /\ (SessionOf[m] = sessionId' => Timed(m)')
    BY DEF SendingIsTimed
  <2>1. CASE m \in S
    BY <2>1 DEF IInv, TypeOK, Timed
  <2>2. CASE m \notin S
    <3>1. status[m] = "Sending" /\ m \in pendingAcks /\ m \in pendingAcks'
      BY <2>2 DEF IInv, TypeOK, SendingIsTimed
    <3>2. Timed(m) => Timed(m)'
      BY <2>2 DEF IInv, TypeOK, Timed
    <3> QED
      BY <2>2, <3>1, <3>2 DEF IInv, SendingIsTimed
  <2> QED
    BY <2>1, <2>2
<1> QED
  BY <1>1, <1>2, <1>3, <1>4, <1>5 DEF IInv

LEMMA SendOneStep ==
    ASSUME IInv, NEW m \in Messages, DoSendMessage(m) \/ ResendMessage(m)
    PROVE  IInv'
<1> USE DEF DoSendMessage, ResendMessage
<1> DEFINE table == [status EXCEPT ![m] = "Sending"]
           pend == pendingAcks \cup {m}
<1>1. sessionId \in Sessions
  BY SendAssumption
<1>2. table \in [Messages -> Status] /\ pend \in SUBSET Messages
  BY DEF IInv, TypeOK, Status
<1>3. {m} \in SUBSET {n \in Messages : SessionOf[n] = sessionId}
  OBVIOUS
<1>4. Dispatch({m}, sessionId, table, pend)
  OBVIOUS
<1>5. /\ \A n \in Messages \ {m} :
            table[n] = status[n] /\ (n \in pend <=> n \in pendingAcks)
      /\ \A n \in {m} : table[n] = "Sending" /\ n \in pend
  BY DEF IInv, TypeOK
<1> HIDE DEF table, pend
<1> QED
  BY <1>1, <1>2, <1>3, <1>4, <1>5, DispatchStep

LEMMA SetSessionStep ==
    ASSUME IInv, NEW s \in Sessions \cup {NoSession}, SetSessionId(s)
    PROVE  IInv'
<1> USE DEF SetSessionId
<1>1. CASE s = NoSession
  <2>1. TypeOK' /\ DeliveredWasAccepted' /\ NoSilentGiveUp' /\ AcksAreTrue'
    BY <1>1, DecisionsStay DEF IInv, TypeOK, DeliveredWasAccepted, NoSilentGiveUp, Stored,
       tables, timers
  <2>2. SendingIsTimed'
    BY <1>1, SendAssumption DEF IInv, TypeOK, SendingIsTimed, Timed, tables, timers
  <2> QED
    BY <2>1, <2>2 DEF IInv
<1>2. CASE s # NoSession
  <2> DEFINE S == {m \in pendingAcks : SessionOf[m] = s}
  <2>1. /\ s \in Sessions
        /\ S \in SUBSET {m \in Messages : SessionOf[m] = s}
        /\ status \in [Messages -> Status] /\ pendingAcks \in SUBSET Messages
    BY <1>2 DEF IInv, TypeOK
  <2>2. \A m \in S : status[m] # "none"
    BY DEF IInv, TypeOK, NoSilentGiveUp, Stored
  <2>3. Dispatch(S, s, status, pendingAcks)
    BY <1>2
  <2> QED
    BY <2>1, <2>2, <2>3, DispatchStep
<1> QED
  BY <1>1, <1>2

-----------------------------------------------------------------------------
(***************************************************************************)
(* Acknowledgements and timeouts                                           *)
(***************************************************************************)

LEMMA AckTaken ==
    ASSUME IInv, NEW m \in Messages, acks[m] # <<>>,
           acks' = [acks EXCEPT ![m] = Tail(@)],
           UNCHANGED <<accepted, refused>>
    PROVE  /\ Head(acks[m]) \in TrueCodes(m)
           /\ acks' \in [Messages -> Seq(Codes)]
           /\ AcksAreTrue'
<1>1. acks \in [Messages -> Seq(Codes)] /\ acks[m] \in Seq(TrueCodes(m))
  BY DEF IInv, TypeOK, AcksAreTrue
<1>2. /\ Head(acks[m]) \in TrueCodes(m)
      /\ Tail(acks[m]) \in Seq(TrueCodes(m)) /\ Tail(acks[m]) \in Seq(Codes)
  BY <1>1, HeadTailProperties
<1>3. \A n \in Messages : TrueCodes(n)' = TrueCodes(n)
  BY DEF TrueCodes
<1> QED
  BY <1>1, <1>2, <1>3 DEF IInv, AcksAreTrue

LEMMA AckReceivedStep ==
    ASSUME IInv, NEW m \in Messages, OnAckReceived(m)
    PROVE  IInv'
<1>1. /\ acks[m] # <<>> /\ Head(acks[m]) = 200 /\ acks' = [acks EXCEPT ![m] = Tail(@)]
      /\ UNCHANGED <<accepted, refused>>
  BY DEF OnAckReceived
<1>2. UNCHANGED <<orphans, sessionId, routes, connected, requests, sends, restarts>>
  BY DEF OnAckReceived
<1>3. \/ /\ status' = [status EXCEPT ![m] = IF @ = "none" THEN "none" ELSE "Delivered"]
         /\ pendingAcks' = pendingAcks \ {m}
         /\ pendingMessages' = pendingMessages \ {m}
      \/ UNCHANGED <<status, pendingAcks, pendingMessages>>
  BY DEF OnAckReceived, SetStatus, tables
<1>4. /\ Head(acks[m]) \in TrueCodes(m)
      /\ acks' \in [Messages -> Seq(Codes)]
      /\ AcksAreTrue'
  <2>1. acks[m] # <<>> /\ acks' = [acks EXCEPT ![m] = Tail(@)]
    BY <1>1
  <2>2. UNCHANGED <<accepted, refused>>
    BY <1>1
  <2> QED
    BY <2>1, <2>2, AckTaken
<1>5. m \in accepted
  BY <1>1, <1>4 DEF TrueCodes
<1>6. TypeOK'
  <2>1. /\ status' \in [Messages -> Status]
        /\ pendingAcks' \subseteq Messages /\ pendingMessages' \subseteq Messages
    BY <1>3 DEF IInv, TypeOK, Status
  <2> QED
    BY <1>1, <1>2, <1>4, <2>1 DEF IInv, TypeOK
<1>7. DeliveredWasAccepted'
  BY <1>1, <1>3, <1>5 DEF IInv, TypeOK, DeliveredWasAccepted
<1>8. NoSilentGiveUp'
  BY <1>1, <1>3, <1>5 DEF IInv, TypeOK, NoSilentGiveUp, Stored
<1>9. SendingIsTimed'
  BY <1>2, <1>3 DEF IInv, TypeOK, SendingIsTimed, Timed
<1> QED
  BY <1>4, <1>6, <1>7, <1>8, <1>9 DEF IInv

LEMMA AckFailedStep ==
    ASSUME IInv, NEW m \in Messages, OnAckFailed(m)
    PROVE  IInv'
<1> USE DEF OnAckFailed, SetStatus
<1>1. /\ Head(acks[m]) \in TrueCodes(m)
      /\ acks' \in [Messages -> Seq(Codes)]
      /\ AcksAreTrue'
  BY AckTaken
<1>2. Head(acks[m]) < 500 => m \in refused
  BY <1>1 DEF TrueCodes, Codes
<1>3. TypeOK'
  BY <1>1 DEF IInv, TypeOK, Status
<1>4. DeliveredWasAccepted' /\ NoSilentGiveUp'
  BY <1>2 DEF IInv, TypeOK, DeliveredWasAccepted, NoSilentGiveUp, Stored
<1>5. SendingIsTimed'
  BY DEF IInv, TypeOK, SendingIsTimed, Timed
<1> QED
  BY <1>1, <1>3, <1>4, <1>5 DEF IInv

LEMMA TimeoutStep ==
    ASSUME IInv, NEW m \in Messages, OnSendTimeout(m)
    PROVE  IInv'
<1> USE DEF OnSendTimeout, TimerFires, SetStatus, wire
<1>1. TypeOK'
  <2>1. orphans' \in [Messages -> Nat]
    <3>1. orphans \in [Messages -> Nat]
      BY DEF IInv, TypeOK
    <3>2. \/ UNCHANGED orphans
          \/ orphans[m] > 0 /\ orphans' =
                [orphans EXCEPT ![m] = IF m \in pendingMessages THEN @ ELSE @ - 1]
      OBVIOUS
    <3> QED
      BY <3>1, <3>2
  <2>2. status' \in [Messages -> Status]
    BY DEF IInv, TypeOK, Status
  <2> QED
    BY <2>1, <2>2 DEF IInv, TypeOK
<1>2. AcksAreTrue'
  BY DecisionsStay DEF IInv
<1>3. DeliveredWasAccepted' /\ NoSilentGiveUp'
  BY DEF IInv, TypeOK, DeliveredWasAccepted, NoSilentGiveUp, Stored
<1>4. SendingIsTimed'
  BY DEF IInv, TypeOK, SendingIsTimed, Timed
<1> QED
  BY <1>1, <1>2, <1>3, <1>4 DEF IInv

-----------------------------------------------------------------------------
(***************************************************************************)
(* The environment                                                         *)
(***************************************************************************)

LEMMA ServerStep ==
    ASSUME IInv, NEW m \in Messages, ServerReads(m)
    PROVE  IInv'
<1> USE DEF ServerReads, tables, timers
<1>1. AcksAreTrue' /\ acks' \in [Messages -> Seq(Codes)]
  <2>1. CASE UNCHANGED <<acks, accepted, refused>>
    BY <2>1, DecisionsStay DEF IInv, TypeOK
  <2>2. ASSUME NEW code \in Codes,
               acks' = [acks EXCEPT ![m] = Append(@, code)],
               accepted' = IF code = 200 THEN accepted \cup {m} ELSE accepted,
               refused' = IF code = 403 THEN refused \cup {m} ELSE refused
        PROVE  AcksAreTrue' /\ acks' \in [Messages -> Seq(Codes)]
    <3>1. \A n \in Messages : TrueCodes(n) \subseteq TrueCodes(n)'
      BY <2>2 DEF TrueCodes
    <3>2. \A n \in Messages : acks[n] \in Seq(TrueCodes(n)')
      BY <3>1, SeqMonotonic DEF IInv, AcksAreTrue
    <3>3. code \in TrueCodes(m)'
      BY <2>2 DEF TrueCodes
    <3>4. Append(acks[m], code) \in Seq(TrueCodes(m)')
      BY <3>2, <3>3, AppendProperties
    <3>5. Append(acks[m], code) \in Seq(Codes)
      BY AppendProperties DEF IInv, TypeOK
    <3> QED
      BY <2>2, <3>2, <3>4, <3>5 DEF IInv, TypeOK, AcksAreTrue
  <2> QED
    BY <2>1, <2>2
<1>2. TypeOK'
  <2>1. requests' \in [Messages -> Nat]
    BY DEF IInv, TypeOK
  <2>2. accepted' \subseteq Messages /\ refused' \subseteq Messages
    BY DEF IInv, TypeOK
  <2> QED
    BY <1>1, <2>1, <2>2 DEF IInv, TypeOK
<1>3. DeliveredWasAccepted' /\ NoSilentGiveUp'
  BY DEF IInv, TypeOK, DeliveredWasAccepted, NoSilentGiveUp, Stored
<1>4. SendingIsTimed'
  BY DEF IInv, TypeOK, SendingIsTimed, Timed
<1> QED
  BY <1>1, <1>2, <1>3, <1>4 DEF IInv

LEMMA ConnectionStep ==
    ASSUME IInv, Connected \/ Disconnected
    PROVE  IInv'
<1> USE DEF Connected, Disconnected, tables, timers
<1>1. TypeOK' /\ AcksAreTrue'
  <2>1. CASE Connected
    BY <2>1, DecisionsStay DEF IInv, TypeOK
  <2>2. CASE Disconnected
    <3>1. acks' \in [Messages -> Seq(Codes)] /\ AcksAreTrue'
      BY <2>2, EmptySeq DEF AcksAreTrue
    <3> QED
      BY <2>2, <3>1 DEF IInv, TypeOK
  <2> QED
    BY <2>1, <2>2
<1>2. DeliveredWasAccepted' /\ NoSilentGiveUp'
  BY DEF IInv, TypeOK, DeliveredWasAccepted, NoSilentGiveUp, Stored
<1>3. SendingIsTimed'
  BY DEF IInv, TypeOK, SendingIsTimed, Timed
<1> QED
  BY <1>1, <1>2, <1>3 DEF IInv

LEMMA RouteStep ==
    ASSUME IInv, NEW s \in Sessions, RouteLearned(s) \/ GroupRowRemoved(s) \/ DeleteSession(s)
    PROVE  IInv'
<1> USE DEF RouteLearned, GroupRowRemoved, DeleteSession, RemoveMessages, Close, tables,
            timers, wire
<1>1. TypeOK'
  <2>1. routes' \in [Sessions -> PrivateRoutes \cup GroupRoutes]
    BY DEF IInv, TypeOK, PrivateRoutes, GroupRoutes
  <2>2. status' \in [Messages -> Status] /\ pendingAcks' \subseteq Messages
    BY DEF IInv, TypeOK, Status
  <2> QED
    BY <2>1, <2>2 DEF IInv, TypeOK
<1>2. AcksAreTrue'
  BY DecisionsStay DEF IInv
<1>3. DeliveredWasAccepted' /\ NoSilentGiveUp'
  BY DEF IInv, TypeOK, DeliveredWasAccepted, NoSilentGiveUp, Stored
<1>4. SendingIsTimed'
  BY SendAssumption DEF IInv, TypeOK, SendingIsTimed, Timed
<1> QED
  BY <1>1, <1>2, <1>3, <1>4 DEF IInv

LEMMA RestartStep ==
    ASSUME IInv, ClientRestart
    PROVE  IInv'
<1> USE DEF ClientRestart, tables
<1>1. acks' \in [Messages -> Seq(Codes)] /\ AcksAreTrue'
  BY EmptySeq DEF AcksAreTrue
<1>2. TypeOK'
  <2>1. /\ orphans' \in [Messages -> Nat] /\ requests' \in [Messages -> Nat]
        /\ restarts' \in 0..MaxRestarts
    BY SendAssumption DEF IInv, TypeOK
  <2> QED
    BY <1>1, <2>1 DEF IInv, TypeOK
<1>3. DeliveredWasAccepted' /\ NoSilentGiveUp'
  BY DEF IInv, TypeOK, DeliveredWasAccepted, NoSilentGiveUp, Stored
<1>4. SendingIsTimed'
  BY SendAssumption DEF IInv, TypeOK, SendingIsTimed
<1> QED
  BY <1>1, <1>2, <1>3, <1>4 DEF IInv

-----------------------------------------------------------------------------

LEMMA NextIInv == IInv /\ [Next]_vars => IInv'
<1> SUFFICES ASSUME IInv, [Next]_vars PROVE IInv'
  OBVIOUS
<1>1. CASE Next
  BY <1>1, SendOneStep, SetSessionStep, AckReceivedStep, AckFailedStep, TimeoutStep,
     ServerStep, ConnectionStep, RouteStep, RestartStep DEF Next
<1>2. CASE UNCHANGED vars
  <2> USE <1>2 DEF vars, tables, timers, wire
  <2>1. TypeOK' /\ DeliveredWasAccepted' /\ NoSilentGiveUp' /\ SendingIsTimed'
    BY DEF IInv, TypeOK, DeliveredWasAccepted, NoSilentGiveUp, Stored, SendingIsTimed, Timed
  <2>2. AcksAreTrue'
    BY DecisionsStay DEF IInv
  <2> QED
    BY <2>1, <2>2 DEF IInv
<1> QED
  BY <1>1, <1>2

LEMMA Invariance == Spec => []IInv
  BY InitIInv, NextIInv, PTL DEF Spec

\* Every variable keeps its type, for any number of messages, sendings and restarts
\* (SendMessageUseCase).
THEOREM TypeCorrect == Spec => []TypeOK
<1>1. IInv => TypeOK
  BY DEF IInv
<1> QED
  BY <1>1, Invariance, PTL

\* A message shown as delivered was accepted by the server (onAckReceived).
THEOREM DeliveredAccepted == Spec => []DeliveredWasAccepted
<1>1. IInv => DeliveredWasAccepted
  BY DEF IInv
<1> QED
  BY <1>1, Invariance, PTL

\* A stored message leaves pending_acks only accepted or refused for good, and pending_acks
\* names only stored messages (onSendTimeout, onAckFailed, SessionRepository::remove).
THEOREM NothingGivenUp == Spec => []NoSilentGiveUp
<1>1. IInv => NoSilentGiveUp
  BY DEF IInv
<1> QED
  BY <1>1, Invariance, PTL

\* A message being sent is pending, and has a running timer while its session is open
\* (startAckTimer, recoverPendingMessages).
THEOREM SendingTimed == Spec => []SendingIsTimed
<1>1. IInv => SendingIsTimed
  BY DEF IInv
<1> QED
  BY <1>1, Invariance, PTL
=============================================================================
