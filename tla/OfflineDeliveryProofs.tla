------------------------ MODULE OfflineDeliveryProofs ------------------------
(***************************************************************************)
(* Proofs about OfflineDelivery for any set of users, connections and      *)
(* packets and any number of crashes. The invariant IInv gives a type to   *)
(* what is in flight that depends on the state: a request or a packet that *)
(* waits in a queue must still be right when it is handled. OrderInv adds  *)
(* how rows, load results and wires are ordered, RowsCovered what is under *)
(* way for each row of a user who is online.                               *)
(***************************************************************************)
EXTENDS OfflineDelivery, SequenceTheorems, FiniteSetTheorems, TLAPS

\* A delete request may name only rows that are done with
DoneWith(i) ==
    /\ i \in 1..Len(rows)
    /\ RowIsMessage(i) => RowReceived(i) \/ i \in dupRemoved

SafeRow == {r \in Row : r.user \in addressed[r.msg]}

SafeRequest ==
    {r \in DbRequest :
        /\ r.op = "queueOffline" => r.user \in addressed[r.msg]
        /\ r.op = "markOfflineDelivered" => \A i \in r.ids : DoneWith(i)}

SafeResult ==
    {r \in LoadResult : \A i \in r.ids : i \in 1..Len(rows) /\ rows[i].user = r.user}

\* Packets that may be on the wire to the client of connection c, and the
\* acknowledgements that may be on the wire from it
ForClient(c) == {m \in Packets : sessUser[c] \in addressed[m]}
FromClient(c) == {m \in Messages : sessUser[c] \in Users /\ m \in received[sessUser[c]]}

SessionInv ==
    /\ \A c \in Conns : sessUser[c] # NoUser => Attached(c)
    /\ \A u \in Users : userMap[u] # NoConn => sessUser[userMap[u]] = u

PendingInv ==
    \A u \in Users, m \in Packets : pendingAckIds[u][m] # 0 =>
        m \in Messages /\ rows[pendingAckIds[u][m]] = [user |-> u, msg |-> m]

IInv ==
    /\ TypeOK
    /\ SessionInv
    /\ PendingInv
    /\ rows \in Seq(SafeRow)
    /\ dbQueue \in Seq(SafeRequest)
    /\ results \in Seq(SafeResult)
    /\ \A c \in Conns : toClient[c] \in Seq(ForClient(c))
    /\ \A c \in Conns : toServer[c] \in Seq(FromClient(c))
    /\ LossOnlyByDuplicateRule
    /\ OnlyRecipientsReceive

-----------------------------------------------------------------------------

LEMMA InitIInv == Init => IInv
<1> SUFFICES ASSUME Init PROVE IInv
  OBVIOUS
<1> USE DEF Init, SessionInit
<1>1. TypeOK
  BY SessionAssumption, PacketAssumption
  DEF TypeOK, SessionTypeOK, LinkState, Packets, Row
<1>2. SessionInv /\ PendingInv
  BY DEF SessionInv, PendingInv, Packets
<1>3. /\ rows \in Seq(SafeRow)
      /\ dbQueue \in Seq(SafeRequest)
      /\ results \in Seq(SafeResult)
      /\ \A c \in Conns : toClient[c] \in Seq(ForClient(c))
      /\ \A c \in Conns : toServer[c] \in Seq(FromClient(c))
  BY EmptySeq
<1>4. LossOnlyByDuplicateRule /\ OnlyRecipientsReceive
  BY DEF LossOnlyByDuplicateRule, OnlyRecipientsReceive
<1> QED
  BY <1>1, <1>2, <1>3, <1>4 DEF IInv

-----------------------------------------------------------------------------
(***************************************************************************)
(* History only grows: rows keep their contents, packets their recipients. *)
(* What was safe to have in flight before such a step still is after it.   *)
(***************************************************************************)
HistoryGrows ==
    /\ Len(rows) <= Len(rows')
    /\ \A i \in 1..Len(rows) : rows'[i] = rows[i]
    /\ \A m \in Packets : addressed[m] \subseteq addressed'[m]
    /\ \A u \in Users : received[u] \subseteq received'[u]
    /\ dupRemoved \subseteq dupRemoved'

LEMMA SafeSetsGrow ==
    ASSUME TypeOK, TypeOK', HistoryGrows
    PROVE  /\ Seq(SafeRow) \subseteq Seq(SafeRow')
           /\ Seq(SafeRequest) \subseteq Seq(SafeRequest')
           /\ Seq(SafeResult) \subseteq Seq(SafeResult')
           /\ \A c \in Conns : sessUser'[c] = sessUser[c] =>
                 /\ Seq(ForClient(c)) \subseteq Seq(ForClient(c)')
                 /\ Seq(FromClient(c)) \subseteq Seq(FromClient(c)')
<1>1. \A i \in 1..Len(rows) : rows[i] \in Row
  BY DEF TypeOK
<1>2. \A i : DoneWith(i) => DoneWith(i)'
  <2> SUFFICES ASSUME NEW i, DoneWith(i) PROVE DoneWith(i)'
    OBVIOUS
  <2>1. i \in 1..Len(rows) /\ i \in 1..Len(rows')
    BY DEF DoneWith, HistoryGrows, TypeOK
  <2>2. rows'[i] = rows[i] /\ rows[i].user \in Users
    BY <2>1, <1>1 DEF HistoryGrows, Row
  <2> QED
    BY <2>1, <2>2 DEF DoneWith, HistoryGrows, RowIsMessage, RowReceived
<1>3. SafeRow \subseteq SafeRow'
  BY DEF SafeRow, Row, HistoryGrows
<1>4. SafeRequest \subseteq SafeRequest'
  <2> SUFFICES ASSUME NEW r \in SafeRequest PROVE r \in SafeRequest'
    OBVIOUS
  <2>1. r.op = "queueOffline" => r.user \in addressed'[r.msg]
    BY DEF SafeRequest, DbRequest, QueueOfflineReq, LoadOfflineReq,
           MarkDeliveredReq, HistoryGrows
  <2> QED
    BY <2>1, <1>2 DEF SafeRequest
<1>5. SafeResult \subseteq SafeResult'
  <2>1. Len(rows) \in Nat /\ Len(rows') \in Nat
    BY LenProperties DEF TypeOK
  <2>2. \A i \in 1..Len(rows) : i \in 1..Len(rows') /\ rows'[i] = rows[i]
    BY <2>1 DEF HistoryGrows
  <2> QED
    BY <2>2 DEF SafeResult
<1>6. ASSUME NEW c \in Conns, sessUser'[c] = sessUser[c]
      PROVE ForClient(c) \subseteq ForClient(c)' /\ FromClient(c) \subseteq FromClient(c)'
  BY <1>6 DEF ForClient, FromClient, HistoryGrows
<1> QED
  BY <1>3, <1>4, <1>5, <1>6, SeqMonotonic

-----------------------------------------------------------------------------
(***************************************************************************)
(* One lemma per action                                                    *)
(***************************************************************************)

LEMMA NewConnectionStep ==
    ASSUME IInv, NEW c \in Conns, OnNewConnection(c)
    PROVE  IInv'
<1> USE DEF OnNewConnection, Attach, deliveryVars, Attached
<1>1. TypeOK'
  BY DEF IInv, TypeOK, SessionTypeOK, LinkState
<1>2. SessionInv' /\ PendingInv'
  BY DEF IInv, TypeOK, SessionTypeOK, SessionInv, PendingInv
<1>3. HistoryGrows
  BY DEF HistoryGrows, IInv, TypeOK
<1>4. LossOnlyByDuplicateRule' /\ OnlyRecipientsReceive'
  BY DEF IInv, LossOnlyByDuplicateRule, OnlyRecipientsReceive, RowIsMessage, RowReceived
<1> QED
  BY <1>1, <1>2, <1>3, <1>4, SafeSetsGrow DEF IInv

LEMMA ConnectionLostStep ==
    ASSUME IInv, NEW c \in Conns, ConnectionLost(c)
    PROVE  IInv'
<1> USE DEF ConnectionLost, LinkFails, Attached
<1>1. TypeOK'
  BY EmptySeq DEF IInv, TypeOK, SessionTypeOK, LinkState
<1>2. SessionInv' /\ PendingInv'
  BY DEF IInv, TypeOK, SessionTypeOK, SessionInv, PendingInv
<1>3. HistoryGrows
  BY DEF HistoryGrows, IInv, TypeOK
<1>4. LossOnlyByDuplicateRule' /\ OnlyRecipientsReceive'
  BY DEF IInv, LossOnlyByDuplicateRule, OnlyRecipientsReceive, RowIsMessage, RowReceived
<1>5. \A d \in Conns : toClient'[d] = toClient[d] \/ toClient'[d] = <<>>
  BY DEF IInv, TypeOK
<1>6. \A d \in Conns : toClient'[d] \in Seq(ForClient(d)')
  BY <1>1, <1>3, <1>5, SafeSetsGrow, EmptySeq DEF IInv
<1> QED
  BY <1>1, <1>2, <1>3, <1>4, <1>6, SafeSetsGrow DEF IInv

LEMMA ClientDisconnectedStep ==
    ASSUME IInv, NEW c \in Conns, OnClientDisconnected(c)
    PROVE  IInv'
<1> USE DEF OnClientDisconnected, Detach, Attached
<1>1. TypeOK'
  BY EmptySeq DEF IInv, TypeOK, SessionTypeOK, LinkState
<1>2. SessionInv'
  BY SessionAssumption DEF IInv, TypeOK, SessionTypeOK, SessionInv
<1>3. PendingInv'
  BY DEF IInv, TypeOK, PendingInv
<1>4. HistoryGrows
  BY DEF HistoryGrows, IInv, TypeOK
<1>5. LossOnlyByDuplicateRule' /\ OnlyRecipientsReceive'
  BY DEF IInv, LossOnlyByDuplicateRule, OnlyRecipientsReceive, RowIsMessage, RowReceived
<1>6. \A d \in Conns : /\ toClient'[d] \in Seq(ForClient(d)')
                       /\ toServer'[d] \in Seq(FromClient(d)')
  <2>1. \A d \in Conns : d # c => /\ toClient'[d] = toClient[d]
                                  /\ toServer'[d] = toServer[d]
                                  /\ sessUser'[d] = sessUser[d]
    BY DEF IInv, TypeOK, SessionTypeOK
  <2>2. toClient'[c] = <<>> /\ toServer'[c] = <<>>
    BY DEF IInv, TypeOK
  <2> QED
    BY <1>1, <1>4, <2>1, <2>2, SafeSetsGrow, EmptySeq DEF IInv
<1> QED
  BY <1>1, <1>2, <1>3, <1>4, <1>5, <1>6, SafeSetsGrow DEF IInv

LEMMA ConnectStep ==
    ASSUME IInv, NEW c \in Conns, NEW u \in Users, HandleConnect(c, u)
    PROVE  IInv'
<1> USE DEF HandleConnect, Authenticate, Attached
<1> DEFINE req == [op |-> "loadOffline", user |-> u]
<1>1. req \in SafeRequest
  BY DEF SafeRequest, DbRequest, LoadOfflineReq
<1>2. dbQueue' \in Seq(SafeRequest)
  BY <1>1, AppendProperties DEF IInv
<1>3. TypeOK'
  <2>1. dbQueue' \in Seq(DbRequest)
    BY <1>2, SeqMonotonic DEF SafeRequest
  <2> QED
    BY <2>1 DEF IInv, TypeOK, SessionTypeOK
<1>4. SessionInv'
  BY SessionAssumption DEF IInv, TypeOK, SessionTypeOK, SessionInv
<1>5. PendingInv'
  BY DEF IInv, PendingInv
<1>6. HistoryGrows
  BY DEF HistoryGrows, IInv, TypeOK
<1>7. LossOnlyByDuplicateRule' /\ OnlyRecipientsReceive'
  BY DEF IInv, LossOnlyByDuplicateRule, OnlyRecipientsReceive, RowIsMessage, RowReceived
<1>8. \A d \in Conns : /\ toClient'[d] \in Seq(ForClient(d)')
                       /\ toServer'[d] \in Seq(FromClient(d)')
  <2>1. \A d \in Conns : d # c => sessUser'[d] = sessUser[d]
    BY DEF IInv, TypeOK, SessionTypeOK
  \* nothing is on the wire of a connection that has not logged in yet
  <2>2. ForClient(c) = {} /\ FromClient(c) = {}
    BY SessionAssumption DEF ForClient, FromClient, IInv, TypeOK
  <2>3. toClient'[c] = <<>> /\ toServer'[c] = <<>>
    BY <2>2, EmptySeq DEF IInv
  <2> QED
    BY <1>3, <1>6, <2>1, <2>3, SafeSetsGrow, EmptySeq DEF IInv
<1> QED
  BY <1>2, <1>3, <1>4, <1>5, <1>6, <1>7, <1>8, SafeSetsGrow DEF IInv

LEMMA EnqueueStep ==
    ASSUME IInv, NEW R \in SUBSET Users, NEW m \in Packets, EnqueueIfOfflineMany(R, m)
    PROVE  IInv'
<1> USE DEF EnqueueIfOfflineMany, sessionVars
<1>1. addressed' \in [Packets -> SUBSET Users] /\ addressed'[m] = R
  BY DEF IInv, TypeOK
<1>2. HistoryGrows
  BY <1>1 DEF HistoryGrows, IInv, TypeOK
<1> DEFINE off == {u \in R : ~Online(u)}
<1>3. PICK offline \in SetToSeqs(off) :
        dbQueue' = dbQueue \o [i \in DOMAIN offline |->
                     [op |-> "queueOffline", user |-> offline[i], msg |-> m]]
  OBVIOUS
<1> DEFINE reqs == [i \in DOMAIN offline |->
                     [op |-> "queueOffline", user |-> offline[i], msg |-> m]]
<1>4. offline \in Seq(off)
  <2>1. IsFiniteSet(off)
    BY PacketAssumption, FS_Subset
  <2>2. Cardinality(off) \in Nat
    BY <2>1, FS_CardinalityType
  <2>3. offline \in [1..Cardinality(off) -> off]
    BY DEF SetToSeqs
  <2> QED
    BY <2>2, <2>3, SeqDef
<1>5. reqs \in Seq(SafeRequest')
  <2>1. Len(offline) \in Nat /\ DOMAIN offline = 1..Len(offline)
    BY <1>4, LenProperties
  <2>2. ASSUME NEW i \in 1..Len(offline)
        PROVE [op |-> "queueOffline", user |-> offline[i], msg |-> m] \in SafeRequest'
    <3>1. offline[i] \in R
      BY <1>4, <2>1, ElementOfSeq
    <3> QED
      BY <3>1, <1>1 DEF SafeRequest, DbRequest, QueueOfflineReq
  <2>3. reqs \in [1..Len(offline) -> SafeRequest']
    BY <2>1, <2>2
  <2> QED
    BY <2>1, <2>3, SeqDef
<1>6. rows \in Seq(Row) /\ rows' = rows /\ dupRemoved' = dupRemoved /\ received' = received
  BY DEF IInv, TypeOK
<1>7. SafeRequest \subseteq SafeRequest'
  <2>1. \A i : DoneWith(i)' = DoneWith(i)
    BY <1>6 DEF DoneWith, RowIsMessage, RowReceived
  <2>2. \A r \in SafeRequest : r.op = "queueOffline" => r.user \in addressed'[r.msg]
    BY <1>2 DEF SafeRequest, DbRequest, QueueOfflineReq, LoadOfflineReq,
                MarkDeliveredReq, HistoryGrows
  <2> QED
    BY <2>1, <2>2 DEF SafeRequest
<1>8. dbQueue' \in Seq(SafeRequest')
  BY <1>3, <1>5, <1>7, SeqMonotonic, ConcatProperties DEF IInv
<1>9. ASSUME NEW c \in Conns
      PROVE  toClient'[c] \in Seq(ForClient(c)')
  <2>1. ForClient(c) \subseteq ForClient(c)'
    BY <1>2 DEF HistoryGrows, ForClient
  <2>2. toClient[c] \in Seq(ForClient(c)')
    BY <2>1, SeqMonotonic DEF IInv
  <2>3. CASE \E u \in {u \in R : Online(u)} : userMap[u] = c
    <3>1. sessUser[c] \in R
      BY <2>3, SessionAssumption DEF IInv, SessionInv
    <3>2. m \in ForClient(c)'
      BY <3>1, <1>1 DEF ForClient
    <3>3. <<m>> \in Seq(ForClient(c)')
      BY <3>2
    <3>4. toClient[c] \o <<m>> \in Seq(ForClient(c)')
      BY <2>2, <3>3, ConcatProperties
    <3> QED
      BY <2>2, <3>4 DEF Routed
  <2>4. CASE ~\E u \in {u \in R : Online(u)} : userMap[u] = c
    BY <2>2, <2>4 DEF Routed
  <2> QED
    BY <2>3, <2>4
<1>10. TypeOK'
  <2>1. dbQueue' \in Seq(DbRequest)
    BY <1>8, SeqMonotonic DEF SafeRequest
  <2>2. toClient' \in [Conns -> Seq(Packets)]
    <3>1. \A c \in Conns : toClient'[c] \in Seq(Packets)
      BY <1>9, SeqMonotonic DEF ForClient
    <3> QED
      BY <3>1 DEF Routed
  <2> QED
    BY <2>1, <2>2, <1>1 DEF IInv, TypeOK, SessionTypeOK
<1>11. SessionInv' /\ PendingInv'
  BY DEF IInv, SessionInv, PendingInv, Attached
<1>12. LossOnlyByDuplicateRule' /\ OnlyRecipientsReceive'
  <2>1. LossOnlyByDuplicateRule'
    BY DEF IInv, LossOnlyByDuplicateRule, RowIsMessage, RowReceived
  <2>2. OnlyRecipientsReceive'
    BY <1>2 DEF IInv, TypeOK, OnlyRecipientsReceive, HistoryGrows
  <2> QED
    BY <2>1, <2>2
<1> QED
  BY <1>2, <1>8, <1>9, <1>10, <1>11, <1>12, SafeSetsGrow DEF IInv

LEMMA ReceivedAckStep ==
    ASSUME IInv, NEW c \in Conns, HandleMessageReceivedAck(c)
    PROVE  IInv'
<1> DEFINE m == Head(toServer[c])
           u == sessUser[c]
           i == pendingAckIds[u][m]
           req == [op |-> "markOfflineDelivered", ids |-> {i}]
<1>1. m \in FromClient(c) /\ Tail(toServer[c]) \in Seq(FromClient(c))
  BY HeadTailProperties DEF IInv, HandleMessageReceivedAck
<1>2. /\ link' = link /\ sessUser' = sessUser /\ userMap' = userMap
      /\ toClient' = toClient /\ results' = results /\ rows' = rows /\ live' = live
      /\ addressed' = addressed /\ received' = received
      /\ dupRemoved' = dupRemoved /\ crashes' = crashes
  BY DEF HandleMessageReceivedAck, sessionVars
<1>3. toServer' = [toServer EXCEPT ![c] = Tail(@)]
  BY DEF HandleMessageReceivedAck
<1>4. \/ /\ i # 0
         /\ pendingAckIds' = [pendingAckIds EXCEPT ![u][m] = 0]
         /\ dbQueue' = Append(dbQueue, req)
      \/ pendingAckIds' = pendingAckIds /\ dbQueue' = dbQueue
  BY DEF HandleMessageReceivedAck
<1>5. u \in Users /\ m \in Packets
  BY <1>1 DEF FromClient, Packets
<1>6. pendingAckIds \in [Users -> [Packets -> 0..Len(rows)]] /\ Len(rows) \in Nat
  BY LenProperties DEF IInv, TypeOK
\* the acknowledged row belongs to u and carries m, which u's client has received
<1>7. i # 0 => DoneWith(i)
  <2> SUFFICES ASSUME i # 0 PROVE DoneWith(i)
    OBVIOUS
  <2>1. i \in 1..Len(rows)
    BY <1>5, <1>6
  <2>2. rows[i] = [user |-> u, msg |-> m]
    BY <1>5 DEF IInv, PendingInv
  <2> QED
    BY <2>1, <2>2, <1>1 DEF DoneWith, RowReceived, FromClient
<1> HIDE DEF m, u, i
<1>8. HistoryGrows
  BY <1>2, <1>6 DEF HistoryGrows
<1>9. dbQueue' \in Seq(SafeRequest)
  <2>1. i # 0 => req \in SafeRequest
    BY <1>7 DEF SafeRequest, DbRequest, MarkDeliveredReq, DoneWith
  <2>2. dbQueue' = dbQueue \/ (i # 0 /\ dbQueue' = Append(dbQueue, req))
    BY <1>4
  <2>3. dbQueue \in Seq(SafeRequest)
    BY DEF IInv
  <2>4. i # 0 => Append(dbQueue, req) \in Seq(SafeRequest)
    BY <2>1, <2>3, AppendProperties
  <2> QED
    BY <2>2, <2>3, <2>4
<1>10. /\ pendingAckIds' \in [Users -> [Packets -> 0..Len(rows)]]
       /\ \A v \in Users, k \in Packets :
             pendingAckIds'[v][k] = pendingAckIds[v][k] \/ pendingAckIds'[v][k] = 0
  <2>1. CASE pendingAckIds' = pendingAckIds
    BY <2>1, <1>6
  <2>2. CASE pendingAckIds' = [pendingAckIds EXCEPT ![u] = [pendingAckIds[u] EXCEPT ![m] = 0]]
    <3>1. [pendingAckIds[u] EXCEPT ![m] = 0] \in [Packets -> 0..Len(rows)]
      BY <1>5, <1>6
    <3> QED
      BY <2>2, <3>1, <1>5, <1>6
  <2> QED
    BY <2>1, <2>2, <1>4
<1>11. \A d \in Conns : toServer'[d] \in Seq(FromClient(d))
  BY <1>1, <1>3 DEF IInv, TypeOK
<1>12. TypeOK'
  <2>1. dbQueue' \in Seq(DbRequest)
    BY <1>9, SeqMonotonic DEF SafeRequest
  <2>2. Tail(toServer[c]) \in Seq(Messages)
    BY <1>1, SeqMonotonic DEF FromClient
  <2> QED
    BY <1>2, <1>3, <1>10, <2>1, <2>2 DEF IInv, TypeOK, SessionTypeOK
<1>13. SessionInv' /\ PendingInv'
  <2>1. SessionInv'
    BY <1>2 DEF IInv, SessionInv, Attached
  <2>2. PendingInv'
    BY <1>2, <1>10 DEF IInv, PendingInv
  <2> QED
    BY <2>1, <2>2
<1>14. LossOnlyByDuplicateRule' /\ OnlyRecipientsReceive'
  BY <1>2 DEF IInv, LossOnlyByDuplicateRule, OnlyRecipientsReceive, RowIsMessage, RowReceived
<1> QED
  BY <1>2, <1>8, <1>9, <1>11, <1>12, <1>13, <1>14, SafeSetsGrow DEF IInv

LEMMA ClientReceiveStep ==
    ASSUME IInv, NEW c \in Conns, ClientReceive(c)
    PROVE  IInv'
<1> USE DEF ClientReceive, sessionVars
<1> DEFINE m == Head(toClient[c])
           u == sessUser[c]
<1>1. m \in ForClient(c) /\ Tail(toClient[c]) \in Seq(ForClient(c))
  BY HeadTailProperties DEF IInv
<1>2. m \in Packets /\ u \in addressed[m] /\ u \in Users
  BY <1>1 DEF ForClient, IInv, TypeOK
<1>3. /\ received' \in [Users -> SUBSET Packets]
      /\ received'[u] = received[u] \cup {m}
      /\ \A v \in Users : v # u => received'[v] = received[v]
  BY <1>2 DEF IInv, TypeOK
<1>4. HistoryGrows
  BY <1>2, <1>3 DEF HistoryGrows, IInv, TypeOK
<1>5. \A d \in Conns : toClient'[d] \in Seq(ForClient(d))
  BY <1>1 DEF IInv, TypeOK
<1>6. ASSUME NEW d \in Conns PROVE toServer'[d] \in Seq(FromClient(d)')
  <2>1. FromClient(d) \subseteq FromClient(d)'
    BY <1>4 DEF HistoryGrows, FromClient
  <2>2. toServer[d] \in Seq(FromClient(d)')
    BY <2>1, SeqMonotonic DEF IInv
  <2>3. CASE d = c /\ m \in Messages
    <3>1. m \in FromClient(c)'
      BY <2>3, <1>2, <1>3 DEF FromClient
    <3>2. toServer'[c] = Append(toServer[c], m)
      BY <2>3 DEF IInv, TypeOK
    <3> QED
      BY <2>2, <2>3, <3>1, <3>2, AppendProperties
  <2>4. CASE ~(d = c /\ m \in Messages)
    BY <2>2, <2>4 DEF IInv, TypeOK
  <2> QED
    BY <2>3, <2>4
<1>7. TypeOK'
  <2>1. toClient' \in [Conns -> Seq(Packets)]
    <3>1. Tail(toClient[c]) \in Seq(Packets)
      BY <1>1, SeqMonotonic DEF ForClient
    <3> QED
      BY <3>1 DEF IInv, TypeOK
  <2>2. toServer' \in [Conns -> Seq(Messages)]
    <3>1. \A d \in Conns : toServer'[d] \in Seq(Messages)
      BY <1>6, SeqMonotonic DEF FromClient
    <3>2. toServer' = [d \in Conns |-> toServer'[d]]
      BY DEF IInv, TypeOK
    <3> QED
      BY <3>1, <3>2
  <2> QED
    BY <2>1, <2>2, <1>3 DEF IInv, TypeOK, SessionTypeOK
<1>8. SessionInv' /\ PendingInv'
  BY DEF IInv, SessionInv, PendingInv, Attached
<1>9. LossOnlyByDuplicateRule'
  <2>1. \A k \in 1..Len(rows) : rows[k] \in Row
    BY ElementOfSeq DEF IInv, TypeOK
  <2>2. \A k \in 1..Len(rows) : rows[k].user \in Users
    BY <2>1 DEF Row
  <2> QED
    BY <2>2, <1>3 DEF IInv, LossOnlyByDuplicateRule, RowIsMessage, RowReceived
<1>10. OnlyRecipientsReceive'
  BY <1>2, <1>3 DEF IInv, OnlyRecipientsReceive
<1>11. \A d \in Conns : ForClient(d)' = ForClient(d)
  BY DEF ForClient
<1> QED
  BY <1>4, <1>5, <1>6, <1>7, <1>8, <1>9, <1>10, <1>11, SafeSetsGrow DEF IInv

LEMMA CrashStep ==
    ASSUME IInv, ServerCrash
    PROVE  IInv'
<1> USE DEF ServerCrash, AllSessionsEnd
<1>1. TypeOK'
  <2>1. Len(rows) \in Nat /\ MaxCrashes \in Nat
    BY PacketAssumption, LenProperties DEF IInv, TypeOK
  <2> QED
    BY <2>1, EmptySeq DEF IInv, TypeOK, SessionTypeOK, LinkState
<1>2. SessionInv' /\ PendingInv'
  BY DEF SessionInv, PendingInv
<1>3. HistoryGrows
  BY DEF HistoryGrows, IInv, TypeOK
<1>4. LossOnlyByDuplicateRule' /\ OnlyRecipientsReceive'
  BY DEF IInv, LossOnlyByDuplicateRule, OnlyRecipientsReceive, RowIsMessage, RowReceived
<1>5. /\ dbQueue' \in Seq(SafeRequest')
      /\ results' \in Seq(SafeResult')
      /\ \A c \in Conns : toClient'[c] \in Seq(ForClient(c)')
      /\ \A c \in Conns : toServer'[c] \in Seq(FromClient(c)')
  BY EmptySeq
<1> QED
  BY <1>1, <1>2, <1>3, <1>4, <1>5, SafeSetsGrow DEF IInv

LEMMA DatabaseStep ==
    ASSUME IInv, DbStep
    PROVE  IInv'
<1> DEFINE req == Head(dbQueue)
<1>1. req \in SafeRequest /\ Tail(dbQueue) \in Seq(SafeRequest)
  BY HeadTailProperties DEF IInv, DbStep
<1>2. /\ link' = link /\ sessUser' = sessUser /\ userMap' = userMap
      /\ toClient' = toClient /\ toServer' = toServer
      /\ pendingAckIds' = pendingAckIds /\ addressed' = addressed
      /\ received' = received /\ dupRemoved' = dupRemoved /\ crashes' = crashes
      /\ dbQueue' = Tail(dbQueue)
  BY DEF DbStep, sessionVars
<1>3. QueueOffline(req) \/ LoadOffline(req) \/ MarkOfflineDelivered(req)
  BY DEF DbStep
<1> HIDE DEF req
<1>4. rows \in Seq(SafeRow) /\ rows \in Seq(Row) /\ Len(rows) \in Nat
  BY LenProperties DEF IInv, TypeOK
<1>5. rows' \in Seq(SafeRow) /\ HistoryGrows
  <2>1. CASE QueueOffline(req)
    <3> DEFINE row == [user |-> req.user, msg |-> req.msg]
    <3>1. row \in SafeRow
      BY <1>1, <2>1 DEF SafeRequest, DbRequest, QueueOfflineReq, LoadOfflineReq,
                        MarkDeliveredReq, SafeRow, Row, QueueOffline
    <3>2. rows' = Append(rows, row)
      BY <2>1 DEF QueueOffline
    <3> HIDE DEF row
    <3>3. /\ rows' \in Seq(SafeRow) /\ Len(rows') = Len(rows) + 1
          /\ \A k \in 1..Len(rows) : rows'[k] = rows[k]
      BY <3>1, <3>2, <1>4, AppendProperties
    <3> QED
      BY <3>3, <1>2, <1>4 DEF HistoryGrows
  <2>2. CASE LoadOffline(req) \/ MarkOfflineDelivered(req)
    BY <2>2, <1>2, <1>4 DEF LoadOffline, MarkOfflineDelivered, HistoryGrows
  <2> QED
    BY <1>3, <2>1, <2>2
<1>6. Len(rows') \in Nat /\ Len(rows) <= Len(rows') /\ rows' \in Seq(Row)
  BY <1>5, LenProperties, SeqMonotonic DEF SafeRow, HistoryGrows
<1>7. live' \subseteq 1..Len(rows')
  <2>1. live \subseteq 1..Len(rows)
    BY DEF IInv, TypeOK
  <2>2. CASE QueueOffline(req)
    <3>1. Len(rows') = Len(rows) + 1
      BY <2>2, <1>4, AppendProperties DEF QueueOffline
    <3>2. live' = live \cup {Len(rows) + 1}
      BY <2>2 DEF QueueOffline
    <3>3. 1..Len(rows) \subseteq 1..Len(rows') /\ Len(rows) + 1 \in 1..Len(rows')
      BY <3>1, <1>4
    <3> QED
      BY <2>1, <3>2, <3>3
  <2>3. CASE LoadOffline(req) \/ MarkOfflineDelivered(req)
    BY <2>1, <2>3, <1>4 DEF LoadOffline, MarkOfflineDelivered
  <2> QED
    BY <1>3, <2>2, <2>3
<1>8. results' \in Seq(SafeResult')
  <2>1. SafeResult \subseteq SafeResult'
    <3>1. \A k \in 1..Len(rows) : k \in 1..Len(rows') /\ rows'[k] = rows[k]
      BY <1>4, <1>5, <1>6 DEF HistoryGrows
    <3> QED
      BY <3>1 DEF SafeResult
  <2>2. results \in Seq(SafeResult')
    BY <2>1, SeqMonotonic DEF IInv
  <2>3. CASE LoadOffline(req)
    <3> DEFINE res == [user |-> req.user, ids |-> {k \in live : rows[k].user = req.user}]
    <3>1. req.user \in Users
      BY <1>1, <2>3 DEF SafeRequest, DbRequest, QueueOfflineReq, LoadOfflineReq,
                        MarkDeliveredReq, LoadOffline
    <3>2. live \subseteq 1..Len(rows) /\ live \subseteq Nat \ {0}
      BY <1>4 DEF IInv, TypeOK
    <3>3. res \in SafeResult
      BY <3>1, <3>2 DEF SafeResult, LoadResult
    <3>4. results' = Append(results, res)
      BY <2>3 DEF LoadOffline
    <3> HIDE DEF res
    <3>5. res \in SafeResult'
      BY <2>1, <3>3
    <3> QED
      BY <2>2, <3>4, <3>5, AppendProperties
  <2>4. CASE QueueOffline(req) \/ MarkOfflineDelivered(req)
    BY <2>2, <2>4 DEF QueueOffline, MarkOfflineDelivered
  <2> QED
    BY <1>3, <2>3, <2>4
<1>9. TypeOK'
  <2>1. dbQueue' \in Seq(DbRequest) /\ results' \in Seq(LoadResult)
    BY <1>1, <1>2, <1>8, SeqMonotonic DEF SafeRequest, SafeResult
  <2>2. /\ pendingAckIds' \in [Users -> [Packets -> 0..Len(rows')]]
        /\ dupRemoved' \subseteq 1..Len(rows')
    <3>1. 0..Len(rows) \subseteq 0..Len(rows') /\ 1..Len(rows) \subseteq 1..Len(rows')
      BY <1>4, <1>6
    <3> QED
      BY <3>1, <1>2 DEF IInv, TypeOK
  <2> QED
    BY <1>2, <1>6, <1>7, <2>1, <2>2 DEF IInv, TypeOK, SessionTypeOK
<1>10. SessionInv'
  BY <1>2 DEF IInv, SessionInv, Attached
<1>11. PendingInv'
  <2> SUFFICES ASSUME NEW u \in Users, NEW m \in Packets, pendingAckIds[u][m] # 0
               PROVE  m \in Messages /\ rows'[pendingAckIds[u][m]] = [user |-> u, msg |-> m]
    BY <1>2 DEF PendingInv
  <2>1. pendingAckIds[u][m] \in 1..Len(rows)
    BY <1>4 DEF IInv, TypeOK
  <2> QED
    BY <2>1, <1>5 DEF IInv, PendingInv, HistoryGrows
\* the rows a delete request names were done with when it was posted, and still are
<1>12. LossOnlyByDuplicateRule'
  <2> SUFFICES ASSUME NEW i \in 1..Len(rows'), RowIsMessage(i)', i \notin live'
               PROVE  (RowReceived(i) \/ i \in dupRemoved)'
    BY DEF LossOnlyByDuplicateRule
  <2>1. i \in 1..Len(rows) /\ rows'[i] = rows[i]
    <3>1. CASE QueueOffline(req)
      <4>1. Len(rows') = Len(rows) + 1
        BY <3>1, <1>4, AppendProperties DEF QueueOffline
      <4>2. i # Len(rows) + 1
        BY <3>1 DEF QueueOffline
      <4> QED
        BY <4>1, <4>2, <1>4, <1>5 DEF HistoryGrows
    <3>2. CASE LoadOffline(req) \/ MarkOfflineDelivered(req)
      BY <3>2 DEF LoadOffline, MarkOfflineDelivered
    <3> QED
      BY <1>3, <3>1, <3>2
  <2>2. RowIsMessage(i)
    BY <2>1 DEF RowIsMessage
  <2>3. CASE i \notin live
    BY <2>1, <2>2, <2>3, <1>2 DEF IInv, LossOnlyByDuplicateRule, RowReceived
  <2>4. CASE i \in live
    <3>1. MarkOfflineDelivered(req) /\ i \in req.ids
      BY <2>4, <1>3 DEF QueueOffline, LoadOffline, MarkOfflineDelivered
    <3>2. DoneWith(i)
      BY <3>1, <1>1 DEF SafeRequest, MarkOfflineDelivered
    <3> QED
      BY <3>2, <2>1, <2>2, <1>2 DEF DoneWith, RowReceived
  <2> QED
    BY <2>3, <2>4
<1>13. OnlyRecipientsReceive'
  BY <1>2 DEF IInv, OnlyRecipientsReceive
<1>14. rows' \in Seq(SafeRow') /\ dbQueue' \in Seq(SafeRequest')
  BY <1>1, <1>2, <1>5, <1>9, SafeSetsGrow DEF IInv
<1>15. \A c \in Conns : toClient'[c] \in Seq(ForClient(c)') /\ toServer'[c] \in Seq(FromClient(c)')
  BY <1>2, <1>5, <1>9, SafeSetsGrow DEF IInv
<1> QED
  BY <1>8, <1>9, <1>10, <1>11, <1>12, <1>13, <1>14, <1>15 DEF IInv

(***************************************************************************)
(* onOfflineLoaded: the rows it marks for removal are duplicates, which    *)
(* dupRemoved records, or notices, which nobody acknowledges.              *)
(***************************************************************************)
LEMMA OfflineLoadedStep ==
    ASSUME IInv, OnOfflineLoaded
    PROVE  IInv'
<1> DEFINE u == Head(results).user
           ids == Head(results).ids
           dup == Duplicates(u, ids)
           fresh == ids \ dup
           removable == Removable(u, ids)
           req == [op |-> "markOfflineDelivered", ids |-> removable]
<1>1. Head(results) \in SafeResult /\ Tail(results) \in Seq(SafeResult)
  BY HeadTailProperties DEF IInv, OnOfflineLoaded
<1>2. /\ link' = link /\ sessUser' = sessUser /\ userMap' = userMap
      /\ toServer' = toServer /\ rows' = rows /\ live' = live
      /\ addressed' = addressed /\ received' = received /\ crashes' = crashes
      /\ results' = Tail(results)
  BY DEF OnOfflineLoaded, sessionVars
<1>3. /\ dbQueue' = IF removable = {} THEN dbQueue ELSE Append(dbQueue, req)
      /\ dupRemoved' = dupRemoved \cup (removable \cap dup)
  BY DEF OnOfflineLoaded
<1>4. \/ /\ Online(u)
         /\ \E s \in Ascending(fresh) :
               toClient' = Routed({u}, [k \in DOMAIN s |-> rows[s[k]].msg])
         /\ pendingAckIds' = [pendingAckIds EXCEPT ![u] =
               [m \in Packets |->
                  IF m \in Messages /\ \E i \in fresh : rows[i].msg = m
                  THEN CHOOSE i \in fresh : rows[i].msg = m
                  ELSE pendingAckIds[u][m]]]
      \/ toClient' = toClient /\ pendingAckIds' = pendingAckIds
  BY DEF OnOfflineLoaded
<1>5. /\ u \in Users /\ ids \subseteq 1..Len(rows)
      /\ \A i \in ids : rows[i].user = u
  BY <1>1 DEF SafeResult, LoadResult
<1>6. /\ Len(rows) \in Nat /\ rows \in Seq(Row)
      /\ \A i \in 1..Len(rows) : rows[i] \in Row /\ rows[i] \in SafeRow
  BY LenProperties, ElementOfSeq DEF IInv, TypeOK
<1>7. \A i \in removable : i \in ids /\ (i \in dup \/ rows[i].msg \in Notices)
  BY DEF Duplicates, Removable
<1> HIDE DEF u, ids, dup, fresh, removable
<1>8. dupRemoved' \subseteq 1..Len(rows')
  BY <1>2, <1>3, <1>5, <1>7 DEF IInv, TypeOK
<1>9. HistoryGrows
  BY <1>2, <1>3, <1>6 DEF HistoryGrows
<1>10. \A i \in removable : DoneWith(i)'
  <2> SUFFICES ASSUME NEW i \in removable PROVE DoneWith(i)'
    OBVIOUS
  <2>1. i \in 1..Len(rows')
    BY <1>2, <1>5, <1>7
  <2>2. rows[i].msg \in Notices => ~RowIsMessage(i)'
    BY <1>2, PacketAssumption DEF RowIsMessage
  <2>3. i \in dup => i \in dupRemoved'
    BY <1>3
  <2> QED
    BY <2>1, <2>2, <2>3, <1>7 DEF DoneWith
<1>11. removable \subseteq Nat \ {0}
  <2>1. 1..Len(rows) \subseteq Nat \ {0}
    BY <1>6
  <2> QED
    BY <2>1, <1>5, <1>7
<1>12. dbQueue' \in Seq(DbRequest)
  <2>1. req \in DbRequest
    BY <1>11 DEF DbRequest, MarkDeliveredReq
  <2> HIDE DEF req
  <2>2. dbQueue \in Seq(DbRequest)
    BY DEF IInv, TypeOK
  <2>3. Append(dbQueue, req) \in Seq(DbRequest)
    BY <2>1, <2>2, AppendProperties
  <2> QED
    BY <2>2, <2>3, <1>3
<1>13. fresh \subseteq ids /\ IsFiniteSet(fresh) /\ Cardinality(fresh) \in Nat
  <2>1. fresh \subseteq 1..Len(rows)
    BY <1>5 DEF fresh
  <2>2. IsFiniteSet(1..Len(rows))
    BY <1>6, FS_Interval
  <2> QED
    BY <2>1, <2>2, FS_Subset, FS_CardinalityType DEF fresh
\* only the packets of the loaded rows, all addressed to u, go out on u's connection
<1>14. \A c \in Conns : toClient'[c] \in Seq(ForClient(c))
  <2>1. CASE Online(u) /\ \E s \in Ascending(fresh) :
               toClient' = Routed({u}, [k \in DOMAIN s |-> rows[s[k]].msg])
    <3>1. PICK s \in Ascending(fresh) :
               toClient' = Routed({u}, [k \in DOMAIN s |-> rows[s[k]].msg])
      BY <2>1
    <3> DEFINE n == Cardinality(fresh)
               packets == [k \in DOMAIN s |-> rows[s[k]].msg]
    <3>2. s \in [1..n -> fresh]
      BY <3>1 DEF Ascending
    <3> SUFFICES ASSUME NEW c \in Conns PROVE toClient'[c] \in Seq(ForClient(c))
      OBVIOUS
    <3>3. CASE userMap[u] = c
      <4>1. sessUser[c] = u
        BY <3>3, <1>5, SessionAssumption DEF IInv, SessionInv
      <4>2. ASSUME NEW k \in 1..n PROVE rows[s[k]].msg \in ForClient(c)
        <5>1. s[k] \in 1..Len(rows) /\ rows[s[k]].user = u
          BY <3>2, <1>5, <1>13
        <5>2. rows[s[k]] \in SafeRow
          BY <5>1, <1>6
        <5> QED
          BY <4>1, <5>1, <5>2 DEF SafeRow, Row, ForClient
      <4>3. packets \in [1..n -> ForClient(c)]
        BY <3>2, <4>2
      <4>4. packets \in Seq(ForClient(c))
        BY <4>3, <1>13, SeqDef
      <4> HIDE DEF packets
      <4>5. toClient[c] \o packets \in Seq(ForClient(c))
        BY <4>4, ConcatProperties DEF IInv
      <4>6. toClient'[c] = toClient[c] \o packets \/ toClient'[c] = toClient[c]
        BY <3>1 DEF Routed, packets
      <4> QED
        BY <4>5, <4>6 DEF IInv
    <3>4. CASE userMap[u] # c
      BY <3>1, <3>4 DEF Routed, IInv
    <3> QED
      BY <3>3, <3>4
  <2>2. CASE toClient' = toClient
    BY <2>2 DEF IInv
  <2> QED
    BY <1>4, <2>1, <2>2
<1>15. toClient' \in [Conns -> Seq(Packets)]
  <2>1. \A c \in Conns : toClient'[c] \in Seq(Packets)
    BY <1>14, SeqMonotonic DEF ForClient
  <2>2. toClient' = [c \in Conns |-> toClient'[c]]
    BY <1>4 DEF Routed, IInv, TypeOK
  <2> QED
    BY <2>1, <2>2
<1>16. ASSUME NEW v \in Users, NEW m \in Packets
       PROVE  /\ pendingAckIds'[v][m] \in 0..Len(rows)
              /\ pendingAckIds'[v][m] # 0 =>
                    m \in Messages /\ rows[pendingAckIds'[v][m]] = [user |-> v, msg |-> m]
  <2>1. /\ pendingAckIds[v][m] \in 0..Len(rows)
        /\ pendingAckIds[v][m] # 0 =>
              m \in Messages /\ rows[pendingAckIds[v][m]] = [user |-> v, msg |-> m]
    BY DEF IInv, TypeOK, PendingInv
  <2>2. CASE pendingAckIds'[v][m] = pendingAckIds[v][m]
    BY <2>1, <2>2
  <2>3. CASE pendingAckIds'[v][m] # pendingAckIds[v][m]
    <3>1. /\ v = u /\ m \in Messages
          /\ \E i \in fresh : rows[i].msg = m
          /\ pendingAckIds'[v][m] = CHOOSE i \in fresh : rows[i].msg = m
      BY <2>3, <1>4, <1>5 DEF IInv, TypeOK
    <3>2. pendingAckIds'[v][m] \in fresh /\ rows[pendingAckIds'[v][m]].msg = m
      BY <3>1
    <3>3. pendingAckIds'[v][m] \in 1..Len(rows) /\ rows[pendingAckIds'[v][m]].user = u
      BY <3>2, <1>5, <1>13
    <3>4. rows[pendingAckIds'[v][m]] \in Row
      BY <3>3, <1>6
    <3> QED
      BY <3>1, <3>2, <3>3, <3>4, <1>6 DEF Row
  <2> QED
    BY <2>2, <2>3
<1>17. pendingAckIds' \in [Users -> [Packets -> 0..Len(rows)]]
  <2>1. pendingAckIds' = [v \in Users |-> [m \in Packets |-> pendingAckIds'[v][m]]]
    BY <1>4, <1>5 DEF IInv, TypeOK
  <2> QED
    BY <2>1, <1>16
<1>18. TypeOK'
  <2>1. results' \in Seq(LoadResult)
    BY <1>1, <1>2, SeqMonotonic DEF SafeResult
  <2> QED
    BY <2>1, <1>2, <1>8, <1>12, <1>15, <1>17 DEF IInv, TypeOK, SessionTypeOK
<1>19. dbQueue' \in Seq(SafeRequest')
  <2>1. req \in SafeRequest'
    BY <1>10, <1>11 DEF SafeRequest, DbRequest, MarkDeliveredReq
  <2>2. dbQueue \in Seq(SafeRequest')
    BY <1>9, <1>18, SafeSetsGrow DEF IInv
  <2> HIDE DEF req
  <2>3. Append(dbQueue, req) \in Seq(SafeRequest')
    BY <2>1, <2>2, AppendProperties
  <2> QED
    BY <2>2, <2>3, <1>3
<1>20. SessionInv' /\ PendingInv'
  BY <1>2, <1>16 DEF IInv, SessionInv, PendingInv, Attached
<1>21. LossOnlyByDuplicateRule' /\ OnlyRecipientsReceive'
  BY <1>2, <1>3 DEF IInv, LossOnlyByDuplicateRule, OnlyRecipientsReceive,
                    RowIsMessage, RowReceived
<1>22. /\ rows' \in Seq(SafeRow') /\ results' \in Seq(SafeResult')
       /\ \A c \in Conns : toClient'[c] \in Seq(ForClient(c)')
       /\ \A c \in Conns : toServer'[c] \in Seq(FromClient(c)')
  BY <1>1, <1>2, <1>9, <1>14, <1>18, SafeSetsGrow DEF IInv
<1> QED
  BY <1>18, <1>19, <1>20, <1>21, <1>22 DEF IInv

-----------------------------------------------------------------------------

LEMMA NextIInv == IInv /\ [Next]_vars => IInv'
<1> SUFFICES ASSUME IInv, [Next]_vars PROVE IInv'
  OBVIOUS
<1>1. CASE UNCHANGED vars
  BY <1>1 DEF vars, sessionVars, deliveryVars, IInv, TypeOK, SessionTypeOK, SessionInv,
     PendingInv, SafeRow, SafeRequest, SafeResult, ForClient, FromClient, DoneWith,
     LossOnlyByDuplicateRule, OnlyRecipientsReceive, RowIsMessage, RowReceived, Attached
<1> QED
  BY <1>1, NewConnectionStep, ConnectionLostStep, ClientDisconnectedStep, ConnectStep,
     EnqueueStep, OfflineLoadedStep, ReceivedAckStep, DatabaseStep, ClientReceiveStep,
     CrashStep DEF Next

\* The inductive invariant holds in every reachable state.
THEOREM Invariance == Spec => []IInv
  BY InitIInv, NextIInv, PTL DEF Spec

\* Type correctness: what the two threads and the wire hold is always well formed.
THEOREM TypeCorrect == Spec => []TypeOK
<1>1. IInv => TypeOK
  BY DEF IInv
<1> QED
  BY <1>1, Invariance, PTL

\* A queued message disappears from offline_queue only after its recipient's client has
\* handled it, or through the duplicate rule of onOfflineLoaded.
THEOREM QueuedMessagesKept == Spec => []LossOnlyByDuplicateRule
<1>1. IInv => LossOnlyByDuplicateRule
  BY DEF IInv
<1> QED
  BY <1>1, Invariance, PTL

\* No client ever handles a packet that was not addressed to its user.
THEOREM RecipientsOnly == Spec => []OnlyRecipientsReceive
<1>1. IInv => OnlyRecipientsReceive
  BY DEF IInv
<1> QED
  BY <1>1, Invariance, PTL

-----------------------------------------------------------------------------
(***************************************************************************)
(* The order of deliveries, and that no row is overlooked. A packet is     *)
(* queued for a user once, and before that packet was sent to the user;    *)
(* so the rows of a user go out by load results only, in the order of      *)
(* their ids, and a row that a load result leaves out has been settled.    *)
(***************************************************************************)
Queueing(u, m) == [op |-> "queueOffline", user |-> u, msg |-> m]

\* A packet that may be queued for u: it has no row for u, and was not sent to u
NotYet(u, m) ==
    /\ m \notin received[u]
    /\ \A i \in 1..Len(rows) : rows[i] # [user |-> u, msg |-> m]
    /\ \A c \in Conns : sessUser[c] = u =>
          \A p \in 1..Len(toClient[c]) : toClient[c][p] # m

QueuedOnce ==
    \A u \in Users, m \in Packets :
        /\ \A k \in 1..Len(dbQueue) : dbQueue[k] = Queueing(u, m) => NotYet(u, m)
        /\ \A k, l \in 1..Len(dbQueue) :
              dbQueue[k] = Queueing(u, m) /\ dbQueue[l] = Queueing(u, m) => k = l

RowsDistinct == \A i, j \in 1..Len(rows) : rows[i] = rows[j] => i = j

Earlier(i, j) ==
    /\ i < j /\ rows[i].user = rows[j].user
    /\ RowIsMessage(i) /\ RowIsMessage(j)

Settled(i) == RowReceived(i) \/ i \in dupRemoved

LoadsInOrder ==
    \A k \in 1..Len(results) : \A j \in results[k].ids : \A i \in 1..Len(rows) :
        Earlier(i, j) => i \in results[k].ids \/ Settled(i)

WireInOrder ==
    \A c \in Conns : \A p \in 1..Len(toClient[c]) : \A i, j \in 1..Len(rows) :
        rows[j] = [user |-> sessUser[c], msg |-> toClient[c][p]] /\ Earlier(i, j) =>
            Settled(i) \/ \E q \in 1..(p - 1) : toClient[c][q] = rows[i].msg

OrderInv ==
    /\ IInv
    /\ QueuedOnce
    /\ RowsDistinct
    /\ LoadsInOrder
    /\ WireInOrder
    /\ FirstReceivedInOrder

\* What IInv says of the elements of the queues and tables
LEMMA Shapes ==
    ASSUME IInv
    PROVE  /\ Len(rows) \in Nat
           /\ \A i \in 1..Len(rows) : /\ rows[i] \in Row /\ rows[i].user \in Users
                                      /\ rows[i].msg \in Packets
                                      /\ rows[i].user \in addressed[rows[i].msg]
                                      /\ rows[i] = [user |-> rows[i].user, msg |-> rows[i].msg]
           /\ Len(dbQueue) \in Nat
           /\ \A k \in 1..Len(dbQueue) :
                 /\ dbQueue[k] \in SafeRequest
                 /\ \A u \in Users, m \in Packets :
                       dbQueue[k] = Queueing(u, m) => u \in addressed[m]
           /\ Len(results) \in Nat
           /\ \A k \in 1..Len(results) : results[k] \in SafeResult
           /\ \A c \in Conns : /\ Len(toClient[c]) \in Nat
                               /\ \A p \in 1..Len(toClient[c]) : toClient[c][p] \in ForClient(c)
<1>1. /\ rows \in Seq(Row) /\ rows \in Seq(SafeRow)
      /\ dbQueue \in Seq(SafeRequest) /\ results \in Seq(SafeResult)
      /\ \A c \in Conns : toClient[c] \in Seq(ForClient(c))
  BY DEF IInv, TypeOK
<1>2. /\ Len(rows) \in Nat /\ Len(dbQueue) \in Nat /\ Len(results) \in Nat
      /\ \A c \in Conns : Len(toClient[c]) \in Nat
  BY <1>1, LenProperties
<1>3. \A i \in 1..Len(rows) : rows[i] \in SafeRow
  BY <1>1, ElementOfSeq
<1>4. \A k \in 1..Len(dbQueue) : dbQueue[k] \in SafeRequest
  BY <1>1, ElementOfSeq
<1>5. \A k \in 1..Len(results) : results[k] \in SafeResult
  BY <1>1, ElementOfSeq
<1>6. \A c \in Conns : \A p \in 1..Len(toClient[c]) : toClient[c][p] \in ForClient(c)
  BY <1>1, ElementOfSeq
<1>7. \A r \in SafeRow : /\ r \in Row /\ r.user \in Users /\ r.msg \in Packets
                         /\ r.user \in addressed[r.msg]
                         /\ r = [user |-> r.user, msg |-> r.msg]
  BY DEF SafeRow, Row
<1>8. \A r \in SafeRequest, u \in Users, m \in Packets :
         r = Queueing(u, m) => u \in addressed[m]
  BY DEF SafeRequest, Queueing
<1>9. \A i \in 1..Len(rows) : /\ rows[i] \in Row /\ rows[i].user \in Users
                              /\ rows[i].msg \in Packets
                              /\ rows[i].user \in addressed[rows[i].msg]
                              /\ rows[i] = [user |-> rows[i].user, msg |-> rows[i].msg]
  BY <1>3, <1>7
<1> QED
  BY <1>2, <1>4, <1>5, <1>6, <1>8, <1>9

LEMMA InitOrderInv == Init => OrderInv
<1> SUFFICES ASSUME Init PROVE OrderInv
  OBVIOUS
<1>1. Len(rows) = 0 /\ Len(dbQueue) = 0 /\ Len(results) = 0
  BY EmptySeq DEF Init
<1>2. \A c \in Conns : Len(toClient[c]) = 0
  BY EmptySeq DEF Init
<1> QED
  BY <1>1, <1>2, InitIInv
  DEF OrderInv, QueuedOnce, RowsDistinct, LoadsInOrder, WireInOrder, FirstReceivedInOrder

\* Wires that are cut, or of which the first packet is handled, keep what there was to say
LEMMA WiresCut ==
    ASSUME OrderInv, UNCHANGED <<rows, results, dupRemoved, received>>,
           \A d \in Conns : \/ toClient'[d] = toClient[d] /\ sessUser'[d] = sessUser[d]
                            \/ toClient'[d] = <<>>
    PROVE  /\ LoadsInOrder' /\ WireInOrder' /\ FirstReceivedInOrder'
           /\ \A u \in Users, m \in Packets : NotYet(u, m) => NotYet(u, m)'
           /\ RowsDistinct'
<1>1. Len(<<>>) = 0
  BY EmptySeq
<1>2. /\ \A i : Settled(i)' <=> Settled(i)
      /\ \A i, j : Earlier(i, j)' <=> Earlier(i, j)
  BY DEF Settled, Earlier, RowReceived, RowIsMessage
<1>3. LoadsInOrder'
  BY <1>2 DEF OrderInv, LoadsInOrder
<1>4. WireInOrder'
  <2> SUFFICES ASSUME NEW d \in Conns, NEW p \in 1..Len(toClient'[d]),
                      NEW i \in 1..Len(rows), NEW j \in 1..Len(rows),
                      rows[j] = [user |-> sessUser'[d], msg |-> toClient'[d][p]],
                      Earlier(i, j)
               PROVE  Settled(i) \/ \E q \in 1..(p - 1) : toClient'[d][q] = rows[i].msg
    BY <1>2 DEF WireInOrder
  <2>1. toClient'[d] = toClient[d] /\ sessUser'[d] = sessUser[d]
    <3>1. toClient'[d] # <<>>
      BY <1>1
    <3> QED
      BY <3>1
  <2> QED
    BY <2>1 DEF OrderInv, WireInOrder
<1>5. FirstReceivedInOrder'
  BY DEF OrderInv, FirstReceivedInOrder, RowReceived, RowIsMessage
<1>6. ASSUME NEW u \in Users, NEW m \in Packets, NotYet(u, m) PROVE NotYet(u, m)'
  <2>1. ASSUME NEW d \in Conns, sessUser'[d] = u, NEW p \in 1..Len(toClient'[d])
        PROVE  toClient'[d][p] # m
    <3>1. toClient'[d] # <<>>
      BY <1>1
    <3>2. toClient'[d] = toClient[d] /\ sessUser'[d] = sessUser[d]
      BY <3>1
    <3> QED
      BY <2>1, <3>2, <1>6 DEF NotYet
  <2> QED
    BY <2>1, <1>6 DEF NotYet
<1>7. RowsDistinct'
  BY DEF OrderInv, RowsDistinct
<1> QED
  BY <1>3, <1>4, <1>5, <1>6, <1>7

\* A request of another kind is added to the queue
LEMMA OtherRequest ==
    ASSUME OrderInv, NEW req, req.op # "queueOffline",
           dbQueue' = dbQueue \/ dbQueue' = Append(dbQueue, req),
           \A u \in Users, m \in Packets : NotYet(u, m) => NotYet(u, m)'
    PROVE  QueuedOnce'
<1>1. Len(dbQueue) \in Nat
  BY Shapes DEF OrderInv
<1>2. \A u \in Users, m \in Packets, k \in 1..Len(dbQueue') :
         dbQueue'[k] = Queueing(u, m) => k \in 1..Len(dbQueue) /\ dbQueue'[k] = dbQueue[k]
  <2>1. CASE dbQueue' = dbQueue
    BY <2>1
  <2>2. CASE dbQueue' = Append(dbQueue, req)
    <3>1. PICK S : S = SafeRequest \cup {req}
      OBVIOUS
    <3>2. dbQueue \in Seq(S) /\ req \in S
      BY <3>1, SeqMonotonic DEF OrderInv, IInv
    <3>3. /\ Len(dbQueue') = Len(dbQueue) + 1
          /\ \A k \in 1..Len(dbQueue) : dbQueue'[k] = dbQueue[k]
          /\ dbQueue'[Len(dbQueue) + 1] = req
      BY <2>2, <3>2, AppendProperties
    <3> QED
      BY <1>1, <3>3 DEF Queueing
  <2> QED
    BY <2>1, <2>2
<1> SUFFICES ASSUME NEW u \in Users, NEW m \in Packets
             PROVE  /\ \A k \in 1..Len(dbQueue') : dbQueue'[k] = Queueing(u, m) => NotYet(u, m)'
                    /\ \A k, l \in 1..Len(dbQueue') :
                          dbQueue'[k] = Queueing(u, m) /\ dbQueue'[l] = Queueing(u, m) => k = l
  BY DEF QueuedOnce
<1> QED
  BY <1>2 DEF OrderInv, QueuedOnce

-----------------------------------------------------------------------------
LEMMA QuietOrder ==
    ASSUME OrderInv, NEW c \in Conns,
           OnNewConnection(c) \/ ConnectionLost(c) \/ OnClientDisconnected(c)
    PROVE  OrderInv'
<1>1. IInv'
  BY NewConnectionStep, ConnectionLostStep, ClientDisconnectedStep DEF OrderInv
<1>2. /\ UNCHANGED <<rows, results, dupRemoved, received>> /\ dbQueue' = dbQueue
      /\ \A d \in Conns : \/ toClient'[d] = toClient[d] /\ sessUser'[d] = sessUser[d]
                          \/ toClient'[d] = <<>>
  BY DEF OnNewConnection, Attach, deliveryVars, ConnectionLost, LinkFails,
         OnClientDisconnected, Detach, OrderInv, IInv, TypeOK, SessionTypeOK
<1>3. /\ LoadsInOrder' /\ WireInOrder' /\ FirstReceivedInOrder' /\ RowsDistinct'
      /\ \A u \in Users, m \in Packets : NotYet(u, m) => NotYet(u, m)'
  BY <1>2, WiresCut
<1>4. QueuedOnce'
  BY <1>2, <1>3 DEF OrderInv, QueuedOnce
<1> QED
  BY <1>1, <1>3, <1>4 DEF OrderInv

LEMMA CrashOrder ==
    ASSUME OrderInv, ServerCrash
    PROVE  OrderInv'
<1>1. IInv'
  BY CrashStep DEF OrderInv
<1>2. /\ Len(results') = 0 /\ Len(dbQueue') = 0
      /\ \A d \in Conns : Len(toClient'[d]) = 0
      /\ rows' = rows /\ received' = received /\ dupRemoved' = dupRemoved
  BY EmptySeq DEF ServerCrash
<1>3. LoadsInOrder' /\ WireInOrder' /\ QueuedOnce'
  BY <1>2 DEF LoadsInOrder, WireInOrder, QueuedOnce
<1>4. FirstReceivedInOrder' /\ RowsDistinct'
  BY <1>2 DEF OrderInv, FirstReceivedInOrder, RowsDistinct, RowReceived, RowIsMessage
<1> QED
  BY <1>1, <1>3, <1>4 DEF OrderInv

LEMMA ConnectOrder ==
    ASSUME OrderInv, NEW c \in Conns, NEW u \in Users, HandleConnect(c, u)
    PROVE  OrderInv'
<1>1. IInv'
  BY ConnectStep DEF OrderInv
<1>2. toClient[c] = <<>>
  <2>1. ForClient(c) = {}
    BY SessionAssumption DEF HandleConnect, ForClient, OrderInv, IInv, TypeOK
  <2> QED
    BY <2>1, EmptySeq DEF OrderInv, IInv
<1>3. /\ UNCHANGED <<rows, results, dupRemoved, received>>
      /\ \A d \in Conns : \/ toClient'[d] = toClient[d] /\ sessUser'[d] = sessUser[d]
                          \/ toClient'[d] = <<>>
  BY <1>2 DEF HandleConnect, Authenticate, OrderInv, IInv, TypeOK, SessionTypeOK
<1>4. /\ LoadsInOrder' /\ WireInOrder' /\ FirstReceivedInOrder' /\ RowsDistinct'
      /\ \A v \in Users, m \in Packets : NotYet(v, m) => NotYet(v, m)'
  BY <1>3, WiresCut
<1>5. QueuedOnce'
  <2>1. PICK req : req = [op |-> "loadOffline", user |-> u]
    OBVIOUS
  <2>2. req.op # "queueOffline" /\ dbQueue' = Append(dbQueue, req)
    BY <2>1 DEF HandleConnect
  <2> QED
    BY <1>4, <2>2, OtherRequest
<1> QED
  BY <1>1, <1>4, <1>5 DEF OrderInv

LEMMA AckOrder ==
    ASSUME OrderInv, NEW c \in Conns, HandleMessageReceivedAck(c)
    PROVE  OrderInv'
<1>1. IInv'
  BY ReceivedAckStep DEF OrderInv
<1>2. PICK ids : \/ dbQueue' = dbQueue
                 \/ dbQueue' = Append(dbQueue, [op |-> "markOfflineDelivered", ids |-> ids])
  BY DEF HandleMessageReceivedAck
<1>3. /\ UNCHANGED <<rows, results, dupRemoved, received>>
      /\ \A d \in Conns : toClient'[d] = toClient[d] /\ sessUser'[d] = sessUser[d]
  BY DEF HandleMessageReceivedAck, sessionVars
<1>4. /\ LoadsInOrder' /\ WireInOrder' /\ FirstReceivedInOrder' /\ RowsDistinct'
      /\ \A v \in Users, m \in Packets : NotYet(v, m) => NotYet(v, m)'
  BY <1>3, WiresCut
<1>5. QueuedOnce'
  <2>1. PICK req : req = [op |-> "markOfflineDelivered", ids |-> ids]
    OBVIOUS
  <2>2. req.op # "queueOffline" /\ (dbQueue' = dbQueue \/ dbQueue' = Append(dbQueue, req))
    BY <1>2, <2>1
  <2> QED
    BY <1>4, <2>2, OtherRequest
<1> QED
  BY <1>1, <1>4, <1>5 DEF OrderInv

LEMMA ReceiveOrder ==
    ASSUME OrderInv, NEW c \in Conns, ClientReceive(c)
    PROVE  OrderInv'
<1> DEFINE m == Head(toClient[c])
           u == sessUser[c]
           n == Len(toClient[c])
<1>1. IInv'
  BY ClientReceiveStep DEF OrderInv
<1>2. /\ rows' = rows /\ results' = results /\ dupRemoved' = dupRemoved
      /\ dbQueue' = dbQueue /\ sessUser' = sessUser
      /\ toClient[c] # <<>> /\ toClient' = [toClient EXCEPT ![c] = Tail(@)]
      /\ received' = [received EXCEPT ![u] = @ \cup {m}]
  BY DEF ClientReceive, sessionVars
<1>3. toClient[c] \in Seq(ForClient(c)) /\ n \in Nat /\ n > 0 /\ m \in ForClient(c)
  BY <1>2, LenProperties, EmptySeq, HeadTailProperties DEF OrderInv, IInv
<1>4. u \in Users /\ m \in Packets
  BY <1>3 DEF ForClient, OrderInv, IInv, TypeOK
<1>5. m = toClient[c][1]
  BY <1>2, <1>3
<1>6. /\ toClient'[c] = Tail(toClient[c])
      /\ \A d \in Conns : d # c => toClient'[d] = toClient[d]
  BY <1>2 DEF OrderInv, IInv, TypeOK
<1>7. /\ Len(toClient'[c]) = n - 1
      /\ \A p \in 1..(n - 1) : toClient'[c][p] = toClient[c][p + 1]
  <2>1. /\ Len(Tail(toClient[c])) = n - 1
        /\ \A p \in 1..(n - 1) : Tail(toClient[c])[p] = toClient[c][p + 1]
    BY <1>2, <1>3, HeadTailProperties
  <2> QED
    BY <1>6, <2>1
<1>8. /\ received'[u] = received[u] \cup {m}
      /\ \A v \in Users : v # u => received'[v] = received[v]
  BY <1>2, <1>4 DEF OrderInv, IInv, TypeOK
<1> HIDE DEF m, u, n
<1>9. /\ \A i \in 1..Len(rows) : RowReceived(i)' <=>
            RowReceived(i) \/ rows[i] = [user |-> u, msg |-> m]
      /\ \A i, j : Earlier(i, j)' <=> Earlier(i, j)
      /\ \A i : RowIsMessage(i)' <=> RowIsMessage(i)
  <2>1. ASSUME NEW i \in 1..Len(rows)
        PROVE  RowReceived(i)' <=> RowReceived(i) \/ rows[i] = [user |-> u, msg |-> m]
    <3>1. rows[i].user \in Users /\ rows[i] = [user |-> rows[i].user, msg |-> rows[i].msg]
      BY Shapes DEF OrderInv
    <3> QED
      BY <1>2, <1>4, <1>8, <3>1 DEF RowReceived
  <2> QED
    BY <1>2, <2>1 DEF Earlier, RowIsMessage
<1>10. \A i \in 1..Len(rows) : Settled(i) => Settled(i)'
  BY <1>2, <1>9 DEF Settled
<1>11. ASSUME NEW i \in 1..Len(rows), NEW j \in 1..Len(rows), Earlier(i, j),
              rows[j] = [user |-> u, msg |-> m]
       PROVE  Settled(i)
  <2>1. 1 \in 1..n /\ ~\E q \in 1..(1 - 1) : TRUE
    BY <1>3
  <2> QED
    BY <2>1, <1>5, <1>11 DEF OrderInv, WireInOrder, u, n
<1>12. FirstReceivedInOrder'
  <2> SUFFICES ASSUME NEW i \in 1..Len(rows), NEW j \in 1..Len(rows), Earlier(i, j),
                      RowReceived(j)'
               PROVE  Settled(i)'
    BY <1>2, <1>9 DEF FirstReceivedInOrder, Settled, Earlier
  <2>1. CASE RowReceived(j)
    BY <2>1, <1>10 DEF OrderInv, FirstReceivedInOrder, Settled, Earlier
  <2>2. CASE rows[j] = [user |-> u, msg |-> m]
    BY <2>2, <1>10, <1>11
  <2> QED
    BY <1>9, <2>1, <2>2
<1>13. LoadsInOrder'
  <2>1. \A k \in 1..Len(results) : results[k].ids \subseteq 1..Len(rows)
    BY Shapes DEF OrderInv, SafeResult
  <2> QED
    BY <1>2, <1>9, <1>10, <2>1 DEF OrderInv, LoadsInOrder
<1>14. WireInOrder'
  <2> SUFFICES ASSUME NEW d \in Conns, NEW p \in 1..Len(toClient'[d]),
                      NEW i \in 1..Len(rows'), NEW j \in 1..Len(rows'),
                      rows'[j] = [user |-> sessUser'[d], msg |-> toClient'[d][p]],
                      Earlier(i, j)'
               PROVE  Settled(i)' \/ \E q \in 1..(p - 1) : toClient'[d][q] = rows'[i].msg
    BY DEF WireInOrder
  <2>0. /\ i \in 1..Len(rows) /\ j \in 1..Len(rows) /\ rows' = rows /\ Earlier(i, j)
        /\ rows[j] = [user |-> sessUser[d], msg |-> toClient'[d][p]]
    BY <1>2, <1>9
  <2>1. CASE d # c
    <3>1. toClient'[d] = toClient[d]
      BY <1>6, <2>1
    <3>2. Settled(i) \/ \E q \in 1..(p - 1) : toClient[d][q] = rows[i].msg
      BY <2>0, <3>1 DEF OrderInv, WireInOrder
    <3>3. CASE Settled(i)
      BY <1>10, <2>0, <3>3
    <3>4. ASSUME NEW q \in 1..(p - 1), toClient[d][q] = rows[i].msg
          PROVE  toClient'[d][q] = rows'[i].msg
      BY <2>0, <3>1, <3>4
    <3> QED
      BY <3>2, <3>3, <3>4
  <2>2. CASE d = c
    <3>1. p \in 1..(n - 1) /\ p + 1 \in 1..n /\ (p + 1) - 1 = p /\ p \in Nat
      BY <1>3, <1>7, <2>2
    <3>2. rows[j] = [user |-> sessUser[c], msg |-> toClient[c][p + 1]]
      BY <1>7, <2>0, <2>2, <3>1
    <3>3. Settled(i) \/ \E q \in 1..p : toClient[c][q] = rows[i].msg
      BY <2>0, <3>1, <3>2 DEF OrderInv, WireInOrder, n
    <3>4. ASSUME NEW q \in 1..p, toClient[c][q] = rows[i].msg
          PROVE  Settled(i)' \/ \E r \in 1..(p - 1) : toClient'[c][r] = rows[i].msg
      <4>1. CASE q = 1
        <5>1. rows[i].user = u
          BY <2>0, <2>2, <3>2 DEF Earlier, u
        <5>2. rows[i] = [user |-> u, msg |-> m]
          BY <1>5, <2>0, <3>4, <4>1, <5>1, Shapes DEF OrderInv
        <5> QED
          BY <1>9, <2>0, <5>2 DEF Settled
      <4>2. CASE q # 1
        <5>1. q - 1 \in 1..(p - 1) /\ q - 1 \in 1..(n - 1) /\ (q - 1) + 1 = q
          BY <1>3, <3>1, <4>2
        <5> QED
          BY <1>7, <3>4, <5>1
      <4> QED
        BY <4>1, <4>2
    <3> QED
      BY <1>10, <2>0, <2>2, <3>3, <3>4
  <2> QED
    BY <2>1, <2>2
<1>15. ASSUME NEW v \in Users, NEW k \in Packets, NotYet(v, k) PROVE NotYet(v, k)'
  <2>1. ~(v = u /\ k = m)
    <3>1. 1 \in 1..n
      BY <1>3
    <3> QED
      BY <1>5, <1>15, <3>1 DEF NotYet, u, n
  <2>2. k \notin received'[v]
    BY <1>8, <1>15, <2>1 DEF NotYet
  <2>3. ASSUME NEW d \in Conns, sessUser[d] = v, NEW p \in 1..Len(toClient'[d])
        PROVE  toClient'[d][p] # k
    <3>1. CASE d = c
      <4>1. p \in 1..(n - 1) /\ p + 1 \in 1..n
        BY <1>3, <1>7, <3>1
      <4> QED
        BY <1>7, <1>15, <2>3, <3>1, <4>1 DEF NotYet, n
    <3>2. CASE d # c
      BY <1>6, <1>15, <2>3, <3>2 DEF NotYet
    <3> QED
      BY <3>1, <3>2
  <2> QED
    BY <1>2, <1>15, <2>2, <2>3 DEF NotYet
<1>16. QueuedOnce' /\ RowsDistinct'
  BY <1>2, <1>15 DEF OrderInv, QueuedOnce, RowsDistinct
<1> QED
  BY <1>1, <1>12, <1>13, <1>14, <1>16 DEF OrderInv

LEMMA DbOrder ==
    ASSUME OrderInv, DbStep
    PROVE  OrderInv'
<1> DEFINE req == Head(dbQueue)
           n == Len(rows)
           nq == Len(dbQueue)
<1>1. IInv'
  BY DatabaseStep DEF OrderInv
<1>2. /\ sessUser' = sessUser /\ toClient' = toClient
      /\ received' = received /\ dupRemoved' = dupRemoved
      /\ dbQueue # <<>> /\ dbQueue' = Tail(dbQueue)
  BY DEF DbStep, sessionVars
<1>3. QueueOffline(req) \/ LoadOffline(req) \/ MarkOfflineDelivered(req)
  BY DEF DbStep
<1>4. dbQueue \in Seq(SafeRequest) /\ nq \in Nat /\ nq > 0 /\ req = dbQueue[1] /\ n \in Nat
  BY <1>2, EmptySeq, Shapes DEF OrderInv, IInv
<1>5. /\ Len(dbQueue') = nq - 1
      /\ \A k \in 1..(nq - 1) : dbQueue'[k] = dbQueue[k + 1]
  <2>1. /\ Len(Tail(dbQueue)) = nq - 1
        /\ \A k \in 1..(nq - 1) : Tail(dbQueue)[k] = dbQueue[k + 1]
    BY <1>2, <1>4, HeadTailProperties
  <2> QED
    BY <1>2, <2>1
<1>6. req \in SafeRequest
  BY <1>2, <1>4, HeadTailProperties
<1>7. QueueOffline(req) => /\ req = Queueing(req.user, req.msg)
                           /\ req.user \in Users /\ req.msg \in Packets
  BY <1>6 DEF SafeRequest, DbRequest, QueueOfflineReq, LoadOfflineReq, MarkDeliveredReq,
              Queueing, QueueOffline
<1> HIDE DEF req, n, nq
<1>8. CASE QueueOffline(req)
  <2>1. PICK row : row = [user |-> req.user, msg |-> req.msg]
    OBVIOUS
  <2>2. rows' = Append(rows, row) /\ results' = results
    BY <1>8, <2>1 DEF QueueOffline
  <2>3. row \in Row /\ rows \in Seq(Row)
    BY <1>7, <1>8, <2>1 DEF Row, OrderInv, IInv, TypeOK
  <2>4. /\ Len(rows') = n + 1 /\ rows'[n + 1] = row
        /\ \A i \in 1..n : rows'[i] = rows[i]
    BY <2>2, <2>3, AppendProperties DEF n
  <2>5. NotYet(req.user, req.msg)
    <3>1. 1 \in 1..nq
      BY <1>4
    <3> QED
      BY <1>4, <1>7, <1>8, <3>1 DEF OrderInv, QueuedOnce, nq
  \* the new row is the last of its user, and nobody has received it
  <2>6. /\ row.user \in Users /\ row.msg \in Packets
        /\ row.msg \notin received[row.user]
        /\ \A i \in 1..n : rows[i] # row
        /\ \A c \in Conns : sessUser[c] = row.user =>
              \A p \in 1..Len(toClient[c]) : toClient[c][p] # row.msg
    BY <1>7, <1>8, <2>1, <2>5 DEF NotYet, n
  <2>7. \A i \in 1..n : i \in 1..(n + 1) /\ (Settled(i) => Settled(i)')
    BY <1>2, <1>4, <2>4 DEF Settled, RowReceived
  <2>8. \A i, j \in 1..(n + 1) : Earlier(i, j)' =>
           i \in 1..n /\ (j \in 1..n => Earlier(i, j))
    BY <1>4, <2>4 DEF Earlier, RowIsMessage
  <2>9. FirstReceivedInOrder'
    <3> SUFFICES ASSUME NEW i \in 1..(n + 1), NEW j \in 1..(n + 1), Earlier(i, j)',
                        RowReceived(j)'
                 PROVE  Settled(i)'
      BY <2>4 DEF FirstReceivedInOrder, Settled, Earlier
    <3>1. j # n + 1
      BY <1>2, <2>4, <2>6 DEF RowReceived
    <3>2. j \in 1..n /\ i \in 1..n /\ Earlier(i, j)
      BY <1>4, <2>8, <3>1
    <3>3. RowReceived(j)
      BY <1>2, <2>4, <3>2 DEF RowReceived
    <3>4. Settled(i)
      BY <3>2, <3>3 DEF OrderInv, FirstReceivedInOrder, Settled, Earlier, n
    <3> QED
      BY <2>7, <3>2, <3>4
  <2>10. LoadsInOrder'
    <3>1. \A k \in 1..Len(results) : results[k].ids \subseteq 1..n
      BY Shapes DEF OrderInv, SafeResult, n
    <3> SUFFICES ASSUME NEW k \in 1..Len(results), NEW j \in results[k].ids,
                        NEW i \in 1..(n + 1), Earlier(i, j)'
                 PROVE  i \in results[k].ids \/ Settled(i)'
      BY <2>2, <2>4 DEF LoadsInOrder
    <3>2. j \in 1..n /\ j \in 1..(n + 1)
      BY <1>4, <3>1
    <3>3. i \in 1..n /\ Earlier(i, j)
      BY <2>8, <3>2
    <3>4. i \in results[k].ids \/ Settled(i)
      BY <3>3 DEF OrderInv, LoadsInOrder, n
    <3> QED
      BY <2>7, <3>3, <3>4
  <2>11. WireInOrder'
    <3> SUFFICES ASSUME NEW c \in Conns, NEW p \in 1..Len(toClient'[c]),
                        NEW i \in 1..Len(rows'), NEW j \in 1..Len(rows'),
                        rows'[j] = [user |-> sessUser'[c], msg |-> toClient'[c][p]],
                        Earlier(i, j)'
                 PROVE  Settled(i)' \/ \E q \in 1..(p - 1) : toClient'[c][q] = rows'[i].msg
      BY DEF WireInOrder
    <3>1. /\ p \in 1..Len(toClient[c]) /\ i \in 1..(n + 1) /\ j \in 1..(n + 1)
          /\ rows'[j] = [user |-> sessUser[c], msg |-> toClient[c][p]]
      BY <1>2, <2>4
    <3>2. j # n + 1
      <4>1. toClient[c][p] # row.msg \/ sessUser[c] # row.user
        BY <2>6, <3>1
      <4> QED
        BY <2>4, <3>1, <4>1
    <3>3. /\ i \in 1..n /\ j \in 1..n /\ Earlier(i, j)
          /\ rows[j] = [user |-> sessUser[c], msg |-> toClient[c][p]]
      BY <1>4, <2>4, <2>8, <3>1, <3>2
    <3>4. Settled(i) \/ \E q \in 1..(p - 1) : toClient[c][q] = rows[i].msg
      BY <3>1, <3>3 DEF OrderInv, WireInOrder, n
    <3> QED
      BY <1>2, <2>4, <2>7, <3>3, <3>4
  <2>12. RowsDistinct'
    <3> SUFFICES ASSUME NEW i \in 1..(n + 1), NEW j \in 1..(n + 1), rows'[i] = rows'[j]
                 PROVE  i = j
      BY <2>4 DEF RowsDistinct
    <3>1. (i \in 1..n \/ i = n + 1) /\ (j \in 1..n \/ j = n + 1)
      BY <1>4
    <3>2. \A k, l \in 1..n : rows[k] = rows[l] => k = l
      BY DEF OrderInv, RowsDistinct, n
    <3> QED
      BY <2>4, <2>6, <3>1, <3>2
  <2>13. QueuedOnce'
    <3> SUFFICES ASSUME NEW u \in Users, NEW m \in Packets
                 PROVE  /\ \A k \in 1..Len(dbQueue') : dbQueue'[k] = Queueing(u, m) => NotYet(u, m)'
                        /\ \A k, l \in 1..Len(dbQueue') :
                              dbQueue'[k] = Queueing(u, m) /\ dbQueue'[l] = Queueing(u, m)
                                  => k = l
      BY DEF QueuedOnce
    <3>1. \A k \in 1..(nq - 1) : k + 1 \in 1..nq /\ k + 1 # 1 /\ k \in Nat
      BY <1>4
    <3>2. /\ \A k \in 1..nq : dbQueue[k] = Queueing(u, m) => NotYet(u, m)
          /\ \A k, l \in 1..nq : dbQueue[k] = Queueing(u, m) /\ dbQueue[l] = Queueing(u, m)
                => k = l
      BY DEF OrderInv, QueuedOnce, nq
    <3>3. ASSUME NEW k \in 1..(nq - 1), dbQueue'[k] = Queueing(u, m) PROVE NotYet(u, m)'
      <4>1. dbQueue[k + 1] = Queueing(u, m) /\ k + 1 \in 1..nq /\ k + 1 # 1 /\ 1 \in 1..nq
        BY <1>4, <1>5, <3>1, <3>3
      <4>2. NotYet(u, m)
        BY <3>2, <4>1
      <4>3. row # [user |-> u, msg |-> m]
        <5> SUFFICES ASSUME row = [user |-> u, msg |-> m] PROVE FALSE
          OBVIOUS
        <5>1. dbQueue[1] = Queueing(u, m)
          BY <1>4, <1>7, <1>8, <2>1
        <5> QED
          BY <3>2, <4>1, <5>1
      <4>4. \A i \in 1..Len(rows') : rows'[i] # [user |-> u, msg |-> m]
        BY <1>4, <2>4, <4>2, <4>3 DEF NotYet, n
      <4> QED
        BY <1>2, <4>2, <4>4 DEF NotYet
    <3>4. ASSUME NEW k \in 1..(nq - 1), NEW l \in 1..(nq - 1),
                 dbQueue'[k] = Queueing(u, m), dbQueue'[l] = Queueing(u, m)
          PROVE  k = l
      <4>1. k + 1 = l + 1
        BY <1>5, <3>1, <3>2, <3>4
      <4> QED
        BY <3>1, <4>1
    <3> QED
      BY <1>5, <3>3, <3>4
  <2> QED
    BY <1>1, <2>9, <2>10, <2>11, <2>12, <2>13 DEF OrderInv
<1>9. CASE LoadOffline(req) \/ MarkOfflineDelivered(req)
  <2>1. rows' = rows /\ req.op # "queueOffline"
    BY <1>9 DEF LoadOffline, MarkOfflineDelivered
  <2>2. /\ \A i : Settled(i)' <=> Settled(i)
        /\ \A i, j : Earlier(i, j)' <=> Earlier(i, j)
    BY <1>2, <2>1 DEF Settled, Earlier, RowReceived, RowIsMessage
  <2>3. FirstReceivedInOrder' /\ RowsDistinct'
    BY <1>2, <2>1 DEF OrderInv, FirstReceivedInOrder, RowsDistinct, RowReceived, RowIsMessage
  <2>4. WireInOrder'
    BY <1>2, <2>1, <2>2 DEF OrderInv, WireInOrder
  <2>5. \A u \in Users, m \in Packets : NotYet(u, m) => NotYet(u, m)'
    BY <1>2, <2>1 DEF NotYet
  <2>6. QueuedOnce'
    <3> SUFFICES ASSUME NEW u \in Users, NEW m \in Packets
                 PROVE  /\ \A k \in 1..Len(dbQueue') : dbQueue'[k] = Queueing(u, m) => NotYet(u, m)'
                        /\ \A k, l \in 1..Len(dbQueue') :
                              dbQueue'[k] = Queueing(u, m) /\ dbQueue'[l] = Queueing(u, m)
                                  => k = l
      BY DEF QueuedOnce
    <3>1. \A k \in 1..(nq - 1) : k + 1 \in 1..nq /\ k \in Nat
      BY <1>4
    <3>2. /\ \A k \in 1..nq : dbQueue[k] = Queueing(u, m) => NotYet(u, m)'
          /\ \A k, l \in 1..nq : dbQueue[k] = Queueing(u, m) /\ dbQueue[l] = Queueing(u, m)
                => k = l
      BY <2>5 DEF OrderInv, QueuedOnce, nq
    <3>3. \A k \in 1..(nq - 1) : dbQueue'[k] = Queueing(u, m) => NotYet(u, m)'
      BY <1>5, <3>1, <3>2
    <3>4. ASSUME NEW k \in 1..(nq - 1), NEW l \in 1..(nq - 1),
                 dbQueue'[k] = Queueing(u, m), dbQueue'[l] = Queueing(u, m)
          PROVE  k = l
      <4>1. k + 1 = l + 1
        BY <1>5, <3>1, <3>2, <3>4
      <4> QED
        BY <3>1, <4>1
    <3> QED
      BY <1>5, <3>3, <3>4
  \* what a load leaves out is not in the queue any more
  <2>7. LoadsInOrder'
    <3>1. CASE MarkOfflineDelivered(req)
      BY <2>1, <2>2, <3>1 DEF OrderInv, LoadsInOrder, MarkOfflineDelivered
    <3>2. CASE LoadOffline(req)
      <4>1. PICK res : res = [user |-> req.user, ids |-> {i \in live : rows[i].user = req.user}]
        OBVIOUS
      <4>2. results' = Append(results, res)
        BY <3>2, <4>1 DEF LoadOffline
      <4>3. PICK S : S = SafeResult \cup {res}
        OBVIOUS
      <4>4. results \in Seq(S) /\ res \in S
        BY <4>3, SeqMonotonic DEF OrderInv, IInv
      <4>5. /\ Len(results') = Len(results) + 1 /\ Len(results) \in Nat
            /\ \A k \in 1..Len(results) : results'[k] = results[k]
            /\ results'[Len(results) + 1] = res
        BY <4>2, <4>4, AppendProperties, LenProperties
      <4>6. ASSUME NEW j \in res.ids, NEW i \in 1..n, Earlier(i, j)
            PROVE  i \in res.ids \/ Settled(i)
        <5>1. rows[i].user = req.user /\ RowIsMessage(i)
          BY <4>1, <4>6 DEF Earlier
        <5>2. i \in live \/ Settled(i)
          BY <5>1 DEF OrderInv, IInv, LossOnlyByDuplicateRule, Settled, n
        <5> QED
          BY <4>1, <5>1, <5>2
      <4> SUFFICES ASSUME NEW k \in 1..Len(results'), NEW j \in results'[k].ids,
                          NEW i \in 1..n, Earlier(i, j)
                   PROVE  i \in results'[k].ids \/ Settled(i)
        BY <2>1, <2>2 DEF LoadsInOrder, n
      <4>7. CASE k \in 1..Len(results)
        BY <4>5, <4>7 DEF OrderInv, LoadsInOrder, n
      <4>8. CASE k = Len(results) + 1
        BY <4>5, <4>6, <4>8
      <4> QED
        BY <4>5, <4>7, <4>8
    <3> QED
      BY <1>9, <3>1, <3>2
  <2> QED
    BY <1>1, <2>3, <2>4, <2>6, <2>7 DEF OrderInv
<1> QED
  BY <1>3, <1>8, <1>9

\* enqueueIfOffline posts one request for each addressed user who is offline
LEMMA EnqueuedRequests ==
    ASSUME OrderInv, NEW R \in SUBSET Users, NEW m \in Packets, EnqueueIfOfflineMany(R, m)
    PROVE  \E n \in Nat : \E offline \in [1..n -> {u \in R : ~Online(u)}] :
              /\ \A i, j \in 1..n : offline[i] = offline[j] => i = j
              /\ Len(dbQueue') = Len(dbQueue) + n
              /\ \A k \in 1..Len(dbQueue) : dbQueue'[k] = dbQueue[k]
              /\ \A i \in 1..n : dbQueue'[Len(dbQueue) + i] = Queueing(offline[i], m)
<1> DEFINE off == {u \in R : ~Online(u)}
           nq == Len(dbQueue)
<1>3. PICK offline \in SetToSeqs(off) :
        dbQueue' = dbQueue \o [i \in DOMAIN offline |-> Queueing(offline[i], m)]
  BY DEF EnqueueIfOfflineMany, Queueing
<1>4. PICK n \in Nat : /\ offline \in [1..n -> off]
                       /\ \A i, j \in 1..n : offline[i] = offline[j] => i = j
  <2>1. IsFiniteSet(off)
    BY PacketAssumption, FS_Subset
  <2>2. Cardinality(off) \in Nat
    BY <2>1, FS_CardinalityType
  <2> QED
    BY <1>3, <2>2 DEF SetToSeqs, IsInjective
<1> HIDE DEF off
<1>5. /\ Len(dbQueue') = nq + n /\ nq \in Nat
      /\ \A k \in 1..nq : dbQueue'[k] = dbQueue[k]
      /\ \A i \in 1..n : dbQueue'[nq + i] = Queueing(offline[i], m)
  <2>1. PICK reqs : reqs = [i \in DOMAIN offline |-> Queueing(offline[i], m)]
    OBVIOUS
  <2>2. PICK S : S = SafeRequest \cup {Queueing(u, m) : u \in off}
    OBVIOUS
  <2>3. dbQueue \in Seq(S)
    BY <2>2, SeqMonotonic DEF OrderInv, IInv
  <2>4. reqs \in [1..n -> S] /\ \A i \in 1..n : reqs[i] = Queueing(offline[i], m)
    BY <1>4, <2>1, <2>2
  <2>5. reqs \in Seq(S) /\ Len(reqs) = n
    <3>1. reqs \in Seq(S)
      BY <2>4, SeqDef
    <3>2. Len(reqs) \in Nat /\ DOMAIN reqs = 1..Len(reqs)
      BY <3>1, LenProperties
    <3>3. 1..Len(reqs) = 1..n
      BY <2>4, <3>2
    <3>4. PICK l \in Nat : l = Len(reqs)
      BY <3>2
    <3>5. 1..l = 1..n /\ l \in Nat /\ n \in Nat
      BY <3>3, <3>4
    <3>6. (l > 0 => l \in 1..l) /\ (n > 0 => n \in 1..n)
      BY <3>5
    <3>7. ~(l < n) /\ ~(n < l)
      BY <3>5, <3>6
    <3> QED
      BY <3>1, <3>4, <3>7
  <2>6. dbQueue' = dbQueue \o reqs
    BY <1>3, <2>1
  <2>7. /\ Len(dbQueue') = nq + n /\ nq \in Nat
        /\ \A i \in 1..(nq + n) : dbQueue'[i] = IF i <= nq THEN dbQueue[i] ELSE reqs[i - nq]
    BY <2>3, <2>5, <2>6, ConcatProperties, LenProperties
  <2>8. \A i \in 1..n : nq + i \in 1..(nq + n) /\ ~(nq + i <= nq) /\ (nq + i) - nq = i
    BY <2>7
  <2> QED
    BY <2>4, <2>7, <2>8
<1> QED
  BY <1>4, <1>5 DEF off

LEMMA EnqueueOrder ==
    ASSUME OrderInv, NEW R \in SUBSET Users, NEW m \in Packets, EnqueueIfOfflineMany(R, m)
    PROVE  OrderInv'
<1> DEFINE off == {u \in R : ~Online(u)}
           nq == Len(dbQueue)
<1>1. IInv'
  BY EnqueueStep DEF OrderInv
<1>2. /\ UNCHANGED <<rows, results, dupRemoved, received>> /\ sessUser' = sessUser
      /\ addressed[m] = {} /\ toClient' = Routed({u \in R : Online(u)}, <<m>>)
  BY DEF EnqueueIfOfflineMany, sessionVars
<1>3. nq \in Nat
  BY Shapes DEF OrderInv
<1>4. PICK n \in Nat : \E offline \in [1..n -> off] :
         /\ \A i, j \in 1..n : offline[i] = offline[j] => i = j
         /\ Len(dbQueue') = nq + n
         /\ \A k \in 1..nq : dbQueue'[k] = dbQueue[k]
         /\ \A i \in 1..n : dbQueue'[nq + i] = Queueing(offline[i], m)
  BY EnqueuedRequests
<1>5. PICK offline \in [1..n -> off] :
         /\ \A i, j \in 1..n : offline[i] = offline[j] => i = j
         /\ Len(dbQueue') = nq + n
         /\ \A k \in 1..nq : dbQueue'[k] = dbQueue[k]
         /\ \A i \in 1..n : dbQueue'[nq + i] = Queueing(offline[i], m)
  BY <1>4
<1> HIDE DEF off
<1> HIDE DEF nq
<1>6. ASSUME NEW d \in Conns
      PROVE  \/ toClient'[d] = toClient[d]
             \/ /\ toClient'[d] = toClient[d] \o <<m>>
                /\ \E u \in R : u \in Users /\ Online(u) /\ sessUser[d] = u
  <2>1. CASE \E u \in {u \in R : Online(u)} : userMap[u] = d
    BY <1>2, <2>1, SessionAssumption DEF Routed, OrderInv, IInv, SessionInv
  <2>2. CASE ~\E u \in {u \in R : Online(u)} : userMap[u] = d
    BY <1>2, <2>2 DEF Routed
  <2> QED
    BY <2>1, <2>2
<1>7. ASSUME NEW d \in Conns, toClient'[d] = toClient[d] \o <<m>>
      PROVE  /\ Len(toClient'[d]) = Len(toClient[d]) + 1 /\ Len(toClient[d]) \in Nat
             /\ \A p \in 1..Len(toClient[d]) : toClient'[d][p] = toClient[d][p]
             /\ toClient'[d][Len(toClient[d]) + 1] = m
  <2>1. toClient[d] \in Seq(Packets)
    BY DEF OrderInv, IInv, TypeOK
  <2>2. toClient'[d] = Append(toClient[d], m)
    BY <1>7, <2>1, AppendIsConcat
  <2> QED
    BY <2>1, <2>2, AppendProperties, LenProperties
\* a fresh packet has no row and no request, and nobody has seen it
<1>8. \A i \in 1..Len(rows) : rows[i].msg # m
  BY <1>2, Shapes DEF OrderInv
<1>9. ASSUME NEW u \in Users, NEW k \in 1..nq, dbQueue[k] = Queueing(u, m) PROVE FALSE
  <2>1. u \in addressed[m]
    BY <1>9, Shapes DEF OrderInv, nq
  <2> QED
    BY <1>2, <2>1
<1>10. /\ \A i : Settled(i)' <=> Settled(i)
       /\ \A i, j : Earlier(i, j)' <=> Earlier(i, j)
  BY <1>2 DEF Settled, Earlier, RowReceived, RowIsMessage
<1>11. LoadsInOrder' /\ FirstReceivedInOrder' /\ RowsDistinct'
  <2>1. LoadsInOrder'
    BY <1>2, <1>10 DEF OrderInv, LoadsInOrder
  <2>2. FirstReceivedInOrder' /\ RowsDistinct'
    BY <1>2 DEF OrderInv, FirstReceivedInOrder, RowsDistinct, RowReceived, RowIsMessage
  <2> QED
    BY <2>1, <2>2
<1>12. WireInOrder'
  <2> SUFFICES ASSUME NEW d \in Conns, NEW p \in 1..Len(toClient'[d]),
                      NEW i \in 1..Len(rows'), NEW j \in 1..Len(rows'),
                      rows'[j] = [user |-> sessUser'[d], msg |-> toClient'[d][p]],
                      Earlier(i, j)'
               PROVE  Settled(i)' \/ \E q \in 1..(p - 1) : toClient'[d][q] = rows'[i].msg
    BY DEF WireInOrder
  <2>1. /\ i \in 1..Len(rows) /\ j \in 1..Len(rows) /\ rows' = rows /\ Earlier(i, j)
        /\ rows[j] = [user |-> sessUser[d], msg |-> toClient'[d][p]]
    BY <1>2, <1>10
  <2>2. toClient'[d][p] # m
    BY <1>8, <2>1
  <2>3. /\ p \in 1..Len(toClient[d]) /\ p \in Nat
        /\ \A q \in 1..p : toClient'[d][q] = toClient[d][q]
    <3>1. CASE toClient'[d] = toClient[d]
      <4>1. Len(toClient[d]) \in Nat
        BY Shapes DEF OrderInv
      <4> QED
        BY <3>1, <4>1
    <3>2. CASE toClient'[d] = toClient[d] \o <<m>>
      <4>1. PICK len \in Nat : len = Len(toClient[d])
        BY <1>7, <3>2
      <4>2. p \in 1..(len + 1) /\ p # len + 1
        BY <1>7, <2>2, <3>2, <4>1
      <4>3. p \in 1..len /\ \A q \in 1..p : q \in 1..len
        BY <4>2
      <4> QED
        BY <1>7, <3>2, <4>1, <4>3
    <3> QED
      BY <1>6, <3>1, <3>2
  <2>4. Settled(i) \/ \E q \in 1..(p - 1) : toClient[d][q] = rows[i].msg
    <3>1. rows[j] = [user |-> sessUser[d], msg |-> toClient[d][p]]
      <4>1. p \in 1..p
        BY <2>3
      <4> QED
        BY <2>1, <2>3, <4>1
    <3> QED
      BY <2>1, <2>3, <3>1 DEF OrderInv, WireInOrder
  <2>5. \A q \in 1..(p - 1) : q \in 1..p
    BY <2>3
  <2> QED
    BY <1>10, <2>1, <2>3, <2>4, <2>5
<1>13. ASSUME NEW v \in Users, NEW x \in Packets, NotYet(v, x), x # m \/ v \in off
       PROVE  NotYet(v, x)'
  <2>1. ASSUME NEW d \in Conns, sessUser[d] = v, NEW p \in 1..Len(toClient'[d])
        PROVE  toClient'[d][p] # x
    <3>1. CASE toClient'[d] = toClient[d]
      BY <1>13, <2>1, <3>1 DEF NotYet
    <3>2. CASE toClient'[d] # toClient[d]
      <4>1. toClient'[d] = toClient[d] \o <<m>> /\ Online(v)
        BY <1>6, <2>1, <3>2
      <4>2. x # m
        BY <1>13, <4>1 DEF off
      <4>3. PICK len \in Nat : len = Len(toClient[d])
        BY <1>7, <4>1
      <4>4. p \in 1..len \/ p = len + 1
        BY <1>7, <4>1, <4>3
      <4> QED
        BY <1>7, <1>13, <2>1, <4>1, <4>2, <4>3, <4>4 DEF NotYet
    <3> QED
      BY <3>1, <3>2
  <2> QED
    BY <1>2, <1>13, <2>1 DEF NotYet
<1>14. \A v \in off : v \in Users /\ NotYet(v, m)
  <2> SUFFICES ASSUME NEW v \in off PROVE v \in Users /\ NotYet(v, m)
    OBVIOUS
  <2>1. v \in Users
    BY DEF off
  <2>2. m \notin received[v]
    BY <1>2, <2>1 DEF OrderInv, IInv, OnlyRecipientsReceive
  <2>3. ASSUME NEW d \in Conns, sessUser[d] = v, NEW p \in 1..Len(toClient[d])
        PROVE  toClient[d][p] # m
    <3>1. toClient[d][p] \in ForClient(d)
      BY Shapes DEF OrderInv
    <3> QED
      BY <1>2, <2>3, <3>1 DEF ForClient
  <2> QED
    BY <1>8, <2>1, <2>2, <2>3 DEF NotYet
<1>15. QueuedOnce'
  <2> SUFFICES ASSUME NEW v \in Users, NEW x \in Packets
               PROVE  /\ \A k \in 1..Len(dbQueue') : dbQueue'[k] = Queueing(v, x) => NotYet(v, x)'
                      /\ \A k, l \in 1..Len(dbQueue') :
                            dbQueue'[k] = Queueing(v, x) /\ dbQueue'[l] = Queueing(v, x)
                                => k = l
    BY DEF QueuedOnce
  <2>1. \A k \in 1..(nq + n) : k \in 1..nq \/ \E i \in 1..n : k = nq + i
    <3>1. \A k \in 1..(nq + n) : k \in 1..nq \/ (k - nq \in 1..n /\ k = nq + (k - nq))
      BY <1>3
    <3> QED
      BY <3>1
  \* the requests with m are the new ones, one per user
  <2>2. ASSUME NEW k \in 1..(nq + n), dbQueue'[k] = Queueing(v, x)
        PROVE  \/ x # m /\ k \in 1..nq /\ dbQueue[k] = Queueing(v, x)
               \/ x = m /\ \E i \in 1..n : k = nq + i /\ offline[i] = v
    <3>1. CASE k \in 1..nq
      <4>1. dbQueue[k] = Queueing(v, x)
        BY <1>5, <2>2, <3>1
      <4> QED
        BY <1>9, <3>1, <4>1
    <3>2. ASSUME NEW i \in 1..n, k = nq + i PROVE x = m /\ offline[i] = v
      <4>1. Queueing(offline[i], m) = Queueing(v, x)
        BY <1>5, <2>2, <3>2
      <4> QED
        BY <4>1 DEF Queueing
    <3> QED
      BY <2>1, <3>1, <3>2
  <2>3. ASSUME NEW k \in 1..(nq + n), dbQueue'[k] = Queueing(v, x) PROVE NotYet(v, x)'
    <3>1. CASE x # m
      <4>1. NotYet(v, x)
        BY <2>2, <2>3, <3>1 DEF OrderInv, QueuedOnce, nq
      <4> QED
        BY <1>13, <3>1, <4>1
    <3>2. CASE x = m
      <4>1. v \in off
        BY <1>5, <2>2, <2>3, <3>2
      <4> QED
        BY <1>13, <1>14, <3>2, <4>1
    <3> QED
      BY <3>1, <3>2
  <2>4. ASSUME NEW k \in 1..(nq + n), NEW l \in 1..(nq + n),
               dbQueue'[k] = Queueing(v, x), dbQueue'[l] = Queueing(v, x)
        PROVE  k = l
    <3>1. CASE x # m
      <4>1. /\ k \in 1..nq /\ dbQueue[k] = Queueing(v, x)
            /\ l \in 1..nq /\ dbQueue[l] = Queueing(v, x)
        BY <2>2, <2>4, <3>1
      <4> QED
        BY <4>1 DEF OrderInv, QueuedOnce, nq
    <3>2. CASE x = m
      BY <1>5, <2>2, <2>4, <3>2
    <3> QED
      BY <3>1, <3>2
  <2> QED
    BY <1>5, <2>3, <2>4
<1> QED
  BY <1>1, <1>11, <1>12, <1>15 DEF OrderInv

\* The ascending sequence of a finite set of ids names each of them, in order
LEMMA AscendingAll ==
    ASSUME NEW F \in SUBSET Nat, IsFiniteSet(F), NEW s \in Ascending(F)
    PROVE  \E n \in Nat :
              /\ s \in [1..n -> F] /\ n = Cardinality(F)
              /\ \A i \in F : \E k \in 1..n : s[k] = i
              /\ \A k, l \in 1..n : s[l] < s[k] => l < k
<1>1. PICK n \in Nat : n = Cardinality(F)
  BY FS_CardinalityType
<1>2. s \in [1..n -> F] /\ \A k, l \in 1..n : k < l => s[k] < s[l]
  BY <1>1 DEF Ascending
<1>3. \A k \in 1..n : s[k] \in Nat
  BY <1>2
<1>4. ASSUME NEW k \in 1..n, NEW l \in 1..n, s[l] < s[k] PROVE l < k
  <2>1. k \in Nat /\ l \in Nat /\ s[k] \in Nat /\ s[l] \in Nat
    BY <1>1, <1>3
  <2>2. l # k /\ ~(k < l)
    BY <1>2, <1>4, <2>1
  <2> QED
    BY <2>1, <2>2
<1>5. ASSUME NEW k \in 1..n, NEW l \in 1..n, k # l PROVE s[k] # s[l]
  <2>1. k < l \/ l < k
    BY <1>1, <1>5
  <2> QED
    BY <1>2, <1>3, <2>1
<1>6. s \in Injection(1..n, F)
  BY <1>2, <1>5 DEF Injection, IsInjective
<1>7. Cardinality(1..n) = n
  BY <1>1, FS_Interval
<1>8. s \in Surjection(1..n, F)
  BY <1>1, <1>6, <1>7, FS_Injection
<1> QED
  BY <1>1, <1>2, <1>4, <1>8 DEF Surjection

LEMMA LoadedOrder ==
    ASSUME OrderInv, OnOfflineLoaded
    PROVE  OrderInv'
<1> DEFINE u == Head(results).user
           ids == Head(results).ids
           dup == Duplicates(u, ids)
           fresh == ids \ dup
           removable == Removable(u, ids)
           req == [op |-> "markOfflineDelivered", ids |-> removable]
           len == Len(results)
<1>1. IInv'
  BY OfflineLoadedStep DEF OrderInv
<1>2. /\ sessUser' = sessUser /\ rows' = rows /\ received' = received
      /\ results # <<>> /\ results' = Tail(results)
      /\ dbQueue' = dbQueue \/ dbQueue' = Append(dbQueue, req)
      /\ dupRemoved' = dupRemoved \cup (removable \cap dup)
  BY DEF OnOfflineLoaded, sessionVars
<1>3. \/ /\ Online(u)
         /\ \E s \in Ascending(fresh) :
               toClient' = Routed({u}, [k \in DOMAIN s |-> rows[s[k]].msg])
      \/ toClient' = toClient
  BY DEF OnOfflineLoaded
<1>4. /\ len \in Nat /\ 1 \in 1..len /\ Head(results) = results[1]
      /\ Len(results') = len - 1
      /\ \A k \in 1..(len - 1) : k + 1 \in 1..len /\ results'[k] = results[k + 1]
  <2>1. results \in Seq(SafeResult)
    BY DEF OrderInv, IInv
  <2>2. len \in Nat /\ len > 0
    BY <1>2, <2>1, EmptySeq
  <2>3. /\ Len(Tail(results)) = len - 1
        /\ \A k \in 1..(len - 1) : Tail(results)[k] = results[k + 1]
    BY <1>2, <2>1, HeadTailProperties
  <2> QED
    BY <1>2, <2>1, <2>2, <2>3
<1>5. results[1] \in SafeResult
  BY <1>4, Shapes DEF OrderInv
<1>6. /\ u \in Users /\ ids \subseteq 1..Len(rows)
      /\ \A i \in ids : rows[i].user = u
  BY <1>4, <1>5 DEF SafeResult, LoadResult
<1>7. Online(u) => dup \subseteq dupRemoved'
  BY <1>2 DEF Removable
<1>8. \A j \in ids : \A i \in 1..Len(rows) : Earlier(i, j) => i \in ids \/ Settled(i)
  BY <1>4 DEF OrderInv, LoadsInOrder
<1>9. req.op # "queueOffline"
  OBVIOUS
<1> HIDE DEF u, ids, dup, removable, req, len
<1>10. /\ \A i : Settled(i) => Settled(i)'
       /\ \A i, j : Earlier(i, j)' <=> Earlier(i, j)
  BY <1>2 DEF Settled, Earlier, RowReceived, RowIsMessage
<1>11. FirstReceivedInOrder' /\ RowsDistinct'
  BY <1>2 DEF OrderInv, FirstReceivedInOrder, RowsDistinct, RowReceived, RowIsMessage
<1>12. LoadsInOrder'
  <2> SUFFICES ASSUME NEW k \in 1..(len - 1), NEW j \in results'[k].ids,
                      NEW i \in 1..Len(rows), Earlier(i, j)
               PROVE  i \in results'[k].ids \/ Settled(i)'
    BY <1>2, <1>4, <1>10 DEF LoadsInOrder
  <2>1. k + 1 \in 1..len /\ results'[k] = results[k + 1]
    BY <1>4
  <2>2. i \in results[k + 1].ids \/ Settled(i)
    BY <2>1 DEF OrderInv, LoadsInOrder, len
  <2> QED
    BY <1>10, <2>1, <2>2
\* what goes out: the fresh rows, in order, on the connection of u
<1>13. ASSUME NEW d \in Conns, toClient'[d] # toClient[d]
       PROVE  \E l, n \in Nat : \E s \in [1..n -> fresh] :
                 /\ Online(u) /\ sessUser[d] = u
                 /\ \A i \in fresh : \E k \in 1..n : s[k] = i
                 /\ \A k, m \in 1..n : s[m] < s[k] => m < k
                 /\ l = Len(toClient[d]) /\ Len(toClient'[d]) = l + n
                 /\ \A p \in 1..l : toClient'[d][p] = toClient[d][p]
                 /\ \A k \in 1..n : toClient'[d][l + k] = rows[s[k]].msg
  <2>1. PICK s \in Ascending(fresh) :
           toClient' = Routed({u}, [k \in DOMAIN s |-> rows[s[k]].msg])
    BY <1>3, <1>13
  <2>2. Online(u)
    BY <1>3, <1>13
  <2>3. fresh \in SUBSET Nat /\ IsFiniteSet(fresh)
    <3>1. Len(rows) \in Nat
      BY Shapes DEF OrderInv
    <3>2. IsFiniteSet(1..Len(rows)) /\ 1..Len(rows) \subseteq Nat
      BY <3>1, FS_Interval
    <3>3. fresh \in SUBSET (1..Len(rows))
      BY <1>6
    <3> QED
      BY <3>2, <3>3, FS_Subset
  <2> HIDE DEF fresh
  <2>4. PICK n \in Nat : /\ s \in [1..n -> fresh]
                         /\ \A i \in fresh : \E k \in 1..n : s[k] = i
                         /\ \A k, m \in 1..n : s[m] < s[k] => m < k
    BY <2>1, <2>3, AscendingAll
  <2>5. PICK packets : packets = [k \in DOMAIN s |-> rows[s[k]].msg]
    OBVIOUS
  <2>6. packets \in [1..n -> Packets] /\ \A k \in 1..n : packets[k] = rows[s[k]].msg
    <3>1. \A k \in 1..n : s[k] \in 1..Len(rows)
      BY <1>6, <2>4 DEF fresh
    <3>2. \A k \in 1..n : rows[s[k]].msg \in Packets
      BY <3>1, Shapes DEF OrderInv
    <3> QED
      BY <2>4, <2>5, <3>2
  <2>7. packets \in Seq(Packets) /\ Len(packets) = n
    <3>1. packets \in Seq(Packets)
      BY <2>6, SeqDef
    <3>2. PICK l \in Nat : l = Len(packets) /\ DOMAIN packets = 1..l
      BY <3>1, LenProperties
    <3>3. 1..l = 1..n
      BY <2>6, <3>2
    <3>4. (l > 0 => l \in 1..l) /\ (n > 0 => n \in 1..n)
      OBVIOUS
    <3>5. ~(l < n) /\ ~(n < l)
      BY <3>3, <3>4
    <3> QED
      BY <3>1, <3>2, <3>5
  <2>8. toClient'[d] = toClient[d] \o packets /\ userMap[u] = d
    BY <1>13, <2>1, <2>5 DEF Routed
  <2>9. sessUser[d] = u
    BY <1>6, <2>8, SessionAssumption DEF OrderInv, IInv, SessionInv
  <2>10. PICK l \in Nat : l = Len(toClient[d])
    BY Shapes DEF OrderInv
  <2>11. /\ Len(toClient'[d]) = l + n
         /\ \A p \in 1..(l + n) :
               toClient'[d][p] = IF p <= l THEN toClient[d][p] ELSE packets[p - l]
    <3>1. PICK wire \in Seq(Packets) : wire = toClient[d]
      BY DEF OrderInv, IInv, TypeOK
    <3>2. PICK longer : longer = wire \o packets
      OBVIOUS
    <3>3. /\ Len(longer) = Len(wire) + Len(packets)
          /\ \A p \in 1..(Len(wire) + Len(packets)) :
                longer[p] = IF p <= Len(wire) THEN wire[p] ELSE packets[p - Len(wire)]
      BY <2>7, <3>2, ConcatProperties
    <3> QED
      BY <2>7, <2>8, <2>10, <3>1, <3>2, <3>3
  <2>12. \A k \in 1..n : l + k \in 1..(l + n) /\ ~(l + k <= l) /\ (l + k) - l = k
    OBVIOUS
  <2>13. \A k \in 1..n : toClient'[d][l + k] = rows[s[k]].msg
    BY <2>6, <2>11, <2>12
  <2>14. \A p \in 1..l : toClient'[d][p] = toClient[d][p]
    <3>1. \A p \in 1..l : p \in 1..(l + n) /\ p <= l
      OBVIOUS
    <3> QED
      BY <2>11, <3>1
  <2> QED
    BY <2>2, <2>4, <2>9, <2>10, <2>11, <2>13, <2>14
<1>14. WireInOrder'
  <2> SUFFICES ASSUME NEW d \in Conns, NEW p \in 1..Len(toClient'[d]),
                      NEW i \in 1..Len(rows'), NEW j \in 1..Len(rows'),
                      rows'[j] = [user |-> sessUser'[d], msg |-> toClient'[d][p]],
                      Earlier(i, j)'
               PROVE  Settled(i)' \/ \E q \in 1..(p - 1) : toClient'[d][q] = rows'[i].msg
    BY DEF WireInOrder
  <2>1. /\ i \in 1..Len(rows) /\ j \in 1..Len(rows) /\ rows' = rows /\ Earlier(i, j)
        /\ rows[j] = [user |-> sessUser[d], msg |-> toClient'[d][p]]
    BY <1>2, <1>10
  <2>2. CASE toClient'[d] = toClient[d]
    <3>1. Settled(i) \/ \E q \in 1..(p - 1) : toClient[d][q] = rows[i].msg
      BY <2>1, <2>2 DEF OrderInv, WireInOrder
    <3> QED
      BY <1>10, <2>1, <2>2, <3>1
  <2>3. CASE toClient'[d] # toClient[d]
    <3>0. PICK l, n \in Nat : \E s \in [1..n -> fresh] :
                 /\ Online(u) /\ sessUser[d] = u
                 /\ \A x \in fresh : \E k \in 1..n : s[k] = x
                 /\ \A k, m \in 1..n : s[m] < s[k] => m < k
                 /\ l = Len(toClient[d]) /\ Len(toClient'[d]) = l + n
                 /\ \A q \in 1..l : toClient'[d][q] = toClient[d][q]
                 /\ \A k \in 1..n : toClient'[d][l + k] = rows[s[k]].msg
      BY <1>13, <2>3
    <3>1. PICK s \in [1..n -> fresh] :
                 /\ Online(u) /\ sessUser[d] = u
                 /\ \A x \in fresh : \E k \in 1..n : s[k] = x
                 /\ \A k, m \in 1..n : s[m] < s[k] => m < k
                 /\ l = Len(toClient[d]) /\ Len(toClient'[d]) = l + n
                 /\ \A q \in 1..l : toClient'[d][q] = toClient[d][q]
                 /\ \A k \in 1..n : toClient'[d][l + k] = rows[s[k]].msg
      BY <3>0
    <3>2. p \in 1..l \/ (p - l \in 1..n /\ p = l + (p - l))
      BY <3>1
    <3>3. CASE p \in 1..l
      <4>1. p \in 1..Len(toClient[d]) /\ toClient'[d][p] = toClient[d][p]
        BY <3>1, <3>3
      <4>2. rows[j] = [user |-> sessUser[d], msg |-> toClient[d][p]]
        BY <2>1, <4>1
      <4>3. Settled(i) \/ \E q \in 1..(p - 1) : toClient[d][q] = rows[i].msg
        BY <2>1, <4>1, <4>2 DEF OrderInv, WireInOrder
      <4>4. \A q \in 1..(p - 1) : q \in 1..l
        BY <3>3
      <4>5. ASSUME NEW q \in 1..(p - 1), toClient[d][q] = rows[i].msg
            PROVE  toClient'[d][q] = rows'[i].msg
        BY <2>1, <3>1, <4>4, <4>5
      <4>6. CASE Settled(i)
        BY <1>10, <2>1, <4>6
      <4> QED
        BY <4>3, <4>5, <4>6
    <3>4. ASSUME NEW k \in 1..n, p = l + k
          PROVE  Settled(i)' \/ \E q \in 1..(p - 1) : toClient'[d][q] = rows'[i].msg
      <4>1. s[k] \in fresh /\ s[k] \in ids /\ s[k] \in 1..Len(rows)
        BY <1>6, <3>1, <3>4
      <4>2. j = s[k]
        <5>1. rows[j].user = rows[s[k]].user /\ rows[j].msg = rows[s[k]].msg
          <6>1. rows[s[k]].user = u /\ toClient'[d][p] = rows[s[k]].msg
            BY <1>6, <3>1, <3>4, <4>1
          <6>2. rows[j].user = u /\ rows[j].msg = toClient'[d][p]
            BY <2>1, <3>1
          <6> QED
            BY <6>1, <6>2
        <5>2. rows[j] = rows[s[k]]
          BY <2>1, <4>1, <5>1, Shapes DEF OrderInv
        <5> QED
          BY <2>1, <4>1, <5>2 DEF OrderInv, RowsDistinct
      <4>3. i \in ids \/ Settled(i)
        BY <1>8, <2>1, <4>1, <4>2
      <4>4. CASE i \in fresh
        <5>1. PICK m \in 1..n : s[m] = i
          BY <3>1, <4>4
        <5>2. m < k
          BY <2>1, <3>1, <4>2, <5>1 DEF Earlier
        <5>3. l + m \in 1..(p - 1)
          BY <3>4, <5>2
        <5> QED
          BY <2>1, <3>1, <5>1, <5>3
      <4>5. CASE i \in dup
        BY <1>7, <3>1, <4>5 DEF Settled
      <4> QED
        BY <1>10, <4>3, <4>4, <4>5
    <3> QED
      BY <3>2, <3>3, <3>4
  <2> QED
    BY <2>2, <2>3
<1>15. ASSUME NEW v \in Users, NEW x \in Packets, NotYet(v, x) PROVE NotYet(v, x)'
  <2>1. ASSUME NEW d \in Conns, sessUser[d] = v, NEW p \in 1..Len(toClient'[d])
        PROVE  toClient'[d][p] # x
    <3>1. CASE toClient'[d] = toClient[d]
      BY <1>15, <2>1, <3>1 DEF NotYet
    <3>2. CASE toClient'[d] # toClient[d]
      <4>0. PICK l, n \in Nat : \E s \in [1..n -> fresh] :
                 /\ Online(u) /\ sessUser[d] = u
                 /\ \A y \in fresh : \E k \in 1..n : s[k] = y
                 /\ \A k, m \in 1..n : s[m] < s[k] => m < k
                 /\ l = Len(toClient[d]) /\ Len(toClient'[d]) = l + n
                 /\ \A q \in 1..l : toClient'[d][q] = toClient[d][q]
                 /\ \A k \in 1..n : toClient'[d][l + k] = rows[s[k]].msg
        BY <1>13, <3>2
      <4>1. PICK s \in [1..n -> fresh] :
                 /\ sessUser[d] = u
                 /\ l = Len(toClient[d]) /\ Len(toClient'[d]) = l + n
                 /\ \A q \in 1..l : toClient'[d][q] = toClient[d][q]
                 /\ \A k \in 1..n : toClient'[d][l + k] = rows[s[k]].msg
        BY <4>0
      <4>2. p \in 1..l \/ (p - l \in 1..n /\ p = l + (p - l))
        BY <4>1
      <4>3. CASE p \in 1..l
        BY <1>15, <2>1, <4>1, <4>3 DEF NotYet
      <4>4. ASSUME NEW k \in 1..n, p = l + k PROVE toClient'[d][p] # x
        <5>1. s[k] \in ids /\ s[k] \in 1..Len(rows) /\ rows[s[k]].user = v
          BY <1>6, <2>1, <4>1, <4>4
        <5>2. rows[s[k]] = [user |-> v, msg |-> rows[s[k]].msg]
          BY <5>1, Shapes DEF OrderInv
        <5>3. rows[s[k]] # [user |-> v, msg |-> x]
          BY <1>15, <5>1 DEF NotYet
        <5> QED
          BY <4>1, <4>4, <5>2, <5>3
      <4> QED
        BY <4>2, <4>3, <4>4
    <3> QED
      BY <3>1, <3>2
  <2> QED
    BY <1>2, <1>15, <2>1 DEF NotYet
<1>16. QueuedOnce'
  BY <1>2, <1>9, <1>15, OtherRequest
<1> QED
  BY <1>1, <1>11, <1>12, <1>14, <1>16 DEF OrderInv

LEMMA NextOrder == OrderInv /\ [Next]_vars => OrderInv'
<1> SUFFICES ASSUME OrderInv, [Next]_vars PROVE OrderInv'
  OBVIOUS
<1>1. CASE UNCHANGED vars
  <2>1. IInv'
    BY <1>1, NextIInv DEF OrderInv
  <2>2. /\ UNCHANGED <<rows, results, dupRemoved, received>> /\ dbQueue' = dbQueue
        /\ \A d \in Conns : toClient'[d] = toClient[d] /\ sessUser'[d] = sessUser[d]
    BY <1>1 DEF vars, sessionVars, deliveryVars
  <2>3. /\ LoadsInOrder' /\ WireInOrder' /\ FirstReceivedInOrder' /\ RowsDistinct'
        /\ \A u \in Users, m \in Packets : NotYet(u, m) => NotYet(u, m)'
    BY <2>2, WiresCut
  <2>4. QueuedOnce'
    BY <2>2, <2>3 DEF OrderInv, QueuedOnce
  <2> QED
    BY <2>1, <2>3, <2>4 DEF OrderInv
<1> QED
  BY <1>1, QuietOrder, ConnectOrder, EnqueueOrder, LoadedOrder, AckOrder, DbOrder,
     ReceiveOrder, CrashOrder DEF Next

LEMMA OrderInvariance == Spec => []OrderInv
  BY InitOrderInv, NextOrder, PTL DEF Spec

\* Over any number of interrupted deliveries, a user's queued messages are received for
\* the first time in the order of their rows, save for removed duplicates.
THEOREM FirstInOrder == Spec => []FirstReceivedInOrder
<1>1. OrderInv => FirstReceivedInOrder
  BY DEF OrderInv
<1> QED
  BY <1>1, OrderInvariance, PTL

-----------------------------------------------------------------------------
(***************************************************************************)
(* No row is overlooked. The user's rows are covered one by one: by the    *)
(* acknowledgement awaited, by a request, or by a load result.             *)
(***************************************************************************)
NoneQueued(u) ==
    \A k \in 1..Len(dbQueue) : dbQueue[k].op = "queueOffline" => dbQueue[k].user # u

Awaited(u, i) == RowIsMessage(i) /\ pendingAckIds[u][rows[i].msg] = i

LoadAsked(u) ==
    \E k \in 1..Len(dbQueue) : dbQueue[k].op = "loadOffline" /\ dbQueue[k].user = u

DeleteAsked(i) ==
    \E k \in 1..Len(dbQueue) :
        dbQueue[k].op = "markOfflineDelivered" /\ i \in dbQueue[k].ids

Loaded(u, i) ==
    \E k \in 1..Len(results) : results[k].user = u /\ i \in results[k].ids

Covered(u, i) == Awaited(u, i) \/ LoadAsked(u) \/ DeleteAsked(i) \/ Loaded(u, i)

RowsCovered ==
    \A u \in Users : Online(u) =>
        NoneQueued(u) /\ \A i \in live : rows[i].user = u => Covered(u, i)

LEMMA CoveredIsNotStranded ==
    ASSUME OrderInv
    PROVE  RowsCovered <=> NoStrandedRow
<1>1. dbQueue \in Seq(SafeRequest) /\ results \in Seq(SafeResult)
  BY DEF OrderInv, IInv
<1>2. DOMAIN dbQueue = 1..Len(dbQueue) /\ DOMAIN results = 1..Len(results)
  BY <1>1, LenProperties
<1>3. \A u \in Users, i \in live :
         Covered(u, i) <=>
            \/ RowIsMessage(i) /\ pendingAckIds[u][rows[i].msg] = i
            \/ \E k \in DOMAIN dbQueue :
                  \/ dbQueue[k].op = "loadOffline" /\ dbQueue[k].user = u
                  \/ dbQueue[k].op = "markOfflineDelivered" /\ i \in dbQueue[k].ids
            \/ \E k \in DOMAIN results : results[k].user = u /\ i \in results[k].ids
  BY <1>2 DEF Covered, Awaited, LoadAsked, DeleteAsked, Loaded
<1>4. \A u \in Users : NoneQueued(u) <=>
         \A k \in DOMAIN dbQueue : dbQueue[k].op = "queueOffline" => dbQueue[k].user # u
  BY <1>2 DEF NoneQueued
<1> QED
  BY <1>3, <1>4 DEF RowsCovered, NoStrandedRow

\* A step that inserts no row, lets nobody come online, and keeps the cover
LEMMA CoverKept ==
    ASSUME RowsCovered, rows' = rows,
           \A u \in Users : Online(u)' => Online(u) /\ (NoneQueued(u) => NoneQueued(u)'),
           \A u \in Users, i \in live' :
              Online(u)' /\ rows[i].user = u => i \in live /\ (Covered(u, i) => Covered(u, i)')
    PROVE  RowsCovered'
BY DEF RowsCovered

\* A request is added to the queue
LEMMA RequestAdded ==
    ASSUME OrderInv, NEW req, dbQueue' = Append(dbQueue, req)
    PROVE  /\ Len(dbQueue) \in Nat /\ Len(dbQueue') = Len(dbQueue) + 1
           /\ Len(dbQueue) + 1 \in 1..Len(dbQueue') /\ dbQueue'[Len(dbQueue) + 1] = req
           /\ \A k \in 1..Len(dbQueue) : k \in 1..Len(dbQueue') /\ dbQueue'[k] = dbQueue[k]
           /\ \A u : LoadAsked(u) => LoadAsked(u)'
           /\ \A i : DeleteAsked(i) => DeleteAsked(i)'
           /\ req.op # "queueOffline" => \A u : NoneQueued(u) => NoneQueued(u)'
           /\ req.op = "markOfflineDelivered" => \A i \in req.ids : DeleteAsked(i)'
<1>1. PICK S : S = SafeRequest \cup {req}
  OBVIOUS
<1>2. dbQueue \in Seq(S) /\ req \in S
  BY <1>1, SeqMonotonic DEF OrderInv, IInv
<1>3. PICK n \in Nat : n = Len(dbQueue)
  BY Shapes DEF OrderInv
<1>4. /\ Len(dbQueue') = n + 1 /\ dbQueue'[n + 1] = req
      /\ \A k \in 1..n : dbQueue'[k] = dbQueue[k]
  BY <1>2, <1>3, AppendProperties
<1>5. n + 1 \in 1..(n + 1) /\ \A k \in 1..n : k \in 1..(n + 1)
  OBVIOUS
<1>6. \A k \in 1..(n + 1) : k \in 1..n \/ k = n + 1
  OBVIOUS
<1>7. /\ \A u : LoadAsked(u) => LoadAsked(u)'
      /\ \A i : DeleteAsked(i) => DeleteAsked(i)'
  BY <1>3, <1>4, <1>5 DEF LoadAsked, DeleteAsked
<1>8. ASSUME req.op # "queueOffline", NEW u, NoneQueued(u) PROVE NoneQueued(u)'
  BY <1>3, <1>4, <1>6, <1>8 DEF NoneQueued
<1>9. ASSUME req.op = "markOfflineDelivered", NEW i \in req.ids PROVE DeleteAsked(i)'
  BY <1>4, <1>5, <1>9 DEF DeleteAsked
<1> QED
  BY <1>3, <1>4, <1>5, <1>7, <1>8, <1>9

LEMMA QuietCover ==
    ASSUME OrderInv, RowsCovered, NEW c \in Conns,
           \/ OnNewConnection(c) \/ ConnectionLost(c) \/ OnClientDisconnected(c)
           \/ ClientReceive(c)
    PROVE  RowsCovered'
<1>1. rows' = rows /\ live' = live /\ dbQueue' = dbQueue /\ results' = results
  BY DEF OnNewConnection, deliveryVars, ConnectionLost, OnClientDisconnected, ClientReceive
<1>2. ASSUME NEW u \in Users, Online(u)'
      PROVE  Online(u) /\ pendingAckIds'[u] = pendingAckIds[u]
  <2>1. CASE OnNewConnection(c)
    <3>1. /\ userMap' = userMap /\ pendingAckIds' = pendingAckIds /\ link[c] = "unused"
          /\ \A d \in Conns : d # c => link'[d] = link[d]
      BY <2>1 DEF OnNewConnection, Attach, deliveryVars, OrderInv, IInv, TypeOK,
                  SessionTypeOK
    <3>2. userMap[u] # NoConn /\ userMap[u] \in Conns /\ sessUser[userMap[u]] = u
      BY <1>2, <3>1 DEF Online, OrderInv, IInv, SessionInv, TypeOK, SessionTypeOK
    <3>3. Attached(userMap[u])
      BY <3>2, SessionAssumption DEF OrderInv, IInv, SessionInv
    <3> QED
      BY <3>1, <3>2, <3>3 DEF Online
  <2>2. CASE ConnectionLost(c)
    <3>1. /\ userMap' = userMap /\ pendingAckIds' = pendingAckIds
          /\ \A d \in Conns : Attached(d)' => Attached(d)
      BY <2>2 DEF ConnectionLost, LinkFails, Attached, OrderInv, IInv, TypeOK,
                  SessionTypeOK
    <3> QED
      BY <1>2, <3>1 DEF Online, OrderInv, IInv, TypeOK, SessionTypeOK
  <2>3. CASE OnClientDisconnected(c)
    <3>1. /\ u # sessUser[c] /\ userMap'[u] = userMap[u]
          /\ \A d \in Conns : Attached(d)' => Attached(d)
      BY <1>2, <2>3 DEF OnClientDisconnected, Detach, Online, Attached, OrderInv, IInv,
                        TypeOK, SessionTypeOK
    <3>2. pendingAckIds'[u] = pendingAckIds[u]
      BY <2>3, <3>1 DEF OnClientDisconnected
    <3> QED
      BY <1>2, <3>1, <3>2 DEF Online, OrderInv, IInv, TypeOK, SessionTypeOK
  <2>4. CASE ClientReceive(c)
    <3>1. link' = link /\ userMap' = userMap /\ pendingAckIds' = pendingAckIds
      BY <2>4 DEF ClientReceive, sessionVars
    <3> QED
      BY <1>2, <3>1 DEF Online, Attached
  <2> QED
    BY <2>1, <2>2, <2>3, <2>4
<1>3. \A u : NoneQueued(u) => NoneQueued(u)'
  BY <1>1 DEF NoneQueued
<1>4. ASSUME NEW u \in Users, Online(u)', NEW i, Covered(u, i) PROVE Covered(u, i)'
  BY <1>1, <1>2, <1>4 DEF Covered, Awaited, RowIsMessage, LoadAsked, DeleteAsked, Loaded
<1> QED
  BY <1>1, <1>2, <1>3, <1>4, CoverKept

LEMMA CrashCover ==
    ASSUME ServerCrash
    PROVE  RowsCovered'
BY DEF ServerCrash, AllSessionsEnd, RowsCovered, Online

LEMMA ConnectCover ==
    ASSUME OrderInv, RowsCovered, NEW c \in Conns, NEW u \in Users, HandleConnect(c, u)
    PROVE  RowsCovered'
<1> DEFINE req == [op |-> "loadOffline", user |-> u]
<1>1. /\ rows' = rows /\ live' = live /\ results' = results /\ link' = link
      /\ pendingAckIds' = pendingAckIds /\ userMap' = [userMap EXCEPT ![u] = c]
      /\ dbQueue' = Append(dbQueue, req) /\ dbQueue = <<>>
  BY DEF HandleConnect, Authenticate
<1>2. Len(dbQueue) = 0 /\ req.op = "loadOffline" /\ req.user = u
  BY <1>1, EmptySeq
<1> HIDE DEF req
<1>3. Len(dbQueue') = 1 /\ dbQueue'[1] = req
  BY <1>1, <1>2, RequestAdded
<1>4. \A v : NoneQueued(v)'
  BY <1>2, <1>3 DEF NoneQueued
<1>5. LoadAsked(u)'
  BY <1>2, <1>3 DEF LoadAsked
<1>6. ASSUME NEW v \in Users, v # u, Online(v)', NEW i \in live, rows[i].user = v
      PROVE  Covered(v, i)'
  <2>1. userMap'[v] = userMap[v]
    BY <1>1, <1>6 DEF OrderInv, IInv, TypeOK, SessionTypeOK
  <2>2. Online(v)
    BY <1>1, <1>6, <2>1 DEF Online, Attached
  <2>3. Covered(v, i)
    BY <1>6, <2>2 DEF RowsCovered
  <2>4. Awaited(v, i) \/ Loaded(v, i)
    BY <1>2, <2>3 DEF Covered, LoadAsked, DeleteAsked
  <2> QED
    BY <1>1, <2>4 DEF Covered, Awaited, Loaded, RowIsMessage
<1>7. \A v \in Users, i \in live' : Online(v)' /\ rows'[i].user = v => Covered(v, i)'
  BY <1>1, <1>5, <1>6 DEF Covered
<1> QED
  BY <1>4, <1>7 DEF RowsCovered

LEMMA EnqueueCover ==
    ASSUME OrderInv, RowsCovered, NEW R \in SUBSET Users, NEW m \in Packets,
           EnqueueIfOfflineMany(R, m)
    PROVE  RowsCovered'
<1>1. /\ rows' = rows /\ live' = live /\ results' = results /\ link' = link
      /\ userMap' = userMap /\ pendingAckIds' = pendingAckIds
  BY DEF EnqueueIfOfflineMany, sessionVars
<1>2. PICK nq \in Nat : nq = Len(dbQueue)
  BY Shapes DEF OrderInv
<1>3. PICK n \in Nat : \E offline \in [1..n -> {u \in R : ~Online(u)}] :
         /\ \A i, j \in 1..n : offline[i] = offline[j] => i = j
         /\ Len(dbQueue') = Len(dbQueue) + n
         /\ \A k \in 1..Len(dbQueue) : dbQueue'[k] = dbQueue[k]
         /\ \A i \in 1..n : dbQueue'[Len(dbQueue) + i] = Queueing(offline[i], m)
  BY EnqueuedRequests
<1>4. PICK offline \in [1..n -> {u \in R : ~Online(u)}] :
         /\ Len(dbQueue') = nq + n
         /\ \A k \in 1..nq : dbQueue'[k] = dbQueue[k]
         /\ \A k \in 1..n : dbQueue'[nq + k] = Queueing(offline[k], m)
  BY <1>2, <1>3
<1>5. /\ \A k \in 1..nq : k \in 1..(nq + n)
      /\ \A k \in 1..(nq + n) : k \in 1..nq \/ (k - nq \in 1..n /\ k = nq + (k - nq))
  OBVIOUS
<1>6. \A u : Online(u)' <=> Online(u)
  BY <1>1 DEF Online, Attached
<1>7. ASSUME NEW u \in Users, Online(u), NoneQueued(u) PROVE NoneQueued(u)'
  <2>1. ASSUME NEW k \in 1..n PROVE dbQueue'[nq + k].user # u
    <3>1. offline[k] \in {v \in R : ~Online(v)}
      BY <1>4
    <3>2. offline[k] # u
      BY <1>7, <3>1
    <3>3. dbQueue'[nq + k] = Queueing(offline[k], m)
      BY <1>4
    <3>4. Queueing(offline[k], m).user = offline[k]
      BY DEF Queueing
    <3> QED
      BY <3>2, <3>3, <3>4
  <2>2. ASSUME NEW k \in 1..nq, dbQueue'[k].op = "queueOffline" PROVE dbQueue'[k].user # u
    BY <1>2, <1>4, <1>7, <2>2 DEF NoneQueued
  <2>3. \A k \in 1..Len(dbQueue') : k \in 1..nq \/ \E j \in 1..n : k = nq + j
    BY <1>4, <1>5
  <2> QED
    BY <2>1, <2>2, <2>3 DEF NoneQueued
<1>8. ASSUME NEW u \in Users, NEW i, Covered(u, i) PROVE Covered(u, i)'
  <2>1. /\ LoadAsked(u) => LoadAsked(u)'
        /\ DeleteAsked(i) => DeleteAsked(i)'
    BY <1>2, <1>4, <1>5 DEF LoadAsked, DeleteAsked
  <2>2. /\ Awaited(u, i) => Awaited(u, i)'
        /\ Loaded(u, i) => Loaded(u, i)'
    BY <1>1 DEF Awaited, Loaded, RowIsMessage
  <2> QED
    BY <1>8, <2>1, <2>2 DEF Covered
<1> QED
  BY <1>1, <1>6, <1>7, <1>8, CoverKept

LEMMA AckCover ==
    ASSUME OrderInv, RowsCovered, NEW c \in Conns, HandleMessageReceivedAck(c)
    PROVE  RowsCovered'
<1> DEFINE w == sessUser[c]
           m == Head(toServer[c])
           req == [op |-> "markOfflineDelivered", ids |-> {pendingAckIds[w][m]}]
<1>1. /\ rows' = rows /\ live' = live /\ results' = results /\ link' = link
      /\ userMap' = userMap
  BY DEF HandleMessageReceivedAck, sessionVars
<1>2. \/ dbQueue' = dbQueue /\ pendingAckIds' = pendingAckIds
      \/ dbQueue' = Append(dbQueue, req) /\ pendingAckIds' = [pendingAckIds EXCEPT ![w][m] = 0]
  BY DEF HandleMessageReceivedAck
<1>3. \A u : Online(u)' <=> Online(u)
  BY <1>1 DEF Online, Attached
<1>4. req.op = "markOfflineDelivered" /\ req.ids = {pendingAckIds[w][m]}
  OBVIOUS
<1>5. ASSUME NEW u \in Users, NEW x \in Packets
      PROVE  pendingAckIds'[u][x] = pendingAckIds[u][x] \/ (u = w /\ x = m)
  <2>1. pendingAckIds \in [Users -> [Packets -> 0..Len(rows)]]
    BY DEF OrderInv, IInv, TypeOK
  <2>2. CASE u # w
    BY <1>2, <2>1, <2>2
  <2>3. CASE u = w /\ x # m
    BY <1>2, <2>1, <2>3
  <2> QED
    BY <2>2, <2>3
<1> HIDE DEF w, m, req
<1>6. CASE dbQueue' = dbQueue /\ pendingAckIds' = pendingAckIds
  <2>1. \A u : NoneQueued(u) => NoneQueued(u)'
    BY <1>6 DEF NoneQueued
  <2>2. \A u, i : Covered(u, i) => Covered(u, i)'
    BY <1>1, <1>6 DEF Covered, Awaited, RowIsMessage, LoadAsked, DeleteAsked, Loaded
  <2> QED
    BY <1>1, <1>3, <2>1, <2>2, CoverKept
<1>7. CASE dbQueue' = Append(dbQueue, req)
  <2>1. /\ \A u : LoadAsked(u) => LoadAsked(u)'
        /\ \A i : DeleteAsked(i) => DeleteAsked(i)'
        /\ \A u : NoneQueued(u) => NoneQueued(u)'
        /\ \A i \in req.ids : DeleteAsked(i)'
    BY <1>4, <1>7, RequestAdded
  <2>2. ASSUME NEW u \in Users, NEW i \in live, Awaited(u, i)
        PROVE  Awaited(u, i)' \/ DeleteAsked(i)'
    <3>1. rows[i].msg \in Packets
      BY Shapes DEF OrderInv, IInv, TypeOK
    <3>2. CASE pendingAckIds'[u][rows[i].msg] = pendingAckIds[u][rows[i].msg]
      BY <1>1, <2>2, <3>2 DEF Awaited, RowIsMessage
    <3>3. CASE u = w /\ rows[i].msg = m
      BY <1>4, <2>1, <2>2, <3>3 DEF Awaited
    <3> QED
      BY <1>5, <3>1, <3>2, <3>3
  <2>3. \A u, i : Loaded(u, i) => Loaded(u, i)'
    BY <1>1 DEF Loaded
  <2>4. \A u \in Users, i \in live : Covered(u, i) => Covered(u, i)'
    BY <2>1, <2>2, <2>3 DEF Covered
  <2> QED
    BY <1>1, <1>3, <2>1, <2>4, CoverKept
<1> QED
  BY <1>2, <1>6, <1>7

LEMMA DbCover ==
    ASSUME OrderInv, RowsCovered, DbStep
    PROVE  RowsCovered'
<1>1. PICK req : req = Head(dbQueue)
  OBVIOUS
<1>2. PICK nq \in Nat : nq = Len(dbQueue)
  BY Shapes DEF OrderInv
<1>3. /\ link' = link /\ userMap' = userMap /\ pendingAckIds' = pendingAckIds
      /\ dbQueue # <<>> /\ dbQueue' = Tail(dbQueue)
      /\ QueueOffline(req) \/ LoadOffline(req) \/ MarkOfflineDelivered(req)
  BY <1>1 DEF DbStep, sessionVars
<1>4. dbQueue \in Seq(SafeRequest) /\ nq > 0 /\ req = dbQueue[1] /\ req \in SafeRequest
  BY <1>1, <1>2, <1>3, EmptySeq, HeadTailProperties DEF OrderInv, IInv
<1>5. Len(dbQueue') = nq - 1 /\ \A k \in 1..(nq - 1) : dbQueue'[k] = dbQueue[k + 1]
  <2>1. /\ Len(Tail(dbQueue)) = nq - 1
        /\ \A k \in 1..(nq - 1) : Tail(dbQueue)[k] = dbQueue[k + 1]
    BY <1>2, <1>3, <1>4, HeadTailProperties
  <2> QED
    BY <1>3, <2>1
<1>6. /\ 1 \in 1..nq
      /\ \A k \in 1..(nq - 1) : k + 1 \in 1..nq
      /\ \A k \in 1..nq : k = 1 \/ (k - 1 \in 1..(nq - 1) /\ (k - 1) + 1 = k)
  BY <1>4
<1>7. \A u : Online(u)' <=> Online(u)
  BY <1>3 DEF Online, Attached
<1>8. \A u : NoneQueued(u) => NoneQueued(u)'
  BY <1>2, <1>5, <1>6 DEF NoneQueued
\* what was asked is asked still, unless it is the request at the head
<1>9. /\ \A u : LoadAsked(u) => LoadAsked(u)' \/ (req.op = "loadOffline" /\ req.user = u)
      /\ \A i : DeleteAsked(i) =>
            DeleteAsked(i)' \/ (req.op = "markOfflineDelivered" /\ i \in req.ids)
  <2>1. \A k \in 1..nq : dbQueue[k] = req \/
                          (k - 1 \in 1..(nq - 1) /\ dbQueue'[k - 1] = dbQueue[k])
    BY <1>4, <1>5, <1>6
  <2>2. \A u : LoadAsked(u) => LoadAsked(u)' \/ (req.op = "loadOffline" /\ req.user = u)
    BY <1>2, <1>5, <2>1 DEF LoadAsked
  <2>3. \A i : DeleteAsked(i) =>
            DeleteAsked(i)' \/ (req.op = "markOfflineDelivered" /\ i \in req.ids)
    BY <1>2, <1>5, <2>1 DEF DeleteAsked
  <2> QED
    BY <2>2, <2>3
<1>10. PICK n \in Nat : n = Len(rows) /\ rows \in Seq(Row) /\ live \subseteq 1..n
  BY Shapes DEF OrderInv, IInv, TypeOK
<1>11. CASE QueueOffline(req)
  <2>1. PICK row : row = [user |-> req.user, msg |-> req.msg]
    OBVIOUS
  <2>2. /\ rows' = Append(rows, row) /\ live' = live \cup {n + 1} /\ results' = results
        /\ row.user = req.user /\ req.op = "queueOffline"
    BY <1>10, <1>11, <2>1 DEF QueueOffline
  <2>3. row \in Row
    BY <1>4, <1>11, <2>1 DEF Row, SafeRequest, DbRequest, QueueOfflineReq, LoadOfflineReq,
                             MarkDeliveredReq, QueueOffline
  <2>4. rows'[n + 1] = row /\ \A i \in 1..n : rows'[i] = rows[i]
    BY <1>10, <2>2, <2>3, AppendProperties
  <2>5. \A u \in Users : Online(u) => req.user # u
    BY <1>2, <1>4, <1>6, <2>2 DEF RowsCovered, NoneQueued
  <2>6. ASSUME NEW u \in Users, NEW i \in live, Covered(u, i) PROVE Covered(u, i)'
    <3>1. rows'[i] = rows[i]
      BY <1>10, <2>4
    <3>2. /\ Awaited(u, i) => Awaited(u, i)'
          /\ Loaded(u, i) => Loaded(u, i)'
      BY <1>3, <2>2, <3>1 DEF Awaited, RowIsMessage, Loaded
    <3> QED
      BY <1>9, <2>2, <2>6, <3>2 DEF Covered
  <2>7. ASSUME NEW u \in Users, Online(u)', NEW i \in live', rows'[i].user = u
        PROVE  Covered(u, i)'
    <3>1. i \in live
      BY <1>7, <2>2, <2>4, <2>5, <2>7
    <3>2. rows[i].user = u /\ Online(u)
      BY <1>7, <1>10, <2>4, <2>7, <3>1
    <3> QED
      BY <2>6, <3>1, <3>2 DEF RowsCovered
  <2> QED
    BY <1>7, <1>8, <2>7 DEF RowsCovered
<1>12. CASE LoadOffline(req)
  <2>1. PICK res : res = [user |-> req.user, ids |-> {i \in live : rows[i].user = req.user}]
    OBVIOUS
  <2>2. /\ rows' = rows /\ live' = live /\ results' = Append(results, res)
        /\ req.op = "loadOffline"
    BY <1>12, <2>1 DEF LoadOffline
  <2>3. PICK nr \in Nat : nr = Len(results)
    BY Shapes DEF OrderInv
  <2>4. PICK S : S = SafeResult \cup {res}
    OBVIOUS
  <2>5. results \in Seq(S) /\ res \in S
    BY <2>4, SeqMonotonic DEF OrderInv, IInv
  <2>6. /\ Len(results') = nr + 1 /\ results'[nr + 1] = res
        /\ \A k \in 1..nr : results'[k] = results[k]
    BY <2>2, <2>3, <2>5, AppendProperties
  <2>7. nr + 1 \in 1..(nr + 1) /\ \A k \in 1..nr : k \in 1..(nr + 1)
    OBVIOUS
  <2>8. ASSUME NEW u \in Users, NEW i \in live, rows[i].user = u, Covered(u, i)
        PROVE  Covered(u, i)'
    <3>1. /\ Awaited(u, i) => Awaited(u, i)'
          /\ Loaded(u, i) => Loaded(u, i)'
      BY <1>3, <2>2, <2>3, <2>6, <2>7 DEF Awaited, RowIsMessage, Loaded
    <3>2. req.user = u => Loaded(u, i)'
      BY <2>1, <2>6, <2>7, <2>8 DEF Loaded
    <3> QED
      BY <1>9, <2>2, <2>8, <3>1, <3>2 DEF Covered
  <2> QED
    BY <1>7, <1>8, <2>2, <2>8, CoverKept
<1>13. CASE MarkOfflineDelivered(req)
  <2>1. /\ rows' = rows /\ results' = results /\ live' = live \ req.ids
        /\ req.op = "markOfflineDelivered"
    BY <1>13 DEF MarkOfflineDelivered
  <2>2. ASSUME NEW u \in Users, NEW i \in live', Covered(u, i) PROVE Covered(u, i)'
    <3>1. /\ Awaited(u, i) => Awaited(u, i)'
          /\ Loaded(u, i) => Loaded(u, i)'
      BY <1>3, <2>1 DEF Awaited, RowIsMessage, Loaded
    <3>2. i \notin req.ids
      BY <2>1
    <3> QED
      BY <1>9, <2>1, <2>2, <3>1, <3>2 DEF Covered
  <2> QED
    BY <1>7, <1>8, <2>1, <2>2, CoverKept
<1> QED
  BY <1>3, <1>11, <1>12, <1>13

\* Fresh notifications and duplicates are deleted, fresh messages await their
\* acknowledgement; a message that was awaited has no fresh row.
LEMMA LoadedCover ==
    ASSUME OrderInv, RowsCovered, OnOfflineLoaded
    PROVE  RowsCovered'
<1>0. PICK w : w = Head(results).user
  OBVIOUS
<1> DEFINE ids == Head(results).ids
           dup == Duplicates(w, ids)
           fresh == ids \ dup
           removable == Removable(w, ids)
           req == [op |-> "markOfflineDelivered", ids |-> removable]
<1>1. /\ rows' = rows /\ live' = live /\ link' = link /\ userMap' = userMap
      /\ results # <<>> /\ results' = Tail(results)
      /\ dbQueue' = IF removable = {} THEN dbQueue ELSE Append(dbQueue, req)
  BY <1>0 DEF OnOfflineLoaded, sessionVars
<1>2. /\ ~Online(w) => pendingAckIds' = pendingAckIds
      /\ Online(w) =>
            pendingAckIds' = [pendingAckIds EXCEPT ![w] =
               [m \in Packets |->
                  IF m \in Messages /\ \E i \in fresh : rows[i].msg = m
                  THEN CHOOSE i \in fresh : rows[i].msg = m
                  ELSE pendingAckIds[w][m]]]
  BY <1>0 DEF OnOfflineLoaded
<1>3. PICK nr \in Nat : nr = Len(results)
  BY Shapes DEF OrderInv
<1>4. /\ nr > 0 /\ Head(results) = results[1] /\ Len(results') = nr - 1
      /\ \A k \in 1..(nr - 1) : results'[k] = results[k + 1]
  <2>1. results \in Seq(SafeResult)
    BY DEF OrderInv, IInv
  <2>2. /\ Len(Tail(results)) = nr - 1
        /\ \A k \in 1..(nr - 1) : Tail(results)[k] = results[k + 1]
    BY <1>1, <1>3, <2>1, HeadTailProperties
  <2> QED
    BY <1>1, <1>3, <2>1, <2>2, EmptySeq
<1>5. results[1] \in SafeResult
  BY <1>3, <1>4, Shapes DEF OrderInv
<1>6. w \in Users /\ ids \subseteq 1..Len(rows) /\ \A i \in ids : rows[i].user = w
  BY <1>0, <1>4, <1>5 DEF SafeResult, LoadResult
<1>7. /\ \A i \in dup : i \in ids
      /\ \A i \in ids : i \in dup <=>
            rows[i].msg \in Messages /\ pendingAckIds[w][rows[i].msg] # 0
      /\ Online(w) => \A i \in ids : (i \in dup \/ rows[i].msg \in Notices) => i \in removable
  BY DEF Duplicates, Removable
<1>8. req.op = "markOfflineDelivered" /\ req.ids = removable
  OBVIOUS
<1> HIDE DEF ids, dup, removable, req
<1>9. \A u : Online(u)' <=> Online(u)
  BY <1>1 DEF Online, Attached
<1>10. /\ \A u : LoadAsked(u) => LoadAsked(u)'
       /\ \A i : DeleteAsked(i) => DeleteAsked(i)'
       /\ \A u : NoneQueued(u) => NoneQueued(u)'
       /\ \A i \in removable : DeleteAsked(i)'
  <2>1. CASE removable = {}
    BY <1>1, <2>1 DEF LoadAsked, DeleteAsked, NoneQueued
  <2>2. CASE dbQueue' = Append(dbQueue, req)
    BY <1>8, <2>2, RequestAdded
  <2> QED
    BY <1>1, <2>1, <2>2
<1>11. \A u, i : Loaded(u, i) => Loaded(u, i)' \/ (u = w /\ i \in ids)
  <2>1. \A k \in 1..nr : k = 1 \/ (k - 1 \in 1..(nr - 1) /\ results'[k - 1] = results[k])
    <3>1. \A k \in 1..nr : k = 1 \/ (k - 1 \in 1..(nr - 1) /\ (k - 1) + 1 = k)
      OBVIOUS
    <3> QED
      BY <1>4, <3>1
  <2>2. results[1].user = w /\ results[1].ids = ids
    BY <1>0, <1>4 DEF ids
  <2> QED
    BY <1>3, <1>4, <2>1, <2>2 DEF Loaded
<1>12. /\ \A u \in Users : u # w => pendingAckIds'[u] = pendingAckIds[u]
       /\ Online(w) => \A m \in Packets :
             pendingAckIds'[w][m] = IF m \in Messages /\ \E i \in fresh : rows[i].msg = m
                                    THEN CHOOSE i \in fresh : rows[i].msg = m
                                    ELSE pendingAckIds[w][m]
  <2>1. pendingAckIds \in [Users -> [Packets -> 0..Len(rows)]]
    BY DEF OrderInv, IInv, TypeOK
  <2>2. CASE ~Online(w)
    BY <1>2, <2>2
  <2>3. CASE Online(w)
    BY <1>2, <1>6, <2>1, <2>3
  <2> QED
    BY <2>2, <2>3
\* a fresh message is the only one of its id
<1>13. ASSUME Online(w), NEW i \in fresh, RowIsMessage(i) PROVE Awaited(w, i)'
  <2>1. PICK m \in Packets : m = rows[i].msg /\ m \in Messages
    BY <1>13 DEF RowIsMessage, Packets
  <2>2. ASSUME NEW j \in fresh, rows[j].msg = m PROVE j = i
    <3>1. /\ i \in 1..Len(rows) /\ j \in 1..Len(rows)
          /\ rows[i].user = w /\ rows[j].user = w
      BY <1>6
    <3>2. rows[i] = rows[j]
      BY <2>1, <2>2, <3>1, Shapes DEF OrderInv
    <3> QED
      BY <3>1, <3>2 DEF OrderInv, RowsDistinct
  <2>3. (CHOOSE j \in fresh : rows[j].msg = m) = i
    BY <2>1, <2>2
  <2>4. pendingAckIds'[w][m] = i
    BY <1>12, <1>13, <2>1, <2>3
  <2> QED
    BY <1>1, <1>13, <2>1, <2>4 DEF Awaited, RowIsMessage
<1>14. ASSUME NEW u \in Users, Online(u), NEW i \in live, Awaited(u, i) PROVE Awaited(u, i)'
  <2>1. PICK m \in Packets : m = rows[i].msg /\ m \in Messages
    BY <1>14 DEF Awaited, RowIsMessage, Packets
  <2>2. pendingAckIds[u][m] = i /\ i # 0
    BY <1>14, <2>1 DEF Awaited, OrderInv, IInv, TypeOK
  <2>3. u = w => ~\E j \in fresh : rows[j].msg = m
    BY <1>7, <2>1, <2>2
  <2>4. pendingAckIds'[u][m] = i
    BY <1>12, <1>14, <2>1, <2>2, <2>3
  <2> QED
    BY <1>1, <1>14, <2>1, <2>4 DEF Awaited, RowIsMessage
<1>15. ASSUME Online(w), NEW i \in ids PROVE Awaited(w, i)' \/ DeleteAsked(i)'
  <2>1. rows[i].msg \in Messages \/ rows[i].msg \in Notices
    BY <1>6, Shapes DEF OrderInv, Packets
  <2>2. CASE i \in removable
    BY <1>10, <2>2
  <2>3. CASE i \in fresh /\ RowIsMessage(i)
    BY <1>13, <1>15, <2>3
  <2> QED
    BY <1>7, <1>15, <2>1, <2>2, <2>3 DEF RowIsMessage
<1>16. ASSUME NEW u \in Users, Online(u), NEW i \in live, Covered(u, i) PROVE Covered(u, i)'
  <2>1. Awaited(u, i) => Awaited(u, i)'
    BY <1>14, <1>16
  <2>2. Loaded(u, i) => Loaded(u, i)' \/ Awaited(u, i)' \/ DeleteAsked(i)'
    BY <1>11, <1>15, <1>16
  <2> QED
    BY <1>10, <1>16, <2>1, <2>2 DEF Covered
<1> QED
  BY <1>1, <1>9, <1>10, <1>16, CoverKept

LEMMA NextCover == OrderInv /\ RowsCovered /\ [Next]_vars => RowsCovered'
<1> SUFFICES ASSUME OrderInv, RowsCovered, [Next]_vars PROVE RowsCovered'
  OBVIOUS
<1>1. CASE UNCHANGED vars
  BY <1>1 DEF vars, sessionVars, deliveryVars, RowsCovered, Online, Attached, NoneQueued,
              Covered, Awaited, RowIsMessage, LoadAsked, DeleteAsked, Loaded
<1> QED
  BY <1>1, QuietCover, ConnectCover, EnqueueCover, LoadedCover, AckCover, DbCover,
     CrashCover DEF Next

\* No interleaving of a login, its load of the offline queue, acknowledgements and the
\* queueing of new packets leaves a row in the table of a user who is online without
\* anything under way that will deliver or remove it.
THEOREM NoRowStranded == Spec => []NoStrandedRow
<1>1. Init => RowsCovered
  BY DEF Init, SessionInit, RowsCovered, Online
<1>2. Spec => []RowsCovered
  BY <1>1, NextCover, OrderInvariance, PTL DEF Spec
<1>3. OrderInv => (RowsCovered <=> NoStrandedRow)
  BY CoveredIsNotStranded
<1> QED
  BY <1>2, <1>3, OrderInvariance, PTL
=============================================================================
