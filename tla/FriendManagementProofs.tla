----------------------- MODULE FriendManagementProofs -----------------------
(***************************************************************************)
(* Proofs about FriendManagement for any users and any bounds: the tables  *)
(* implement Friendship, a client shows and stores only true friends, and  *)
(* a client to which nothing is under way shows what the tables say.       *)
(* As rows of the tables are never deleted, what is under way is described *)
(* by sets that only grow; a request id is bounded because the requests to *)
(* be created are counted by ops.                                          *)
(***************************************************************************)
EXTENDS FriendManagement, FiniteSetTheorems, SequenceTheorems, TLAPS

Rows == 1..Len(requests)
Pairs == {{u, v} : u, v \in Users}

\* A notice of a new friend is true
RightNotices ==
    {n \in Notice : n.kind = "friendChanged" =>
                        n.friend \in Users /\ {n.to, n.friend} \in friendships}

\* A decision names a row
RightRequests ==
    {q \in DbRequest :
        /\ q.id <= Len(requests)
        /\ q.op = "create" => q.to \in Users
        /\ q.op \in {"accepted", "rejected"} => q.id \in Rows
        /\ q.notices \subseteq RightNotices}

RightAnswer(res) ==
    /\ res.id <= Len(requests)
    /\ res.ok /\ res.req.op \in {"create", "accepted", "rejected"} => res.id \in Rows
    /\ res.ok /\ res.req.op = "accepted" =>
          {requests[res.id].from, requests[res.id].to} \in friendships
    /\ res.friends \subseteq FriendsOf(res.req.by)
    /\ res.req.op = "loadOffline" => \A n \in res.req.notices : n.to = res.req.by

RightResults == {res \in Result : res.req \in RightRequests /\ RightAnswer(res)}

RightPackets(u) ==
    {p \in ToClient :
        p.kind \in {"friendListAck", "friendChanged"} => p.friends \subseteq FriendsOf(u)}

QueuesRight ==
    /\ offlineRows \subseteq RightNotices
    /\ dbQueue \in Seq(RightRequests)
    /\ results \in Seq(RightResults)
    /\ toClient \in [Users -> Seq(ToClient)]
    /\ \A u \in Users : toClient[u] \in Seq(RightPackets(u))

\* The requests that are still to be created, and those that are there, are within the bound
Creations(queue) == {i \in 1..Len(queue) : queue[i].op = "create"}

Counted == Len(requests) + Cardinality(Creations(dbQueue)) <= ops

\* One pending request per pair, whoever asked
OnePending ==
    \A r, q \in Rows :
        /\ requests[r].status = "pending" /\ requests[q].status = "pending"
        /\ {requests[r].from, requests[r].to} = {requests[q].from, requests[q].to}
        => r = q

\* A client lists and stores friends only, and lists no friend it has not stored
FriendsAreTrue ==
    \A u \in Users : friendList[u] \subseteq contacts[u] /\ contacts[u] \subseteq FriendsOf(u)

IInv ==
    /\ TypeOK
    /\ QueuesRight
    /\ Counted
    /\ OnePending
    /\ FriendsAreTrue

(***************************************************************************)
(* What is under way stays right                                           *)
(***************************************************************************)

Grows ==
    /\ Len(requests) \in Nat /\ Len(requests') \in Nat /\ Len(requests) <= Len(requests')
    /\ \A r \in Rows : /\ requests'[r].from = requests[r].from
                       /\ requests'[r].to = requests[r].to
    /\ friendships \subseteq friendships'

LEMMA FriendsGrow ==
    ASSUME Grows, NEW u
    PROVE  FriendsOf(u) \subseteq FriendsOf(u)'
BY DEF Grows, FriendsOf

LEMMA NoticesGrow ==
    ASSUME Grows
    PROVE  RightNotices \subseteq RightNotices'
BY DEF Grows, RightNotices

LEMMA RightGrows ==
    ASSUME Grows
    PROVE  /\ RightRequests \subseteq RightRequests'
           /\ RightResults \subseteq RightResults'
           /\ \A u \in Users : RightPackets(u) \subseteq RightPackets(u)'
<1>1. ASSUME NEW q \in RightRequests PROVE q \in RightRequests'
    <2>1. q.id \in 0..MaxOps BY <1>1 DEF RightRequests, DbRequest
    <2>2. q.id <= Len(requests') BY <1>1, <2>1 DEF RightRequests, Grows
    <2>3. q.notices \subseteq RightNotices' BY <1>1, NoticesGrow DEF RightRequests
    <2>4. q.op \in {"accepted", "rejected"} => q.id \in Rows'
        BY <1>1, <2>1, <2>2 DEF RightRequests, Grows, Rows
    <2>5. QED BY <1>1, <2>2, <2>3, <2>4 DEF RightRequests
<1>2. ASSUME NEW res \in RightResults PROVE res \in RightResults'
    <2>1. res \in Result /\ res.req \in RightRequests' /\ RightAnswer(res) /\ res.id \in 0..MaxOps
        BY <1>1, <1>2 DEF RightResults, Result
    <2>2. res.id <= Len(requests') BY <2>1 DEF RightAnswer, Grows
    <2>3. res.ok /\ res.req.op \in {"create", "accepted", "rejected"} => res.id \in Rows'
        BY <2>1, <2>2 DEF RightAnswer, Grows, Rows
    <2>4. res.ok /\ res.req.op = "accepted" =>
             {requests'[res.id].from, requests'[res.id].to} \in friendships'
        BY <2>1 DEF RightAnswer, Grows
    <2>5. res.friends \subseteq FriendsOf(res.req.by)'
        BY <2>1, FriendsGrow DEF RightAnswer
    <2>6. QED BY <2>1, <2>2, <2>3, <2>4, <2>5 DEF RightResults, RightAnswer
<1>3. ASSUME NEW u \in Users, NEW p \in RightPackets(u) PROVE p \in RightPackets(u)'
    BY <1>3, FriendsGrow DEF RightPackets
<1>4. QED BY <1>1, <1>2, <1>3

LEMMA WiderSeq ==
    ASSUME NEW S, NEW T, S \subseteq T, NEW s \in Seq(S)
    PROVE  s \in Seq(T)
BY SeqMonotonic

LEMMA QueuesGrow ==
    ASSUME Grows, QueuesRight
    PROVE  /\ offlineRows \subseteq RightNotices'
           /\ dbQueue \in Seq(RightRequests')
           /\ results \in Seq(RightResults')
           /\ \A u \in Users : toClient[u] \in Seq(RightPackets(u)')
<1>1. /\ RightRequests \subseteq RightRequests' /\ RightResults \subseteq RightResults'
      /\ \A u \in Users : RightPackets(u) \subseteq RightPackets(u)'
    BY RightGrows
<1>2. /\ dbQueue \in Seq(RightRequests) /\ results \in Seq(RightResults)
      /\ \A u \in Users : toClient[u] \in Seq(RightPackets(u))
      /\ offlineRows \subseteq RightNotices
    BY DEF QueuesRight
<1>3. dbQueue \in Seq(RightRequests') BY <1>1, <1>2, WiderSeq
<1>4. results \in Seq(RightResults') BY <1>1, <1>2, WiderSeq
<1>5. \A u \in Users : toClient[u] \in Seq(RightPackets(u)')
    BY <1>1, <1>2, WiderSeq
<1>6. QED BY <1>2, <1>3, <1>4, <1>5, NoticesGrow

(***************************************************************************)
(* Sequences made of sets, and counting in a queue                         *)
(***************************************************************************)

LEMMA SetAsSeq ==
    ASSUME NEW S, IsFiniteSet(S)
    PROVE  SetToSeq(S) \in Seq(S)
<1>1. Cardinality(S) \in Nat /\ ExistsBijection(1..Cardinality(S), S)
    BY FS_CardinalityType
<1>2. \E f \in [1..Cardinality(S) -> S] : IsInjective(f)
    BY <1>1 DEF ExistsBijection, Bijection, Injection
<1>3. SetToSeq(S) \in [1..Cardinality(S) -> S]
    BY <1>2, Zenon DEF SetToSeq
<1>4. QED BY <1>1, <1>3, SeqDef

LEMMA SetAsSeqs ==
    ASSUME NEW S, IsFiniteSet(S), NEW s \in SetToSeqs(S)
    PROVE  s \in Seq(S)
<1>1. Cardinality(S) \in Nat BY FS_CardinalityType
<1>2. s \in [1..Cardinality(S) -> S] BY DEF SetToSeqs
<1>3. QED BY <1>1, <1>2, SeqDef

LEMMA QueuedTyped ==
    ASSUME NEW queue \in Seq(DbRequest)
    PROVE  /\ IsFiniteSet(Creations(queue)) /\ Cardinality(Creations(queue)) \in Nat
           /\ Creations(queue) \subseteq 1..Len(queue)
<1>1. Len(queue) \in Nat BY LenProperties
<1>2. IsFiniteSet(1..Len(queue)) BY <1>1, FS_Interval
<1>3. Creations(queue) \subseteq 1..Len(queue) BY DEF Creations
<1>4. IsFiniteSet(Creations(queue)) BY <1>2, <1>3, FS_Subset
<1>5. QED BY <1>3, <1>4, FS_CardinalityType

LEMMA NoCreation ==
    ASSUME NEW queue \in Seq(DbRequest), NEW more \in Seq(DbRequest),
           \A i \in 1..Len(more) : more[i].op # "create"
    PROVE  Cardinality(Creations(queue \o more)) = Cardinality(Creations(queue))
<1>1. /\ Len(queue) \in Nat /\ Len(more) \in Nat /\ Len(queue \o more) = Len(queue) + Len(more)
      /\ \A i \in 1..(Len(queue) + Len(more)) :
            (queue \o more)[i] = IF i <= Len(queue) THEN queue[i] ELSE more[i - Len(queue)]
    BY ConcatProperties, LenProperties
<1>2. Creations(queue \o more) = Creations(queue)
    <2>1. ASSUME NEW i \in 1..(Len(queue) + Len(more))
          PROVE  (queue \o more)[i].op = "create" <=> i \in Creations(queue)
        <3>1. CASE i <= Len(queue)
            BY <1>1, <3>1 DEF Creations
        <3>2. CASE i > Len(queue)
            <4>1. i - Len(queue) \in 1..Len(more) BY <1>1, <3>2
            <4>2. QED BY <1>1, <3>2, <4>1 DEF Creations
        <3>3. QED BY <1>1, <3>1, <3>2
    <2>2. QED BY <1>1, <2>1 DEF Creations
<1>3. QED BY <1>2

LEMMA OneCreation ==
    ASSUME NEW queue \in Seq(DbRequest), NEW q \in DbRequest
    PROVE  Cardinality(Creations(queue \o <<q>>)) <= Cardinality(Creations(queue)) + 1
<1>1. /\ Len(queue) \in Nat /\ Len(queue \o <<q>>) = Len(queue) + 1
      /\ \A i \in 1..(Len(queue) + 1) :
            (queue \o <<q>>)[i] = IF i <= Len(queue) THEN queue[i] ELSE <<q>>[i - Len(queue)]
    BY ConcatProperties, LenProperties
<1>2. Creations(queue \o <<q>>) \subseteq Creations(queue) \cup {Len(queue) + 1}
    BY <1>1 DEF Creations
<1>3. IsFiniteSet(Creations(queue)) /\ Cardinality(Creations(queue)) \in Nat BY QueuedTyped
<1>4. /\ IsFiniteSet(Creations(queue) \cup {Len(queue) + 1})
      /\ Cardinality(Creations(queue) \cup {Len(queue) + 1}) <= Cardinality(Creations(queue)) + 1
    <2>1. /\ IsFiniteSet(Creations(queue) \cup {Len(queue) + 1})
          /\ Cardinality(Creations(queue) \cup {Len(queue) + 1}) =
                IF Len(queue) + 1 \in Creations(queue) THEN Cardinality(Creations(queue))
                ELSE Cardinality(Creations(queue)) + 1
        BY <1>3, FS_AddElement, Zenon
    <2>2. QED BY <1>3, <2>1
<1>5. Cardinality(Creations(queue \o <<q>>)) <= Cardinality(Creations(queue) \cup {Len(queue) + 1})
    BY <1>2, <1>4, FS_Subset
<1>6. /\ Cardinality(Creations(queue \o <<q>>)) \in Nat
      /\ Cardinality(Creations(queue) \cup {Len(queue) + 1}) \in Nat
    <2>1. IsFiniteSet(Creations(queue \o <<q>>)) BY <1>2, <1>4, FS_Subset
    <2>2. QED BY <1>4, <2>1, FS_CardinalityType
<1>7. QED BY <1>3, <1>4, <1>5, <1>6

LEMMA TailCreations ==
    ASSUME NEW queue \in Seq(DbRequest), queue # <<>>
    PROVE  Cardinality(Creations(Tail(queue)))
              <= Cardinality(Creations(queue)) - (IF Head(queue).op = "create" THEN 1 ELSE 0)
<1> DEFINE shift == [i \in Creations(Tail(queue)) |-> i + 1]
<1>1. /\ Len(queue) \in Nat /\ Len(Tail(queue)) = Len(queue) - 1 /\ Head(queue) = queue[1]
      /\ \A i \in 1..(Len(queue) - 1) : Tail(queue)[i] = queue[i + 1]
      /\ Tail(queue) \in Seq(DbRequest)
    BY HeadTailProperties, LenProperties
<1>2. IsFiniteSet(Creations(queue)) /\ Cardinality(Creations(queue)) \in Nat BY QueuedTyped
<1>3. /\ IsFiniteSet(Creations(queue) \ {1})
      /\ Cardinality(Creations(queue) \ {1}) =
            Cardinality(Creations(queue)) - (IF Head(queue).op = "create" THEN 1 ELSE 0)
    <2>1. 1 \in Creations(queue) <=> Head(queue).op = "create"
        <3>1. Len(queue) # 0 BY EmptySeq
        <3>2. 1 \in 1..Len(queue) BY <1>1, <3>1
        <3>3. QED BY <1>1, <3>2 DEF Creations
    <2>2. /\ IsFiniteSet(Creations(queue) \ {1})
          /\ Cardinality(Creations(queue) \ {1}) =
                IF 1 \in Creations(queue) THEN Cardinality(Creations(queue)) - 1
                ELSE Cardinality(Creations(queue))
        BY <1>2, FS_RemoveElement, Zenon
    <2>3. QED BY <1>2, <2>1, <2>2
<1>4. shift \in Injection(Creations(Tail(queue)), Creations(queue) \ {1})
    <2>1. ASSUME NEW i \in Creations(Tail(queue)) PROVE i + 1 \in Creations(queue) \ {1}
        BY <1>1, <2>1 DEF Creations
    <2>2. shift \in [Creations(Tail(queue)) -> Creations(queue) \ {1}] BY <2>1
    <2>3. IsInjective(shift)
        BY QueuedTyped, <1>1 DEF IsInjective, Creations
    <2>4. QED BY <2>2, <2>3 DEF Injection
<1>5. Cardinality(Creations(Tail(queue))) <= Cardinality(Creations(queue) \ {1})
    BY <1>3, <1>4, FS_Injection
<1>6. QED BY <1>3, <1>5

(***************************************************************************)
(* Steps that leave the two tables alone                                   *)
(***************************************************************************)

LEMMA StillRight ==
    ASSUME UNCHANGED <<requests, friendships>>
    PROVE  /\ RightNotices' = RightNotices
           /\ RightRequests' = RightRequests
           /\ RightResults' = RightResults
           /\ \A u \in Users : RightPackets(u)' = RightPackets(u)
           /\ \A u : FriendsOf(u)' = FriendsOf(u)
<1>1. RightNotices' = RightNotices BY DEF RightNotices
<1>2. RightRequests' = RightRequests BY <1>1 DEF RightRequests, Rows
<1>3. \A u : FriendsOf(u)' = FriendsOf(u) BY DEF FriendsOf
<1>4. \A u \in Users : RightPackets(u)' = RightPackets(u) BY <1>3 DEF RightPackets
<1>5. \A res : RightAnswer(res)' <=> RightAnswer(res) BY <1>3 DEF RightAnswer, Rows
<1>6. RightResults' = RightResults BY <1>2, <1>5 DEF RightResults
<1>7. QED BY <1>1, <1>2, <1>3, <1>4, <1>6

\* What a step puts in the queues is right already before it
KeepsQueues ==
    /\ offlineRows' \subseteq RightNotices
    /\ dbQueue' \in Seq(RightRequests)
    /\ results' \in Seq(RightResults)
    /\ toClient' \in [Users -> Seq(ToClient)]
    /\ \A u \in Users : toClient'[u] \in Seq(RightPackets(u))

OthersTyped ==
    /\ users \subseteq Users
    /\ conn \in [Users -> ConnState]
    /\ logins \in [Users -> Nat]
    /\ friendList \in [Users -> SUBSET Users]
    /\ requestList \in [Users -> [RequestIds -> Status]]
    /\ localRequests \in [Users -> [RequestIds -> Status]]
    /\ contacts \in [Users -> SUBSET Users]
    /\ ops \in 0..MaxOps /\ failures \in 0..MaxFailures /\ crashes \in 0..MaxCrashes

LEMMA OthersAreTyped == TypeOK => OthersTyped
    BY DEF TypeOK, OthersTyped

LEMMA TypedAgain ==
    ASSUME requests' \in Seq(FriendRow), friendships' \subseteq {{u, v} : u, v \in Users},
           offlineRows' \subseteq Notice, dbQueue' \in Seq(DbRequest),
           results' \in Seq(Result),
           \A i \in DOMAIN results' : results'[i].id <= Len(requests'),
           toClient' \in [Users -> Seq(ToClient)], OthersTyped'
    PROVE  TypeOK'
    BY DEF TypeOK, OthersTyped

CountKept == Cardinality(Creations(dbQueue')) + ops <= Cardinality(Creations(dbQueue)) + ops'

LEMMA RightAreTyped ==
    ASSUME NEW queue \in Seq(RightRequests), NEW res \in Seq(RightResults)
    PROVE  /\ queue \in Seq(DbRequest) /\ res \in Seq(Result)
           /\ \A i \in DOMAIN res : res[i] \in Result /\ res[i].id <= Len(requests)
<1>1. RightRequests \subseteq DbRequest /\ RightResults \subseteq Result
    BY DEF RightRequests, RightResults
<1>2. queue \in Seq(DbRequest) BY <1>1, WiderSeq
<1>3. res \in Seq(Result) BY <1>1, WiderSeq
<1>4. \A i \in DOMAIN res : res[i] \in RightResults
    <2>1. DOMAIN res = 1..Len(res) BY LenProperties
    <2>2. QED BY <2>1, ElementOfSeq
<1>5. QED BY <1>2, <1>3, <1>4 DEF RightResults, RightAnswer

LEMMA TablesKept ==
    ASSUME IInv, UNCHANGED <<requests, friendships>>, KeepsQueues, OthersTyped', CountKept,
           FriendsAreTrue'
    PROVE  IInv'
<1> USE FriendAssumption
<1>1. /\ dbQueue' \in Seq(DbRequest) /\ results' \in Seq(Result)
      /\ \A i \in DOMAIN results' : results'[i].id <= Len(requests)
    <2>1. PICK queue, res : queue = dbQueue' /\ res = results' OBVIOUS
    <2>2. queue \in Seq(RightRequests) /\ res \in Seq(RightResults)
        BY <2>1 DEF KeepsQueues
    <2>3. QED BY <2>1, <2>2, RightAreTyped
<1>2. offlineRows' \subseteq Notice BY DEF KeepsQueues, RightNotices
<1>3. toClient' \in [Users -> Seq(ToClient)] BY DEF KeepsQueues
<1>4. TypeOK'
    <2>1. requests' \in Seq(FriendRow) /\ friendships' \subseteq {{u, v} : u, v \in Users}
        BY DEF IInv, TypeOK
    <2>2. \A i \in DOMAIN results' : results'[i].id <= Len(requests') BY <1>1
    <2>3. QED BY <1>1, <1>2, <1>3, <2>1, <2>2, TypedAgain
<1>5. QueuesRight'
    BY StillRight DEF KeepsQueues, QueuesRight
<1>6. Counted'
    <2>1. /\ Cardinality(Creations(dbQueue)) \in Nat /\ Len(requests) \in Nat
          /\ Cardinality(Creations(dbQueue')) \in Nat
        <3>1. PICK queue : queue = dbQueue' OBVIOUS
        <3>2. Cardinality(Creations(queue)) \in Nat BY <1>1, <3>1, QueuedTyped
        <3>3. dbQueue \in Seq(DbRequest) /\ requests \in Seq(FriendRow) BY DEF IInv, TypeOK
        <3>4. Cardinality(Creations(dbQueue)) \in Nat BY <3>3, QueuedTyped
        <3>5. Cardinality(Creations(dbQueue')) = Cardinality(Creations(queue)) BY <3>1
        <3>6. QED BY <3>2, <3>3, <3>4, <3>5, LenProperties
    <2>2. ops \in Nat /\ ops' \in Nat BY <1>4 DEF IInv, TypeOK
    <2>3. Len(requests) + Cardinality(Creations(dbQueue)) <= ops BY DEF IInv, Counted
    <2>4. Len(requests) + Cardinality(Creations(dbQueue')) <= ops'
        BY <2>1, <2>2, <2>3 DEF CountKept
    <2>5. Creations(dbQueue)' = Creations(dbQueue') BY DEF Creations
    <2>6. QED BY <2>4, <2>5 DEF Counted
<1>7. OnePending'
    BY DEF IInv, OnePending, Rows
<1>8. QED BY <1>4, <1>5, <1>6, <1>7 DEF IInv

\* a queue that is emptied or loses its head counts no more than before
LEMMA CountSame ==
    ASSUME IInv, UNCHANGED <<dbQueue, ops>>
    PROVE  CountKept
<1>1. dbQueue \in Seq(DbRequest) /\ ops \in Nat BY FriendAssumption DEF IInv, TypeOK
<1>2. Cardinality(Creations(dbQueue)) \in Nat BY <1>1, QueuedTyped
<1>3. Creations(dbQueue') = Creations(dbQueue) OBVIOUS
<1>4. QED BY <1>1, <1>2, <1>3 DEF CountKept

LEMMA CountPosted ==
    ASSUME IInv, NEW more \in Seq(DbRequest), dbQueue' = dbQueue \o more, UNCHANGED ops,
           \A i \in 1..Len(more) : more[i].op # "create"
    PROVE  CountKept
<1>1. dbQueue \in Seq(DbRequest) /\ ops \in Nat BY FriendAssumption DEF IInv, TypeOK
<1>2. Cardinality(Creations(dbQueue)) \in Nat BY <1>1, QueuedTyped
<1>3. Cardinality(Creations(dbQueue')) = Cardinality(Creations(dbQueue))
    BY <1>1, NoCreation
<1>4. QED BY <1>1, <1>2, <1>3 DEF CountKept

LEMMA CountTail ==
    ASSUME IInv, dbQueue # <<>>, dbQueue' = Tail(dbQueue), UNCHANGED ops
    PROVE  CountKept
<1>1. dbQueue \in Seq(DbRequest) /\ ops \in Nat BY FriendAssumption DEF IInv, TypeOK
<1>2. Cardinality(Creations(dbQueue)) \in Nat BY <1>1, QueuedTyped
<1>3. Tail(dbQueue) \in Seq(DbRequest) BY <1>1, HeadTailProperties
<1>4. Cardinality(Creations(Tail(dbQueue))) \in Nat BY <1>3, QueuedTyped
<1>5. Cardinality(Creations(Tail(dbQueue))) <= Cardinality(Creations(dbQueue))
    BY <1>1, <1>2, <1>4, TailCreations
<1>6. QED BY <1>1, <1>2, <1>4, <1>5 DEF CountKept

LEMMA EmptyCreations == Creations(<<>>) = {} /\ Cardinality(Creations(<<>>)) = 0
<1>1. Len(<<>>) = 0 BY EmptySeq
<1>2. Creations(<<>>) = {} BY <1>1 DEF Creations
<1>3. QED BY <1>2, FS_EmptySet

(***************************************************************************)
(* Packets and requests are made right                                     *)
(***************************************************************************)

LEMMA BlankTyped ==
    /\ NoneShown \in [RequestIds -> Status]
    /\ \A kind \in {"connectAck", "friendRequestAck", "friendDecisionAck", "friendListAck",
                    "friendRequestListAck", "friendRequestNotify", "friendChanged"} :
          Blank(kind) \in ToClient
<1> USE FriendAssumption
<1>1. NoneShown \in [RequestIds -> Status] BY DEF NoneShown, Status
<1>2. 0 \in 0..MaxOps OBVIOUS
<1>3. QED BY <1>1, <1>2 DEF Blank, ToClient, Status

LEMMA NoticeRight ==
    ASSUME NEW n \in RightNotices
    PROVE  NoticePacket(n) \in ToClient /\ NoticePacket(n) \in RightPackets(n.to)
<1> USE FriendAssumption
<1>1. /\ n.kind \in {"friendRequestNotify", "friendChanged"} /\ n.id \in 0..MaxOps /\ n.to \in Users
      /\ n.kind = "friendChanged" => n.friend \in Users /\ n.friend \in FriendsOf(n.to)
    <2>1. n \in Notice BY DEF RightNotices
    <2>2. n.kind \in {"friendRequestNotify", "friendChanged"} /\ n.id \in RequestIds /\ n.to \in Users
        BY <2>1 DEF Notice
    <2>3. QED BY <2>2 DEF RightNotices, FriendsOf, RequestIds
<1>2. NoneShown \in [RequestIds -> Status] BY BlankTyped
<1>3. CASE n.kind = "friendRequestNotify"
    <2>1. NoticePacket(n) = [kind |-> "friendRequestNotify", ok |-> TRUE, id |-> n.id, op |-> "none",
                             friends |-> {}, shown |-> NoneShown]
        BY <1>3 DEF NoticePacket, Blank
    <2>2. QED BY <1>1, <1>2, <2>1 DEF ToClient, RightPackets, Status
<1>4. CASE n.kind # "friendRequestNotify"
    <2>1. NoticePacket(n) = [kind |-> "friendChanged", ok |-> TRUE, id |-> n.id, op |-> "none",
                             friends |-> {n.friend}, shown |-> NoneShown]
        BY <1>4 DEF NoticePacket, Blank
    <2>2. QED BY <1>1, <1>2, <1>4, <2>1 DEF ToClient, RightPackets, Status
<1>5. QED BY <1>3, <1>4

LEMMA NoticesRight ==
    ASSUME NEW u, NEW S, S \subseteq RightNotices, \A n \in S : n.to = u, NEW s \in Seq(S)
    PROVE  NoticePackets(s) \in Seq(RightPackets(u)) /\ NoticePackets(s) \in Seq(ToClient)
<1>1. Len(s) \in Nat /\ DOMAIN s = 1..Len(s) /\ \A i \in 1..Len(s) : s[i] \in S
    BY LenProperties, ElementOfSeq
<1>2. NoticePackets(s) \in [1..Len(s) -> RightPackets(u)]
    BY <1>1, NoticeRight DEF NoticePackets
<1>3. NoticePackets(s) \in [1..Len(s) -> ToClient]
    BY <1>1, NoticeRight DEF NoticePackets
<1>4. QED BY <1>1, <1>2, <1>3, SeqDef

\* What the main thread and the clients post
LEMMA PostedRight ==
    ASSUME IInv, NEW op, NEW u \in Users, NEW notices \in SUBSET RightNotices,
           op \in {"friendList", "requestList", "queueOffline", "loadOffline",
                   "markOfflineDelivered"}
    PROVE  /\ DbReq(op, u, NoUser, 0, notices) \in RightRequests
           /\ DbReq(op, u, NoUser, 0, notices).op # "create"
<1> USE FriendAssumption
<1>1. logins[u] \in Nat /\ Len(requests) \in Nat BY LenProperties DEF IInv, TypeOK
<1>2. notices \subseteq Notice BY DEF RightNotices
<1>3. DbReq(op, u, NoUser, 0, notices) \in DbRequest BY <1>1, <1>2 DEF DbReq, DbRequest
<1>4. QED BY <1>1, <1>3 DEF DbReq, RightRequests

(***************************************************************************)
(* Connections                                                             *)
(***************************************************************************)

LEMMA ViewsKept ==
    ASSUME IInv, UNCHANGED <<friendships, views>>
    PROVE  FriendsAreTrue'
BY DEF IInv, FriendsAreTrue, FriendsOf, views

LEMMA OneWire ==
    ASSUME IInv, NEW u \in Users, NEW packets, packets \in Seq(ToClient),
           packets \in Seq(RightPackets(u)), toClient' = [toClient EXCEPT ![u] = packets]
    PROVE  /\ toClient' \in [Users -> Seq(ToClient)]
           /\ \A v \in Users : toClient'[v] \in Seq(RightPackets(v))
<1>1. /\ toClient \in [Users -> Seq(ToClient)]
      /\ \A v \in Users : toClient[v] \in Seq(RightPackets(v))
    BY DEF IInv, QueuesRight
<1>2. QED BY <1>1

LEMMA LoginInv ==
    ASSUME IInv, NEW u \in Users, Login(u)
    PROVE  IInv'
<1> USE FriendAssumption
<1> DEFINE q == [DbReq("loadOffline", u, NoUser, 0, {}) EXCEPT !.login = logins'[u]]
<1>1. /\ users' = users \cup {u} /\ conn' = [conn EXCEPT ![u] = "up"]
      /\ logins' = [logins EXCEPT ![u] = @ + 1] /\ dbQueue = <<>> /\ dbQueue' = <<q>>
      /\ toClient' = [toClient EXCEPT ![u] = <<Blank("connectAck")>>]
      /\ UNCHANGED <<requests, friendships, offlineRows, results, views, counters>>
    BY DEF Login
<1>2. logins \in [Users -> Nat] /\ logins' \in [Users -> Nat]
    BY <1>1 DEF IInv, TypeOK
<1>3. q \in RightRequests /\ q.op # "create"
    <2>1. q = [op |-> "loadOffline", by |-> u, login |-> logins'[u], to |-> NoUser,
               id |-> 0, notices |-> {}]
        BY DEF DbReq
    <2>2. Len(requests) \in Nat BY LenProperties DEF IInv, TypeOK
    <2>3. q \in DbRequest BY <1>2, <2>1 DEF DbRequest
    <2> HIDE DEF q
    <2>4. QED BY <2>1, <2>2, <2>3 DEF RightRequests
<1> HIDE DEF q
<1>4. <<Blank("connectAck")>> \in Seq(ToClient) /\ <<Blank("connectAck")>> \in Seq(RightPackets(u))
    <2>1. Blank("connectAck") \in ToClient BY BlankTyped
    <2>2. Blank("connectAck") \in RightPackets(u) BY <2>1 DEF RightPackets, Blank
    <2>3. QED BY <2>1, <2>2
<1>5. KeepsQueues
    <2>1. dbQueue' \in Seq(RightRequests) BY <1>1, <1>3
    <2>2. /\ toClient' \in [Users -> Seq(ToClient)]
          /\ \A v \in Users : toClient'[v] \in Seq(RightPackets(v))
        BY <1>1, <1>4, OneWire
    <2>3. QED BY <1>1, <2>1, <2>2 DEF KeepsQueues, IInv, QueuesRight
<1>6. OthersTyped'
    BY <1>1, <1>2 DEF OthersTyped, IInv, TypeOK, ConnState, views, counters
<1>7. CountKept
    <2>1. Len(<<q>>) = 1 /\ <<q>>[1] = q OBVIOUS
    <2>2. Creations(<<q>>) = {} BY <1>3, <2>1 DEF Creations
    <2>3. Cardinality(Creations(dbQueue')) = 0 BY <1>1, <2>2, FS_EmptySet
    <2>4. Cardinality(Creations(dbQueue)) = 0 BY <1>1, EmptyCreations
    <2>5. ops \in Nat /\ ops' = ops BY <1>1 DEF IInv, TypeOK, counters
    <2>6. QED BY <2>3, <2>4, <2>5 DEF CountKept
<1>8. FriendsAreTrue'
    BY <1>1, ViewsKept
<1>9. QED BY <1>1, <1>5, <1>6, <1>7, <1>8, TablesKept

LEMMA EmptyWire ==
    ASSUME NEW S
    PROVE  <<>> \in Seq(S)
BY EmptySeq

LEMMA ConnectionLostInv ==
    ASSUME IInv, NEW u \in Users, ConnectionLost(u)
    PROVE  IInv'
<1>1. /\ conn' = [conn EXCEPT ![u] = "dead"] /\ toClient' = [toClient EXCEPT ![u] = <<>>]
      /\ UNCHANGED <<users, requests, friendships, offlineRows, dbQueue, results, logins,
                     views, ops, failures, crashes>>
    BY DEF ConnectionLost, serverTables, queues, counters
<1>2. KeepsQueues
    <2>1. /\ toClient' \in [Users -> Seq(ToClient)]
          /\ \A v \in Users : toClient'[v] \in Seq(RightPackets(v))
        BY <1>1, EmptyWire, OneWire
    <2>2. QED BY <1>1, <2>1 DEF KeepsQueues, IInv, QueuesRight
<1>3. OthersTyped'
    BY <1>1 DEF OthersTyped, IInv, TypeOK, ConnState, views
<1>4. QED BY <1>1, <1>2, <1>3, CountSame, ViewsKept, TablesKept

LEMMA DisconnectedInv ==
    ASSUME IInv, NEW u \in Users, OnClientDisconnected(u)
    PROVE  IInv'
<1>1. /\ conn' = [conn EXCEPT ![u] = "down"]
      /\ UNCHANGED <<users, requests, friendships, offlineRows, dbQueue, results, logins,
                     toClient, views, ops, failures, crashes>>
    BY DEF OnClientDisconnected, serverTables, queues, counters
<1>2. KeepsQueues
    BY <1>1 DEF KeepsQueues, IInv, QueuesRight
<1>3. OthersTyped'
    BY <1>1 DEF OthersTyped, IInv, TypeOK, ConnState, views
<1>4. QED BY <1>1, <1>2, <1>3, CountSame, ViewsKept, TablesKept

LEMMA CrashInv ==
    ASSUME IInv, ServerCrash
    PROVE  IInv'
<1> USE FriendAssumption
<1>1. /\ conn' = [u \in Users |-> "down"] /\ toClient' = [u \in Users |-> <<>>]
      /\ dbQueue' = <<>> /\ results' = <<>>
      /\ UNCHANGED <<users, requests, friendships, offlineRows, logins, views, ops, failures>>
    BY DEF ServerCrash, serverTables
<1>2. KeepsQueues
    BY <1>1, EmptyWire DEF KeepsQueues, IInv, QueuesRight
<1>3. OthersTyped'
    BY <1>1 DEF OthersTyped, IInv, TypeOK, ConnState, views, ServerCrash
<1>4. CountKept
    <2>1. Cardinality(Creations(dbQueue')) = 0 BY <1>1, EmptyCreations
    <2>2. dbQueue \in Seq(DbRequest) /\ ops \in Nat BY DEF IInv, TypeOK
    <2>3. Cardinality(Creations(dbQueue)) \in Nat BY <2>2, QueuedTyped
    <2>4. QED BY <1>1, <2>1, <2>2, <2>3 DEF CountKept
<1>5. QED BY <1>1, <1>2, <1>3, <1>4, ViewsKept, TablesKept

(***************************************************************************)
(* Requests of the clients                                                 *)
(***************************************************************************)

LEMMA OperationInv ==
    ASSUME IInv, NEW u \in Users, NEW op, NEW to \in Users \cup {NoUser}, NEW id,
           Operation(u, op, to, id),
           \/ op = "create" /\ to \in Users /\ id = 0
           \/ op \in {"accepted", "rejected"} /\ id \in Rows /\ id \in RequestIds
    PROVE  IInv'
<1> USE FriendAssumption
<1> DEFINE q == DbReq(op, u, to, id, {})
<1>1. /\ ops < MaxOps /\ ops' = ops + 1 /\ dbQueue' = dbQueue \o <<q>>
      /\ UNCHANGED <<users, requests, friendships, offlineRows, results, conn, logins,
                     toClient, views, failures, crashes>>
    BY DEF Operation, Post, serverTables, sessions
<1>2. q \in RightRequests /\ q \in DbRequest
    <2>1. logins[u] \in Nat /\ Len(requests) \in Nat BY LenProperties DEF IInv, TypeOK
    <2>2. q \in DbRequest BY <2>1 DEF DbReq, DbRequest, RequestIds
    <2>3. QED BY <2>1, <2>2 DEF DbReq, RightRequests, Rows
<1> HIDE DEF q
<1>3. dbQueue \in Seq(RightRequests) /\ dbQueue \in Seq(DbRequest)
    BY DEF IInv, QueuesRight, TypeOK
<1>4. KeepsQueues
    <2>1. <<q>> \in Seq(RightRequests) BY <1>2
    <2>2. dbQueue' \in Seq(RightRequests) BY <1>1, <1>3, <2>1, ConcatProperties
    <2>3. QED BY <1>1, <2>2 DEF KeepsQueues, IInv, QueuesRight
<1>5. ops \in Nat /\ ops' \in 0..MaxOps
    BY <1>1 DEF IInv, TypeOK
<1>6. OthersTyped'
    <2>1. UNCHANGED <<users, conn, logins, friendList, requestList, localRequests, contacts,
                      failures, crashes>>
        BY <1>1 DEF views
    <2>2. OthersTyped BY OthersAreTyped DEF IInv
    <2>3. QED BY <1>5, <2>1, <2>2 DEF OthersTyped
<1>7. CountKept
    <2>1. Cardinality(Creations(dbQueue')) <= Cardinality(Creations(dbQueue)) + 1
        BY <1>1, <1>2, <1>3, OneCreation
    <2>2. <<q>> \in Seq(DbRequest) BY <1>2
    <2>3. dbQueue \o <<q>> \in Seq(DbRequest) BY <1>3, <2>2, ConcatProperties
    <2>4. Cardinality(Creations(dbQueue')) \in Nat /\ Cardinality(Creations(dbQueue)) \in Nat
        BY <1>1, <1>3, <2>3, QueuedTyped
    <2>5. QED BY <1>1, <1>5, <2>1, <2>4 DEF CountKept
<1>8. QED BY <1>1, <1>4, <1>6, <1>7, ViewsKept, TablesKept

LEMMA RequestInv ==
    ASSUME IInv, NEW u \in Users, NEW v \in Users, HandleFriendRequest(u, v)
    PROVE  IInv'
BY OperationInv DEF HandleFriendRequest

LEMMA DecisionInv ==
    ASSUME IInv, NEW u \in Users, NEW r \in RequestIds, NEW s \in {"accepted", "rejected"},
           HandleFriendDecision(u, r, s)
    PROVE  IInv'
<1>1. Len(requests) \in Nat BY LenProperties DEF IInv, TypeOK
<1>2. r \in Rows BY <1>1 DEF HandleFriendDecision, Rows, RequestIds
<1>3. QED BY <1>2, OperationInv DEF HandleFriendDecision

(***************************************************************************)
(* The database thread                                                     *)
(***************************************************************************)

LEMMA HeadRight ==
    ASSUME IInv, dbQueue # <<>>
    PROVE  /\ Head(dbQueue) \in RightRequests /\ Head(dbQueue) \in DbRequest
           /\ Tail(dbQueue) \in Seq(RightRequests)
<1>1. dbQueue \in Seq(RightRequests) BY DEF IInv, QueuesRight
<1>2. Head(dbQueue) \in RightRequests /\ Tail(dbQueue) \in Seq(RightRequests)
    BY <1>1, HeadTailProperties
<1>3. QED BY <1>2 DEF RightRequests

\* The thread takes a request and leaves friends and requests as they are
LEMMA DbKept ==
    ASSUME IInv, dbQueue # <<>>, dbQueue' = Tail(dbQueue),
           UNCHANGED <<users, requests, friendships, sessions, toClient, views, ops, crashes>>,
           offlineRows' \subseteq RightNotices, results' \in Seq(RightResults),
           failures' \in 0..MaxFailures
    PROVE  IInv'
<1>1. KeepsQueues
    BY HeadRight DEF KeepsQueues, IInv, QueuesRight
<1>2. OthersTyped'
    BY DEF OthersTyped, IInv, TypeOK, views, sessions
<1>3. QED BY <1>1, <1>2, CountTail, ViewsKept, TablesKept

LEMMA ReplyKept ==
    ASSUME IInv, dbQueue # <<>>, dbQueue' = Tail(dbQueue),
           UNCHANGED <<users, requests, friendships, offlineRows, sessions, toClient, views,
                       ops, crashes>>,
           NEW res \in RightResults, results' = Append(results, res),
           failures' \in 0..MaxFailures
    PROVE  IInv'
<1>1. results' \in Seq(RightResults)
    BY AppendProperties DEF IInv, QueuesRight
<1>2. offlineRows' \subseteq RightNotices
    BY DEF IInv, QueuesRight
<1>3. QED BY <1>1, <1>2, DbKept

\* The thread adds or decides a request
LEMMA DbChanged ==
    ASSUME IInv, dbQueue # <<>>, dbQueue' = Tail(dbQueue), Grows,
           UNCHANGED <<users, offlineRows, sessions, toClient, views, counters>>,
           requests' \in Seq(FriendRow), friendships' \subseteq Pairs,
           NEW res, res \in RightResults', results' = Append(results, res),
           Len(requests') + Cardinality(Creations(Tail(dbQueue))) <= ops,
           OnePending'
    PROVE  IInv'
<1> USE FriendAssumption
<1>1. QueuesRight BY DEF IInv
<1>2. /\ offlineRows \subseteq RightNotices'
      /\ dbQueue \in Seq(RightRequests')
      /\ results \in Seq(RightResults')
      /\ \A u \in Users : toClient[u] \in Seq(RightPackets(u)')
    BY <1>1, QueuesGrow
<1>3. QueuesRight'
    <2>1. PICK R : R = RightRequests' OBVIOUS
    <2>2. PICK S : S = RightResults' OBVIOUS
    <2>3. Tail(dbQueue) \in Seq(R) BY <1>2, <2>1, HeadTailProperties
    <2>4. Append(results, res) \in Seq(S) BY <1>2, <2>2, AppendProperties
    <2>5. QED BY <1>1, <1>2, <2>1, <2>2, <2>3, <2>4 DEF QueuesRight
<1>4. TypeOK'
    <2>1. /\ results' \in Seq(Result) /\ \A i \in DOMAIN results' : results'[i].id <= Len(requests')
        <3>1. PICK S : S = RightResults' OBVIOUS
        <3>2. results' \in Seq(S) BY <1>3, <3>1 DEF QueuesRight
        <3>3. S \subseteq Result BY <3>1 DEF RightResults
        <3>4. PICK q : q = results' OBVIOUS
        <3>5. q \in Seq(S) BY <3>2, <3>4
        <3>6. q \in Seq(Result) BY <3>3, <3>5, WiderSeq
        <3>7. DOMAIN q = 1..Len(q) /\ \A i \in 1..Len(q) : q[i] \in S
            BY <3>5, LenProperties, ElementOfSeq
        <3>8. \A x \in S : x.id <= Len(requests') BY <3>1 DEF RightResults, RightAnswer
        <3>9. \A i \in DOMAIN q : q[i].id <= Len(requests') BY <3>7, <3>8
        <3>10. QED BY <3>4, <3>6, <3>9
    <2>2. dbQueue' \in Seq(DbRequest)
        <3>1. dbQueue \in Seq(DbRequest) BY DEF IInv, TypeOK
        <3>2. QED BY <3>1, HeadTailProperties
    <2>3. OthersTyped'
        <3>1. UNCHANGED <<users, conn, logins, friendList, requestList, localRequests, contacts,
                          ops, failures, crashes>>
            BY DEF views, sessions, counters
        <3>2. OthersTyped BY OthersAreTyped DEF IInv
        <3>3. QED BY <3>1, <3>2 DEF OthersTyped
    <2>4. offlineRows' \subseteq Notice /\ toClient' \in [Users -> Seq(ToClient)]
        BY DEF IInv, TypeOK
    <2>5. friendships' \subseteq {{u, v} : u, v \in Users} BY DEF Pairs
    <2>6. QED BY <2>1, <2>2, <2>3, <2>4, <2>5, TypedAgain
<1>5. Counted'
    <2>1. Creations(dbQueue)' = Creations(Tail(dbQueue)) BY DEF Creations
    <2>2. UNCHANGED ops BY DEF counters
    <2>3. QED BY <2>1, <2>2 DEF Counted
<1>6. FriendsAreTrue'
    <2>1. \A u \in Users : FriendsOf(u) \subseteq FriendsOf(u)' BY FriendsGrow
    <2>2. QED BY <2>1 DEF IInv, FriendsAreTrue, views
<1>7. QED BY <1>3, <1>4, <1>5, <1>6 DEF IInv

\* What Reply appends
Answer(req, ok, id, friends, shown) ==
    [req |-> req, ok |-> ok, id |-> id, friends |-> friends, shown |-> shown]

LEMMA CreateInv ==
    ASSUME IInv, dbQueue # <<>>, dbQueue' = Tail(dbQueue),
           UNCHANGED <<users, sessions, toClient, views, counters>>,
           NEW req, req = Head(dbQueue), CreateFriendRequest(req)
    PROVE  IInv'
<1> USE FriendAssumption
<1> DEFINE row == [from |-> req.by, to |-> req.to, status |-> "pending"]
           n == Len(requests)
           res == Answer(req, TRUE, n + 1, {}, NoneShown)
<1>1. /\ req.op = "create" /\ MayCreate(req) /\ requests' = Append(requests, row)
      /\ results' = Append(results, res) /\ UNCHANGED <<friendships, offlineRows>>
    BY DEF CreateFriendRequest, Reply, Answer
<1>2. req \in RightRequests /\ req \in DbRequest /\ req.by \in Users /\ req.to \in Users
    <2>1. req \in RightRequests /\ req \in DbRequest BY HeadRight
    <2>2. QED BY <1>1, <2>1 DEF RightRequests, DbRequest
<1>3. row \in FriendRow BY <1>2 DEF FriendRow, Status
<1>4. requests \in Seq(FriendRow) /\ n \in Nat BY LenProperties DEF IInv, TypeOK
<1>5. /\ requests' \in Seq(FriendRow) /\ Len(requests') = n + 1
      /\ requests'[n + 1] = row /\ \A r \in 1..n : requests'[r] = requests[r]
    <2> HIDE DEF row
    <2>1. QED BY <1>1, <1>3, <1>4, AppendProperties
<1>6. Grows
    BY <1>1, <1>4, <1>5 DEF Grows, Rows
<1>7. OnePending'
    <2>1. ASSUME NEW r \in 1..(n + 1), NEW q \in 1..(n + 1),
                 requests'[r].status = "pending", requests'[q].status = "pending",
                 {requests'[r].from, requests'[r].to} = {requests'[q].from, requests'[q].to},
                 r < q
          PROVE  FALSE
        <3>1. r \in 1..n BY <1>4, <2>1
        <3>2. CASE q \in 1..n
            <4>1. /\ requests[r].status = "pending" /\ requests[q].status = "pending"
                  /\ {requests[r].from, requests[r].to} = {requests[q].from, requests[q].to}
                BY <1>5, <2>1, <3>1, <3>2
            <4>2. r = q BY <3>1, <3>2, <4>1 DEF IInv, OnePending, Rows
            <4>3. QED BY <2>1, <4>2
        <3>3. CASE q = n + 1
            <4>1. {requests[r].from, requests[r].to} = {req.by, req.to}
                  /\ requests[r].status = "pending"
                <5>1. requests'[q] = row /\ requests'[r] = requests[r] BY <1>5, <3>1, <3>3
                <5>2. requests'[q].from = req.by /\ requests'[q].to = req.to BY <5>1
                <5>3. QED BY <2>1, <5>1, <5>2
            <4>2. r \in DOMAIN requests BY <1>4, <3>1, LenProperties
            <4>3. QED BY <1>1, <4>1, <4>2 DEF MayCreate
        <3>4. q \in 1..n \/ q = n + 1 BY <1>4
        <3>5. QED BY <3>2, <3>3, <3>4
    <2>2. ASSUME NEW r \in 1..(n + 1), NEW q \in 1..(n + 1),
                 requests'[r].status = "pending", requests'[q].status = "pending",
                 {requests'[r].from, requests'[r].to} = {requests'[q].from, requests'[q].to}
          PROVE  r = q
        <3>1. ~(r < q) BY <2>1, <2>2
        <3>2. ~(q < r) BY <2>1, <2>2
        <3>3. QED BY <1>4, <3>1, <3>2
    <2>3. QED BY <1>5, <2>2 DEF OnePending, Rows
<1>8. n + 1 + Cardinality(Creations(Tail(dbQueue))) <= ops /\ n + 1 <= MaxOps
    <2>1. dbQueue \in Seq(DbRequest) /\ ops \in 0..MaxOps BY DEF IInv, TypeOK
    <2>2. Tail(dbQueue) \in Seq(DbRequest) BY <2>1, HeadTailProperties
    <2>3. Cardinality(Creations(Tail(dbQueue))) \in Nat /\ Cardinality(Creations(dbQueue)) \in Nat
        BY <2>1, <2>2, QueuedTyped
    <2>4. Cardinality(Creations(Tail(dbQueue))) <= Cardinality(Creations(dbQueue)) - 1
        <3>1. Cardinality(Creations(Tail(dbQueue)))
                 <= Cardinality(Creations(dbQueue)) - (IF Head(dbQueue).op = "create" THEN 1 ELSE 0)
            BY <2>1, TailCreations
        <3>2. Head(dbQueue).op = "create" BY <1>1
        <3>3. QED BY <3>1, <3>2
    <2>5. n + Cardinality(Creations(dbQueue)) <= ops BY DEF IInv, Counted
    <2>6. n \in Nat /\ ops \in Nat /\ ops <= MaxOps /\ MaxOps \in Nat BY <1>4, <2>1
    <2>7. PICK a, b \in Nat : /\ a = Cardinality(Creations(Tail(dbQueue)))
                             /\ b = Cardinality(Creations(dbQueue))
        BY <2>3
    <2>8. a <= b - 1 /\ n + b <= ops BY <2>4, <2>5, <2>7
    <2> HIDE DEF n
    <2>9. n + 1 + a <= ops /\ n + 1 <= MaxOps BY <2>6, <2>8
    <2>10. QED BY <2>7, <2>9
<1>9. res \in RightResults'
    <2>1. req \in RightRequests' BY <1>2, <1>6, RightGrows
    <2>2. n + 1 \in 0..MaxOps /\ n + 1 \in Rows' BY <1>4, <1>5, <1>8 DEF Rows
    <2>3. res \in Result BY <1>2, <2>2, BlankTyped DEF Answer, Result
    <2>4. PICK c : c = res OBVIOUS
    <2>5. /\ c.req = req /\ c.id = n + 1 /\ c.friends = {} /\ c.req.op = "create"
        BY <1>1, <2>4 DEF Answer
    <2> HIDE DEF res, n
    <2>6. RightAnswer(c)' BY <1>4, <1>5, <2>2, <2>5 DEF RightAnswer
    <2>7. c \in RightResults' BY <2>1, <2>3, <2>4, <2>5, <2>6 DEF RightResults
    <2>8. QED BY <2>4, <2>7
<1>10. Len(requests') + Cardinality(Creations(Tail(dbQueue))) <= ops BY <1>5, <1>8
<1>11. friendships' \subseteq Pairs BY <1>1 DEF IInv, TypeOK, Pairs
<1> HIDE DEF row, n, res
<1>12. QED BY <1>1, <1>5, <1>6, <1>7, <1>9, <1>10, <1>11, DbChanged

LEMMA DecideInv ==
    ASSUME IInv, dbQueue # <<>>, dbQueue' = Tail(dbQueue),
           UNCHANGED <<users, sessions, toClient, views, counters>>,
           NEW req, req = Head(dbQueue), DecideFriendRequest(req)
    PROVE  IInv'
<1> USE FriendAssumption
<1> DEFINE res == Answer(req, TRUE, req.id, {}, NoneShown)
           pair == {requests[req.id].from, requests[req.id].to}
<1>1. /\ req.op \in {"accepted", "rejected"} /\ MayDecide(req)
      /\ requests' = [requests EXCEPT ![req.id].status = req.op]
      /\ friendships' = IF req.op = "accepted" THEN friendships \cup {pair} ELSE friendships
      /\ results' = Append(results, res) /\ UNCHANGED offlineRows
    BY DEF DecideFriendRequest, Reply, Answer
<1>2. req \in RightRequests /\ req \in DbRequest /\ req.id \in Rows /\ req.id <= Len(requests)
    <2>1. req \in RightRequests /\ req \in DbRequest BY HeadRight
    <2>2. QED BY <1>1, <2>1 DEF RightRequests
<1>3. /\ requests \in Seq(FriendRow) /\ Len(requests) \in Nat /\ DOMAIN requests = Rows
      /\ \A r \in Rows : requests[r] \in FriendRow
    BY LenProperties, ElementOfSeq DEF IInv, TypeOK, Rows
<1>4. /\ requests' \in Seq(FriendRow) /\ Len(requests') = Len(requests)
      /\ requests'[req.id] = [requests[req.id] EXCEPT !.status = req.op]
      /\ \A r \in Rows : r # req.id => requests'[r] = requests[r]
    <2>1. [requests[req.id] EXCEPT !.status = req.op] \in FriendRow
        BY <1>1, <1>2, <1>3 DEF FriendRow, Status
    <2>2. requests' = [requests EXCEPT ![req.id] = [requests[req.id] EXCEPT !.status = req.op]]
        BY <1>1
    <2>3. QED BY <1>2, <1>3, <2>1, <2>2, ExceptSeq DEF Rows
<1>5. /\ \A r \in Rows : requests'[r].from = requests[r].from /\ requests'[r].to = requests[r].to
      /\ requests'[req.id].status # "pending"
      /\ \A r \in Rows : requests'[r].status = "pending" => requests[r].status = "pending"
    <2>1. /\ requests'[req.id].from = requests[req.id].from
          /\ requests'[req.id].to = requests[req.id].to
          /\ requests'[req.id].status = req.op
        BY <1>2, <1>3, <1>4 DEF FriendRow
    <2>2. QED BY <1>1, <1>4, <2>1
<1>6. Grows
    BY <1>1, <1>3, <1>4, <1>5 DEF Grows
<1>7. OnePending'
    BY <1>4, <1>5 DEF IInv, OnePending, Rows
<1>8. friendships' \subseteq Pairs
    <2>1. pair \in Pairs BY <1>2, <1>3 DEF FriendRow, Pairs
    <2>2. friendships \subseteq Pairs BY DEF IInv, TypeOK, Pairs
    <2> HIDE DEF pair
    <2>3. QED BY <1>1, <2>1, <2>2
<1>9. Len(requests') + Cardinality(Creations(Tail(dbQueue))) <= ops
    <2>1. dbQueue \in Seq(DbRequest) /\ ops \in 0..MaxOps BY DEF IInv, TypeOK
    <2>2. Tail(dbQueue) \in Seq(DbRequest) BY <2>1, HeadTailProperties
    <2>3. Cardinality(Creations(Tail(dbQueue))) \in Nat /\ Cardinality(Creations(dbQueue)) \in Nat
        BY <2>1, <2>2, QueuedTyped
    <2>4. Cardinality(Creations(Tail(dbQueue))) <= Cardinality(Creations(dbQueue))
        BY <2>1, <2>3, TailCreations
    <2>5. Len(requests) + Cardinality(Creations(dbQueue)) <= ops BY DEF IInv, Counted
    <2>6. QED BY <1>3, <1>4, <2>1, <2>3, <2>4, <2>5
<1>10. res \in RightResults'
    <2>1. req \in RightRequests' BY <1>2, <1>6, RightGrows
    <2>2. req.id \in 0..MaxOps /\ req.id \in Rows' BY <1>2, <1>4 DEF Rows, DbRequest
    <2>3. res \in Result BY <1>2, <2>2, BlankTyped DEF Answer, Result
    <2>4. res.req = req /\ res.id = req.id /\ res.friends = {} /\ res.req.op # "loadOffline"
        BY <1>1 DEF Answer
    <2>5. req.op = "accepted" => {requests'[req.id].from, requests'[req.id].to} \in friendships'
        BY <1>1, <1>2, <1>5
    <2> HIDE DEF res
    <2>6. RightAnswer(res)' BY <1>2, <1>4, <2>2, <2>4, <2>5 DEF RightAnswer
    <2>7. QED BY <2>1, <2>3, <2>4, <2>6 DEF RightResults
<1>11. results' = Append(results, res) /\ UNCHANGED offlineRows /\ requests' \in Seq(FriendRow)
    BY <1>1, <1>4
<1>12. PICK c : c = res OBVIOUS
<1> HIDE DEF res, pair
<1>13. c \in RightResults' /\ results' = Append(results, c) BY <1>10, <1>11, <1>12
<1>14. QED BY <1>6, <1>7, <1>8, <1>9, <1>11, <1>13, DbChanged

LEMMA AnswerRight ==
    ASSUME NEW res \in Result, res.req \in RightRequests, res.id <= Len(requests),
           res.ok => res.req.op \notin {"create", "accepted", "rejected"},
           res.friends \subseteq FriendsOf(res.req.by),
           res.req.op = "loadOffline" => \A n \in res.req.notices : n.to = res.req.by
    PROVE  res \in RightResults
BY DEF RightAnswer, RightResults

LEMMA AnswerTyped ==
    ASSUME IInv, NEW req \in DbRequest, NEW id \in 0..MaxOps, NEW friends \in SUBSET Users,
           NEW shown \in [RequestIds -> Status]
    PROVE  /\ Answer(req, TRUE, id, friends, shown) \in Result
           /\ Answer(req, FALSE, id, friends, shown) \in Result
BY DEF Answer, Result

LEMMA OfflineInv ==
    ASSUME IInv, dbQueue # <<>>, dbQueue' = Tail(dbQueue),
           UNCHANGED <<users, sessions, toClient, views, counters>>,
           NEW req, req = Head(dbQueue), OfflineQueueStep(req)
    PROVE  IInv'
<1> USE FriendAssumption
<1>1. req \in RightRequests /\ req \in DbRequest /\ req.notices \subseteq RightNotices
    <2>1. req \in RightRequests /\ req \in DbRequest BY HeadRight
    <2>2. QED BY <2>1 DEF RightRequests
<1>2. offlineRows \subseteq RightNotices /\ results \in Seq(RightResults)
    BY DEF IInv, QueuesRight
<1>3. UNCHANGED <<requests, friendships>> BY DEF OfflineQueueStep
<1>4. failures' \in 0..MaxFailures /\ UNCHANGED <<ops, crashes>> BY DEF IInv, TypeOK, counters
<1>5. offlineRows' \subseteq RightNotices
    BY <1>1, <1>2 DEF OfflineQueueStep
<1>6. results' \in Seq(RightResults)
    <2>1. CASE req.op = "loadOffline"
        <3> DEFINE S == {n \in offlineRows : n.to = req.by}
                   q == [req EXCEPT !.notices = S]
        <3>1. results' = Append(results, Answer(q, TRUE, 0, {}, NoneShown))
            BY <2>1 DEF OfflineQueueStep, Answer
        <3>2. S \subseteq RightNotices /\ S \subseteq Notice BY <1>2 DEF RightNotices
        <3>3. /\ q \in RightRequests /\ q.op = "loadOffline"
              /\ \A n \in q.notices : n.to = q.by
            <4> HIDE DEF S
            <4>1. /\ q.op = req.op /\ q.id = req.id /\ q.by = req.by /\ q.to = req.to
                  /\ q.notices = S /\ q \in DbRequest
                BY <1>1, <3>2 DEF DbRequest
            <4>2. \A n \in S : n.to = req.by BY DEF S
            <4> HIDE DEF q
            <4>3. QED BY <1>1, <2>1, <3>2, <4>1, <4>2 DEF RightRequests
        <3>4. Len(requests) \in Nat BY LenProperties DEF IInv, TypeOK
        <3> HIDE DEF S, q
        <3>5. NoneShown \in [RequestIds -> Status] /\ 0 <= Len(requests) /\ 0 \in 0..MaxOps
            BY <3>4, BlankTyped
        <3>6. Answer(q, TRUE, 0, {}, NoneShown) \in RightResults
            <4>1. PICK res : res = Answer(q, TRUE, 0, {}, NoneShown) OBVIOUS
            <4>2. q \in DbRequest BY <3>3 DEF RightRequests
            <4>3. res \in Result BY <3>5, <4>1, <4>2, AnswerTyped
            <4>4. res.req = q /\ res.id = 0 /\ res.friends = {} BY <4>1 DEF Answer
            <4>5. \A n \in q.notices : n.to = q.by BY <3>3
            <4>6. QED BY <3>3, <3>5, <4>1, <4>3, <4>4, <4>5, AnswerRight
        <3>7. QED BY <1>2, <3>1, <3>6, AppendProperties
    <2>2. CASE req.op # "loadOffline"
        BY <1>2, <2>2 DEF OfflineQueueStep
    <2>3. QED BY <2>1, <2>2
<1>7. QED BY <1>3, <1>4, <1>5, <1>6, DbKept

LEMMA AnswerInv ==
    ASSUME IInv, dbQueue # <<>>, dbQueue' = Tail(dbQueue),
           UNCHANGED <<users, requests, friendships, offlineRows, sessions, toClient, views,
                       ops, crashes>>,
           NEW res \in Result, res.req = Head(dbQueue), res.id <= Len(requests),
           res.ok => res.req.op \notin {"create", "accepted", "rejected"},
           res.friends \subseteq FriendsOf(res.req.by), res.req.op # "loadOffline",
           results' = Append(results, res), failures' \in 0..MaxFailures
    PROVE  IInv'
<1>1. res.req \in RightRequests BY HeadRight
<1>2. res \in RightResults BY <1>1, AnswerRight
<1>3. QED BY <1>2, ReplyKept

LEMMA DbStepInv == IInv /\ DbStep => IInv'
<1> SUFFICES ASSUME IInv, DbStep PROVE IInv'
    OBVIOUS
<1> USE FriendAssumption
<1>1. PICK req : req = Head(dbQueue) OBVIOUS
<1>2. /\ dbQueue # <<>> /\ dbQueue' = Tail(dbQueue)
      /\ UNCHANGED <<users, sessions, toClient, views, counters>>
      /\ \/ CreateFriendRequest(req) \/ DecideFriendRequest(req) \/ Refused(req)
         \/ LoadFriendList(req) \/ LoadFriendRequestList(req) \/ OfflineQueueStep(req)
    BY <1>1 DEF DbStep
<1>3. /\ req.id \in 0..MaxOps /\ req.id <= Len(requests) /\ req.by \in Users
      /\ req \in DbRequest
      /\ Len(requests) \in Nat /\ 0 \in 0..MaxOps /\ 0 <= Len(requests)
      /\ NoneShown \in [RequestIds -> Status]
    <2>1. req \in RightRequests /\ req \in DbRequest BY <1>1, <1>2, HeadRight
    <2>2. Len(requests) \in Nat BY LenProperties DEF IInv, TypeOK
    <2>3. QED BY <2>1, <2>2, BlankTyped DEF RightRequests, DbRequest
<1>4. failures' \in 0..MaxFailures /\ UNCHANGED <<ops, crashes>>
    BY <1>2 DEF IInv, TypeOK, counters
<1>5. CASE CreateFriendRequest(req) BY <1>1, <1>2, <1>5, CreateInv
<1>6. CASE DecideFriendRequest(req) BY <1>1, <1>2, <1>6, DecideInv
<1>7. CASE OfflineQueueStep(req) BY <1>1, <1>2, <1>7, OfflineInv
<1>8. CASE Refused(req)
    <2>1. PICK res : res = Answer(req, FALSE, req.id, {}, NoneShown) OBVIOUS
    <2>2. /\ results' = Append(results, res)
          /\ UNCHANGED <<requests, friendships, offlineRows>>
          /\ req.op # "loadOffline"
        BY <1>8, <2>1 DEF Refused, Reply, Answer
    <2>3. res \in Result BY <1>3, <2>1, AnswerTyped
    <2>4. res.req = req /\ ~res.ok /\ res.id = req.id /\ res.friends = {} BY <2>1 DEF Answer
    <2>5. QED BY <1>1, <1>2, <1>3, <1>4, <2>2, <2>3, <2>4, AnswerInv
<1>9. CASE LoadFriendList(req)
    <2>1. PICK res : res = Answer(req, TRUE, 0, FriendsOf(req.by), NoneShown) OBVIOUS
    <2>2. /\ results' = Append(results, res) /\ req.op = "friendList"
          /\ UNCHANGED <<requests, friendships, offlineRows>>
        BY <1>9, <2>1 DEF LoadFriendList, Reply, Answer
    <2>3. FriendsOf(req.by) \in SUBSET Users BY DEF FriendsOf
    <2>4. res \in Result BY <1>3, <2>1, <2>3, AnswerTyped
    <2>5. res.req = req /\ res.id = 0 /\ res.friends = FriendsOf(req.by) BY <2>1 DEF Answer
    <2>6. QED BY <1>1, <1>2, <1>3, <1>4, <2>2, <2>4, <2>5, AnswerInv
<1>10. CASE LoadFriendRequestList(req)
    <2> DEFINE shown == [r \in RequestIds |->
                            IF Involves(r, req.by) THEN requests[r].status ELSE "none"]
    <2>1. PICK res : res = Answer(req, TRUE, 0, {}, shown) OBVIOUS
    <2>2. /\ results' = Append(results, res) /\ req.op = "requestList"
          /\ UNCHANGED <<requests, friendships, offlineRows>>
        BY <1>10, <2>1 DEF LoadFriendRequestList, Reply, Answer
    <2>3. shown \in [RequestIds -> Status]
        <3>1. \A r \in RequestIds : Involves(r, req.by) => requests[r].status \in Status
            <4>1. /\ DOMAIN requests = 1..Len(requests)
                  /\ \A r \in 1..Len(requests) : requests[r] \in FriendRow
                BY LenProperties, ElementOfSeq DEF IInv, TypeOK
            <4>2. QED BY <4>1 DEF Involves, FriendRow
        <3>2. QED BY <3>1 DEF Status
    <2> HIDE DEF shown
    <2>4. res \in Result BY <1>3, <2>1, <2>3, AnswerTyped
    <2>5. res.req = req /\ res.id = 0 /\ res.friends = {} BY <2>1 DEF Answer
    <2>6. QED BY <1>1, <1>2, <1>3, <1>4, <2>2, <2>4, <2>5, AnswerInv
<1>11. QED BY <1>2, <1>5, <1>6, <1>7, <1>8, <1>9, <1>10

LEMMA DbFailsInv == IInv /\ DbFails => IInv'
<1> SUFFICES ASSUME IInv, DbFails PROVE IInv'
    OBVIOUS
<1> USE FriendAssumption
<1>1. PICK req : req = Head(dbQueue) OBVIOUS
<1>2. /\ dbQueue # <<>> /\ dbQueue' = Tail(dbQueue)
      /\ UNCHANGED <<users, requests, friendships, offlineRows, sessions, toClient, views,
                     ops, crashes>>
      /\ Reply(req, FALSE, req.id, {}, NoneShown)
      /\ req.op # "loadOffline"
    BY <1>1 DEF DbFails, serverTables
<1>3. failures' \in 0..MaxFailures
    BY DEF IInv, TypeOK, DbFails
<1>4. /\ req.id \in 0..MaxOps /\ req.id <= Len(requests) /\ req \in DbRequest
      /\ NoneShown \in [RequestIds -> Status]
    <2>1. req \in RightRequests /\ req \in DbRequest BY <1>1, <1>2, HeadRight
    <2>2. QED BY <2>1, BlankTyped DEF RightRequests, DbRequest
<1>5. PICK res : res = Answer(req, FALSE, req.id, {}, NoneShown) OBVIOUS
<1>6. results' = Append(results, res) BY <1>2, <1>5 DEF Reply, Answer
<1>7. res \in Result BY <1>4, <1>5, AnswerTyped
<1>8. res.req = req /\ ~res.ok /\ res.id = req.id /\ res.friends = {} BY <1>5 DEF Answer
<1>9. QED BY <1>1, <1>2, <1>3, <1>4, <1>6, <1>7, <1>8, AnswerInv

(***************************************************************************)
(* Results, on the main thread                                             *)
(***************************************************************************)

LEMMA FirstResult ==
    ASSUME IInv, results # <<>>
    PROVE  /\ Head(results) \in RightResults /\ Head(results) \in Result
           /\ Head(results).req \in RightRequests /\ Head(results).req.by \in Users
           /\ RightAnswer(Head(results))
           /\ Tail(results) \in Seq(RightResults)
<1>1. results \in Seq(RightResults) BY DEF IInv, QueuesRight
<1>2. Head(results) \in RightResults /\ Tail(results) \in Seq(RightResults)
    BY <1>1, HeadTailProperties
<1>3. QED BY <1>2 DEF RightResults, RightRequests, DbRequest

\* The main thread handles a result: packets are written, requests posted
LEMMA ResultHandled ==
    ASSUME IInv, results # <<>>, results' = Tail(results),
           UNCHANGED <<serverTables, sessions, views, counters>>,
           toClient' \in [Users -> Seq(ToClient)],
           \A u \in Users : toClient'[u] \in Seq(RightPackets(u)),
           NEW more \in Seq(RightRequests), dbQueue' = dbQueue \o more,
           \A i \in 1..Len(more) : more[i].op # "create"
    PROVE  IInv'
<1>1. UNCHANGED <<users, requests, friendships, offlineRows, conn, logins, ops, failures, crashes>>
    BY DEF serverTables, sessions, counters
<1>2. dbQueue' \in Seq(RightRequests)
    BY ConcatProperties DEF IInv, QueuesRight
<1>3. KeepsQueues
    BY <1>1, <1>2, FirstResult DEF KeepsQueues, IInv, QueuesRight
<1>4. OthersTyped'
    BY <1>1 DEF OthersTyped, IInv, TypeOK, views
<1>5. more \in Seq(DbRequest)
    <2>1. RightRequests \subseteq DbRequest BY DEF RightRequests
    <2>2. QED BY <2>1, WiderSeq
<1>6. CountKept BY <1>1, <1>5, CountPosted
<1>7. QED BY <1>1, <1>3, <1>4, <1>6, ViewsKept, TablesKept

LEMMA SubsetFinite ==
    ASSUME NEW S, IsFiniteSet(S), NEW T, T \subseteq S
    PROVE  IsFiniteSet(T)
BY FS_Subset

\* There are finitely many notices, so that a set of them can be written in some order
LEMMA NoticeFinite == IsFiniteSet(Notice)
<1> USE FriendAssumption
<1> DEFINE K == {"friendRequestNotify", "friendChanged"}
           F == Users \cup {NoUser}
           all == (K \X RequestIds) \X (Users \X F)
           f == [x \in all |-> [kind |-> x[1][1], id |-> x[1][2], to |-> x[2][1], friend |-> x[2][2]]]
<1>1. IsFiniteSet(K)
    <2>1. IsFiniteSet({"friendRequestNotify"}) BY FS_Singleton
    <2>2. IsFiniteSet({"friendRequestNotify"} \cup {"friendChanged"}) BY <2>1, FS_AddElement
    <2>3. {"friendRequestNotify"} \cup {"friendChanged"} = K OBVIOUS
    <2>4. QED BY <2>2, <2>3
<1>2. IsFiniteSet(RequestIds) BY FS_Interval DEF RequestIds
<1>3. IsFiniteSet(Users) /\ IsFiniteSet(F) BY FS_AddElement
<1>4. IsFiniteSet(all)
    <2> HIDE DEF K, F
    <2>1. IsFiniteSet(K \X RequestIds) BY <1>1, <1>2, FS_Product
    <2>2. IsFiniteSet(Users \X F) BY <1>3, FS_Product
    <2>3. QED BY <2>1, <2>2, FS_Product
<1>5. f \in Surjection(all, Notice)
    <2>1. \A x \in all : f[x] \in Notice BY DEF Notice
    <2>2. f \in [all -> Notice] BY <2>1
    <2>3. ASSUME NEW n \in Notice PROVE \E x \in all : f[x] = n
        <3> DEFINE x == <<<<n.kind, n.id>>, <<n.to, n.friend>>>>
        <3>1. x \in all BY DEF Notice
        <3>2. f[x] = [kind |-> n.kind, id |-> n.id, to |-> n.to, friend |-> n.friend] BY <3>1
        <3>3. f[x] = n BY <3>2 DEF Notice
        <3>4. QED BY <3>1, <3>3
    <2>4. QED BY <2>2, <2>3 DEF Surjection
<1> HIDE DEF all, f
<1>6. QED BY <1>4, <1>5, FS_Surjection

LEMMA AckInv ==
    ASSUME IInv, results # <<>>, results' = Tail(results),
           UNCHANGED <<serverTables, sessions, views, counters>>,
           NEW req, req.by \in Users, NEW packet \in ToClient, packet \in RightPackets(req.by),
           NEW N, N \subseteq RightNotices, IsFiniteSet(N),
           AckAndNotify(req, packet, N)
    PROVE  IInv'
<1>1. /\ toClient \in [Users -> Seq(ToClient)]
      /\ \A u \in Users : toClient[u] \in Seq(RightPackets(u))
    BY DEF IInv, QueuesRight
<1>2. ASSUME NEW u \in Users
      PROVE  /\ toClient'[u] \in Seq(ToClient)
             /\ toClient'[u] \in Seq(RightPackets(u))
    <2>1. PICK S : S = {n \in N : n.to = u} OBVIOUS
    <2>2. S \subseteq N /\ S \subseteq RightNotices /\ \A n \in S : n.to = u BY <2>1
    <2>3. IsFiniteSet(S) BY <2>2, SubsetFinite
    <2>4. SetToSeq(S) \in Seq(S) BY <2>3, SetAsSeq
    <2>5. PICK w : w = NoticePackets(SetToSeq(S)) OBVIOUS
    <2>6. w \in Seq(RightPackets(u)) /\ w \in Seq(ToClient)
        BY <2>2, <2>4, <2>5, NoticesRight
    <2>7. PICK a : a = ToSession(req, packet)[u] OBVIOUS
    <2>8. a \in Seq(RightPackets(u)) /\ a \in Seq(ToClient)
        <3>1. (a = <<packet>> /\ u = req.by) \/ a = <<>>
            BY <2>7 DEF ToSession
        <3>2. CASE a = <<>> BY <3>2, EmptyWire
        <3>3. CASE a = <<packet>> /\ u = req.by BY <3>3
        <3>4. QED BY <3>1, <3>2, <3>3
    <2>9. a \o w \in Seq(RightPackets(u)) /\ a \o w \in Seq(ToClient)
        BY <2>6, <2>8, ConcatProperties
    <2>10. toClient'[u] = Written(u, a \o w)
        BY <2>1, <2>5, <2>7 DEF AckAndNotify
    <2>11. toClient[u] \in Seq(ToClient) /\ toClient[u] \in Seq(RightPackets(u)) BY <1>1
    <2>12. /\ toClient[u] \o (a \o w) \in Seq(ToClient)
           /\ toClient[u] \o (a \o w) \in Seq(RightPackets(u))
        BY <2>9, <2>11, ConcatProperties
    <2>13. QED BY <2>10, <2>11, <2>12 DEF Written
<1>3. toClient' \in [Users -> Seq(ToClient)]
    <2>1. DOMAIN toClient' = Users /\ toClient' = [u \in Users |-> toClient'[u]]
        BY DEF AckAndNotify
    <2>2. PICK f : f = toClient' OBVIOUS
    <2>3. /\ f = [u \in Users |-> f[u]] /\ \A u \in Users : f[u] \in Seq(ToClient)
        BY <1>2, <2>1, <2>2
    <2>4. f \in [Users -> Seq(ToClient)] BY <2>3
    <2>5. QED BY <2>2, <2>4
<1>4. PICK away : away = {n \in N : ~Online(n.to)} OBVIOUS
<1>5. PICK s \in SetToSeqs(away) :
         dbQueue' = dbQueue \o [i \in DOMAIN s |->
                                   DbReq("queueOffline", s[i].to, NoUser, 0, {s[i]})]
    BY <1>4 DEF AckAndNotify, Post
<1>6. away \subseteq RightNotices /\ IsFiniteSet(away) BY <1>4, SubsetFinite
<1>7. s \in Seq(away) BY <1>6, SetAsSeqs
<1>8. PICK more : more = [i \in DOMAIN s |-> DbReq("queueOffline", s[i].to, NoUser, 0, {s[i]})]
    OBVIOUS
<1>9. /\ Len(s) \in Nat /\ DOMAIN s = 1..Len(s) /\ \A i \in 1..Len(s) : s[i] \in away
    BY <1>7, LenProperties, ElementOfSeq
<1>10. \A i \in 1..Len(s) : more[i] \in RightRequests /\ more[i].op # "create"
    <2>1. ASSUME NEW i \in 1..Len(s)
          PROVE  more[i] \in RightRequests /\ more[i].op # "create"
        <3>1. PICK n : n = s[i] OBVIOUS
        <3>2. n \in RightNotices /\ n.to \in Users /\ {n} \in SUBSET RightNotices
            BY <1>6, <1>9, <3>1 DEF RightNotices, Notice
        <3>3. more[i] = DbReq("queueOffline", n.to, NoUser, 0, {n}) BY <1>8, <1>9, <3>1
        <3>4. QED BY <3>2, <3>3, PostedRight
    <2>2. QED BY <2>1
<1>11. more \in [1..Len(s) -> RightRequests] BY <1>8, <1>9, <1>10
<1>12. more \in Seq(RightRequests) /\ Len(more) = Len(s)
    BY <1>9, <1>11, SeqDef, LenProperties
<1>13. QED BY <1>2, <1>3, <1>5, <1>8, <1>10, <1>12, ResultHandled

LEMMA ResultInv == IInv /\ OnResult => IInv'
<1> SUFFICES ASSUME IInv, OnResult PROVE IInv'
    OBVIOUS
<1> USE FriendAssumption
<1>1. PICK res : res = Head(results) OBVIOUS
<1>2. /\ results # <<>> /\ results' = Tail(results)
      /\ UNCHANGED <<serverTables, sessions, views, counters>>
      /\ \/ OnFriendRequestCreated(res) \/ OnFriendDecisionCompleted(res)
         \/ OnListLoaded(res) \/ OnOfflineLoaded(res)
    BY <1>1 DEF OnResult
<1>3. /\ res \in Result /\ res.req \in RightRequests /\ RightAnswer(res) /\ res.req.by \in Users
      /\ res.req.notices \subseteq RightNotices
      /\ res.id \in 0..MaxOps /\ res.friends \subseteq Users /\ res.shown \in [RequestIds -> Status]
      /\ res.ok \in BOOLEAN
    <2>1. /\ res \in Result /\ res.req \in RightRequests /\ RightAnswer(res) /\ res.req.by \in Users
        BY <1>1, <1>2, FirstResult
    <2>2. QED BY <2>1 DEF Result, RightRequests
<1>4. res.ok /\ res.req.op \in {"create", "accepted", "rejected"} =>
         /\ res.id \in RequestIds
         /\ requests[res.id].to \in Users /\ requests[res.id].from \in Users
    <2>1. \A r \in Rows : requests[r] \in FriendRow
        BY ElementOfSeq DEF IInv, TypeOK, Rows
    <2>2. QED BY <1>3, <2>1 DEF RightAnswer, FriendRow, Rows, RequestIds
<1>5. NoneShown \in [RequestIds -> Status] BY BlankTyped
<1>6. CASE OnFriendRequestCreated(res)
    <2> DEFINE N == IF res.ok THEN {RequestNotice(res.id)} ELSE {}
               packet == [Blank("friendRequestAck") EXCEPT !.ok = res.ok, !.id = res.id]
    <2>1. res.req.op = "create" /\ AckAndNotify(res.req, packet, N)
        BY <1>6 DEF OnFriendRequestCreated
    <2>2. N \subseteq RightNotices /\ IsFiniteSet(N)
        <3>1. res.ok => RequestNotice(res.id) \in RightNotices
            BY <1>4, <2>1 DEF RequestNotice, RightNotices, Notice
        <3>2. QED BY <3>1, FS_EmptySet, FS_Singleton
    <2>3. packet \in ToClient /\ packet \in RightPackets(res.req.by)
        <3>1. Blank("friendRequestAck") \in ToClient BY BlankTyped
        <3>2. Blank("friendRequestAck").kind = "friendRequestAck" BY DEF Blank
        <3>3. packet \in ToClient /\ packet.kind = "friendRequestAck"
            BY <1>3, <3>1, <3>2 DEF ToClient
        <3> HIDE DEF packet
        <3>4. QED BY <3>3 DEF RightPackets
    <2> HIDE DEF N, packet
    <2>4. QED BY <1>2, <1>3, <2>1, <2>2, <2>3, AckInv
<1>7. CASE OnFriendDecisionCompleted(res)
    <2> DEFINE N == NewFriends(res)
               packet == [Blank("friendDecisionAck") EXCEPT
                             !.ok = res.ok, !.id = res.id, !.op = res.req.op]
    <2>1. res.req.op \in {"accepted", "rejected"} /\ AckAndNotify(res.req, packet, N)
        BY <1>7 DEF OnFriendDecisionCompleted
    <2>2. N \subseteq RightNotices /\ IsFiniteSet(N)
        <3> DEFINE r == requests[res.id]
        <3>1. CASE res.ok /\ res.req.op = "accepted"
            <4>1. N = {FriendNotice(res.id, r.from, r.to), FriendNotice(res.id, r.to, r.from)}
                BY <3>1 DEF NewFriends
            <4>2. {r.from, r.to} \in friendships /\ {r.to, r.from} = {r.from, r.to}
                BY <1>3, <3>1 DEF RightAnswer
            <4>3. /\ FriendNotice(res.id, r.from, r.to) \in RightNotices
                  /\ FriendNotice(res.id, r.to, r.from) \in RightNotices
                BY <1>4, <3>1, <4>2 DEF FriendNotice, RightNotices, Notice
            <4> HIDE DEF N, r
            <4>4. IsFiniteSet(N)
                <5>1. IsFiniteSet({FriendNotice(res.id, r.from, r.to)}) BY FS_Singleton
                <5>2. IsFiniteSet({FriendNotice(res.id, r.from, r.to)}
                                    \cup {FriendNotice(res.id, r.to, r.from)})
                    BY <5>1, FS_AddElement
                <5>3. {FriendNotice(res.id, r.from, r.to)} \cup {FriendNotice(res.id, r.to, r.from)}
                        = N
                    BY <4>1
                <5>4. QED BY <5>2, <5>3
            <4>5. QED BY <4>1, <4>3, <4>4
        <3>2. CASE ~(res.ok /\ res.req.op = "accepted")
            <4>1. N = {} BY <3>2 DEF NewFriends
            <4>2. QED BY <4>1, FS_EmptySet
        <3>3. QED BY <3>1, <3>2
    <2>3. packet \in ToClient /\ packet \in RightPackets(res.req.by)
        <3>1. Blank("friendDecisionAck") \in ToClient BY BlankTyped
        <3>2. Blank("friendDecisionAck").kind = "friendDecisionAck" BY DEF Blank
        <3>3. packet \in ToClient /\ packet.kind = "friendDecisionAck"
            BY <1>3, <2>1, <3>1, <3>2 DEF ToClient, Status
        <3> HIDE DEF packet
        <3>4. QED BY <3>3 DEF RightPackets
    <2> HIDE DEF N, packet
    <2>4. QED BY <1>2, <1>3, <2>1, <2>2, <2>3, AckInv
<1>8. CASE OnListLoaded(res)
    <2> DEFINE kind == IF res.req.op = "friendList" THEN "friendListAck" ELSE "friendRequestListAck"
               packet == [Blank(kind) EXCEPT !.ok = res.ok, !.friends = res.friends,
                                             !.shown = res.shown]
    <2>1. res.req.op \in {"friendList", "requestList"} /\ AckAndNotify(res.req, packet, {})
        BY <1>8 DEF OnListLoaded
    <2>2. packet \in ToClient /\ packet \in RightPackets(res.req.by)
        <3>1. Blank(kind) \in ToClient BY BlankTyped
        <3>2. packet \in ToClient /\ packet.friends = res.friends
            BY <1>3, <3>1 DEF ToClient
        <3>3. res.friends \subseteq FriendsOf(res.req.by) BY <1>3 DEF RightAnswer
        <3> HIDE DEF packet
        <3>4. QED BY <3>2, <3>3 DEF RightPackets
    <2> HIDE DEF packet
    <2>3. {} \subseteq RightNotices /\ IsFiniteSet({}) BY FS_EmptySet
    <2>4. QED BY <1>2, <1>3, <2>1, <2>2, <2>3, AckInv
<1>9. CASE OnOfflineLoaded(res)
    <2> DEFINE u == res.req.by
    <2>1. CASE Online(u) /\ res.req.notices # {}
        <3>1. PICK s \in SetToSeqs(res.req.notices) :
                 toClient' = [toClient EXCEPT ![u] = Written(u, NoticePackets(s))]
            BY <1>9, <2>1 DEF OnOfflineLoaded
        <3>2. dbQueue' = dbQueue \o <<DbReq("markOfflineDelivered", u, NoUser, 0, res.req.notices)>>
            BY <1>9, <2>1 DEF OnOfflineLoaded, Post
        <3>3. PICK w : w = Written(u, NoticePackets(s)) OBVIOUS
        <3>4. w \in Seq(ToClient) /\ w \in Seq(RightPackets(u))
            <4>1. IsFiniteSet(res.req.notices)
                <5>1. res.req.notices \subseteq Notice BY <1>3 DEF RightNotices
                <5>2. QED BY <5>1, NoticeFinite, SubsetFinite
            <4>2. s \in Seq(res.req.notices) BY <4>1, SetAsSeqs
            <4>3. \A n \in res.req.notices : n.to = u
                BY <1>3, <1>9 DEF RightAnswer, OnOfflineLoaded
            <4>4. NoticePackets(s) \in Seq(ToClient) /\ NoticePackets(s) \in Seq(RightPackets(u))
                BY <1>3, <4>2, <4>3, NoticesRight
            <4>5. toClient[u] \in Seq(ToClient) /\ toClient[u] \in Seq(RightPackets(u))
                BY <1>3 DEF IInv, QueuesRight
            <4>6. /\ toClient[u] \o NoticePackets(s) \in Seq(ToClient)
                  /\ toClient[u] \o NoticePackets(s) \in Seq(RightPackets(u))
                BY <4>4, <4>5, ConcatProperties
            <4>7. QED BY <3>3, <4>5, <4>6 DEF Written
        <3>5. toClient' = [toClient EXCEPT ![u] = w] BY <3>1, <3>3
        <3>6. PICK q : q = DbReq("markOfflineDelivered", u, NoUser, 0, res.req.notices) OBVIOUS
        <3>7. q \in RightRequests /\ q.op # "create" BY <1>3, <3>6, PostedRight
        <3>8. /\ <<q>> \in Seq(RightRequests) /\ dbQueue' = dbQueue \o <<q>>
              /\ \A i \in 1..Len(<<q>>) : <<q>>[i].op # "create"
            BY <3>2, <3>6, <3>7
        <3>9. /\ toClient' \in [Users -> Seq(ToClient)]
              /\ \A v \in Users : toClient'[v] \in Seq(RightPackets(v))
            BY <1>3, <3>4, <3>5, OneWire
        <3>10. QED BY <1>2, <3>8, <3>9, ResultHandled
    <2>2. CASE ~(Online(u) /\ res.req.notices # {})
        <3>1. UNCHANGED <<toClient, dbQueue>> BY <1>9, <2>2 DEF OnOfflineLoaded
        <3>2. dbQueue \in Seq(DbRequest) BY DEF IInv, TypeOK
        <3>3. dbQueue' = dbQueue \o <<>> BY <3>1, <3>2, ConcatEmptySeq
        <3>4. <<>> \in Seq(RightRequests) /\ Len(<<>>) = 0 BY EmptySeq
        <3>5. \A i \in 1..Len(<<>>) : <<>>[i].op # "create" BY <3>4
        <3>6. QED BY <1>2, <3>1, <3>3, <3>4, <3>5, ResultHandled DEF IInv, QueuesRight
    <2>3. QED BY <2>1, <2>2
<1>10. QED BY <1>2, <1>6, <1>7, <1>8, <1>9

(***************************************************************************)
(* The client                                                              *)
(***************************************************************************)

LEMMA StatusSaved ==
    ASSUME IInv, NEW u \in Users, NEW S, NEW status \in Status, SaveRequests(u, S, status)
    PROVE  localRequests' \in [Users -> [RequestIds -> Status]]
<1>1. localRequests \in [Users -> [RequestIds -> Status]] BY DEF IInv, TypeOK
<1>2. [r \in RequestIds |-> IF r \in S THEN status ELSE localRequests[u][r]]
         \in [RequestIds -> Status]
    BY <1>1
<1>3. QED BY <1>1, <1>2 DEF SaveRequests

\* Contacts grow by friends, and the list is what was stored
LEMMA ListSaved ==
    ASSUME IInv, NEW u \in Users, NEW S \in SUBSET Users, S \subseteq FriendsOf(u),
           UNCHANGED friendships, SaveContacts(u, S),
           NEW list \in SUBSET Users, list \subseteq friendList[u] \cup S,
           friendList' = [friendList EXCEPT ![u] = list]
    PROVE  /\ friendList' \in [Users -> SUBSET Users] /\ contacts' \in [Users -> SUBSET Users]
           /\ FriendsAreTrue'
<1>1. friendList \in [Users -> SUBSET Users] /\ contacts \in [Users -> SUBSET Users]
    BY DEF IInv, TypeOK
<1>2. friendList' \in [Users -> SUBSET Users] /\ contacts' \in [Users -> SUBSET Users]
    BY <1>1 DEF SaveContacts
<1>3. \A v \in Users : /\ friendList[v] \subseteq contacts[v]
                       /\ contacts[v] \subseteq FriendsOf(v)
    BY DEF IInv, FriendsAreTrue
<1>4. \A v : FriendsOf(v)' = FriendsOf(v) BY DEF FriendsOf
<1>5. \A v \in Users : friendList'[v] \subseteq contacts'[v] /\ contacts'[v] \subseteq FriendsOf(v)
    BY <1>1, <1>3 DEF SaveContacts
<1>6. FriendsAreTrue' BY <1>4, <1>5 DEF FriendsAreTrue
<1>7. QED BY <1>2, <1>6

LEMMA PacketInv ==
    ASSUME IInv, NEW u \in Users, HandleIncomingPacket(u)
    PROVE  IInv'
<1> USE FriendAssumption
<1>1. PICK p : p = Head(toClient[u]) OBVIOUS
<1>2. /\ toClient[u] # <<>> /\ toClient' = [toClient EXCEPT ![u] = Tail(toClient[u])]
      /\ UNCHANGED <<users, requests, friendships, offlineRows, results, conn, logins,
                     ops, failures, crashes>>
      /\ \/ RefreshAfterAuthentication(u, p) \/ OnFriendListAck(u, p)
         \/ OnFriendRequestListAck(u, p) \/ OnFriendRequestAck(u, p)
         \/ OnFriendDecisionAck(u, p) \/ OnFriendRequestNotified(u, p) \/ OnFriendChanged(u, p)
    BY <1>1 DEF HandleIncomingPacket, serverTables, sessions, counters
<1>3. /\ toClient[u] \in Seq(ToClient) /\ toClient[u] \in Seq(RightPackets(u))
    BY DEF IInv, QueuesRight
<1>4. /\ p \in ToClient /\ p \in RightPackets(u)
      /\ Tail(toClient[u]) \in Seq(ToClient) /\ Tail(toClient[u]) \in Seq(RightPackets(u))
    BY <1>1, <1>2, <1>3, HeadTailProperties
<1>5. /\ p.op \in Status /\ p.friends \subseteq Users /\ p.shown \in [RequestIds -> Status]
      /\ p.kind \in {"friendListAck", "friendChanged"} => p.friends \subseteq FriendsOf(u)
    BY <1>4 DEF ToClient, RightPackets
<1>6. /\ toClient' \in [Users -> Seq(ToClient)]
      /\ \A v \in Users : toClient'[v] \in Seq(RightPackets(v))
    BY <1>2, <1>4, OneWire
<1>7. /\ requestList \in [Users -> [RequestIds -> Status]]
      /\ localRequests \in [Users -> [RequestIds -> Status]]
      /\ friendList \in [Users -> SUBSET Users] /\ contacts \in [Users -> SUBSET Users]
      /\ dbQueue \in Seq(RightRequests) /\ dbQueue \in Seq(DbRequest)
    BY DEF IInv, TypeOK, QueuesRight
<1>8. {"none", "pending"} \subseteq Status BY DEF Status
<1>9. /\ dbQueue' \in Seq(RightRequests) /\ CountKept
    <2>1. CASE RefreshAfterAuthentication(u, p)
        <3>1. PICK q1 : q1 = DbReq("friendList", u, NoUser, 0, {}) OBVIOUS
        <3>2. PICK q2 : q2 = DbReq("requestList", u, NoUser, 0, {}) OBVIOUS
        <3>3. {} \in SUBSET RightNotices OBVIOUS
        <3>4. q1 \in RightRequests /\ q1.op # "create" BY <3>1, <3>3, PostedRight
        <3>5. q2 \in RightRequests /\ q2.op # "create" BY <3>2, <3>3, PostedRight
        <3>6. dbQueue' = dbQueue \o <<q1, q2>>
            BY <2>1, <3>1, <3>2 DEF RefreshAfterAuthentication, Post
        <3>7. <<q1, q2>> \in Seq(RightRequests) BY <3>4, <3>5
        <3>8. q1 \in DbRequest /\ q2 \in DbRequest BY <3>4, <3>5 DEF RightRequests
        <3>9. <<q1, q2>> \in Seq(DbRequest) BY <3>8
        <3>10. \A i \in 1..Len(<<q1, q2>>) : <<q1, q2>>[i].op # "create" BY <3>4, <3>5
        <3>11. CountKept BY <1>2, <3>6, <3>9, <3>10, CountPosted
        <3>12. QED BY <1>7, <3>6, <3>7, <3>11, ConcatProperties
    <2>2. CASE UNCHANGED dbQueue
        BY <1>2, <1>7, <2>2, CountSame
    <2>3. QED
        BY <1>2, <2>1, <2>2 DEF OnFriendListAck, OnFriendRequestListAck, OnFriendRequestAck,
                                OnFriendDecisionAck, OnFriendRequestNotified, OnFriendChanged
<1>10. KeepsQueues
    BY <1>2, <1>6, <1>9 DEF KeepsQueues, IInv, QueuesRight
<1>11. localRequests' \in [Users -> [RequestIds -> Status]]
    <2>1. CASE UNCHANGED localRequests BY <1>7, <2>1
    <2>2. ASSUME NEW S, NEW status \in {"pending", p.op}, SaveRequests(u, S, status)
          PROVE  localRequests' \in [Users -> [RequestIds -> Status]]
        BY <1>5, <1>8, <2>2, StatusSaved
    <2>3. CASE OnFriendRequestListAck(u, p)
        BY <2>2, <2>3 DEF OnFriendRequestListAck
    <2>4. CASE OnFriendRequestAck(u, p)
        BY <2>2, <2>4 DEF OnFriendRequestAck
    <2>5. CASE OnFriendDecisionAck(u, p)
        BY <2>2, <2>5 DEF OnFriendDecisionAck
    <2>6. CASE OnFriendRequestNotified(u, p)
        <3>1. CASE requestList[u][p.id] = "none"
            BY <2>2, <2>6, <3>1 DEF OnFriendRequestNotified
        <3>2. CASE requestList[u][p.id] # "none"
            BY <1>7, <2>6, <3>2 DEF OnFriendRequestNotified
        <3>3. QED BY <3>1, <3>2
    <2>7. QED
        BY <1>2, <2>1, <2>3, <2>4, <2>5, <2>6 DEF RefreshAfterAuthentication, OnFriendListAck,
                                                 OnFriendChanged, views
<1>12. requestList' \in [Users -> [RequestIds -> Status]]
    <2>1. CASE UNCHANGED requestList BY <1>7, <2>1
    <2>2. CASE requestList' = [requestList EXCEPT ![u] = p.shown] BY <1>5, <1>7, <2>2
    <2>3. CASE \E status \in {"none", "pending"} :
                  requestList' = [requestList EXCEPT ![u][p.id] = status]
        <3>1. PICK status \in Status : requestList' = [requestList EXCEPT ![u][p.id] = status]
            BY <1>8, <2>3
        <3>2. [requestList[u] EXCEPT ![p.id] = status] \in [RequestIds -> Status] BY <1>7
        <3>3. QED BY <1>7, <3>1, <3>2
    <2>4. QED
        BY <1>2, <2>1, <2>2, <2>3 DEF RefreshAfterAuthentication, OnFriendListAck,
           OnFriendRequestListAck, OnFriendRequestAck, OnFriendDecisionAck,
           OnFriendRequestNotified, OnFriendChanged, views
<1>13. /\ friendList' \in [Users -> SUBSET Users] /\ contacts' \in [Users -> SUBSET Users]
       /\ FriendsAreTrue'
    <2>1. CASE OnFriendListAck(u, p)
        BY <1>2, <1>5, <2>1, ListSaved DEF OnFriendListAck
    <2>2. CASE OnFriendChanged(u, p)
        <3>1. PICK list : list = friendList[u] \cup p.friends OBVIOUS
        <3>2. list \in SUBSET Users /\ friendList' = [friendList EXCEPT ![u] = list]
            BY <1>5, <1>7, <2>2, <3>1 DEF OnFriendChanged
        <3>3. p.friends \subseteq FriendsOf(u) /\ SaveContacts(u, p.friends)
              /\ p.friends \in SUBSET Users
            BY <1>5, <2>2 DEF OnFriendChanged
        <3>4. QED BY <1>2, <3>1, <3>2, <3>3, ListSaved
    <2>3. CASE UNCHANGED <<friendList, contacts>>
        BY <1>2, <1>7, <2>3 DEF IInv, FriendsAreTrue, FriendsOf
    <2>4. QED
        BY <1>2, <2>1, <2>2, <2>3 DEF RefreshAfterAuthentication, OnFriendRequestListAck,
           OnFriendRequestAck, OnFriendDecisionAck, OnFriendRequestNotified, views
<1>14. OthersTyped BY DEF OthersTyped, IInv, TypeOK
<1>15. OthersTyped'
    BY <1>2, <1>11, <1>12, <1>13, <1>14 DEF OthersTyped
<1>16. QED BY <1>2, <1>9, <1>10, <1>13, <1>15, TablesKept

-----------------------------------------------------------------------------

LEMMA InitInv == Init => IInv
<1> SUFFICES ASSUME Init PROVE IInv
    OBVIOUS
<1> USE FriendAssumption
<1>1. Len(requests) = 0 /\ Len(dbQueue) = 0 /\ Len(results) = 0
    BY EmptySeq DEF Init
<1>2. NoneShown \in [RequestIds -> Status] BY BlankTyped
<1>3. TypeOK
    <2>1. requests \in Seq(FriendRow) /\ dbQueue \in Seq(DbRequest) /\ results \in Seq(Result)
        BY EmptySeq DEF Init
    <2>2. \A i \in DOMAIN results : results[i].id <= Len(requests)
        BY <1>1, <2>1, LenProperties
    <2>3. toClient \in [Users -> Seq(ToClient)] BY EmptySeq DEF Init
    <2>4. conn \in [Users -> ConnState] /\ logins \in [Users -> Nat] BY DEF Init, ConnState
    <2>5. /\ requestList \in [Users -> [RequestIds -> Status]]
          /\ localRequests \in [Users -> [RequestIds -> Status]]
        BY <1>2 DEF Init
    <2>6. friendList \in [Users -> SUBSET Users] /\ contacts \in [Users -> SUBSET Users]
        BY DEF Init
    <2>7. users \subseteq Users /\ offlineRows \subseteq Notice
          /\ friendships \subseteq {{u, v} : u, v \in Users}
        BY DEF Init
    <2>8. ops \in 0..MaxOps /\ failures \in 0..MaxFailures /\ crashes \in 0..MaxCrashes
        BY DEF Init
    <2>9. QED BY <2>1, <2>2, <2>3, <2>4, <2>5, <2>6, <2>7, <2>8 DEF TypeOK
<1>4. QueuesRight
    BY EmptySeq DEF Init, QueuesRight
<1>5. Counted
    <2>1. Cardinality(Creations(dbQueue)) = 0 BY EmptyCreations DEF Init
    <2>2. QED BY <1>1, <2>1 DEF Counted, Init
<1>6. OnePending
    BY <1>1 DEF OnePending, Rows
<1>7. FriendsAreTrue
    BY DEF Init, FriendsAreTrue
<1>8. QED BY <1>3, <1>4, <1>5, <1>6, <1>7 DEF IInv

LEMMA StutterInv == IInv /\ UNCHANGED vars => IInv'
<1> SUFFICES ASSUME IInv, UNCHANGED vars PROVE IInv'
    OBVIOUS
<1>1. UNCHANGED <<users, requests, friendships, offlineRows, dbQueue, results, conn, logins,
                  toClient, views, ops, failures, crashes>>
    BY DEF vars, serverTables, queues, sessions, counters
<1>2. KeepsQueues BY <1>1 DEF KeepsQueues, IInv, QueuesRight
<1>3. OthersTyped' BY <1>1 DEF OthersTyped, IInv, TypeOK, views
<1>4. QED BY <1>1, <1>2, <1>3, CountSame, ViewsKept, TablesKept

LEMMA NextInv == IInv /\ [Next]_vars => IInv'
BY LoginInv, ConnectionLostInv, DisconnectedInv, CrashInv, RequestInv, DecisionInv, DbStepInv,
   DbFailsInv, ResultInv, PacketInv, StutterInv DEF Next

LEMMA Invariance == Spec => []IInv
BY InitInv, NextInv, PTL DEF Spec

\* Every variable keeps its type and a result names a request that exists, for any users
\* and any number of operations, logins, failures and crashes (FriendManagementService).
THEOREM TypeCorrect == Spec => []TypeOK
<1>1. IInv => TypeOK BY DEF IInv
<1>2. QED BY <1>1, Invariance, PTL

\* A client shows and stores as friends only users the server has as friends, however
\* packets are delayed, lost or repeated (FriendRequestUseCase): a half of QuietViewsAgree.
THEOREM OnlyTrueFriends == Spec => []FriendsAreTrue
<1>1. IInv => FriendsAreTrue BY DEF IInv
<1>2. QED BY <1>1, Invariance, PTL

-----------------------------------------------------------------------------
(***************************************************************************)
(* The tables implement Friendship                                         *)
(***************************************************************************)

\* An added request is a question between strangers
LEMMA CreateAsks ==
    ASSUME IInv, dbQueue # <<>>, NEW req, req = Head(dbQueue), CreateFriendRequest(req)
    PROVE  Rules!Next
<1> DEFINE row == [from |-> req.by, to |-> req.to, status |-> "pending"]
           n == Len(requests)
<1>1. /\ req.op = "create" /\ MayCreate(req) /\ requests' = Append(requests, row)
      /\ UNCHANGED friendships
    BY DEF CreateFriendRequest
<1>2. req \in RightRequests /\ req \in DbRequest BY HeadRight
<1>3. req.by \in Users /\ req.to \in Users
    BY <1>1, <1>2 DEF RightRequests, DbRequest
<1>4. row \in FriendRow BY <1>3 DEF FriendRow, Status
<1>5. requests \in Seq(FriendRow) /\ n \in Nat /\ DOMAIN requests = 1..n
    BY LenProperties DEF IInv, TypeOK
<1>6. /\ DOMAIN requests' = 1..(n + 1)
      /\ requests'[n + 1] = row /\ \A r \in 1..n : requests'[r] = requests[r]
    <2> HIDE DEF row
    <2>1. QED BY <1>1, <1>4, <1>5, AppendProperties, LenProperties
<1>7. \A r \in 1..n : {requests[r].from, requests[r].to} = {req.by, req.to}
                        => requests[r].status # "pending"
    BY <1>1, <1>5 DEF MayCreate
<1>8. <<req.by, req.to>> \notin Pending /\ <<req.to, req.by>> \notin Pending
    <2>1. \A r \in 1..n : requests[r].status = "pending" =>
              /\ ~(requests[r].from = req.by /\ requests[r].to = req.to)
              /\ ~(requests[r].from = req.to /\ requests[r].to = req.by)
        BY <1>7
    <2>2. QED BY <1>5, <2>1 DEF Pending
<1>9. Rules!Strangers(req.by, req.to)
    BY <1>1, <1>8 DEF MayCreate, Rules!Strangers
<1>10. Pending' = Pending \cup {<<req.by, req.to>>}
    <2>1. row.from = req.by /\ row.to = req.to /\ row.status = "pending" OBVIOUS
    <2> HIDE DEF row
    <2>2. ASSUME NEW x \in Pending' PROVE x \in Pending \cup {<<req.by, req.to>>}
        <3>1. PICK r \in 1..(n + 1) : /\ requests'[r].status = "pending"
                                      /\ x = <<requests'[r].from, requests'[r].to>>
            BY <1>6, <2>2 DEF Pending
        <3>2. CASE r = n + 1 BY <1>6, <2>1, <3>1, <3>2
        <3>3. CASE r \in 1..n
            <4>1. requests[r].status = "pending" /\ x = <<requests[r].from, requests[r].to>>
                BY <1>6, <3>1, <3>3
            <4>2. QED BY <1>5, <3>3, <4>1 DEF Pending
        <3>4. QED BY <1>5, <3>2, <3>3
    <2>3. ASSUME NEW x \in Pending PROVE x \in Pending'
        <3>1. PICK r \in 1..n : /\ requests[r].status = "pending"
                                /\ x = <<requests[r].from, requests[r].to>>
            BY <1>5, <2>3 DEF Pending
        <3>2. r \in 1..(n + 1) BY <1>5
        <3>3. requests'[r].status = "pending" /\ x = <<requests'[r].from, requests'[r].to>>
            BY <1>6, <3>1
        <3>4. QED BY <1>6, <3>2, <3>3 DEF Pending
    <2>4. <<req.by, req.to>> \in Pending'
        <3>1. n + 1 \in 1..(n + 1) BY <1>5
        <3>2. QED BY <1>6, <2>1, <3>1 DEF Pending
    <2>5. QED BY <2>2, <2>3, <2>4
<1>11. Rules!Ask(req.by, req.to)
    BY <1>1, <1>9, <1>10 DEF MayCreate, Rules!Ask
<1>12. QED BY <1>3, <1>11 DEF Rules!Next

\* A decided request was the only one pending between the two
LEMMA DecideAnswers ==
    ASSUME IInv, dbQueue # <<>>, NEW req, req = Head(dbQueue), DecideFriendRequest(req)
    PROVE  Rules!Next
<1>1. PICK k : k = req.id OBVIOUS
<1>2. PICK a : a = requests[k].from OBVIOUS
<1>3. PICK b : b = requests[k].to OBVIOUS
<1>4. /\ req.op \in {"accepted", "rejected"} /\ requests[k].status = "pending"
      /\ requests' = [requests EXCEPT ![k].status = req.op]
      /\ friendships' = IF req.op = "accepted" THEN friendships \cup {{a, b}} ELSE friendships
    BY <1>1, <1>2, <1>3 DEF DecideFriendRequest, MayDecide
<1>5. k \in Rows
    <2>1. req \in RightRequests BY HeadRight
    <2>2. QED BY <1>1, <1>4, <2>1 DEF RightRequests
<1>6. /\ requests \in Seq(FriendRow) /\ DOMAIN requests = Rows
      /\ \A r \in Rows : requests[r] \in FriendRow
    BY LenProperties, ElementOfSeq DEF IInv, TypeOK, Rows
<1>7. /\ DOMAIN requests' = Rows
      /\ requests'[k] = [requests[k] EXCEPT !.status = req.op]
      /\ \A r \in Rows : r # k => requests'[r] = requests[r]
    BY <1>4, <1>5, <1>6
<1>8. a \in Users /\ b \in Users /\ requests'[k].status = req.op
    BY <1>2, <1>3, <1>5, <1>6, <1>7 DEF FriendRow
<1>9. <<a, b>> \in Pending
    BY <1>2, <1>3, <1>4, <1>5, <1>6 DEF Pending
<1>10. Pending' = Pending \ {<<a, b>>}
    <2>1. ASSUME NEW x \in Pending' PROVE x \in Pending /\ x # <<a, b>>
        <3>1. PICK r \in Rows : /\ requests'[r].status = "pending"
                                /\ x = <<requests'[r].from, requests'[r].to>>
            BY <1>7, <2>1 DEF Pending
        <3>2. r # k BY <1>4, <1>8, <3>1
        <3>3. requests[r].status = "pending" /\ x = <<requests[r].from, requests[r].to>>
            BY <1>7, <3>1, <3>2
        <3>4. x \in Pending BY <1>6, <3>3 DEF Pending
        <3>5. ~(requests[r].from = a /\ requests[r].to = b)
            <4>1. SUFFICES ASSUME requests[r].from = a, requests[r].to = b PROVE FALSE
                OBVIOUS
            <4>2. {requests[r].from, requests[r].to} = {requests[k].from, requests[k].to}
                BY <1>2, <1>3, <4>1
            <4>3. QED BY <1>4, <1>5, <3>2, <3>3, <4>2 DEF IInv, OnePending
        <3>6. QED BY <3>3, <3>4, <3>5
    <2>2. ASSUME NEW x \in Pending, x # <<a, b>> PROVE x \in Pending'
        <3>1. PICK r \in Rows : /\ requests[r].status = "pending"
                                /\ x = <<requests[r].from, requests[r].to>>
            BY <1>6, <2>2 DEF Pending
        <3>2. r # k BY <1>2, <1>3, <2>2, <3>1
        <3>3. requests'[r] = requests[r] BY <1>7, <3>2
        <3>4. QED BY <1>7, <3>1, <3>3 DEF Pending
    <2>3. QED BY <2>1, <2>2
<1>11. CASE req.op = "accepted"
    <2>1. Rules!Accept(a, b) BY <1>4, <1>9, <1>10, <1>11 DEF Rules!Accept
    <2>2. QED BY <1>8, <2>1 DEF Rules!Next
<1>12. CASE req.op # "accepted"
    <2>1. Rules!Reject(a, b) BY <1>4, <1>9, <1>10, <1>12 DEF Rules!Reject
    <2>2. QED BY <1>8, <2>1 DEF Rules!Next
<1>13. QED BY <1>11, <1>12

LEMMA StepFollows == IInv /\ [Next]_vars => UNCHANGED <<requests, friendships>> \/ Rules!Next
<1> SUFFICES ASSUME IInv, [Next]_vars PROVE UNCHANGED <<requests, friendships>> \/ Rules!Next
    OBVIOUS
<1>1. CASE DbStep
    <2>1. PICK req : req = Head(dbQueue) OBVIOUS
    <2>2. /\ dbQueue # <<>>
          /\ \/ CreateFriendRequest(req) \/ DecideFriendRequest(req) \/ Refused(req)
             \/ LoadFriendList(req) \/ LoadFriendRequestList(req) \/ OfflineQueueStep(req)
        BY <1>1, <2>1 DEF DbStep
    <2>3. QED
        BY <2>1, <2>2, CreateAsks, DecideAnswers DEF Refused, LoadFriendList,
           LoadFriendRequestList, OfflineQueueStep
<1>2. CASE \E u \in Users : Login(u) BY <1>2 DEF Login
<1>3. CASE \E u \in Users : ConnectionLost(u) \/ OnClientDisconnected(u)
    BY <1>3 DEF ConnectionLost, OnClientDisconnected, serverTables
<1>4. CASE ServerCrash BY <1>4 DEF ServerCrash, serverTables
<1>5. CASE \E u, v \in Users : HandleFriendRequest(u, v)
    BY <1>5 DEF HandleFriendRequest, Operation, serverTables
<1>6. CASE \E u \in Users, r \in RequestIds, s \in {"accepted", "rejected"} :
              HandleFriendDecision(u, r, s)
    BY <1>6 DEF HandleFriendDecision, Operation, serverTables
<1>7. CASE DbFails BY <1>7 DEF DbFails, serverTables
<1>8. CASE OnResult BY <1>8 DEF OnResult, serverTables
<1>9. CASE \E u \in Users : HandleIncomingPacket(u)
    BY <1>9 DEF HandleIncomingPacket, serverTables
<1>10. CASE UNCHANGED vars BY <1>10 DEF vars, serverTables
<1>11. QED BY <1>1, <1>2, <1>3, <1>4, <1>5, <1>6, <1>7, <1>8, <1>9, <1>10 DEF Next

LEMMA InitFollows == Init => Rules!Init
<1> SUFFICES ASSUME Init PROVE Rules!Init
    OBVIOUS
<1>1. requests = <<>> /\ friendships = {} BY DEF Init
<1>2. Pending = {} BY <1>1 DEF Pending
<1>3. QED BY <1>1, <1>2 DEF Rules!Init

\* The two tables follow the rules of Friendship step by step, whatever is lost, fails or
\* crashes around them (FriendRepository::createFriendRequest, decideFriendRequest).
THEOREM TablesFollowRules == Spec => FollowsTheRules
<1>1. IInv /\ [Next]_vars => [UNCHANGED <<requests, friendships>> \/ Rules!Next]_vars
    BY StepFollows
<1>2. QED BY <1>1, InitFollows, Invariance, PTL DEF Spec, FollowsTheRules

\* FriendManagement implements Friendship under the mapping of Rules: its behaviours are
\* behaviours of the abstract service.
THEOREM ImplementsFriendship == Spec => Rules!Spec
<1>1. IInv /\ [Next]_vars => [Rules!Next]_(Rules!vars)
    <2>1. UNCHANGED <<requests, friendships>> => UNCHANGED Rules!vars
        BY DEF Rules!vars, Pending
    <2>2. QED BY <2>1, StepFollows
<1>2. QED BY <1>1, InitFollows, Invariance, PTL DEF Spec, Rules!Spec

-----------------------------------------------------------------------------
(***************************************************************************)
(* The last word. What a client will be told about one matter is on its    *)
(* wire, in the results, or still to be loaded. Of the results and the     *)
(* packets, good ones put the matter right and bad ones put it wrong: it   *)
(* is right in the end if nothing bad follows the last good one, or it is  *)
(* right now and nothing bad is under way.                                 *)
(***************************************************************************)
Clean(s, bad) == \A j \in 1..Len(s) : s[j] \notin bad

Settled(s, good, bad) ==
    \E k \in 1..Len(s) : s[k] \in good /\ \A j \in 1..Len(s) : j > k => s[j] \notin bad

LastWord(rs, goodRs, badRs, ps, good, bad, now) ==
    \/ Settled(rs, goodRs, badRs)
    \/ Clean(rs, badRs) /\ Settled(ps, good, bad)
    \/ Clean(rs, badRs) /\ Clean(ps, bad) /\ now

\* That v is a friend of u: a list says so, or that they are friends now
FriendGood(v) ==
    {p \in ToClient : p.kind \in {"friendListAck", "friendChanged"} /\ v \in p.friends}

FriendBad(v) == {p \in ToClient : p.kind = "friendListAck" /\ v \notin p.friends}

\* a list for the session u has now
Answers(res, op, u) == res.req.op = op /\ res.req.by = u /\ res.req.login = logins[u]

FriendResGood(u, v) ==
    {res \in Result :
        \/ Answers(res, "friendList", u) /\ v \in res.friends
        \/ /\ res.ok /\ res.req.op = "accepted"
           /\ {requests[res.id].from, requests[res.id].to} = {u, v}}

FriendResBad(u, v) ==
    {res \in Result : Answers(res, "friendList", u) /\ v \notin res.friends}

FriendComes(u, v) ==
    LastWord(results, FriendResGood(u, v), FriendResBad(u, v),
             toClient[u], FriendGood(v), FriendBad(v), v \in friendList[u])

\* Whether request r waits for a decision of u: lists say so, notifications that it does, and
\* the acknowledgement of the decision that it does not
Waits(r) == requests[r].status = "pending"

ListSays(p, r, waits) == p.kind = "friendRequestListAck" /\ (p.shown[r] = "pending" <=> waits)

SaysOnly(p, r, waits) ==
    p.id = r /\ p.kind = IF waits THEN "friendRequestNotify" ELSE "friendDecisionAck"

RequestGood(r, waits) == {p \in ToClient : ListSays(p, r, waits) \/ SaysOnly(p, r, waits)}
RequestBad(r, waits) == RequestGood(r, ~waits)

ResListSays(res, u, r, waits) ==
    Answers(res, "requestList", u) /\ (res.shown[r] = "pending" <=> waits)

Created(res, r) == res.ok /\ res.req.op = "create" /\ res.id = r
Decided(res, r) == res.ok /\ res.req.op \in {"accepted", "rejected"} /\ res.id = r

\* the offline rows of u repeat the notification
Repeats(res, u, r) ==
    /\ res.req.op = "loadOffline" /\ res.req.by = u
    /\ \E n \in res.req.notices : n.kind = "friendRequestNotify" /\ n.id = r

RequestResGood(u, r, waits) ==
    {res \in Result :
        \/ ResListSays(res, u, r, waits)
        \/ IF waits THEN Created(res, r)
           ELSE Decided(res, r) /\ res.req.by = u /\ res.req.login = logins[u]}

RequestResBad(u, r, waits) ==
    {res \in Result :
        \/ ResListSays(res, u, r, ~waits)
        \/ IF waits THEN Decided(res, r) ELSE Created(res, r) \/ Repeats(res, u, r)}

RequestComes(u, r) ==
    LastWord(results, RequestResGood(u, r, Waits(r)), RequestResBad(u, r, Waits(r)),
             toClient[u], RequestGood(r, Waits(r)), RequestBad(r, Waits(r)),
             requestList[u][r] = "pending" <=> Waits(r))

\* A list that will be asked for, or is, but not loaded: it will be right
Asks(u, op) ==
    \/ \E i \in 1..Len(toClient[u]) : toClient[u][i].kind = "connectAck"
    \/ \E i \in 1..Len(dbQueue) : dbQueue[i].op = op /\ dbQueue[i].by = u

FriendsCome(u) == Asks(u, "friendList") \/ \A v \in FriendsOf(u) : FriendComes(u, v)

RequestsCome(u) ==
    \/ Asks(u, "requestList")
    \/ \A r \in DOMAIN requests : requests[r].to = u => RequestComes(u, r)

\* What is asked of the database is asked by the sessions there are. The offline rows are
\* loaded first of all after a login, and so before the list.
QueueIsCurrent ==
    \A i \in 1..Len(dbQueue) :
        /\ dbQueue[i].login = logins[dbQueue[i].by]
        /\ dbQueue[i].op = "loadOffline" =>
              /\ i = 1
              /\ conn[dbQueue[i].by] = "up" => Asks(dbQueue[i].by, "requestList")

\* a request shown as decided is decided: a decision is final
TrueShown ==
    {shown \in [RequestIds -> Status] :
        \A r \in RequestIds : shown[r] \in {"accepted", "rejected"} => r \in DOMAIN requests /\ ~Waits(r)}

ShownIsTrue ==
    /\ \A i \in 1..Len(results) : results[i].shown \in TrueShown
    /\ \A u \in Users : /\ requestList[u] \in TrueShown
                        /\ \A i \in 1..Len(toClient[u]) : toClient[u][i].shown \in TrueShown

ViewsCome ==
    failures = 0 => \A u \in Users : conn[u] = "up" => FriendsCome(u) /\ RequestsCome(u)

ViewInv == QueueIsCurrent /\ ShownIsTrue /\ ViewsCome

LEMMA Rest ==
    ASSUME NEW S, NEW s \in Seq(S), s # <<>>
    PROVE  /\ Head(s) = s[1] /\ Head(s) \in S /\ 1 \in 1..Len(s)
           /\ Tail(s) \in Seq(S) /\ Len(Tail(s)) = Len(s) - 1 /\ Len(s) \in Nat
           /\ \A i \in 1..(Len(s) - 1) : i + 1 \in 1..Len(s) /\ Tail(s)[i] = s[i + 1]
           /\ \A i \in 1..Len(s) : i = 1 \/ (i - 1 \in 1..(Len(s) - 1) /\ Tail(s)[i - 1] = s[i])
<1>1. Len(s) \in Nat /\ Len(s) # 0
    BY LenProperties, EmptySeq
<1>2. /\ Head(s) = s[1] /\ Head(s) \in S /\ Tail(s) \in Seq(S) /\ Len(Tail(s)) = Len(s) - 1
      /\ \A i \in 1..(Len(s) - 1) : Tail(s)[i] = s[i + 1]
    BY <1>1, HeadTailProperties
<1>3. ASSUME NEW i \in 1..Len(s), i # 1
      PROVE  i - 1 \in 1..(Len(s) - 1) /\ Tail(s)[i - 1] = s[i]
    <2>1. i - 1 \in 1..(Len(s) - 1) /\ (i - 1) + 1 = i BY <1>1, <1>3
    <2>2. Tail(s)[i - 1] = s[(i - 1) + 1] BY <1>2, <2>1
    <2>3. QED BY <2>1, <2>2
<1>4. QED BY <1>1, <1>2, <1>3

LEMMA Longer ==
    ASSUME NEW S, NEW s \in Seq(S), NEW t \in Seq(S)
    PROVE  /\ s \o t \in Seq(S) /\ Len(s \o t) = Len(s) + Len(t)
           /\ Len(s) \in Nat /\ Len(t) \in Nat
           /\ \A i \in 1..Len(s) : i \in 1..(Len(s) + Len(t)) /\ (s \o t)[i] = s[i]
           /\ \A i \in 1..Len(t) : Len(s) + i \in 1..(Len(s) + Len(t)) /\ (s \o t)[Len(s) + i] = t[i]
           /\ \A i \in 1..(Len(s) + Len(t)) : i \in 1..Len(s) \/ i - Len(s) \in 1..Len(t)
           /\ \A i \in 1..(Len(s) + Len(t)) :
                 i \notin 1..Len(s) => (s \o t)[i] = t[i - Len(s)]
<1>1. PICK m \in Nat : m = Len(s) BY LenProperties
<1>2. PICK n \in Nat : n = Len(t) BY LenProperties
<1>3. /\ s \o t \in Seq(S) /\ Len(s \o t) = m + n
      /\ \A i \in 1..(m + n) : (s \o t)[i] = IF i <= m THEN s[i] ELSE t[i - m]
    BY <1>1, <1>2, ConcatProperties
<1>4. \A i \in 1..m : i \in 1..(m + n) /\ (s \o t)[i] = s[i] BY <1>3
<1>5. ASSUME NEW i \in 1..n
      PROVE  m + i \in 1..(m + n) /\ (s \o t)[m + i] = t[i]
    <2>1. m + i \in 1..(m + n) /\ ~(m + i <= m) /\ (m + i) - m = i OBVIOUS
    <2>2. (s \o t)[m + i] = t[(m + i) - m] BY <1>3, <2>1
    <2>3. QED BY <2>1, <2>2
<1>6. \A i \in 1..(m + n) : i \in 1..m \/ i - m \in 1..n OBVIOUS
<1>7. \A i \in 1..(m + n) : i \notin 1..m => (s \o t)[i] = t[i - m] BY <1>3
<1>8. QED BY <1>1, <1>2, <1>3, <1>4, <1>5, <1>6, <1>7

LEMMA OneMore ==
    ASSUME NEW S, NEW s \in Seq(S), NEW x \in S
    PROVE  /\ Append(s, x) \in Seq(S) /\ Len(Append(s, x)) = Len(s) + 1 /\ Len(s) \in Nat
           /\ Len(s) + 1 \in 1..(Len(s) + 1) /\ Append(s, x)[Len(s) + 1] = x
           /\ \A i \in 1..Len(s) : i \in 1..(Len(s) + 1) /\ Append(s, x)[i] = s[i]
           /\ \A i \in 1..(Len(s) + 1) : i \in 1..Len(s) \/ i = Len(s) + 1
<1>1. Len(s) \in Nat BY LenProperties
<1>2. /\ Append(s, x) \in Seq(S) /\ Len(Append(s, x)) = Len(s) + 1
      /\ Append(s, x)[Len(s) + 1] = x /\ \A i \in 1..Len(s) : Append(s, x)[i] = s[i]
    BY AppendProperties
<1>3. QED BY <1>1, <1>2

\* A good result is the last word
LEMMA GoodResult ==
    ASSUME NEW R, NEW rs \in Seq(R), NEW res \in R, NEW goodRs, NEW badRs, res \in goodRs,
           NEW ps, NEW good, NEW bad, NEW now
    PROVE  LastWord(Append(rs, res), goodRs, badRs, ps, good, bad, now)
<1>1. PICK n \in Nat : n = Len(rs) BY LenProperties
<1>2. PICK s : s = Append(rs, res) OBVIOUS
<1>3. Len(s) = n + 1 /\ s[n + 1] = res BY <1>1, <1>2, OneMore
<1>4. Settled(s, goodRs, badRs)
    <2>1. n + 1 \in 1..Len(s) /\ \A j \in 1..Len(s) : ~(j > n + 1) BY <1>3
    <2>2. QED BY <1>3, <2>1 DEF Settled
<1>5. QED BY <1>2, <1>4 DEF LastWord

\* A result that is not bad changes nothing
LEMMA NeutralResult ==
    ASSUME NEW R, NEW rs \in Seq(R), NEW res \in R, NEW goodRs, NEW badRs, res \notin badRs,
           NEW ps, NEW good, NEW bad, NEW now, LastWord(rs, goodRs, badRs, ps, good, bad, now)
    PROVE  LastWord(Append(rs, res), goodRs, badRs, ps, good, bad, now)
<1>1. PICK n \in Nat : n = Len(rs) BY LenProperties
<1>2. PICK s : s = Append(rs, res) OBVIOUS
<1>3. /\ Len(s) = n + 1 /\ s[n + 1] = res
      /\ \A i \in 1..n : i \in 1..(n + 1) /\ s[i] = rs[i]
      /\ \A i \in 1..(n + 1) : i \in 1..n \/ i = n + 1
    BY <1>1, <1>2, OneMore
<1>4. Clean(rs, badRs) => Clean(s, badRs)
    BY <1>1, <1>3 DEF Clean
<1>5. Settled(rs, goodRs, badRs) => Settled(s, goodRs, badRs)
    <2>1. SUFFICES ASSUME NEW k \in 1..n, rs[k] \in goodRs,
                          \A j \in 1..n : j > k => rs[j] \notin badRs
                   PROVE  Settled(s, goodRs, badRs)
        BY <1>1 DEF Settled
    <2>2. k \in 1..(n + 1) /\ s[k] \in goodRs BY <1>3, <2>1
    <2>3. \A j \in 1..(n + 1) : j > k => s[j] \notin badRs BY <1>3, <2>1
    <2>4. QED BY <1>3, <2>2, <2>3 DEF Settled
<1>6. QED BY <1>2, <1>4, <1>5 DEF LastWord

\* What comes after the head of a queue: something settles it, or all of it is clean and the
\* head had the say, or was not bad
LEMMA WithoutHead ==
    ASSUME NEW S, NEW s \in Seq(S), s # <<>>, NEW good, NEW bad
    PROVE  /\ Settled(s, good, bad) =>
                 Settled(Tail(s), good, bad) \/ (Clean(Tail(s), bad) /\ Head(s) \in good)
           /\ Clean(s, bad) => Clean(Tail(s), bad) /\ Head(s) \notin bad
<1>1. PICK n \in Nat : n + 1 = Len(s)
    <2>1. Len(s) \in Nat /\ 1 \in 1..Len(s) BY Rest
    <2>2. Len(s) - 1 \in Nat /\ (Len(s) - 1) + 1 = Len(s) BY <2>1
    <2>3. QED BY <2>2
<1>2. PICK t : t = Tail(s) OBVIOUS
<1>3. /\ Len(t) = n /\ Head(s) = s[1] /\ 1 \in 1..(n + 1)
      /\ \A i \in 1..n : i + 1 \in 1..(n + 1) /\ t[i] = s[i + 1]
    <2>1. (n + 1) - 1 = n OBVIOUS
    <2>2. QED BY <1>1, <1>2, <2>1, Rest
<1>4. ASSUME NEW k \in 1..(n + 1), s[k] \in good, \A j \in 1..(n + 1) : j > k => s[j] \notin bad
      PROVE  Settled(t, good, bad) \/ (Clean(t, bad) /\ Head(s) \in good)
    <2>1. CASE k = 1
        <3>1. \A j \in 1..n : t[j] \notin bad
            <4>1. SUFFICES ASSUME NEW j \in 1..n PROVE t[j] \notin bad OBVIOUS
            <4>2. j + 1 \in 1..(n + 1) /\ j + 1 > k BY <2>1
            <4>3. QED BY <1>3, <1>4, <4>2
        <3>2. QED BY <1>3, <1>4, <2>1, <3>1 DEF Clean
    <2>2. CASE k # 1
        <3>1. PICK i \in 1..n : i + 1 = k
            <4>1. k - 1 \in 1..n /\ (k - 1) + 1 = k BY <2>2
            <4>2. QED BY <4>1
        <3>2. t[i] \in good BY <1>3, <1>4, <3>1
        <3>3. ASSUME NEW j \in 1..n, j > i PROVE t[j] \notin bad
            <4>1. j + 1 \in 1..(n + 1) /\ j + 1 > k BY <3>1, <3>3
            <4>2. QED BY <1>3, <1>4, <4>1
        <3>4. QED BY <1>3, <3>2, <3>3 DEF Settled
    <2>3. QED BY <2>1, <2>2
<1>5. Clean(s, bad) => Clean(t, bad) /\ Head(s) \notin bad
    BY <1>1, <1>3 DEF Clean
<1>6. Settled(s, good, bad) => Settled(t, good, bad) \/ (Clean(t, bad) /\ Head(s) \in good)
    BY <1>1, <1>4 DEF Settled
<1>7. QED BY <1>2, <1>5, <1>6

\* Packets that are not bad change nothing, and a good one among them is the last word
LEMMA MorePackets ==
    ASSUME NEW S, NEW s \in Seq(S), NEW t \in Seq(S), NEW good, NEW bad, Clean(t, bad)
    PROVE  /\ Clean(s, bad) => Clean(s \o t, bad)
           /\ Settled(s, good, bad) => Settled(s \o t, good, bad)
           /\ (\E i \in 1..Len(t) : t[i] \in good) => Settled(s \o t, good, bad)
<1>1. PICK m \in Nat : m = Len(s) BY LenProperties
<1>2. PICK n \in Nat : n = Len(t) BY LenProperties
<1>3. PICK u : u = s \o t OBVIOUS
<1>4. /\ Len(u) = m + n
      /\ \A i \in 1..m : i \in 1..(m + n) /\ u[i] = s[i]
      /\ \A i \in 1..n : m + i \in 1..(m + n) /\ u[m + i] = t[i]
      /\ \A i \in 1..(m + n) : i \in 1..m \/ i - m \in 1..n
      /\ \A i \in 1..(m + n) : i \notin 1..m => u[i] = t[i - m]
    BY <1>1, <1>2, <1>3, Longer
<1>5. \A i \in 1..n : t[i] \notin bad BY <1>2 DEF Clean
<1>6. \A i \in 1..(m + n) : i \notin 1..m => u[i] \notin bad BY <1>4, <1>5
<1>7. Clean(s, bad) => Clean(u, bad)
    BY <1>1, <1>4, <1>6 DEF Clean
<1>8. ASSUME NEW k \in 1..m, s[k] \in good, \A j \in 1..m : j > k => s[j] \notin bad
      PROVE  Settled(u, good, bad)
    <2>1. k \in 1..(m + n) /\ u[k] \in good BY <1>4, <1>8
    <2>2. \A j \in 1..(m + n) : j > k => u[j] \notin bad BY <1>4, <1>6, <1>8
    <2>3. QED BY <1>4, <2>1, <2>2 DEF Settled
<1>9. ASSUME NEW i \in 1..n, t[i] \in good
      PROVE  Settled(u, good, bad)
    <2>1. m + i \in 1..(m + n) /\ u[m + i] \in good BY <1>4, <1>9
    <2>2. \A j \in 1..(m + n) : j > m + i => u[j] \notin bad
        <3>1. \A j \in 1..(m + n) : j > m + i => j \notin 1..m OBVIOUS
        <3>2. QED BY <1>6, <3>1
    <2>3. QED BY <1>4, <2>1, <2>2 DEF Settled
<1>10. Settled(s, good, bad) => Settled(u, good, bad)
    BY <1>1, <1>8 DEF Settled
<1>11. QED BY <1>2, <1>3, <1>7, <1>9, <1>10

\* The main thread turns the first result into packets
LEMMA ResultToPackets ==
    ASSUME NEW R, NEW rs \in Seq(R), rs # <<>>, NEW P, NEW ps \in Seq(P), NEW packets \in Seq(P),
           NEW goodRs, NEW badRs, NEW good, NEW bad, NEW now,
           LastWord(rs, goodRs, badRs, ps, good, bad, now),
           Head(rs) \notin badRs \/ Head(rs) \in goodRs => Clean(packets, bad),
           Head(rs) \in goodRs => \E i \in 1..Len(packets) : packets[i] \in good
    PROVE  LastWord(Tail(rs), goodRs, badRs, ps \o packets, good, bad, now)
<1>1. CASE Settled(rs, goodRs, badRs)
    <2>1. CASE Settled(Tail(rs), goodRs, badRs) BY <2>1 DEF LastWord
    <2>2. CASE Clean(Tail(rs), badRs) /\ Head(rs) \in goodRs
        <3>1. Settled(ps \o packets, good, bad) BY <2>2, MorePackets
        <3>2. QED BY <2>2, <3>1 DEF LastWord
    <2>3. QED BY <1>1, <2>1, <2>2, WithoutHead
<1>2. CASE Clean(rs, badRs)
    <2>1. Clean(Tail(rs), badRs) /\ Head(rs) \notin badRs BY <1>2, WithoutHead
    <2>2. Clean(packets, bad) BY <2>1
    <2>3. Settled(ps, good, bad) => Settled(ps \o packets, good, bad) BY <2>2, MorePackets
    <2>4. Clean(ps, bad) => Clean(ps \o packets, bad) BY <2>2, MorePackets
    <2>5. Settled(rs, goodRs, badRs) => Settled(Tail(rs), goodRs, badRs)
                                        \/ Head(rs) \in goodRs
        BY WithoutHead
    <2>6. CASE Settled(rs, goodRs, badRs) BY <1>1, <2>6
    <2>7. CASE ~Settled(rs, goodRs, badRs) BY <2>1, <2>3, <2>4, <2>7 DEF LastWord
    <2>8. QED BY <2>6, <2>7
<1>3. QED BY <1>1, <1>2 DEF LastWord

\* The client handles the first packet
LEMMA PacketToView ==
    ASSUME NEW P, NEW ps \in Seq(P), ps # <<>>, NEW rs, NEW goodRs, NEW badRs, NEW good, NEW bad,
           NEW now, NEW later,
           LastWord(rs, goodRs, badRs, ps, good, bad, now),
           Head(ps) \in good => later,
           Head(ps) \notin bad /\ now => later
    PROVE  LastWord(rs, goodRs, badRs, Tail(ps), good, bad, later)
<1>1. /\ Settled(ps, good, bad) =>
            Settled(Tail(ps), good, bad) \/ (Clean(Tail(ps), bad) /\ Head(ps) \in good)
      /\ Clean(ps, bad) => Clean(Tail(ps), bad) /\ Head(ps) \notin bad
    BY WithoutHead
<1>2. QED BY <1>1 DEF LastWord

\* The same elements are good and bad
LEMMA SameWord ==
    ASSUME NEW rs, NEW goodRs, NEW badRs, NEW goodRs2, NEW badRs2, NEW ps, NEW good, NEW bad,
           NEW now,
           \A i \in 1..Len(rs) : /\ rs[i] \in goodRs => rs[i] \in goodRs2
                                 /\ rs[i] \in badRs2 => rs[i] \in badRs,
           LastWord(rs, goodRs, badRs, ps, good, bad, now)
    PROVE  LastWord(rs, goodRs2, badRs2, ps, good, bad, now)
<1>1. Clean(rs, badRs) => Clean(rs, badRs2) BY DEF Clean
<1>2. Settled(rs, goodRs, badRs) => Settled(rs, goodRs2, badRs2)
    <2>1. SUFFICES ASSUME NEW k \in 1..Len(rs), rs[k] \in goodRs,
                          \A j \in 1..Len(rs) : j > k => rs[j] \notin badRs
                   PROVE  Settled(rs, goodRs2, badRs2)
        BY DEF Settled
    <2>2. rs[k] \in goodRs2 /\ \A j \in 1..Len(rs) : j > k => rs[j] \notin badRs2 BY <2>1
    <2>3. QED BY <2>2 DEF Settled
<1>3. QED BY <1>1, <1>2 DEF LastWord

(***************************************************************************)
(* What a step leaves as it is                                             *)
(***************************************************************************)

LEMMA SameSets ==
    ASSUME NEW u, requests' = requests, logins'[u] = logins[u]
    PROVE  /\ \A v : FriendResGood(u, v)' = FriendResGood(u, v)
           /\ \A v : FriendResBad(u, v)' = FriendResBad(u, v)
           /\ \A r, waits : RequestResGood(u, r, waits)' = RequestResGood(u, r, waits)
           /\ \A r, waits : RequestResBad(u, r, waits)' = RequestResBad(u, r, waits)
           /\ \A r : Waits(r)' <=> Waits(r)
           /\ \A r : Waits(r)' = Waits(r)
<1>1. \A res, op : Answers(res, op, u)' <=> Answers(res, op, u) BY DEF Answers
<1>2. \A v : FriendResGood(u, v)' = FriendResGood(u, v) BY <1>1 DEF FriendResGood
<1>3. \A v : FriendResBad(u, v)' = FriendResBad(u, v) BY <1>1 DEF FriendResBad
<1>4. \A res, r, waits : ResListSays(res, u, r, waits)' <=> ResListSays(res, u, r, waits)
    BY <1>1 DEF ResListSays
<1>5. \A r, waits : RequestResGood(u, r, waits)' = RequestResGood(u, r, waits)
    BY <1>4 DEF RequestResGood, Created, Decided
<1>6. \A r, waits : RequestResBad(u, r, waits)' = RequestResBad(u, r, waits)
    BY <1>4 DEF RequestResBad, Created, Decided, Repeats
<1>7. \A r : Waits(r)' = Waits(r) BY DEF Waits
<1>8. QED BY <1>2, <1>3, <1>5, <1>6, <1>7

\* What is to come to u is untouched
LEMMA WordsKept ==
    ASSUME NEW u, UNCHANGED <<requests, friendships, results>>, logins'[u] = logins[u],
           toClient'[u] = toClient[u], friendList'[u] = friendList[u],
           requestList'[u] = requestList[u]
    PROVE  /\ \A v : FriendComes(u, v) => FriendComes(u, v)'
           /\ \A r : RequestComes(u, r) => RequestComes(u, r)'
           /\ (\A v \in FriendsOf(u) : FriendComes(u, v))
                 => (\A v \in FriendsOf(u) : FriendComes(u, v))'
           /\ (\A r \in DOMAIN requests : requests[r].to = u => RequestComes(u, r))
                 => (\A r \in DOMAIN requests : requests[r].to = u => RequestComes(u, r))'
<1>1. ASSUME NEW v, FriendComes(u, v) PROVE FriendComes(u, v)'
    <2>1. PICK a, b : a = FriendResGood(u, v) /\ b = FriendResBad(u, v) OBVIOUS
    <2>2. LastWord(results, a, b, toClient[u], FriendGood(v), FriendBad(v), v \in friendList[u])
        BY <1>1, <2>1 DEF FriendComes
    <2>3. LastWord(results', a, b, toClient'[u], FriendGood(v), FriendBad(v), v \in friendList'[u])
        BY <2>2
    <2>4. FriendResGood(u, v)' = a /\ FriendResBad(u, v)' = b BY <2>1, SameSets
    <2>5. QED BY <2>3, <2>4 DEF FriendComes
<1>2. ASSUME NEW r, RequestComes(u, r) PROVE RequestComes(u, r)'
    <2>1. PICK w : w = Waits(r) OBVIOUS
    <2>2. PICK a, b : a = RequestResGood(u, r, w) /\ b = RequestResBad(u, r, w) OBVIOUS
    <2>3. LastWord(results, a, b, toClient[u], RequestGood(r, w), RequestBad(r, w),
                   requestList[u][r] = "pending" <=> w)
        BY <1>2, <2>1, <2>2 DEF RequestComes
    <2>4. LastWord(results', a, b, toClient'[u], RequestGood(r, w), RequestBad(r, w),
                   requestList'[u][r] = "pending" <=> w)
        BY <2>3
    <2>5. Waits(r)' = w /\ RequestResGood(u, r, w)' = a /\ RequestResBad(u, r, w)' = b
        BY <2>1, <2>2, SameSets
    <2>6. QED BY <2>4, <2>5 DEF RequestComes
<1>3. FriendsOf(u)' = FriendsOf(u) BY DEF FriendsOf
<1>4. QED BY <1>1, <1>2, <1>3

\* A list still to be loaded stays so while nothing is taken from wire and queue
LEMMA AsksGrow ==
    ASSUME NEW u, NEW op, Asks(u, op), NEW P, toClient[u] \in Seq(P),
           NEW packets \in Seq(P), toClient'[u] = toClient[u] \o packets,
           NEW D, dbQueue \in Seq(D), NEW more \in Seq(D), dbQueue' = dbQueue \o more
    PROVE  Asks(u, op)'
<1>1. PICK s \in Seq(P) : s = toClient[u] OBVIOUS
<1>2. PICK q \in Seq(D) : q = dbQueue OBVIOUS
<1>3. \A i \in 1..Len(s) : i \in 1..Len(s \o packets) /\ (s \o packets)[i] = s[i]
    BY Longer
<1>4. \A i \in 1..Len(q) : i \in 1..Len(q \o more) /\ (q \o more)[i] = q[i]
    BY Longer
<1>5. CASE \E i \in 1..Len(s) : s[i].kind = "connectAck"
    BY <1>1, <1>3, <1>5 DEF Asks
<1>6. CASE \E i \in 1..Len(q) : q[i].op = op /\ q[i].by = u
    BY <1>2, <1>4, <1>6 DEF Asks
<1>7. QED BY <1>1, <1>2, <1>5, <1>6 DEF Asks

LEMMA QueuePosted ==
    ASSUME QueueIsCurrent, dbQueue \in Seq(DbRequest), NEW more \in Seq(DbRequest),
           dbQueue' = dbQueue \o more, UNCHANGED sessions,
           \A i \in 1..Len(more) : /\ more[i].login = logins[more[i].by]
                                   /\ more[i].op # "loadOffline",
           \A u \in Users : conn[u] = "up" /\ Asks(u, "requestList") => Asks(u, "requestList")'
    PROVE  QueueIsCurrent'
<1>1. conn' = conn /\ logins' = logins BY DEF sessions
<1>2. PICK q \in Seq(DbRequest) : q = dbQueue OBVIOUS
<1>3. PICK p : p = q \o more OBVIOUS
<1>4. PICK m \in Nat : m = Len(q) BY LenProperties
<1>5. PICK n \in Nat : n = Len(more) BY LenProperties
<1>6. /\ Len(p) = m + n
      /\ \A i \in 1..m : p[i] = q[i]
      /\ \A i \in 1..(m + n) : i \in 1..m \/ i - m \in 1..n
      /\ \A i \in 1..(m + n) : i \notin 1..m => p[i] = more[i - m]
    BY <1>3, <1>4, <1>5, Longer
<1>7. SUFFICES ASSUME NEW i \in 1..(m + n)
               PROVE  /\ p[i].login = logins[p[i].by]
                      /\ p[i].op = "loadOffline" =>
                            i = 1 /\ (conn[p[i].by] = "up" => Asks(p[i].by, "requestList")')
    BY <1>1, <1>2, <1>3, <1>6 DEF QueueIsCurrent
<1>8. CASE i \in 1..m
    <2>1. PICK r : r = q[i] OBVIOUS
    <2>2. r.by \in Users
        <3>1. r \in DbRequest BY <1>4, <1>8, <2>1, ElementOfSeq
        <3>2. QED BY <3>1 DEF DbRequest
    <2>3. /\ r.login = logins[r.by]
          /\ r.op = "loadOffline" =>
                i = 1 /\ (conn[r.by] = "up" => Asks(r.by, "requestList"))
        BY <1>2, <1>4, <1>8, <2>1 DEF QueueIsCurrent
    <2>4. r.op = "loadOffline" =>
                i = 1 /\ (conn[r.by] = "up" => Asks(r.by, "requestList")')
        BY <2>2, <2>3
    <2>5. QED BY <1>6, <1>8, <2>1, <2>3, <2>4
<1>9. CASE i \notin 1..m
    <2>1. PICK k \in 1..n : k = i - m /\ p[i] = more[k] BY <1>6, <1>9
    <2>2. more[k].login = logins[more[k].by] /\ more[k].op # "loadOffline" BY <1>5
    <2>3. QED BY <2>1, <2>2
<1>10. QED BY <1>8, <1>9

LEMMA QueueShortened ==
    ASSUME QueueIsCurrent, dbQueue \in Seq(DbRequest), dbQueue # <<>>, dbQueue' = Tail(dbQueue),
           UNCHANGED sessions
    PROVE  QueueIsCurrent'
<1>1. conn' = conn /\ logins' = logins BY DEF sessions
<1>2. PICK q \in Seq(DbRequest) : q = dbQueue OBVIOUS
<1>3. PICK n \in Nat : n + 1 = Len(q)
    <2>1. Len(q) \in Nat /\ 1 \in 1..Len(q) BY <1>2, Rest
    <2>2. Len(q) - 1 \in Nat /\ (Len(q) - 1) + 1 = Len(q) BY <2>1
    <2>3. QED BY <2>2
<1>4. Len(Tail(q)) = n /\ \A i \in 1..n : i + 1 \in 1..(n + 1) /\ Tail(q)[i] = q[i + 1]
    <2>1. (n + 1) - 1 = n OBVIOUS
    <2>2. QED BY <1>2, <1>3, <2>1, Rest
<1>5. \A i \in 1..(n + 1) : q[i].login = logins[q[i].by] /\ (q[i].op = "loadOffline" => i = 1)
    BY <1>2, <1>3 DEF QueueIsCurrent
<1>6. \A i \in 1..n : i + 1 # 1 OBVIOUS
<1>7. \A i \in 1..n : Tail(q)[i].login = logins[Tail(q)[i].by] /\ Tail(q)[i].op # "loadOffline"
    BY <1>4, <1>5, <1>6
<1>8. QED BY <1>1, <1>2, <1>4, <1>7 DEF QueueIsCurrent

\* An element of the queue other than the head stays
LEMMA AsksNotHead ==
    ASSUME NEW u, NEW op, Asks(u, op), toClient'[u] = toClient[u],
           dbQueue \in Seq(DbRequest), dbQueue # <<>>, dbQueue' = Tail(dbQueue),
           ~(Head(dbQueue).op = op /\ Head(dbQueue).by = u)
    PROVE  Asks(u, op)'
<1>1. PICK q \in Seq(DbRequest) : q = dbQueue OBVIOUS
<1>2. PICK n \in Nat : n = Len(q) BY LenProperties
<1>3. /\ Head(q) = q[1] /\ Len(Tail(q)) = n - 1
      /\ \A i \in 1..n : i = 1 \/ (i - 1 \in 1..(n - 1) /\ Tail(q)[i - 1] = q[i])
    BY <1>1, <1>2, Rest
<1>4. CASE \E i \in 1..Len(toClient[u]) : toClient[u][i].kind = "connectAck"
    BY <1>4 DEF Asks
<1>5. CASE \E i \in 1..n : q[i].op = op /\ q[i].by = u
    <2>1. PICK i \in 1..n : q[i].op = op /\ q[i].by = u BY <1>5
    <2>2. i # 1 BY <1>1, <1>3, <2>1
    <2>3. PICK k \in 1..(n - 1) : k = i - 1 /\ Tail(q)[k] = q[i] BY <1>3, <2>2
    <2>4. QED BY <1>1, <1>3, <2>1, <2>3 DEF Asks
<1>6. QED BY <1>1, <1>2, <1>4, <1>5 DEF Asks

\* Decisions are final, so what was shown truly stays true
LEMMA StatusStays ==
    ASSUME DOMAIN requests \subseteq DOMAIN requests',
           \A r \in DOMAIN requests : ~Waits(r) => ~Waits(r)'
    PROVE  TrueShown \subseteq TrueShown'
BY DEF TrueShown

LEMMA NoneTrue == NoneShown \in TrueShown
<1>1. NoneShown \in [RequestIds -> Status] BY BlankTyped
<1>2. \A r \in RequestIds : NoneShown[r] = "none" BY DEF NoneShown
<1>3. QED BY <1>1, <1>2 DEF TrueShown

(***************************************************************************)
(* Steps that tell the clients nothing                                     *)
(***************************************************************************)

LEMMA ViewTyped ==
    ASSUME IInv
    PROVE  /\ dbQueue \in Seq(DbRequest) /\ results \in Seq(Result) /\ results \in Seq(RightResults)
           /\ toClient \in [Users -> Seq(ToClient)]
           /\ \A u \in Users : toClient[u] \in Seq(ToClient) /\ requestList[u] \in [RequestIds -> Status]
           /\ Len(requests) \in Nat /\ DOMAIN requests = 1..Len(requests) /\ requests \in Seq(FriendRow)
           /\ logins \in [Users -> Nat] /\ conn \in [Users -> ConnState] /\ failures \in Nat
<1>1. TypeOK /\ QueuesRight BY DEF IInv
<1>2. requests \in Seq(FriendRow) /\ failures \in 0..MaxFailures BY <1>1 DEF TypeOK
<1>3. Len(requests) \in Nat /\ DOMAIN requests = 1..Len(requests) BY <1>2, LenProperties
<1>4. failures \in Nat BY <1>2
<1>5. QED BY <1>1, <1>2, <1>3, <1>4 DEF TypeOK, QueuesRight

LEMMA AsksSame ==
    ASSUME NEW u, toClient'[u] = toClient[u], dbQueue' = dbQueue
    PROVE  \A op : Asks(u, op) => Asks(u, op)'
BY DEF Asks

\* What comes to u stays to come when what tells it of is untouched
LEMMA ViewStays ==
    ASSUME NEW u, UNCHANGED <<requests, friendships, results>>, logins'[u] = logins[u],
           toClient'[u] = toClient[u], friendList'[u] = friendList[u],
           requestList'[u] = requestList[u],
           \A op : Asks(u, op) => Asks(u, op)',
           FriendsCome(u) /\ RequestsCome(u)
    PROVE  FriendsCome(u)' /\ RequestsCome(u)'
<1>1. FriendsCome(u)'
    <2>1. CASE Asks(u, "friendList") BY <2>1 DEF FriendsCome
    <2>2. CASE \A v \in FriendsOf(u) : FriendComes(u, v)
        <3>1. (\A v \in FriendsOf(u) : FriendComes(u, v))' BY <2>2, WordsKept
        <3>2. QED BY <3>1 DEF FriendsCome
    <2>3. QED BY <2>1, <2>2 DEF FriendsCome
<1>2. RequestsCome(u)'
    <2>1. CASE Asks(u, "requestList") BY <2>1 DEF RequestsCome
    <2>2. CASE \A r \in DOMAIN requests : requests[r].to = u => RequestComes(u, r)
        <3>1. (\A r \in DOMAIN requests : requests[r].to = u => RequestComes(u, r))'
            BY <2>2, WordsKept
        <3>2. QED BY <3>1 DEF RequestsCome
    <2>3. QED BY <2>1, <2>2 DEF RequestsCome
<1>3. QED BY <1>1, <1>2

LEMMA TrueShownSame ==
    ASSUME requests' = requests
    PROVE  TrueShown' = TrueShown
BY DEF TrueShown, Waits

LEMMA LoginView ==
    ASSUME IInv, ViewInv, NEW w \in Users, Login(w)
    PROVE  ViewInv'
<1>1. PICK q : q = [DbReq("loadOffline", w, NoUser, 0, {}) EXCEPT !.login = logins'[w]] OBVIOUS
<1>2. PICK p : p = Blank("connectAck") OBVIOUS
<1>3. /\ dbQueue = <<>> /\ dbQueue' = <<q>>
      /\ q.op = "loadOffline" /\ q.by = w /\ q.login = logins'[w]
    BY <1>1 DEF Login, DbReq
<1>4. /\ toClient'[w] = <<p>> /\ p.kind = "connectAck" /\ p.shown = NoneShown
      /\ \A u \in Users : u # w => toClient'[u] = toClient[u]
    BY <1>2, ViewTyped DEF Login, Blank
<1>5. /\ requests' = requests /\ friendships' = friendships /\ results' = results
      /\ friendList' = friendList /\ requestList' = requestList /\ failures' = failures
    BY DEF Login, views, counters
<1>6. \A u \in Users : u # w => logins'[u] = logins[u] /\ conn'[u] = conn[u]
    BY ViewTyped DEF Login
<1>7. Len(<<p>>) = 1 /\ <<p>>[1] = p /\ Len(<<q>>) = 1 /\ <<q>>[1] = q OBVIOUS
<1>8. \A op : Asks(w, op)' BY <1>4, <1>7 DEF Asks
<1>9. QueueIsCurrent'
    <2>1. \A i \in 1..Len(<<q>>) : i = 1 BY <1>7
    <2>2. QED BY <1>3, <1>7, <1>8, <2>1 DEF QueueIsCurrent
<1>10. ShownIsTrue'
    <2>1. TrueShown' = TrueShown /\ NoneShown \in TrueShown BY <1>5, TrueShownSame, NoneTrue
    <2>2. \A i \in 1..Len(<<p>>) : <<p>>[i].shown \in TrueShown BY <1>4, <1>7, <2>1
    <2>3. QED BY <1>4, <1>5, <2>1, <2>2 DEF ShownIsTrue, ViewInv
<1>11. ViewsCome'
    <2>1. SUFFICES ASSUME failures' = 0, NEW u \in Users, conn'[u] = "up"
                   PROVE  FriendsCome(u)' /\ RequestsCome(u)'
        BY DEF ViewsCome
    <2>2. CASE u = w BY <1>8, <2>2 DEF FriendsCome, RequestsCome
    <2>3. CASE u # w
        <3>1. FriendsCome(u) /\ RequestsCome(u) BY <1>5, <1>6, <2>1, <2>3 DEF ViewInv, ViewsCome
        <3>2. \A op : Asks(u, op) => Asks(u, op)'
            <4>1. Len(dbQueue) = 0 BY <1>3
            <4>2. QED BY <1>4, <2>3, <4>1 DEF Asks
        <3>3. QED BY <1>4, <1>5, <1>6, <2>3, <3>1, <3>2, ViewStays
    <2>4. QED BY <2>2, <2>3
<1>12. QED BY <1>9, <1>10, <1>11 DEF ViewInv

\* A connection is lost, or its loss is noticed
LEMMA ConnectionView ==
    ASSUME IInv, ViewInv, NEW w \in Users, conn'[w] # "up",
           \A u \in Users : u # w => conn'[u] = conn[u] /\ toClient'[u] = toClient[u],
           toClient'[w] = toClient[w] \/ toClient'[w] = <<>>,
           UNCHANGED <<serverTables, queues, logins, views, counters>>
    PROVE  ViewInv'
<1>1. /\ requests' = requests /\ friendships' = friendships /\ results' = results
      /\ friendList' = friendList /\ requestList' = requestList /\ failures' = failures
      /\ dbQueue' = dbQueue /\ logins' = logins
    BY DEF serverTables, queues, views, counters
<1>2. \A u \in Users : conn'[u] = "up" => u # w /\ conn[u] = "up" /\ toClient'[u] = toClient[u]
    OBVIOUS
<1>3. \A u \in Users : conn'[u] = "up" => \A op : Asks(u, op) => Asks(u, op)'
    BY <1>1, <1>2, AsksSame
<1>4. QueueIsCurrent'
    <2>1. SUFFICES ASSUME NEW i \in 1..Len(dbQueue)
                   PROVE  /\ dbQueue[i].login = logins[dbQueue[i].by]
                          /\ dbQueue[i].op = "loadOffline" =>
                                /\ i = 1
                                /\ conn'[dbQueue[i].by] = "up" => Asks(dbQueue[i].by, "requestList")'
        BY <1>1 DEF QueueIsCurrent
    <2>2. PICK r : r = dbQueue[i] OBVIOUS
    <2>3. r.by \in Users
        <3>1. r \in DbRequest BY <2>2, ViewTyped, ElementOfSeq
        <3>2. QED BY <3>1 DEF DbRequest
    <2>4. /\ r.login = logins[r.by]
          /\ r.op = "loadOffline" => i = 1 /\ (conn[r.by] = "up" => Asks(r.by, "requestList"))
        BY <2>2 DEF ViewInv, QueueIsCurrent
    <2>5. conn'[r.by] = "up" => conn[r.by] = "up" BY <1>2, <2>3
    <2>6. conn'[r.by] = "up" /\ Asks(r.by, "requestList") => Asks(r.by, "requestList")'
        BY <1>3, <2>3
    <2>7. r.op = "loadOffline" => i = 1 /\ (conn'[r.by] = "up" => Asks(r.by, "requestList")')
        BY <2>4, <2>5, <2>6
    <2>8. dbQueue[i].by = r.by /\ dbQueue[i].op = r.op /\ dbQueue[i].login = r.login BY <2>2
    <2>9. QED BY <1>1, <2>2, <2>4, <2>7
<1>5. ShownIsTrue'
    <2>1. TrueShown' = TrueShown BY <1>1, TrueShownSame
    <2>2. \A u \in Users : \A i \in 1..Len(toClient'[u]) : toClient'[u][i].shown \in TrueShown
        <3>1. SUFFICES ASSUME NEW u \in Users
                       PROVE  \A i \in 1..Len(toClient'[u]) : toClient'[u][i].shown \in TrueShown
            OBVIOUS
        <3>2. CASE toClient'[u] = toClient[u] BY <3>2 DEF ViewInv, ShownIsTrue
        <3>3. CASE toClient'[u] = <<>>
            <4>1. Len(toClient'[u]) = 0 BY <3>3
            <4>2. QED BY <4>1
        <3>4. QED BY <3>2, <3>3
    <2>3. QED BY <1>1, <2>1, <2>2 DEF ShownIsTrue, ViewInv
<1>6. ViewsCome'
    <2>1. SUFFICES ASSUME failures' = 0, NEW u \in Users, conn'[u] = "up"
                   PROVE  FriendsCome(u)' /\ RequestsCome(u)'
        BY DEF ViewsCome
    <2>2. FriendsCome(u) /\ RequestsCome(u) BY <1>1, <1>2, <2>1 DEF ViewInv, ViewsCome
    <2>3. QED BY <1>1, <1>2, <1>3, <2>1, <2>2, ViewStays
<1>7. QED BY <1>4, <1>5, <1>6 DEF ViewInv

LEMMA ConnectionLostView ==
    ASSUME IInv, ViewInv, NEW w \in Users, ConnectionLost(w)
    PROVE  ViewInv'
<1>1. /\ conn'[w] # "up" /\ toClient'[w] = <<>>
      /\ \A u \in Users : u # w => conn'[u] = conn[u] /\ toClient'[u] = toClient[u]
    BY ViewTyped DEF ConnectionLost
<1>2. UNCHANGED <<serverTables, queues, logins, views, counters>> BY DEF ConnectionLost
<1>3. QED BY <1>1, <1>2, ConnectionView

LEMMA DisconnectedView ==
    ASSUME IInv, ViewInv, NEW w \in Users, OnClientDisconnected(w)
    PROVE  ViewInv'
<1>1. /\ conn'[w] # "up" /\ toClient' = toClient
      /\ \A u \in Users : u # w => conn'[u] = conn[u]
    BY ViewTyped DEF OnClientDisconnected
<1>2. UNCHANGED <<serverTables, queues, logins, views, counters>> BY DEF OnClientDisconnected
<1>3. QED BY <1>1, <1>2, ConnectionView

LEMMA CrashView ==
    ASSUME IInv, ViewInv, ServerCrash
    PROVE  ViewInv'
<1>1. /\ requests' = requests /\ requestList' = requestList
      /\ Len(dbQueue') = 0 /\ Len(results') = 0
      /\ \A u \in Users : conn'[u] = "down" /\ toClient'[u] = <<>>
    BY DEF ServerCrash, serverTables, views
<1>2. QueueIsCurrent' BY <1>1 DEF QueueIsCurrent
<1>3. \A u \in Users : Len(toClient'[u]) = 0 BY <1>1
<1>4. ShownIsTrue' BY <1>1, <1>3, TrueShownSame DEF ShownIsTrue, ViewInv
<1>5. ViewsCome' BY <1>1 DEF ViewsCome
<1>6. QED BY <1>2, <1>4, <1>5 DEF ViewInv

LEMMA OperationView ==
    ASSUME IInv, ViewInv, NEW w \in Users, NEW op, op \in {"create", "accepted", "rejected"},
           NEW to \in Users \cup {NoUser}, NEW id \in 0..MaxOps, Operation(w, op, to, id)
    PROVE  ViewInv'
<1>1. PICK q : q = DbReq(op, w, to, id, {}) OBVIOUS
<1>2. /\ q \in DbRequest /\ q.login = logins[q.by] /\ q.op # "loadOffline"
    BY <1>1, ViewTyped DEF DbReq, DbRequest
<1>3. PICK more : more = <<q>> OBVIOUS
<1>4. more \in Seq(DbRequest) /\ \A i \in 1..Len(more) : more[i] = q BY <1>2, <1>3
<1>5. /\ requests' = requests /\ friendships' = friendships /\ results' = results
      /\ friendList' = friendList /\ requestList' = requestList /\ failures' = failures
      /\ conn' = conn /\ logins' = logins /\ toClient' = toClient
      /\ dbQueue' = dbQueue \o more /\ UNCHANGED sessions
    BY <1>1, <1>3 DEF Operation, Post, serverTables, sessions, views
<1>6. \A u \in Users : \A o : Asks(u, o) => Asks(u, o)'
    <2>1. SUFFICES ASSUME NEW u \in Users, NEW o, Asks(u, o) PROVE Asks(u, o)' OBVIOUS
    <2>2. PICK ps \in Seq(ToClient) : ps = toClient[u] BY ViewTyped
    <2>3. ps \o <<>> = ps /\ <<>> \in Seq(ToClient) BY EmptySeq, ConcatEmptySeq
    <2>4. toClient[u] \in Seq(ToClient) /\ toClient'[u] = toClient[u] \o <<>> BY <1>5, <2>2, <2>3
    <2>5. dbQueue \in Seq(DbRequest) BY ViewTyped
    <2>6. QED BY <1>4, <1>5, <2>1, <2>3, <2>4, <2>5, AsksGrow
<1>7. QueueIsCurrent'
    <2>1. QueueIsCurrent /\ dbQueue \in Seq(DbRequest) BY ViewTyped DEF ViewInv
    <2>2. \A i \in 1..Len(more) : more[i].login = logins[more[i].by] /\ more[i].op # "loadOffline"
        BY <1>2, <1>4
    <2>3. QED BY <1>4, <1>5, <1>6, <2>1, <2>2, QueuePosted
<1>8. ShownIsTrue' BY <1>5, TrueShownSame DEF ShownIsTrue, ViewInv
<1>9. ViewsCome'
    <2>1. SUFFICES ASSUME failures' = 0, NEW u \in Users, conn'[u] = "up"
                   PROVE  FriendsCome(u)' /\ RequestsCome(u)'
        BY DEF ViewsCome
    <2>2. FriendsCome(u) /\ RequestsCome(u) BY <1>5, <2>1 DEF ViewInv, ViewsCome
    <2>3. QED BY <1>5, <1>6, <2>1, <2>2, ViewStays
<1>10. QED BY <1>7, <1>8, <1>9 DEF ViewInv

(***************************************************************************)
(* A request of the database thread's                                      *)
(***************************************************************************)

\* A result that is not bad for what is to come
LEMMA FriendNeutral ==
    ASSUME NEW u, NEW v, FriendComes(u, v), logins'[u] = logins[u], toClient'[u] = toClient[u],
           friendList'[u] = friendList[u], results \in Seq(RightResults),
           NEW res \in Result, results' = Append(results, res), res \notin FriendResBad(u, v),
           \A r \in Rows : requests'[r].from = requests[r].from /\ requests'[r].to = requests[r].to
    PROVE  FriendComes(u, v)'
<1>1. PICK a, b : a = FriendResGood(u, v) /\ b = FriendResBad(u, v) OBVIOUS
<1>2. PICK rs \in Seq(RightResults) : rs = results OBVIOUS
<1>3. LastWord(rs, a, b, toClient[u], FriendGood(v), FriendBad(v), v \in friendList[u])
    BY <1>1, <1>2 DEF FriendComes
<1>4. PICK a2, b2 : a2 = FriendResGood(u, v)' /\ b2 = FriendResBad(u, v)' OBVIOUS
<1>5. b2 = b BY <1>1, <1>4 DEF FriendResBad, Answers
<1>6. \A i \in 1..Len(rs) : rs[i] \in a => rs[i] \in a2
    <2>1. SUFFICES ASSUME NEW i \in 1..Len(rs), rs[i] \in a PROVE rs[i] \in a2 OBVIOUS
    <2>2. PICK x \in RightResults : x = rs[i] BY <1>2, ElementOfSeq
    <2>3. x \in Result /\ RightAnswer(x) BY DEF RightResults
    <2>4. x.ok /\ x.req.op = "accepted" => x.id \in Rows BY <2>3 DEF RightAnswer
    <2>5. x \in FriendResGood(u, v) BY <1>1, <2>1, <2>2
    <2>6. x \in FriendResGood(u, v)' BY <2>4, <2>5 DEF FriendResGood, Answers
    <2>7. QED BY <1>4, <2>2, <2>6
<1>7. LastWord(rs, a2, b, toClient[u], FriendGood(v), FriendBad(v), v \in friendList[u])
    BY <1>3, <1>6, SameWord
<1>8. rs \in Seq(Result)
    <2>1. RightResults \subseteq Result BY DEF RightResults
    <2>2. QED BY <2>1, WiderSeq
<1>9. LastWord(Append(rs, res), a2, b, toClient[u], FriendGood(v), FriendBad(v), v \in friendList[u])
    BY <1>1, <1>7, <1>8, NeutralResult
<1>10. LastWord(results', a2, b2, toClient'[u], FriendGood(v), FriendBad(v), v \in friendList'[u])
    BY <1>2, <1>5, <1>9
<1>11. QED BY <1>4, <1>10 DEF FriendComes

LEMMA FriendTold ==
    ASSUME NEW u, NEW v, results \in Seq(Result), NEW res \in Result,
           results' = Append(results, res), res \in FriendResGood(u, v)'
    PROVE  FriendComes(u, v)'
<1>1. PICK a, b : a = FriendResGood(u, v)' /\ b = FriendResBad(u, v)' OBVIOUS
<1>2. PICK ps, now : ps = toClient'[u] /\ now = (v \in friendList'[u]) OBVIOUS
<1>3. LastWord(Append(results, res), a, b, ps, FriendGood(v), FriendBad(v), now)
    BY <1>1, GoodResult
<1>4. QED BY <1>1, <1>2, <1>3 DEF FriendComes

LEMMA RequestNeutral ==
    ASSUME NEW u, NEW r, RequestComes(u, r), logins'[u] = logins[u], toClient'[u] = toClient[u],
           requestList'[u] = requestList[u], results \in Seq(Result),
           NEW res \in Result, results' = Append(results, res), Waits(r)' = Waits(r),
           res \notin RequestResBad(u, r, Waits(r))
    PROVE  RequestComes(u, r)'
<1>1. PICK w : w = Waits(r) OBVIOUS
<1>2. PICK a, b : a = RequestResGood(u, r, w) /\ b = RequestResBad(u, r, w) OBVIOUS
<1>3. LastWord(results, a, b, toClient[u], RequestGood(r, w), RequestBad(r, w),
               requestList[u][r] = "pending" <=> w)
    BY <1>1, <1>2 DEF RequestComes
<1>4. RequestResGood(u, r, w)' = a /\ RequestResBad(u, r, w)' = b
    BY <1>2 DEF RequestResGood, RequestResBad, ResListSays, Answers, Created, Decided, Repeats
<1>5. LastWord(Append(results, res), a, b, toClient[u], RequestGood(r, w), RequestBad(r, w),
               requestList[u][r] = "pending" <=> w)
    BY <1>1, <1>2, <1>3, NeutralResult
<1>6. LastWord(results', a, b, toClient'[u], RequestGood(r, w), RequestBad(r, w),
               requestList'[u][r] = "pending" <=> w)
    BY <1>5
<1>7. QED BY <1>1, <1>4, <1>6 DEF RequestComes

LEMMA RequestTold ==
    ASSUME NEW u, NEW r, results \in Seq(Result), NEW res \in Result,
           results' = Append(results, res), NEW w, w = Waits(r)', res \in RequestResGood(u, r, w)'
    PROVE  RequestComes(u, r)'
<1>1. PICK a, b : a = RequestResGood(u, r, w)' /\ b = RequestResBad(u, r, w)' OBVIOUS
<1>2. PICK ps, now : ps = toClient'[u] /\ now = (requestList'[u][r] = "pending" <=> w) OBVIOUS
<1>3. LastWord(Append(results, res), a, b, ps, RequestGood(r, w), RequestBad(r, w), now)
    BY <1>1, GoodResult
<1>4. QED BY <1>1, <1>2, <1>3 DEF RequestComes

\* The queue and what is shown, when the database thread is done with a request
LEMMA DbQueueView ==
    ASSUME IInv, ViewInv, dbQueue # <<>>, dbQueue' = Tail(dbQueue), UNCHANGED <<sessions, views>>,
           toClient' = toClient, Len(requests') \in Nat, Len(requests) <= Len(requests'),
           DOMAIN requests' = 1..Len(requests'),
           \A r \in DOMAIN requests : ~Waits(r) => ~Waits(r)',
           \/ results' = results
           \/ \E res \in Result : results' = Append(results, res) /\ res.shown \in TrueShown'
    PROVE  QueueIsCurrent' /\ ShownIsTrue'
<1>1. QueueIsCurrent' BY ViewTyped, QueueShortened DEF ViewInv
<1>2. TrueShown \subseteq TrueShown'
    <2>1. DOMAIN requests \subseteq DOMAIN requests' BY ViewTyped
    <2>2. QED BY <2>1, StatusStays
<1>3. requestList' = requestList BY DEF views
<1>4. \A i \in 1..Len(results') : results'[i].shown \in TrueShown'
    <2>1. CASE results' = results BY <1>2, <2>1 DEF ViewInv, ShownIsTrue
    <2>2. CASE \E res \in Result : results' = Append(results, res) /\ res.shown \in TrueShown'
        <3>1. PICK res \in Result : results' = Append(results, res) /\ res.shown \in TrueShown'
            BY <2>2
        <3>2. PICK rs \in Seq(Result) : rs = results BY ViewTyped
        <3>3. PICK n \in Nat : n = Len(rs) BY LenProperties
        <3>4. /\ Len(results') = n + 1 /\ results'[n + 1] = res
              /\ \A i \in 1..n : results'[i] = rs[i]
              /\ \A i \in 1..(n + 1) : i \in 1..n \/ i = n + 1
            BY <3>1, <3>2, <3>3, OneMore
        <3>5. \A i \in 1..n : rs[i].shown \in TrueShown' BY <1>2, <3>2, <3>3 DEF ViewInv, ShownIsTrue
        <3>6. QED BY <3>1, <3>4, <3>5
    <2>3. QED BY <2>1, <2>2
<1>5. QED BY <1>1, <1>2, <1>3, <1>4 DEF ViewInv, ShownIsTrue

LEMMA DbFailsView ==
    ASSUME IInv, ViewInv, DbFails
    PROVE  ViewInv'
<1>1. PICK res : res = Answer(Head(dbQueue), FALSE, Head(dbQueue).id, {}, NoneShown) OBVIOUS
<1>2. res \in Result /\ res.shown = NoneShown
    <2>1. Head(dbQueue) \in DbRequest BY ViewTyped, Rest DEF DbFails
    <2>2. Head(dbQueue).id \in 0..MaxOps BY <2>1 DEF DbRequest
    <2>3. QED BY <1>1, <2>1, <2>2, BlankTyped DEF Answer, Result
<1>3. /\ results' = Append(results, res) /\ dbQueue # <<>> /\ dbQueue' = Tail(dbQueue)
      /\ UNCHANGED <<sessions, views>> /\ toClient' = toClient /\ requests' = requests
    BY <1>1 DEF DbFails, Reply, Answer, serverTables
<1>4. QueueIsCurrent' /\ ShownIsTrue'
    <2>1. res.shown \in TrueShown' BY <1>2, <1>3, NoneTrue, TrueShownSame
    <2>2. \A r \in DOMAIN requests : ~Waits(r) => ~Waits(r)' BY <1>3 DEF Waits
    <2>3. /\ Len(requests') \in Nat /\ Len(requests) <= Len(requests')
          /\ DOMAIN requests' = 1..Len(requests')
        BY <1>3, ViewTyped
    <2>4. QED BY <1>2, <1>3, <2>1, <2>2, <2>3, DbQueueView
<1>5. failures' # 0 BY ViewTyped DEF DbFails
<1>6. QED BY <1>4, <1>5 DEF ViewInv, ViewsCome

\* No change of the tables
LEMMA AnswerView ==
    ASSUME IInv, ViewInv, dbQueue # <<>>, dbQueue' = Tail(dbQueue),
           UNCHANGED <<requests, friendships, sessions, toClient, views, counters>>,
           NEW req, req = Head(dbQueue),
           NEW res \in Result, results' = Append(results, res),
           res.req.op = req.op, res.req.by = req.by, res.req.login = req.login,
           res.shown \in TrueShown,
           req.op = "friendList" => res.friends = FriendsOf(req.by),
           req.op = "requestList" =>
               \A r \in DOMAIN requests :
                   requests[r].to = req.by => (res.shown[r] = "pending" <=> Waits(r)),
           req.op \in {"create", "accepted", "rejected"} => ~res.ok
    PROVE  ViewInv'
<1>1. /\ logins' = logins /\ conn' = conn /\ friendList' = friendList
      /\ requestList' = requestList /\ failures' = failures
    BY DEF sessions, views, counters
<1>2. QueueIsCurrent' /\ ShownIsTrue'
    <2>1. TrueShown' = TrueShown BY TrueShownSame
    <2>2. \A r \in DOMAIN requests : ~Waits(r) => ~Waits(r)' BY DEF Waits
    <2>3. /\ Len(requests') \in Nat /\ Len(requests) <= Len(requests')
          /\ DOMAIN requests' = 1..Len(requests')
        BY ViewTyped
    <2>4. QED BY <2>1, <2>2, <2>3, DbQueueView
<1>3. /\ req.login = logins[req.by]
      /\ req.op = "loadOffline" => (conn[req.by] = "up" => Asks(req.by, "requestList"))
    <2>1. PICK q \in Seq(DbRequest) : q = dbQueue BY ViewTyped
    <2>2. 1 \in 1..Len(q) /\ q[1] = req BY <2>1, Rest
    <2>3. QED BY <2>1, <2>2 DEF ViewInv, QueueIsCurrent
<1>4. SUFFICES ASSUME failures' = 0, NEW u \in Users, conn'[u] = "up"
               PROVE  FriendsCome(u)' /\ RequestsCome(u)'
    BY <1>2 DEF ViewInv, ViewsCome
<1>5. FriendsCome(u) /\ RequestsCome(u) BY <1>1, <1>4 DEF ViewInv, ViewsCome
<1>6. \A op : Asks(u, op) /\ ~(req.op = op /\ req.by = u) => Asks(u, op)'
    BY ViewTyped, AsksNotHead
<1>7. FriendsCome(u)'
    <2>1. FriendsOf(u)' = FriendsOf(u) BY DEF FriendsOf
    <2>2. CASE req.op = "friendList" /\ req.by = u
        <3>1. \A v \in FriendsOf(u) : res \in FriendResGood(u, v)'
            BY <1>1, <1>3, <2>2 DEF FriendResGood, Answers
        <3>2. \A v \in FriendsOf(u) : FriendComes(u, v)' BY <3>1, ViewTyped, FriendTold
        <3>3. QED BY <2>1, <3>2 DEF FriendsCome
    <2>3. CASE ~(req.op = "friendList" /\ req.by = u)
        <3>1. CASE Asks(u, "friendList") BY <1>6, <2>3, <3>1 DEF FriendsCome
        <3>2. CASE \A v \in FriendsOf(u) : FriendComes(u, v)
            <4>1. \A v : res \notin FriendResBad(u, v) BY <2>3 DEF FriendResBad, Answers
            <4>2. \A v \in FriendsOf(u) : FriendComes(u, v)'
                BY <1>1, <3>2, <4>1, ViewTyped, FriendNeutral
            <4>3. QED BY <2>1, <4>2 DEF FriendsCome
        <3>3. QED BY <1>5, <3>1, <3>2 DEF FriendsCome
    <2>4. QED BY <2>2, <2>3
<1>8. RequestsCome(u)'
    <2>1. \A r : Waits(r)' = Waits(r) BY DEF Waits
    <2>2. CASE req.op = "requestList" /\ req.by = u
        <3>1. ASSUME NEW r \in DOMAIN requests, requests[r].to = u
              PROVE  RequestComes(u, r)'
            <4>1. PICK w : w = Waits(r)' OBVIOUS
            <4>2. res.shown[r] = "pending" <=> w BY <2>1, <2>2, <3>1, <4>1
            <4>3. res \in RequestResGood(u, r, w)'
                BY <1>1, <1>3, <2>2, <4>2 DEF RequestResGood, ResListSays, Answers
            <4>4. QED BY <4>1, <4>3, ViewTyped, RequestTold
        <3>2. QED BY <3>1 DEF RequestsCome
    <2>3. CASE ~(req.op = "requestList" /\ req.by = u)
        <3>1. CASE Asks(u, "requestList") BY <1>6, <2>3, <3>1 DEF RequestsCome
        <3>2. CASE ~Asks(u, "requestList")
            <4>1. \A r, w : res \notin RequestResBad(u, r, w)
                <5>1. ~(req.op = "loadOffline" /\ req.by = u) BY <1>1, <1>3, <1>4, <3>2
                <5>2. \A r, w : ~ResListSays(res, u, r, w) BY <2>3 DEF ResListSays, Answers
                <5>3. \A r : ~Decided(res, r) /\ ~Created(res, r) BY DEF Decided, Created
                <5>4. \A r : ~Repeats(res, u, r) BY <5>1 DEF Repeats
                <5>5. QED BY <5>2, <5>3, <5>4 DEF RequestResBad
            <4>2. \A r \in DOMAIN requests : requests[r].to = u => RequestComes(u, r)
                BY <1>5, <3>2 DEF RequestsCome
            <4>3. \A r \in DOMAIN requests : requests[r].to = u => RequestComes(u, r)'
                BY <1>1, <2>1, <4>1, <4>2, ViewTyped, RequestNeutral
            <4>4. QED BY <4>3 DEF RequestsCome
        <3>3. QED BY <3>1, <3>2
    <2>4. QED BY <2>2, <2>3
<1>9. QED BY <1>7, <1>8

LEMMA AppendLast ==
    ASSUME NEW s, NEW S, s \in Seq(S), NEW x
    PROVE  Len(Append(s, x)) = Len(s) + 1 /\ Append(s, x)[Len(s) + 1] = x
OBVIOUS

LEMMA AppendedRow ==
    ASSUME NEW S, NEW s \in Seq(S), NEW x, Append(s, x) \in Seq(S)
    PROVE  x \in S
<1>1. PICK n \in Nat : n = Len(s) BY LenProperties
<1>2. PICK t \in Seq(S) : t = Append(s, x) OBVIOUS
<1>3. Len(t) = n + 1 /\ t[n + 1] = x BY <1>1, <1>2, AppendLast
<1>4. n + 1 \in 1..Len(t) BY <1>3
<1>5. QED BY <1>3, <1>4, ElementOfSeq

LEMMA CreateView ==
    ASSUME IInv, ViewInv, dbQueue # <<>>, dbQueue' = Tail(dbQueue),
           UNCHANGED <<users, sessions, toClient, views, counters>>,
           NEW req, req = Head(dbQueue), CreateFriendRequest(req), IInv'
    PROVE  ViewInv'
<1>1. PICK row : row = [from |-> req.by, to |-> req.to, status |-> "pending"] OBVIOUS
<1>2. PICK n \in Nat : n = Len(requests) BY ViewTyped
<1>3. PICK res : res = Answer(req, TRUE, n + 1, {}, NoneShown) OBVIOUS
<1>4. /\ req.op = "create" /\ requests' = Append(requests, row)
      /\ results' = Append(results, res) /\ friendships' = friendships
    BY <1>1, <1>2, <1>3 DEF CreateFriendRequest, Reply, Answer
<1>5. /\ res.ok /\ res.id = n + 1 /\ res.req.op = "create" /\ res.shown = NoneShown
    BY <1>3, <1>4 DEF Answer
<1>6. /\ logins' = logins /\ conn' = conn /\ toClient' = toClient /\ friendList' = friendList
      /\ requestList' = requestList /\ failures' = failures /\ UNCHANGED <<sessions, views>>
    BY DEF sessions, views, counters
<1>7. requests \in Seq(FriendRow) /\ requests' \in Seq(FriendRow) BY ViewTyped DEF IInv, TypeOK
<1>8. /\ Len(requests') = n + 1 /\ requests'[n + 1] = row
      /\ \A r \in 1..n : requests'[r] = requests[r]
      /\ DOMAIN requests = 1..n /\ DOMAIN requests' = 1..(n + 1)
      /\ \A r \in 1..(n + 1) : r \in 1..n \/ r = n + 1
    <2>1. Append(requests, row) \in Seq(FriendRow) BY <1>4, <1>7
    <2>2. row \in FriendRow BY <1>7, <2>1, AppendedRow
    <2>3. /\ Len(requests') = n + 1 /\ requests'[n + 1] = row
          /\ \A r \in 1..n : requests'[r] = requests[r]
        BY <1>2, <1>4, <1>7, <2>2, AppendProperties
    <2>4. DOMAIN requests = 1..n /\ DOMAIN requests' = 1..(n + 1)
        BY <1>2, <1>7, <2>3, LenProperties
    <2>5. QED BY <2>3, <2>4
<1>9. res \in Result
    <2>1. results' \in Seq(Result) BY DEF IInv, TypeOK
    <2>2. Append(results, res) \in Seq(Result) BY <1>4, <2>1
    <2>3. QED BY <2>2, ViewTyped, AppendedRow
<1>10. \A r \in 1..n : Waits(r)' = Waits(r) BY <1>8 DEF Waits
<1>11. QueueIsCurrent' /\ ShownIsTrue'
    <2>1. \A shown \in TrueShown : shown \in TrueShown'
        <3>1. DOMAIN requests \subseteq DOMAIN requests' BY <1>2, <1>8
        <3>2. \A r \in DOMAIN requests : ~Waits(r) => ~Waits(r)' BY <1>8, <1>10
        <3>3. QED BY <3>1, <3>2, StatusStays
    <2>2. res.shown \in TrueShown' BY <1>5, <2>1, NoneTrue
    <2>3. \A r \in DOMAIN requests : ~Waits(r) => ~Waits(r)' BY <1>8, <1>10
    <2>4. /\ Len(requests') \in Nat /\ Len(requests) <= Len(requests')
          /\ DOMAIN requests' = 1..Len(requests')
        BY <1>2, <1>8
    <2>5. QED BY <1>4, <1>6, <1>9, <2>2, <2>3, <2>4, DbQueueView
<1>12. SUFFICES ASSUME failures' = 0, NEW u \in Users, conn'[u] = "up"
                PROVE  FriendsCome(u)' /\ RequestsCome(u)'
    BY <1>11 DEF ViewInv, ViewsCome
<1>13. FriendsCome(u) /\ RequestsCome(u) BY <1>6, <1>12 DEF ViewInv, ViewsCome
<1>14. \A op : Asks(u, op) /\ op # "create" => Asks(u, op)' BY <1>4, <1>6, ViewTyped, AsksNotHead
<1>15. FriendsCome(u)'
    <2>1. CASE Asks(u, "friendList") BY <1>14, <2>1 DEF FriendsCome
    <2>2. CASE \A v \in FriendsOf(u) : FriendComes(u, v)
        <3>1. \A v : res \notin FriendResBad(u, v) BY <1>5 DEF FriendResBad, Answers
        <3>2. \A r \in Rows : requests'[r].from = requests[r].from /\ requests'[r].to = requests[r].to
            BY <1>2, <1>8 DEF Rows
        <3>3. \A v \in FriendsOf(u) : FriendComes(u, v)'
            BY <1>4, <1>6, <1>9, <2>2, <3>1, <3>2, ViewTyped, FriendNeutral
        <3>4. FriendsOf(u)' = FriendsOf(u) BY <1>4 DEF FriendsOf
        <3>5. QED BY <3>3, <3>4 DEF FriendsCome
    <2>3. QED BY <1>13, <2>1, <2>2 DEF FriendsCome
<1>16. RequestsCome(u)'
    <2>1. CASE Asks(u, "requestList") BY <1>14, <2>1 DEF RequestsCome
    <2>2. CASE \A r \in DOMAIN requests : requests[r].to = u => RequestComes(u, r)
        <3>1. ASSUME NEW r \in 1..(n + 1), requests'[r].to = u
              PROVE  RequestComes(u, r)'
            <4>1. CASE r \in 1..n
                <5>1. RequestComes(u, r) BY <1>8, <2>2, <3>1, <4>1
                <5>2. r # n + 1 BY <4>1
                <5>3. \A w : res \notin RequestResBad(u, r, w)
                    BY <1>5, <5>2 DEF RequestResBad, ResListSays, Answers, Decided, Created, Repeats
                <5>4. QED BY <1>4, <1>6, <1>9, <1>10, <4>1, <5>1, <5>3, ViewTyped, RequestNeutral
            <4>2. CASE r = n + 1
                <5>1. Waits(r)' = TRUE BY <1>1, <1>8, <4>2 DEF Waits
                <5>2. res \in RequestResGood(u, r, TRUE)'
                    BY <1>5, <1>9, <4>2 DEF RequestResGood, Created
                <5>3. QED BY <1>4, <1>9, <5>1, <5>2, ViewTyped, RequestTold
            <4>3. QED BY <1>8, <4>1, <4>2
        <3>2. QED BY <1>8, <3>1 DEF RequestsCome
    <2>3. QED BY <1>13, <2>1, <2>2 DEF RequestsCome
<1>17. QED BY <1>15, <1>16

LEMMA DecideView ==
    ASSUME IInv, ViewInv, dbQueue # <<>>, dbQueue' = Tail(dbQueue),
           UNCHANGED <<users, sessions, toClient, views, counters>>,
           NEW req, req = Head(dbQueue), DecideFriendRequest(req), IInv'
    PROVE  ViewInv'
<1>1. PICK res : res = Answer(req, TRUE, req.id, {}, NoneShown) OBVIOUS
<1>2. PICK pair : pair = {requests[req.id].from, requests[req.id].to} OBVIOUS
<1>3. /\ req.op \in {"accepted", "rejected"} /\ requests[req.id].to = req.by
      /\ requests' = [requests EXCEPT ![req.id].status = req.op]
      /\ friendships' = IF req.op = "accepted" THEN friendships \cup {pair} ELSE friendships
      /\ results' = Append(results, res)
    BY <1>1, <1>2 DEF DecideFriendRequest, MayDecide, Reply, Answer
<1>4. req \in DbRequest /\ req.by \in Users /\ req.id \in Rows
    <2>1. req \in RightRequests /\ req \in DbRequest BY HeadRight
    <2>2. QED BY <1>3, <2>1 DEF RightRequests, DbRequest
<1>5. /\ res.ok /\ res.id = req.id /\ res.req = req /\ res.req.op = req.op /\ res.shown = NoneShown
    BY <1>1 DEF Answer
<1>6. /\ logins' = logins /\ conn' = conn /\ toClient' = toClient /\ friendList' = friendList
      /\ requestList' = requestList /\ failures' = failures /\ UNCHANGED <<sessions, views>>
    BY DEF sessions, views, counters
<1>7. PICK n \in Nat : /\ n = Len(requests) /\ Rows = 1..n /\ DOMAIN requests = 1..n
                       /\ requests \in Seq(FriendRow)
    BY ViewTyped DEF Rows
<1>8. /\ \A r \in 1..n : r # req.id => requests'[r] = requests[r]
      /\ \A r \in 1..n : requests'[r].from = requests[r].from /\ requests'[r].to = requests[r].to
      /\ requests'[req.id].status = req.op
      /\ DOMAIN requests' = 1..n
    <2>1. requests[req.id] \in FriendRow BY <1>4, <1>7, ElementOfSeq
    <2>2. /\ requests'[req.id] = [requests[req.id] EXCEPT !.status = req.op]
          /\ DOMAIN requests' = 1..n /\ \A r \in 1..n : r # req.id => requests'[r] = requests[r]
        BY <1>3, <1>4, <1>7
    <2>3. /\ requests'[req.id].status = req.op /\ requests'[req.id].from = requests[req.id].from
          /\ requests'[req.id].to = requests[req.id].to
        BY <2>1, <2>2 DEF FriendRow
    <2>4. QED BY <2>2, <2>3
<1>9. Len(requests') = n
    <2>1. requests' \in Seq(FriendRow) BY DEF IInv, TypeOK
    <2>2. PICK m \in Nat : m = Len(requests') /\ DOMAIN requests' = 1..m BY <2>1, LenProperties
    <2>3. 1..m = 1..n BY <1>8, <2>2
    <2>4. m = n BY <2>3
    <2>5. QED BY <2>2, <2>4
<1>10. res \in Result
    <2>1. results' \in Seq(Result) BY DEF IInv, TypeOK
    <2>2. Append(results, res) \in Seq(Result) BY <1>3, <2>1
    <2>3. QED BY <2>2, ViewTyped, AppendedRow
<1>11. Waits(req.id)' = FALSE /\ \A r \in 1..n : r # req.id => Waits(r)' = Waits(r)
    <2>1. requests'[req.id].status # "pending" BY <1>3, <1>8
    <2>2. QED BY <1>8, <2>1 DEF Waits
<1>12. \A r \in DOMAIN requests : ~Waits(r) => ~Waits(r)' BY <1>7, <1>11
<1>13. QueueIsCurrent' /\ ShownIsTrue'
    <2>1. TrueShown \subseteq TrueShown' BY <1>7, <1>8, <1>12, StatusStays
    <2>2. res.shown \in TrueShown' BY <1>5, <2>1, NoneTrue
    <2>3. /\ Len(requests') \in Nat /\ Len(requests) <= Len(requests')
          /\ DOMAIN requests' = 1..Len(requests')
        BY <1>7, <1>8, <1>9
    <2>4. QED BY <1>3, <1>6, <1>10, <1>12, <2>2, <2>3, DbQueueView
<1>14. req.login = logins[req.by]
    <2>1. PICK q \in Seq(DbRequest) : q = dbQueue BY ViewTyped
    <2>2. 1 \in 1..Len(q) /\ q[1] = req BY <2>1, Rest
    <2>3. QED BY <2>1, <2>2 DEF ViewInv, QueueIsCurrent
<1>15. SUFFICES ASSUME failures' = 0, NEW u \in Users, conn'[u] = "up"
                PROVE  FriendsCome(u)' /\ RequestsCome(u)'
    BY <1>13 DEF ViewInv, ViewsCome
<1>16. FriendsCome(u) /\ RequestsCome(u) BY <1>6, <1>15 DEF ViewInv, ViewsCome
<1>17. \A op : Asks(u, op) /\ op # req.op => Asks(u, op)'
    BY <1>6, ViewTyped, AsksNotHead
<1>18. FriendsCome(u)'
    <2>1. CASE Asks(u, "friendList")
        <3>1. Asks(u, "friendList")' BY <1>3, <1>17, <2>1
        <3>2. QED BY <3>1 DEF FriendsCome
    <2>2. CASE \A v \in FriendsOf(u) : FriendComes(u, v)
        <3>1. \A v : res \notin FriendResBad(u, v) BY <1>3, <1>5 DEF FriendResBad, Answers
        <3>2. \A v \in FriendsOf(u) : FriendComes(u, v)'
            BY <1>3, <1>6, <1>7, <1>8, <1>10, <2>2, <3>1, ViewTyped, FriendNeutral
        <3>3. ASSUME NEW v \in Users, {u, v} \in friendships', {u, v} \notin friendships
              PROVE  FriendComes(u, v)'
            <4>1. req.op = "accepted" /\ {u, v} = pair BY <1>3, <3>3
            <4>2. {requests'[req.id].from, requests'[req.id].to} = {u, v}
                BY <1>2, <1>4, <1>7, <1>8, <4>1
            <4>3. res \in FriendResGood(u, v)'
                BY <1>5, <1>10, <4>1, <4>2 DEF FriendResGood
            <4>4. QED BY <1>3, <1>10, <4>3, ViewTyped, FriendTold
        <3>4. QED BY <3>2, <3>3 DEF FriendsCome, FriendsOf
    <2>3. QED BY <1>16, <2>1, <2>2 DEF FriendsCome
<1>19. RequestsCome(u)'
    <2>1. CASE Asks(u, "requestList")
        <3>1. Asks(u, "requestList")' BY <1>3, <1>17, <2>1
        <3>2. QED BY <3>1 DEF RequestsCome
    <2>2. CASE \A r \in DOMAIN requests : requests[r].to = u => RequestComes(u, r)
        <3>1. ASSUME NEW r \in 1..n, requests'[r].to = u
              PROVE  RequestComes(u, r)'
            <4>1. CASE r # req.id
                <5>1. RequestComes(u, r) BY <1>7, <1>8, <2>2, <3>1, <4>1
                <5>2. \A w : res \notin RequestResBad(u, r, w)
                    BY <1>3, <1>5, <4>1
                    DEF RequestResBad, ResListSays, Answers, Decided, Created, Repeats
                <5>3. Waits(r)' = Waits(r) BY <1>11, <4>1
                <5>4. QED BY <1>3, <1>6, <1>10, <5>1, <5>2, <5>3, ViewTyped, RequestNeutral
            <4>2. CASE r = req.id
                <5>1. u = req.by BY <1>3, <1>8, <3>1, <4>2
                <5>2. res \in RequestResGood(u, r, FALSE)'
                    BY <1>3, <1>5, <1>6, <1>10, <1>14, <4>2, <5>1 DEF RequestResGood, Decided
                <5>3. Waits(r)' = FALSE BY <1>11, <4>2
                <5>4. QED BY <1>3, <1>10, <5>2, <5>3, ViewTyped, RequestTold
            <4>3. QED BY <4>1, <4>2
        <3>2. QED BY <1>8, <3>1 DEF RequestsCome
    <2>3. QED BY <1>16, <2>1, <2>2 DEF RequestsCome
<1>20. QED BY <1>18, <1>19

\* A row of the offline queue is stored or removed
LEMMA RowsView ==
    ASSUME IInv, ViewInv, dbQueue # <<>>, dbQueue' = Tail(dbQueue),
           UNCHANGED <<requests, friendships, results, sessions, toClient, views, counters>>,
           Head(dbQueue).op \notin {"friendList", "requestList"}
    PROVE  ViewInv'
<1>1. /\ logins' = logins /\ conn' = conn /\ friendList' = friendList
      /\ requestList' = requestList /\ failures' = failures
    BY DEF sessions, views, counters
<1>2. QueueIsCurrent' /\ ShownIsTrue'
    <2>1. \A r \in DOMAIN requests : ~Waits(r) => ~Waits(r)' BY DEF Waits
    <2>2. /\ Len(requests') \in Nat /\ Len(requests) <= Len(requests')
          /\ DOMAIN requests' = 1..Len(requests')
        BY ViewTyped
    <2>3. QED BY <2>1, <2>2, DbQueueView
<1>3. SUFFICES ASSUME failures' = 0, NEW u \in Users, conn'[u] = "up"
               PROVE  FriendsCome(u)' /\ RequestsCome(u)'
    BY <1>2 DEF ViewInv, ViewsCome
<1>4. PICK h : h = Head(dbQueue).op OBVIOUS
<1>5. FriendsCome(u) /\ RequestsCome(u) BY <1>1, <1>3 DEF ViewInv, ViewsCome
<1>6. \A op : Asks(u, op) /\ op # h => Asks(u, op)' BY <1>4, ViewTyped, AsksNotHead
<1>7. h # "friendList" /\ h # "requestList" BY <1>4
<1>8. FriendsCome(u)'
    <2>1. CASE Asks(u, "friendList") BY <1>6, <1>7, <2>1 DEF FriendsCome
    <2>2. CASE \A v \in FriendsOf(u) : FriendComes(u, v)
        <3>1. (\A v \in FriendsOf(u) : FriendComes(u, v))' BY <1>1, <2>2, WordsKept
        <3>2. QED BY <3>1 DEF FriendsCome
    <2>3. QED BY <1>5, <2>1, <2>2 DEF FriendsCome
<1>9. RequestsCome(u)'
    <2>1. CASE Asks(u, "requestList") BY <1>6, <1>7, <2>1 DEF RequestsCome
    <2>2. CASE \A r \in DOMAIN requests : requests[r].to = u => RequestComes(u, r)
        <3>1. (\A r \in DOMAIN requests : requests[r].to = u => RequestComes(u, r))'
            BY <1>1, <2>2, WordsKept
        <3>2. QED BY <3>1 DEF RequestsCome
    <2>3. QED BY <1>5, <2>1, <2>2 DEF RequestsCome
<1>10. QED BY <1>8, <1>9

\* The list shows the status of every request that is addressed to the user
LEMMA ListTrue ==
    ASSUME IInv, NEW u, NEW shown, shown \in [RequestIds -> Status],
           \A r \in RequestIds : shown[r] = IF Involves(r, u) THEN requests[r].status ELSE "none"
    PROVE  /\ shown \in TrueShown
           /\ \A r \in DOMAIN requests :
                 r \in RequestIds /\ requests[r].to = u => (shown[r] = "pending" <=> Waits(r))
<1>1. \A r \in RequestIds : Involves(r, u) => r \in DOMAIN requests BY DEF Involves
<1>2. shown \in TrueShown BY <1>1 DEF TrueShown, Waits
<1>3. \A r \in DOMAIN requests : requests[r].to = u => Involves(r, u) BY DEF Involves
<1>4. QED BY <1>2, <1>3 DEF Waits

LEMMA RowsAreIds ==
    ASSUME IInv
    PROVE  DOMAIN requests \subseteq RequestIds
<1> USE FriendAssumption
<1>1. PICK n \in Nat : n = Len(requests) /\ DOMAIN requests = 1..n BY ViewTyped
<1>2. PICK c \in Nat : c = Cardinality(Creations(dbQueue)) BY ViewTyped, QueuedTyped
<1>3. n + c <= ops /\ ops \in 0..MaxOps BY <1>1, <1>2 DEF IInv, Counted, TypeOK
<1>4. n <= MaxOps BY <1>3
<1>5. QED BY <1>1, <1>4 DEF RequestIds

LEMMA DbStepView ==
    ASSUME IInv, ViewInv, DbStep, IInv'
    PROVE  ViewInv'
<1>1. PICK req : req = Head(dbQueue) OBVIOUS
<1>2. /\ dbQueue # <<>> /\ dbQueue' = Tail(dbQueue)
      /\ UNCHANGED <<users, sessions, toClient, views, counters>>
      /\ \/ CreateFriendRequest(req) \/ DecideFriendRequest(req) \/ Refused(req)
         \/ LoadFriendList(req) \/ LoadFriendRequestList(req) \/ OfflineQueueStep(req)
    BY <1>1 DEF DbStep
<1>3. req \in DbRequest /\ req.id \in 0..MaxOps /\ req.by \in Users /\ 0 \in 0..MaxOps
    <2>1. req \in DbRequest BY <1>1, <1>2, HeadRight
    <2>2. QED BY <2>1, FriendAssumption DEF DbRequest
<1>4. NoneShown \in [RequestIds -> Status] /\ NoneShown \in TrueShown BY BlankTyped, NoneTrue
<1>5. CASE CreateFriendRequest(req) BY <1>1, <1>2, <1>5, CreateView
<1>6. CASE DecideFriendRequest(req) BY <1>1, <1>2, <1>6, DecideView
<1>7. CASE Refused(req)
    <2>1. PICK res : res = Answer(req, FALSE, req.id, {}, NoneShown) OBVIOUS
    <2>2. /\ results' = Append(results, res) /\ UNCHANGED <<requests, friendships>>
          /\ req.op \in {"create", "accepted", "rejected"}
        BY <1>7, <2>1 DEF Refused, Reply, Answer
    <2>3. res \in Result BY <1>3, <1>4, <2>1, AnswerTyped
    <2>4. res.req = req /\ ~res.ok /\ res.shown = NoneShown BY <2>1 DEF Answer
    <2>5. QED BY <1>1, <1>2, <1>4, <2>2, <2>3, <2>4, AnswerView
<1>8. CASE LoadFriendList(req)
    <2>1. PICK res : res = Answer(req, TRUE, 0, FriendsOf(req.by), NoneShown) OBVIOUS
    <2>2. /\ results' = Append(results, res) /\ UNCHANGED <<requests, friendships>>
          /\ req.op = "friendList"
        BY <1>8, <2>1 DEF LoadFriendList, Reply, Answer
    <2>3. FriendsOf(req.by) \in SUBSET Users BY DEF FriendsOf
    <2>4. res \in Result BY <1>3, <1>4, <2>1, <2>3, AnswerTyped
    <2>5. res.req = req /\ res.shown = NoneShown /\ res.friends = FriendsOf(req.by)
        BY <2>1 DEF Answer
    <2>6. QED BY <1>1, <1>2, <1>4, <2>2, <2>4, <2>5, AnswerView
<1>9. CASE LoadFriendRequestList(req)
    <2>1. PICK shown : shown = [r \in RequestIds |->
                            IF Involves(r, req.by) THEN requests[r].status ELSE "none"]
        OBVIOUS
    <2>2. PICK res : res = Answer(req, TRUE, 0, {}, shown) OBVIOUS
    <2>3. /\ results' = Append(results, res) /\ UNCHANGED <<requests, friendships>>
          /\ req.op = "requestList"
        BY <1>9, <2>1, <2>2 DEF LoadFriendRequestList, Reply, Answer
    <2>4. res.req = req /\ res.shown = shown BY <2>2 DEF Answer
    <2>5. shown \in [RequestIds -> Status]
        <3>1. \A r \in DOMAIN requests : requests[r] \in FriendRow BY ViewTyped, ElementOfSeq
        <3>2. \A r \in RequestIds : Involves(r, req.by) => requests[r].status \in Status
            BY <3>1 DEF Involves, FriendRow
        <3>3. QED BY <2>1, <3>2 DEF Status
    <2>6. res \in Result BY <1>3, <2>2, <2>5, AnswerTyped
    <2>7. \A r \in RequestIds : shown[r] = IF Involves(r, req.by) THEN requests[r].status ELSE "none"
        BY <2>1
    <2>8. shown \in TrueShown BY <2>5, <2>7, ListTrue
    <2>9. \A r \in DOMAIN requests : requests[r].to = req.by => (shown[r] = "pending" <=> Waits(r))
        BY <2>5, <2>7, ListTrue, RowsAreIds
    <2>10. QED BY <1>1, <1>2, <2>3, <2>4, <2>6, <2>8, <2>9, AnswerView
<1>10. CASE OfflineQueueStep(req)
    <2>1. UNCHANGED <<requests, friendships>> BY <1>10 DEF OfflineQueueStep
    <2>2. CASE req.op = "loadOffline"
        <3>1. PICK q : q = [req EXCEPT !.notices = {n \in offlineRows : n.to = req.by}] OBVIOUS
        <3>2. PICK res : res = Answer(q, TRUE, 0, {}, NoneShown) OBVIOUS
        <3>3. results' = Append(results, res)
            BY <1>10, <2>2, <3>1, <3>2 DEF OfflineQueueStep, Answer
        <3>4. q \in DbRequest /\ q.op = req.op /\ q.by = req.by /\ q.login = req.login
            <4>1. {n \in offlineRows : n.to = req.by} \subseteq Notice BY DEF IInv, TypeOK
            <4>2. PICK S \in SUBSET Notice : S = {n \in offlineRows : n.to = req.by} BY <4>1
            <4>3. q = [req EXCEPT !.notices = S] BY <3>1, <4>2
            <4>4. QED BY <1>3, <4>3 DEF DbRequest
        <3>5. res \in Result BY <1>3, <1>4, <3>2, <3>4, AnswerTyped
        <3>6. res.req = q /\ res.shown = NoneShown BY <3>2 DEF Answer
        <3>7. QED BY <1>1, <1>2, <1>4, <2>1, <2>2, <3>3, <3>4, <3>5, <3>6, AnswerView
    <2>3. CASE req.op # "loadOffline"
        <3>1. results' = results /\ req.op \notin {"friendList", "requestList"}
            BY <1>10, <2>3 DEF OfflineQueueStep
        <3>2. QED BY <1>1, <1>2, <2>1, <3>1, RowsView
    <2>4. QED BY <2>2, <2>3
<1>11. QED BY <1>2, <1>5, <1>6, <1>7, <1>8, <1>9, <1>10

(***************************************************************************)
(* A result becomes packets                                                *)
(***************************************************************************)

\* What ps tells u about its friends, and about the requests it may decide, is what res knew
TellsFriends(res, u, ps) ==
    \A v \in Users :
        /\ res \notin FriendResBad(u, v) \/ res \in FriendResGood(u, v) => Clean(ps, FriendBad(v))
        /\ res \in FriendResGood(u, v) => \E i \in 1..Len(ps) : ps[i] \in FriendGood(v)

TellsRequests(res, u, ps) ==
    \A r \in DOMAIN requests : requests[r].to = u =>
        /\ res \notin RequestResBad(u, r, Waits(r)) \/ res \in RequestResGood(u, r, Waits(r)) =>
              Clean(ps, RequestBad(r, Waits(r)))
        /\ res \in RequestResGood(u, r, Waits(r)) =>
              \E i \in 1..Len(ps) : ps[i] \in RequestGood(r, Waits(r))

LEMMA FriendPackets ==
    ASSUME NEW u, NEW v \in Users, FriendComes(u, v), NEW res, res = Head(results),
           results \in Seq(Result), results # <<>>, results' = Tail(results),
           UNCHANGED <<requests, logins, friendList>>, toClient[u] \in Seq(ToClient),
           NEW ps \in Seq(ToClient), toClient'[u] = toClient[u] \o ps, TellsFriends(res, u, ps)
    PROVE  FriendComes(u, v)'
<1>1. PICK a, b : a = FriendResGood(u, v) /\ b = FriendResBad(u, v) OBVIOUS
<1>2. PICK wire \in Seq(ToClient) : wire = toClient[u] OBVIOUS
<1>3. PICK rs \in Seq(Result) : rs = results OBVIOUS
<1>4. LastWord(rs, a, b, wire, FriendGood(v), FriendBad(v), v \in friendList[u])
    BY <1>1, <1>2, <1>3 DEF FriendComes
<1>5. /\ Head(rs) \notin b \/ Head(rs) \in a => Clean(ps, FriendBad(v))
      /\ Head(rs) \in a => \E i \in 1..Len(ps) : ps[i] \in FriendGood(v)
    BY <1>1, <1>3 DEF TellsFriends
<1>6. rs # <<>> BY <1>3
<1>7. LastWord(Tail(rs), a, b, wire \o ps, FriendGood(v), FriendBad(v), v \in friendList[u])
    BY <1>4, <1>5, <1>6, ResultToPackets
<1>8. FriendResGood(u, v)' = a /\ FriendResBad(u, v)' = b BY <1>1, SameSets
<1>9. LastWord(results', a, b, toClient'[u], FriendGood(v), FriendBad(v), v \in friendList'[u])
    BY <1>2, <1>3, <1>7
<1>10. QED BY <1>8, <1>9 DEF FriendComes

LEMMA RequestPackets ==
    ASSUME NEW u, NEW r \in DOMAIN requests, requests[r].to = u, RequestComes(u, r),
           NEW res, res = Head(results),
           results \in Seq(Result), results # <<>>, results' = Tail(results),
           UNCHANGED <<requests, logins, requestList>>, toClient[u] \in Seq(ToClient),
           NEW ps \in Seq(ToClient), toClient'[u] = toClient[u] \o ps, TellsRequests(res, u, ps)
    PROVE  RequestComes(u, r)'
<1>1. PICK w : w = Waits(r) OBVIOUS
<1>2. PICK a, b : a = RequestResGood(u, r, w) /\ b = RequestResBad(u, r, w) OBVIOUS
<1>3. PICK wire \in Seq(ToClient) : wire = toClient[u] OBVIOUS
<1>4. PICK rs \in Seq(Result) : rs = results OBVIOUS
<1>5. LastWord(rs, a, b, wire, RequestGood(r, w), RequestBad(r, w),
               requestList[u][r] = "pending" <=> w)
    BY <1>1, <1>2, <1>3, <1>4 DEF RequestComes
<1>6. /\ Head(rs) \notin b \/ Head(rs) \in a => Clean(ps, RequestBad(r, w))
      /\ Head(rs) \in a => \E i \in 1..Len(ps) : ps[i] \in RequestGood(r, w)
    BY <1>1, <1>2, <1>4 DEF TellsRequests
<1>7. rs # <<>> BY <1>4
<1>8. LastWord(Tail(rs), a, b, wire \o ps, RequestGood(r, w), RequestBad(r, w),
               requestList[u][r] = "pending" <=> w)
    BY <1>5, <1>6, <1>7, ResultToPackets
<1>9. /\ RequestResGood(u, r, w)' = a /\ RequestResBad(u, r, w)' = b /\ Waits(r)' = w
    BY <1>1, <1>2, SameSets
<1>10. LastWord(results', a, b, toClient'[u], RequestGood(r, w), RequestBad(r, w),
                requestList'[u][r] = "pending" <=> w)
    BY <1>3, <1>4, <1>8
<1>11. QED BY <1>9, <1>10 DEF RequestComes

LEMMA ShownTold ==
    ASSUME ViewInv, NEW u \in Users, toClient[u] \in Seq(ToClient), NEW ps \in Seq(ToClient),
           \A i \in 1..Len(ps) : ps[i].shown \in TrueShown, NEW wire, wire = Written(u, ps)
    PROVE  \A i \in 1..Len(wire) : wire[i].shown \in TrueShown
<1>1. PICK s \in Seq(ToClient) : s = toClient[u] OBVIOUS
<1>2. PICK m \in Nat : m = Len(s) BY LenProperties
<1>3. PICK n \in Nat : n = Len(ps) BY LenProperties
<1>4. \A i \in 1..m : s[i].shown \in TrueShown BY <1>1, <1>2 DEF ViewInv, ShownIsTrue
<1>5. CASE wire = s BY <1>2, <1>4, <1>5
<1>6. CASE wire = s \o ps
    <2>1. /\ Len(wire) = m + n
          /\ \A i \in 1..m : wire[i] = s[i]
          /\ \A i \in 1..(m + n) : i \in 1..m \/ i - m \in 1..n
          /\ \A i \in 1..(m + n) : i \notin 1..m => wire[i] = ps[i - m]
        BY <1>2, <1>3, <1>6, Longer
    <2>2. \A i \in 1..(m + n) : i \notin 1..m => wire[i].shown \in TrueShown BY <1>3, <2>1
    <2>3. QED BY <1>4, <2>1, <2>2
<1>7. QED BY <1>1, <1>5, <1>6 DEF Written

LEMMA ResultView ==
    ASSUME IInv, ViewInv, results # <<>>, results' = Tail(results),
           UNCHANGED <<serverTables, sessions, views, counters>>,
           NEW res, res = Head(results),
           NEW more \in Seq(DbRequest), dbQueue' = dbQueue \o more,
           \A i \in 1..Len(more) : /\ more[i].login = logins[more[i].by]
                                   /\ more[i].op # "loadOffline",
           NEW told, \A u \in Users : told[u] \in Seq(ToClient) /\ toClient'[u] = Written(u, told[u]),
           \A u \in Users : \A i \in 1..Len(told[u]) : told[u][i].shown \in TrueShown,
           \A u \in Users : TellsFriends(res, u, told[u]) /\ TellsRequests(res, u, told[u])
    PROVE  ViewInv'
<1>1. /\ requests' = requests /\ friendships' = friendships /\ logins' = logins /\ conn' = conn
      /\ friendList' = friendList /\ requestList' = requestList /\ failures' = failures
    BY DEF serverTables, sessions, views, counters
<1>2. dbQueue \in Seq(DbRequest) /\ results \in Seq(Result) BY ViewTyped
<1>3. ASSUME NEW u \in Users, conn[u] = "up"
      PROVE  /\ toClient'[u] = toClient[u] \o told[u] /\ toClient[u] \in Seq(ToClient)
             /\ \A op : Asks(u, op) => Asks(u, op)'
    <2>1. PICK ps \in Seq(ToClient) : ps = told[u] OBVIOUS
    <2>2. toClient'[u] = toClient[u] \o ps /\ toClient[u] \in Seq(ToClient)
        BY <1>3, <2>1, ViewTyped DEF Written
    <2>3. \A op : Asks(u, op) => Asks(u, op)' BY <1>2, <2>2, AsksGrow
    <2>4. QED BY <2>1, <2>2, <2>3
<1>4. QueueIsCurrent'
    <2>1. QueueIsCurrent BY DEF ViewInv
    <2>2. QED BY <1>2, <1>3, <2>1, QueuePosted
<1>5. ShownIsTrue'
    <2>1. TrueShown' = TrueShown BY <1>1, TrueShownSame
    <2>2. \A u \in Users : \A i \in 1..Len(toClient'[u]) : toClient'[u][i].shown \in TrueShown
        <3>1. SUFFICES ASSUME NEW u \in Users
                       PROVE  \A i \in 1..Len(toClient'[u]) : toClient'[u][i].shown \in TrueShown
            OBVIOUS
        <3>2. PICK ps \in Seq(ToClient) : ps = told[u] OBVIOUS
        <3>3. PICK wire : wire = toClient'[u] OBVIOUS
        <3>4. wire = Written(u, ps) /\ \A i \in 1..Len(ps) : ps[i].shown \in TrueShown
            BY <3>2, <3>3
        <3>5. \A i \in 1..Len(wire) : wire[i].shown \in TrueShown BY <3>4, ViewTyped, ShownTold
        <3>6. QED BY <3>3, <3>5
    <2>3. \A i \in 1..Len(results') : results'[i].shown \in TrueShown
        <3>1. PICK rs \in Seq(Result) : rs = results BY <1>2
        <3>2. PICK n \in Nat : n = Len(rs) BY LenProperties
        <3>3. Len(Tail(rs)) = n - 1 /\ \A i \in 1..(n - 1) : i + 1 \in 1..n /\ Tail(rs)[i] = rs[i + 1]
            BY <3>1, <3>2, Rest
        <3>4. \A i \in 1..n : rs[i].shown \in TrueShown BY <3>1, <3>2 DEF ViewInv, ShownIsTrue
        <3>5. QED BY <3>1, <3>3, <3>4
    <2>4. QED BY <1>1, <2>1, <2>2, <2>3 DEF ViewInv, ShownIsTrue
<1>6. SUFFICES ASSUME failures' = 0, NEW u \in Users, conn'[u] = "up"
               PROVE  FriendsCome(u)' /\ RequestsCome(u)'
    BY <1>4, <1>5 DEF ViewInv, ViewsCome
<1>7. FriendsCome(u) /\ RequestsCome(u) BY <1>1, <1>6 DEF ViewInv, ViewsCome
<1>8. PICK ps \in Seq(ToClient) : ps = told[u] OBVIOUS
<1>9. /\ toClient'[u] = toClient[u] \o ps /\ toClient[u] \in Seq(ToClient)
      /\ \A op : Asks(u, op) => Asks(u, op)'
      /\ TellsFriends(res, u, ps) /\ TellsRequests(res, u, ps)
    BY <1>1, <1>3, <1>6, <1>8
<1>10. FriendsCome(u)'
    <2>1. CASE Asks(u, "friendList") BY <1>9, <2>1 DEF FriendsCome
    <2>2. CASE \A v \in FriendsOf(u) : FriendComes(u, v)
        <3>1. \A v \in FriendsOf(u) : v \in Users BY DEF FriendsOf
        <3>2. \A v \in FriendsOf(u) : FriendComes(u, v)'
            BY <1>1, <1>2, <1>9, <2>2, <3>1, FriendPackets
        <3>3. FriendsOf(u)' = FriendsOf(u) BY <1>1 DEF FriendsOf
        <3>4. QED BY <3>2, <3>3 DEF FriendsCome
    <2>3. QED BY <1>7, <2>1, <2>2 DEF FriendsCome
<1>11. RequestsCome(u)'
    <2>1. CASE Asks(u, "requestList") BY <1>9, <2>1 DEF RequestsCome
    <2>2. CASE \A r \in DOMAIN requests : requests[r].to = u => RequestComes(u, r)
        <3>1. \A r \in DOMAIN requests : requests[r].to = u => RequestComes(u, r)'
            BY <1>1, <1>2, <1>9, <2>2, RequestPackets
        <3>2. QED BY <1>1, <3>1 DEF RequestsCome
    <2>3. QED BY <1>7, <2>1, <2>2 DEF RequestsCome
<1>12. QED BY <1>10, <1>11

(***************************************************************************)
(* The packets of an acknowledgement and of its notices                    *)
(***************************************************************************)

Told(req, packet, N, u) ==
    ToSession(req, packet)[u] \o NoticePackets(SetToSeq({n \in N : n.to = u}))

\* The session that asked is there, and the acknowledgement is one it is sent
Acked(req, packet, u) ==
    /\ u = req.by /\ req.login = logins[u]
    /\ packet.ok \/ req.op \in {"friendList", "requestList"}

Has(s, p) == \E i \in 1..Len(s) : s[i] = p

OnlyTells(s, req, packet, N, u) ==
    \A i \in 1..Len(s) :
        \/ s[i] = packet /\ Acked(req, packet, u)
        \/ \E n \in N : n.to = u /\ s[i] = NoticePacket(n)

\* SetToSeq lists all of a set
LEMMA AllListed ==
    ASSUME NEW S, IsFiniteSet(S)
    PROVE  SetToSeq(S) \in Seq(S) /\ \A x \in S : \E i \in 1..Len(SetToSeq(S)) : SetToSeq(S)[i] = x
<1>1. PICK c \in Nat : c = Cardinality(S) /\ ExistsBijection(1..c, S)
    BY FS_CardinalityType
<1>2. \E f \in [1..c -> S] : IsInjective(f)
    BY <1>1 DEF ExistsBijection, Bijection, Injection
<1>3. PICK s : s = SetToSeq(S) OBVIOUS
<1>4. s \in [1..c -> S] /\ IsInjective(s)
    BY <1>1, <1>2, <1>3, Zenon DEF SetToSeq
<1>5. s \in Injection(1..c, S) BY <1>4 DEF Injection
<1>6. Cardinality(1..c) = c
    <2>1. Cardinality(1..c) = IF 1 > c THEN 0 ELSE c - 1 + 1 BY FS_Interval
    <2>2. QED BY <2>1
<1>7. s \in Surjection(1..c, S) BY <1>1, <1>5, <1>6, FS_Injection
<1>8. \A x \in S : \E i \in 1..c : s[i] = x BY <1>7 DEF Surjection
<1>9. s \in Seq(S) /\ Len(s) = c BY <1>1, <1>4, SeqDef, LenProperties
<1>10. QED BY <1>3, <1>8, <1>9

LEMMA NoticesTold ==
    ASSUME NEW S, S \subseteq RightNotices, NEW s \in Seq(S)
    PROVE  /\ NoticePackets(s) \in Seq(ToClient) /\ Len(NoticePackets(s)) = Len(s)
           /\ \A i \in 1..Len(s) : s[i] \in S /\ NoticePackets(s)[i] = NoticePacket(s[i])
<1>1. Len(s) \in Nat /\ DOMAIN s = 1..Len(s) /\ \A i \in 1..Len(s) : s[i] \in S
    BY LenProperties, ElementOfSeq
<1>2. NoticePackets(s) \in [1..Len(s) -> ToClient]
    BY <1>1, NoticeRight DEF NoticePackets
<1>3. NoticePackets(s) \in Seq(ToClient) /\ Len(NoticePackets(s)) = Len(s)
    BY <1>1, <1>2, SeqDef, LenProperties
<1>4. QED BY <1>1, <1>3 DEF NoticePackets

LEMMA ToldPackets ==
    ASSUME NEW req, NEW packet \in ToClient, NEW N, N \subseteq RightNotices, IsFiniteSet(N),
           NEW u \in Users
    PROVE  /\ Told(req, packet, N, u) \in Seq(ToClient)
           /\ OnlyTells(Told(req, packet, N, u), req, packet, N, u)
           /\ Acked(req, packet, u) => Has(Told(req, packet, N, u), packet)
           /\ \A n \in N : n.to = u => Has(Told(req, packet, N, u), NoticePacket(n))
<1>1. PICK S : S = {n \in N : n.to = u} OBVIOUS
<1>2. S \subseteq RightNotices /\ \A n \in S : n \in N /\ n.to = u BY <1>1
<1>3. IsFiniteSet(S) BY <1>1, SubsetFinite
<1>4. PICK s \in Seq(S) : s = SetToSeq(S) /\ \A n \in S : \E i \in 1..Len(s) : s[i] = n
    BY <1>3, AllListed
<1>5. PICK w \in Seq(ToClient) :
         w = NoticePackets(s) /\ Len(w) = Len(s)
         /\ \A i \in 1..Len(s) : s[i] \in S /\ w[i] = NoticePacket(s[i])
    BY <1>2, NoticesTold
<1>6. PICK a \in Seq(ToClient) :
         /\ a = ToSession(req, packet)[u]
         /\ (a = <<packet>> /\ Acked(req, packet, u)) \/ (a = <<>> /\ ~Acked(req, packet, u))
    <2>1. PICK a : a = ToSession(req, packet)[u] OBVIOUS
    <2>2. (a = <<packet>> /\ Acked(req, packet, u)) \/ (a = <<>> /\ ~Acked(req, packet, u))
        BY <2>1 DEF ToSession, Acked
    <2>3. a \in Seq(ToClient)
        <3>1. CASE a = <<packet>> BY <3>1
        <3>2. CASE a = <<>> BY <3>2, EmptySeq
        <3>3. QED BY <2>2, <3>1, <3>2
    <2>4. QED BY <2>1, <2>2, <2>3
<1>7. PICK t : t = a \o w OBVIOUS
<1>8. t = Told(req, packet, N, u) BY <1>1, <1>4, <1>5, <1>6, <1>7 DEF Told
<1>9. PICK m, n \in Nat : m = Len(a) /\ n = Len(w) BY LenProperties
<1>10. /\ t \in Seq(ToClient) /\ Len(t) = m + n
       /\ \A i \in 1..m : i \in 1..(m + n) /\ t[i] = a[i]
       /\ \A i \in 1..n : m + i \in 1..(m + n) /\ t[m + i] = w[i]
       /\ \A i \in 1..(m + n) : i \in 1..m \/ i - m \in 1..n
       /\ \A i \in 1..(m + n) : i \notin 1..m => t[i] = w[i - m]
    BY <1>7, <1>9, Longer
<1>11. \A i \in 1..m : a[i] = packet /\ Acked(req, packet, u)
    <2>1. CASE a = <<packet>> /\ Acked(req, packet, u) BY <1>9, <2>1
    <2>2. CASE a = <<>> BY <1>9, <2>2
    <2>3. QED BY <1>6, <2>1, <2>2
<1>12. \A i \in 1..n : \E x \in N : x.to = u /\ w[i] = NoticePacket(x)
    BY <1>2, <1>5, <1>9
<1>13. \A i \in 1..(m + n) :
          \/ t[i] = packet /\ Acked(req, packet, u)
          \/ \E x \in N : x.to = u /\ t[i] = NoticePacket(x)
    <2>1. ASSUME NEW i \in 1..(m + n), i \notin 1..m
          PROVE  \E x \in N : x.to = u /\ t[i] = NoticePacket(x)
        <3>1. PICK k \in 1..n : k = i - m /\ t[i] = w[k] BY <1>10, <2>1
        <3>2. QED BY <1>12, <3>1
    <2>2. QED BY <1>10, <1>11, <2>1
<1>14. Acked(req, packet, u) => \E i \in 1..(m + n) : t[i] = packet
    <2>1. SUFFICES ASSUME Acked(req, packet, u) PROVE \E i \in 1..(m + n) : t[i] = packet
        OBVIOUS
    <2>2. a = <<packet>> BY <1>6, <2>1
    <2>3. m = 1 /\ a[1] = packet BY <1>9, <2>2
    <2>4. QED BY <1>10, <2>3
<1>15. \A x \in N : x.to = u => \E i \in 1..(m + n) : t[i] = NoticePacket(x)
    <2>1. SUFFICES ASSUME NEW x \in N, x.to = u
                   PROVE  \E i \in 1..(m + n) : t[i] = NoticePacket(x)
        OBVIOUS
    <2>2. x \in S BY <1>1, <2>1
    <2>3. PICK k \in 1..n : s[k] = x BY <1>4, <1>5, <1>9, <2>2
    <2>4. w[k] = NoticePacket(x) BY <1>5, <1>9, <2>3
    <2>5. QED BY <1>10, <2>4
<1>16. /\ OnlyTells(t, req, packet, N, u) /\ (Acked(req, packet, u) => Has(t, packet))
       /\ \A x \in N : x.to = u => Has(t, NoticePacket(x))
    BY <1>10, <1>13, <1>14, <1>15 DEF OnlyTells, Has
<1>17. QED BY <1>8, <1>10, <1>16

LEMMA NoticePacketShape ==
    ASSUME NEW n \in RightNotices
    PROVE  /\ NoticePacket(n).shown = NoneShown /\ NoticePacket(n).id = n.id
           /\ NoticePacket(n).kind = n.kind
           /\ n.kind = "friendChanged" => NoticePacket(n).friends = {n.friend}
           /\ n.kind \in {"friendRequestNotify", "friendChanged"}
<1>1. n.kind \in {"friendRequestNotify", "friendChanged"} BY DEF RightNotices, Notice
<1>2. CASE n.kind = "friendRequestNotify"
    <2>1. NoticePacket(n) = [kind |-> "friendRequestNotify", ok |-> TRUE, id |-> n.id, op |-> "none",
                             friends |-> {}, shown |-> NoneShown]
        BY <1>2 DEF NoticePacket, Blank
    <2>2. QED BY <1>1, <1>2, <2>1
<1>3. CASE n.kind = "friendChanged"
    <2>1. NoticePacket(n) = [kind |-> "friendChanged", ok |-> TRUE, id |-> n.id, op |-> "none",
                             friends |-> {n.friend}, shown |-> NoneShown]
        BY <1>3 DEF NoticePacket, Blank
    <2>2. QED BY <1>1, <1>3, <2>1
<1>4. QED BY <1>1, <1>2, <1>3

LEMMA FunctionSeq ==
    ASSUME NEW S, NEW n \in Nat, NEW f \in [1..n -> S]
    PROVE  f \in Seq(S) /\ Len(f) = n
BY SeqDef, LenProperties

\* What is posted for the users that are not there
Queued(s) == [i \in DOMAIN s |-> DbReq("queueOffline", s[i].to, NoUser, 0, {s[i]})]

LEMMA AwayPosted ==
    ASSUME IInv, NEW S, S \subseteq RightNotices, NEW s \in Seq(S)
    PROVE  /\ Queued(s) \in Seq(DbRequest)
           /\ \A i \in 1..Len(Queued(s)) : /\ Queued(s)[i].login = logins[Queued(s)[i].by]
                                           /\ Queued(s)[i].op # "loadOffline"
<1>1. /\ Len(s) \in Nat /\ DOMAIN s = 1..Len(s) /\ \A i \in 1..Len(s) : s[i] \in S
    BY LenProperties, ElementOfSeq
<1>2. ASSUME NEW i \in 1..Len(s)
      PROVE  /\ Queued(s)[i] \in DbRequest /\ Queued(s)[i].login = logins[Queued(s)[i].by]
             /\ Queued(s)[i].op # "loadOffline"
    <2>1. PICK n : n = s[i] OBVIOUS
    <2>2. n \in RightNotices /\ n.to \in Users /\ {n} \in SUBSET RightNotices
        BY <1>1, <2>1 DEF RightNotices, Notice
    <2>3. PICK q : q = DbReq("queueOffline", n.to, NoUser, 0, {n}) OBVIOUS
    <2>4. q \in RightRequests BY <2>2, <2>3, PostedRight
    <2>5. q.login = logins[q.by] /\ q.op # "loadOffline" BY <2>3 DEF DbReq
    <2>6. q \in DbRequest BY <2>4 DEF RightRequests
    <2>7. Queued(s)[i] = q BY <1>1, <2>1, <2>3 DEF Queued
    <2>8. QED BY <2>5, <2>6, <2>7
<1>3. PICK n \in Nat : n = Len(s) BY <1>1
<1>4. Queued(s) = [i \in 1..n |-> Queued(s)[i]] BY <1>1, <1>3 DEF Queued
<1>5. PICK f : f = Queued(s) OBVIOUS
<1>6. f \in [1..n -> DbRequest] BY <1>2, <1>3, <1>4, <1>5
<1>7. f \in Seq(DbRequest) /\ Len(f) = n BY <1>6, FunctionSeq
<1>8. QED BY <1>2, <1>3, <1>5, <1>7

LEMMA AckView ==
    ASSUME IInv, ViewInv, results # <<>>, results' = Tail(results),
           UNCHANGED <<serverTables, sessions, views, counters>>,
           NEW res, res = Head(results), NEW packet \in ToClient, packet.shown \in TrueShown,
           NEW N, N \subseteq RightNotices, IsFiniteSet(N), AckAndNotify(res.req, packet, N),
           \A u \in Users : /\ TellsFriends(res, u, Told(res.req, packet, N, u))
                            /\ TellsRequests(res, u, Told(res.req, packet, N, u))
    PROVE  ViewInv'
<1>1. PICK req : req = res.req OBVIOUS
<1>2. PICK told : told = [u \in Users |-> Told(req, packet, N, u)] OBVIOUS
<1>3. \A u \in Users : told[u] \in Seq(ToClient) /\ toClient'[u] = Written(u, told[u])
    <2>1. SUFFICES ASSUME NEW u \in Users
                   PROVE  told[u] \in Seq(ToClient) /\ toClient'[u] = Written(u, told[u])
        OBVIOUS
    <2>2. PICK t : t = Told(req, packet, N, u) OBVIOUS
    <2>3. t \in Seq(ToClient) BY <2>2, ToldPackets
    <2>4. toClient'[u] = Written(u, t) BY <1>1, <2>2 DEF AckAndNotify, Told
    <2>5. QED BY <1>2, <2>2, <2>3, <2>4
<1>4. \A u \in Users : \A i \in 1..Len(told[u]) : told[u][i].shown \in TrueShown
    <2>1. SUFFICES ASSUME NEW u \in Users
                   PROVE  \A i \in 1..Len(told[u]) : told[u][i].shown \in TrueShown
        OBVIOUS
    <2>2. PICK t : t = Told(req, packet, N, u) OBVIOUS
    <2>3. \A i \in 1..Len(t) : t[i] = packet \/ \E n \in N : t[i] = NoticePacket(n)
        <3>1. OnlyTells(t, req, packet, N, u) BY <2>2, ToldPackets
        <3>2. QED BY <3>1 DEF OnlyTells
    <2>4. \A n \in N : NoticePacket(n).shown \in TrueShown BY NoticePacketShape, NoneTrue
    <2>5. \A i \in 1..Len(t) : t[i].shown \in TrueShown BY <2>3, <2>4
    <2>6. QED BY <1>2, <2>2, <2>5
<1>5. \A u \in Users : TellsFriends(res, u, told[u]) /\ TellsRequests(res, u, told[u])
    BY <1>1, <1>2
<1>6. PICK away : away = {n \in N : ~Online(n.to)} OBVIOUS
<1>7. PICK s \in SetToSeqs(away) : dbQueue' = dbQueue \o Queued(s)
    BY <1>6 DEF AckAndNotify, Post, Queued
<1>8. away \subseteq RightNotices /\ IsFiniteSet(away) BY <1>6, SubsetFinite
<1>9. s \in Seq(away) BY <1>8, SetAsSeqs
<1>10. PICK more : more = Queued(s) OBVIOUS
<1>11. /\ more \in Seq(DbRequest)
       /\ \A i \in 1..Len(more) : more[i].login = logins[more[i].by] /\ more[i].op # "loadOffline"
    BY <1>8, <1>9, <1>10, AwayPosted
<1>12. dbQueue' = dbQueue \o more BY <1>7, <1>10
<1>13. QED BY <1>3, <1>4, <1>5, <1>11, <1>12, ResultView

LEMMA OfflineLoadedView ==
    ASSUME IInv, ViewInv, results # <<>>, results' = Tail(results),
           UNCHANGED <<serverTables, sessions, views, counters>>,
           NEW res, res = Head(results), OnOfflineLoaded(res)
    PROVE  ViewInv'
<1>1. /\ res \in Result /\ res.req.by \in Users /\ res.req.op = "loadOffline"
      /\ res.req.notices \subseteq RightNotices /\ \A n \in res.req.notices : n.to = res.req.by
    <2>1. res \in Result /\ res.req \in RightRequests /\ RightAnswer(res) /\ res.req.by \in Users
        BY FirstResult
    <2>2. QED BY <2>1 DEF RightRequests, RightAnswer, OnOfflineLoaded
<1>2. PICK w \in Users : w = res.req.by BY <1>1
<1>3. /\ \A u, v : res \notin FriendResGood(u, v)
      /\ \A u, r, x : res \notin RequestResGood(u, r, x)
    BY <1>1 DEF FriendResGood, RequestResGood, Answers, ResListSays, Created, Decided
<1>4. CASE Online(w) /\ res.req.notices # {}
    <2>1. PICK s \in SetToSeqs(res.req.notices) :
             toClient' = [toClient EXCEPT ![w] = Written(w, NoticePackets(s))]
        BY <1>2, <1>4 DEF OnOfflineLoaded
    <2>2. PICK q : q = DbReq("markOfflineDelivered", w, NoUser, 0, res.req.notices) OBVIOUS
    <2>3. dbQueue' = dbQueue \o <<q>> BY <1>2, <1>4, <2>2 DEF OnOfflineLoaded, Post
    <2>4. q \in RightRequests /\ q.login = logins[q.by] /\ q.op # "loadOffline"
        BY <1>1, <2>2, PostedRight DEF DbReq
    <2>5. PICK more : more = <<q>> OBVIOUS
    <2>6. more \in Seq(DbRequest) /\ \A i \in 1..Len(more) : more[i] = q
        BY <2>4, <2>5 DEF RightRequests
    <2>7. IsFiniteSet(res.req.notices)
        <3>1. res.req.notices \subseteq Notice BY <1>1 DEF RightNotices
        <3>2. QED BY <3>1, NoticeFinite, SubsetFinite
    <2>8. s \in Seq(res.req.notices) BY <2>7, SetAsSeqs
    <2>9. PICK ps \in Seq(ToClient) :
             /\ ps = NoticePackets(s) /\ Len(ps) = Len(s)
             /\ \A i \in 1..Len(s) : s[i] \in res.req.notices /\ ps[i] = NoticePacket(s[i])
        BY <1>1, <2>8, NoticesTold
    <2>10. \A i \in 1..Len(ps) : \E n \in res.req.notices :
              /\ ps[i].kind = n.kind /\ ps[i].id = n.id /\ ps[i].shown = NoneShown
              /\ n.kind \in {"friendRequestNotify", "friendChanged"}
        BY <1>1, <2>9, NoticePacketShape
    <2>11. PICK told : told = [u \in Users |-> IF u = w THEN ps ELSE <<>>] OBVIOUS
    <2>12. \A u \in Users : (u = w /\ told[u] = ps) \/ (u # w /\ told[u] = <<>>) BY <2>11
    <2>13. \A u \in Users : told[u] \in Seq(ToClient) /\ toClient'[u] = Written(u, told[u])
        <3>1. SUFFICES ASSUME NEW u \in Users
                       PROVE  told[u] \in Seq(ToClient) /\ toClient'[u] = Written(u, told[u])
            OBVIOUS
        <3>2. CASE u = w
            <4>1. toClient'[u] = Written(u, ps) BY <2>1, <2>9, <3>2, ViewTyped
            <4>2. QED BY <2>12, <3>2, <4>1
        <3>3. CASE u # w
            <4>1. PICK wire \in Seq(ToClient) : wire = toClient[u] BY ViewTyped
            <4>2. toClient'[u] = wire /\ wire \o <<>> = wire
                BY <2>1, <3>3, <4>1, ViewTyped, ConcatEmptySeq
            <4>3. told[u] = <<>> /\ <<>> \in Seq(ToClient) BY <2>12, <3>3, EmptySeq
            <4>4. QED BY <4>1, <4>2, <4>3 DEF Written
        <3>4. QED BY <3>2, <3>3
    <2>14. \A u \in Users : \A i \in 1..Len(told[u]) :
              u = w /\ told[u][i] = ps[i] /\ i \in 1..Len(ps)
        <3>1. Len(<<>>) = 0 OBVIOUS
        <3>2. QED BY <2>12, <3>1
    <2>15. \A u \in Users : \A i \in 1..Len(told[u]) : told[u][i].shown \in TrueShown
        BY <2>10, <2>14, NoneTrue
    <2>16. ASSUME NEW u \in Users PROVE TellsFriends(res, u, told[u])
        <3>1. \A i \in 1..Len(told[u]) : told[u][i].kind # "friendListAck" BY <2>10, <2>14
        <3>2. \A v : Clean(told[u], FriendBad(v)) BY <3>1 DEF Clean, FriendBad
        <3>3. QED BY <1>3, <3>2 DEF TellsFriends
    <2>17. ASSUME NEW u \in Users PROVE TellsRequests(res, u, told[u])
        <3>1. SUFFICES ASSUME NEW r, NEW x, res \notin RequestResBad(u, r, x)
                       PROVE  Clean(told[u], RequestBad(r, x))
            BY <1>3 DEF TellsRequests
        <3>2. SUFFICES ASSUME NEW i \in 1..Len(told[u])
                       PROVE  told[u][i] \notin RequestBad(r, x)
            BY DEF Clean
        <3>3. PICK n \in res.req.notices :
                 /\ u = w /\ told[u][i].kind = n.kind /\ told[u][i].id = n.id
                 /\ n.kind \in {"friendRequestNotify", "friendChanged"}
            BY <2>10, <2>14
        <3>4. CASE x
            BY <3>3, <3>4 DEF RequestBad, RequestGood, ListSays, SaysOnly
        <3>5. CASE ~x
            <4>1. ~Repeats(res, u, r) BY <1>1, <3>1, <3>5 DEF RequestResBad
            <4>2. ~(n.kind = "friendRequestNotify" /\ n.id = r)
                BY <1>1, <1>2, <3>3, <4>1 DEF Repeats
            <4>3. QED BY <3>3, <3>5, <4>2 DEF RequestBad, RequestGood, ListSays, SaysOnly
        <3>6. QED BY <3>4, <3>5
    <2>18. /\ \A i \in 1..Len(more) : more[i].login = logins[more[i].by] /\ more[i].op # "loadOffline"
           /\ dbQueue' = dbQueue \o more
        BY <2>3, <2>4, <2>5, <2>6
    <2>19. QED BY <2>6, <2>13, <2>15, <2>16, <2>17, <2>18, ResultView
<1>5. CASE ~(Online(w) /\ res.req.notices # {})
    <2>1. toClient' = toClient /\ dbQueue' = dbQueue BY <1>2, <1>5 DEF OnOfflineLoaded
    <2>2. PICK q \in Seq(DbRequest) : q = dbQueue BY ViewTyped
    <2>3. PICK more \in Seq(DbRequest) : more = <<>> /\ Len(more) = 0 BY EmptySeq
    <2>4. dbQueue' = dbQueue \o more BY <2>1, <2>2, <2>3, ConcatEmptySeq
    <2>5. PICK told : told = [u \in Users |-> <<>>] OBVIOUS
    <2>6. \A u \in Users : told[u] \in Seq(ToClient) /\ toClient'[u] = Written(u, told[u])
        <3>1. SUFFICES ASSUME NEW u \in Users
                       PROVE  told[u] \in Seq(ToClient) /\ toClient'[u] = Written(u, told[u])
            OBVIOUS
        <3>2. PICK wire \in Seq(ToClient) : wire = toClient[u] BY ViewTyped
        <3>3. told[u] = <<>> /\ <<>> \in Seq(ToClient) /\ wire \o <<>> = wire
            BY <2>5, EmptySeq, ConcatEmptySeq
        <3>4. QED BY <2>1, <3>2, <3>3 DEF Written
    <2>7. \A u \in Users : Len(told[u]) = 0 BY <2>5
    <2>8. \A u \in Users : TellsFriends(res, u, told[u]) /\ TellsRequests(res, u, told[u])
        BY <1>3, <2>7 DEF TellsFriends, TellsRequests, Clean
    <2>9. \A i \in 1..Len(more) : /\ more[i].login = logins[more[i].by]
                                  /\ more[i].op # "loadOffline"
        BY <2>3
    <2>10. \A u \in Users : \A i \in 1..Len(told[u]) : told[u][i].shown \in TrueShown
        BY <2>7
    <2>11. QED BY <2>4, <2>6, <2>8, <2>9, <2>10, ResultView
<1>6. QED BY <1>4, <1>5

\* The creator is acknowledged, and the recipient notified
LEMMA CreatedView ==
    ASSUME IInv, ViewInv, results # <<>>, results' = Tail(results),
           UNCHANGED <<serverTables, sessions, views, counters>>,
           NEW res, res = Head(results), OnFriendRequestCreated(res)
    PROVE  ViewInv'
<1> USE FriendAssumption
<1>1. PICK packet : packet = [Blank("friendRequestAck") EXCEPT !.ok = res.ok, !.id = res.id] OBVIOUS
<1>2. PICK N : N = IF res.ok THEN {RequestNotice(res.id)} ELSE {} OBVIOUS
<1>3. res.req.op = "create" /\ AckAndNotify(res.req, packet, N)
    BY <1>1, <1>2 DEF OnFriendRequestCreated
<1>4. /\ res \in Result /\ res.ok \in BOOLEAN /\ res.id \in 0..MaxOps
      /\ res.ok => res.id \in RequestIds /\ res.id \in DOMAIN requests
                   /\ requests[res.id].to \in Users
    <2>1. res \in Result /\ RightAnswer(res) BY FirstResult
    <2>2. res.ok \in BOOLEAN /\ res.id \in 0..MaxOps BY <2>1 DEF Result
    <2>3. res.ok => res.id \in DOMAIN requests BY <1>3, <2>1, ViewTyped DEF RightAnswer, Rows
    <2>4. \A r \in DOMAIN requests : requests[r].to \in Users /\ r \in RequestIds
        <3>1. \A r \in DOMAIN requests : requests[r] \in FriendRow BY ViewTyped, ElementOfSeq
        <3>2. QED BY <3>1, RowsAreIds DEF FriendRow
    <2>5. QED BY <2>1, <2>2, <2>3, <2>4
<1>5. packet \in ToClient /\ packet.kind = "friendRequestAck" /\ packet.shown \in TrueShown
    <2>1. Blank("friendRequestAck") \in ToClient BY BlankTyped
    <2>2. Blank("friendRequestAck").kind = "friendRequestAck"
          /\ Blank("friendRequestAck").shown = NoneShown
        BY DEF Blank
    <2>3. packet.kind = "friendRequestAck" /\ packet.shown = NoneShown /\ packet \in ToClient
        BY <1>1, <1>4, <2>1, <2>2 DEF ToClient
    <2>4. QED BY <2>3, NoneTrue
<1>6. \A n \in N : /\ res.ok /\ n = RequestNotice(res.id) /\ n \in RightNotices
                   /\ n.kind = "friendRequestNotify" /\ n.id = res.id /\ n.to = requests[res.id].to
    <2>1. res.ok => RequestNotice(res.id) \in RightNotices
        BY <1>4 DEF RequestNotice, RightNotices, Notice
    <2>2. QED BY <1>2, <2>1 DEF RequestNotice
<1>7. IsFiniteSet(N) BY <1>2, FS_EmptySet, FS_Singleton
<1>8. ASSUME NEW u \in Users, NEW told, told = Told(res.req, packet, N, u)
      PROVE  TellsFriends(res, u, told) /\ TellsRequests(res, u, told)
    <2>1. N \subseteq RightNotices BY <1>6
    <2>2. /\ \A i \in 1..Len(told) :
                \/ told[i] = packet /\ Acked(res.req, packet, u)
                \/ \E n \in N : n.to = u /\ told[i] = NoticePacket(n)
          /\ \A n \in N : n.to = u => \E i \in 1..Len(told) : told[i] = NoticePacket(n)
        <3>1. PICK req : req = res.req OBVIOUS
        <3>2. told = Told(req, packet, N, u) /\ u \in Users BY <1>8, <3>1
        <3>3. /\ OnlyTells(told, req, packet, N, u)
              /\ \A n \in N : n.to = u => Has(told, NoticePacket(n))
            BY <1>5, <1>7, <2>1, <3>2, ToldPackets
        <3>4. QED BY <3>1, <3>3 DEF OnlyTells, Has
    <2>3. \A n \in N : /\ NoticePacket(n).kind = "friendRequestNotify"
                       /\ NoticePacket(n).id = res.id /\ NoticePacket(n) \in ToClient
        BY <1>6, NoticePacketShape, NoticeRight
    <2>4. TellsFriends(res, u, told)
        <3>1. \A i \in 1..Len(told) : told[i].kind # "friendListAck" BY <1>5, <2>2, <2>3
        <3>2. \A v : Clean(told, FriendBad(v)) BY <3>1 DEF Clean, FriendBad
        <3>3. \A v : res \notin FriendResGood(u, v) BY <1>3 DEF FriendResGood, Answers
        <3>4. QED BY <3>2, <3>3 DEF TellsFriends
    <2>5. TellsRequests(res, u, told)
        <3>1. SUFFICES ASSUME NEW r \in DOMAIN requests, requests[r].to = u, NEW x, x = Waits(r)
                       PROVE  /\ res \notin RequestResBad(u, r, x) \/ res \in RequestResGood(u, r, x) =>
                                    Clean(told, RequestBad(r, x))
                              /\ res \in RequestResGood(u, r, x) =>
                                    \E i \in 1..Len(told) : told[i] \in RequestGood(r, x)
            BY DEF TellsRequests
        <3>2. CASE x
            <4>1. \A i \in 1..Len(told) : told[i].kind \notin {"friendRequestListAck", "friendDecisionAck"}
                BY <1>5, <2>2, <2>3
            <4>2. Clean(told, RequestBad(r, x))
                BY <3>2, <4>1 DEF Clean, RequestBad, RequestGood, ListSays, SaysOnly
            <4>3. ASSUME res \in RequestResGood(u, r, x)
                  PROVE  \E i \in 1..Len(told) : told[i] \in RequestGood(r, x)
                <5>1. res.ok /\ res.id = r
                    BY <1>3, <3>2, <4>3 DEF RequestResGood, ResListSays, Answers, Created
                <5>2. RequestNotice(r) \in N /\ RequestNotice(r).to = u
                    BY <1>2, <3>1, <5>1 DEF RequestNotice
                <5>3. PICK i \in 1..Len(told) : told[i] = NoticePacket(RequestNotice(r))
                    BY <2>2, <5>2
                <5>4. told[i].kind = "friendRequestNotify" /\ told[i].id = r /\ told[i] \in ToClient
                    BY <2>3, <5>1, <5>2, <5>3
                <5>5. told[i] \in RequestGood(r, x) BY <3>2, <5>4 DEF RequestGood, SaysOnly
                <5>6. QED BY <5>5
            <4>4. QED BY <4>2, <4>3
        <3>3. CASE ~x
            <4>1. res \notin RequestResGood(u, r, x)
                BY <1>3, <3>3 DEF RequestResGood, ResListSays, Answers, Decided
            <4>2. ASSUME res \notin RequestResBad(u, r, x)
                  PROVE  Clean(told, RequestBad(r, x))
                <5>1. ~(res.ok /\ res.id = r) BY <1>3, <1>4, <3>3, <4>2 DEF RequestResBad, Created
                <5>2. \A n \in N : NoticePacket(n).id # r BY <1>6, <2>3, <5>1
                <5>3. \A i \in 1..Len(told) :
                         \/ told[i].kind = "friendRequestAck"
                         \/ told[i].kind = "friendRequestNotify" /\ told[i].id # r
                    BY <1>5, <2>2, <2>3, <5>2
                <5>4. QED BY <3>3, <5>3 DEF Clean, RequestBad, RequestGood, ListSays, SaysOnly
            <4>3. QED BY <4>1, <4>2
        <3>4. QED BY <3>2, <3>3
    <2>6. QED BY <2>4, <2>5
<1>9. N \subseteq RightNotices BY <1>6
<1>10. QED BY <1>3, <1>5, <1>7, <1>8, <1>9, AckView

\* The decider is acknowledged, and new friends are told of each other
LEMMA DecidedView ==
    ASSUME IInv, ViewInv, results # <<>>, results' = Tail(results),
           UNCHANGED <<serverTables, sessions, views, counters>>,
           NEW res, res = Head(results), OnFriendDecisionCompleted(res)
    PROVE  ViewInv'
<1> USE FriendAssumption
<1>1. PICK packet : packet = [Blank("friendDecisionAck") EXCEPT
                                 !.ok = res.ok, !.id = res.id, !.op = res.req.op]
    OBVIOUS
<1>2. PICK N : N = NewFriends(res) OBVIOUS
<1>3. res.req.op \in {"accepted", "rejected"} /\ AckAndNotify(res.req, packet, N)
    BY <1>1, <1>2 DEF OnFriendDecisionCompleted
<1>4. /\ res \in Result /\ res.ok \in BOOLEAN /\ res.id \in 0..MaxOps
      /\ res.ok => res.id \in RequestIds /\ res.id \in DOMAIN requests
      /\ res.ok /\ res.req.op = "accepted" =>
            {requests[res.id].from, requests[res.id].to} \in friendships
    <2>1. res \in Result /\ RightAnswer(res) BY FirstResult
    <2>2. res.ok \in BOOLEAN /\ res.id \in 0..MaxOps BY <2>1 DEF Result
    <2>3. res.ok => res.id \in DOMAIN requests BY <1>3, <2>1, ViewTyped DEF RightAnswer, Rows
    <2>4. QED BY <2>1, <2>2, <2>3, RowsAreIds DEF RightAnswer
<1>5. /\ packet \in ToClient /\ packet.kind = "friendDecisionAck" /\ packet.shown \in TrueShown
      /\ packet.id = res.id /\ packet.ok = res.ok
    <2>1. Blank("friendDecisionAck") \in ToClient BY BlankTyped
    <2>2. Blank("friendDecisionAck").kind = "friendDecisionAck"
          /\ Blank("friendDecisionAck").shown = NoneShown
        BY DEF Blank
    <2>3. /\ packet.kind = "friendDecisionAck" /\ packet.shown = NoneShown /\ packet \in ToClient
          /\ packet.id = res.id /\ packet.ok = res.ok
        BY <1>1, <1>3, <1>4, <2>1, <2>2 DEF ToClient, Status
    <2>4. QED BY <2>3, NoneTrue
<1>6. PICK from, to : from = requests[res.id].from /\ to = requests[res.id].to OBVIOUS
<1>7. PICK n1, n2 : n1 = FriendNotice(res.id, from, to) /\ n2 = FriendNotice(res.id, to, from)
    OBVIOUS
<1>8. \/ N = {} /\ ~(res.ok /\ res.req.op = "accepted")
      \/ N = {n1, n2} /\ res.ok /\ res.req.op = "accepted"
    BY <1>2, <1>6, <1>7 DEF NewFriends
<1>9. /\ n1.kind = "friendChanged" /\ n1.to = from /\ n1.friend = to
      /\ n2.kind = "friendChanged" /\ n2.to = to /\ n2.friend = from
    BY <1>7 DEF FriendNotice
<1>10. N \subseteq RightNotices /\ IsFiniteSet(N)
    <2>1. CASE N = {} BY <2>1, FS_EmptySet
    <2>2. CASE N = {n1, n2} /\ res.ok /\ res.req.op = "accepted"
        <3>1. from \in Users /\ to \in Users /\ {from, to} \in friendships /\ {to, from} = {from, to}
            <4>1. requests[res.id] \in FriendRow BY <1>4, <2>2, ViewTyped, ElementOfSeq
            <4>2. QED BY <1>4, <1>6, <2>2, <4>1 DEF FriendRow
        <3>2. n1 \in RightNotices /\ n2 \in RightNotices
            BY <1>4, <1>7, <2>2, <3>1 DEF FriendNotice, RightNotices, Notice
        <3>3. IsFiniteSet({n1, n2})
            <4>1. IsFiniteSet({n1}) BY FS_Singleton
            <4>2. IsFiniteSet({n1} \cup {n2}) BY <4>1, FS_AddElement
            <4>3. {n1} \cup {n2} = {n1, n2} OBVIOUS
            <4>4. QED BY <4>2, <4>3
        <3>4. QED BY <2>2, <3>2, <3>3
    <2>3. QED BY <1>8, <2>1, <2>2
<1>11. ASSUME NEW u \in Users, NEW told, told = Told(res.req, packet, N, u)
       PROVE  TellsFriends(res, u, told) /\ TellsRequests(res, u, told)
    <2>1. PICK req : req = res.req OBVIOUS
    <2>2. told = Told(req, packet, N, u) /\ u \in Users BY <1>11, <2>1
    <2>3. /\ OnlyTells(told, req, packet, N, u)
          /\ Acked(req, packet, u) => Has(told, packet)
          /\ \A n \in N : n.to = u => Has(told, NoticePacket(n))
        BY <1>5, <1>10, <2>2, ToldPackets
    <2>4. \A n \in N : NoticePacket(n).kind = "friendChanged" /\ NoticePacket(n).friends = {n.friend}
                       /\ NoticePacket(n) \in ToClient
        <3>1. \A n \in N : n.kind = "friendChanged" BY <1>8, <1>9
        <3>2. QED BY <1>10, <3>1, NoticePacketShape, NoticeRight
    <2>5. \A i \in 1..Len(told) :
             \/ told[i].kind = "friendDecisionAck" /\ told[i].id = res.id /\ Acked(req, packet, u)
             \/ told[i].kind = "friendChanged"
        BY <1>5, <2>3, <2>4 DEF OnlyTells
    <2>6. TellsFriends(res, u, told)
        <3>1. \A i \in 1..Len(told) : told[i].kind # "friendListAck" BY <2>5
        <3>2. \A v : Clean(told, FriendBad(v)) BY <3>1 DEF Clean, FriendBad
        <3>3. ASSUME NEW v \in Users, res \in FriendResGood(u, v)
              PROVE  \E i \in 1..Len(told) : told[i] \in FriendGood(v)
            <4>1. res.ok /\ res.req.op = "accepted" /\ {from, to} = {u, v}
                BY <1>3, <1>6, <3>3 DEF FriendResGood, Answers
            <4>2. PICK n \in N : n.to = u /\ n.friend = v BY <1>8, <1>9, <4>1
            <4>3. PICK i \in 1..Len(told) : told[i] = NoticePacket(n) BY <2>3, <4>2 DEF Has
            <4>4. /\ told[i].kind = "friendChanged" /\ told[i].friends = {v}
                  /\ told[i] \in ToClient
                BY <2>4, <4>2, <4>3
            <4>5. told[i] \in FriendGood(v) BY <4>4 DEF FriendGood
            <4>6. QED BY <4>5
        <3>4. QED BY <3>2, <3>3 DEF TellsFriends
    <2>7. TellsRequests(res, u, told)
        <3>1. SUFFICES ASSUME NEW r \in DOMAIN requests, requests[r].to = u, NEW x, x = Waits(r)
                       PROVE  /\ res \notin RequestResBad(u, r, x) \/ res \in RequestResGood(u, r, x) =>
                                    Clean(told, RequestBad(r, x))
                              /\ res \in RequestResGood(u, r, x) =>
                                    \E i \in 1..Len(told) : told[i] \in RequestGood(r, x)
            BY DEF TellsRequests
        <3>2. CASE x
            <4>1. res \notin RequestResGood(u, r, x)
                BY <1>3, <3>2 DEF RequestResGood, ResListSays, Answers, Created
            <4>2. ASSUME res \notin RequestResBad(u, r, x)
                  PROVE  Clean(told, RequestBad(r, x))
                <5>1. ~(res.ok /\ res.id = r) BY <1>3, <1>4, <3>2, <4>2 DEF RequestResBad, Decided
                <5>2. Acked(req, packet, u) => res.ok BY <1>3, <1>5, <2>1 DEF Acked
                <5>3. \A i \in 1..Len(told) :
                         \/ told[i].kind = "friendDecisionAck" /\ told[i].id # r
                         \/ told[i].kind = "friendChanged"
                    BY <2>5, <5>1, <5>2
                <5>4. QED BY <3>2, <5>3 DEF Clean, RequestBad, RequestGood, ListSays, SaysOnly
            <4>3. QED BY <4>1, <4>2
        <3>3. CASE ~x
            <4>1. Clean(told, RequestBad(r, x))
                BY <2>5, <3>3 DEF Clean, RequestBad, RequestGood, ListSays, SaysOnly
            <4>2. ASSUME res \in RequestResGood(u, r, x)
                  PROVE  \E i \in 1..Len(told) : told[i] \in RequestGood(r, x)
                <5>1. res.ok /\ res.id = r /\ res.req.by = u /\ res.req.login = logins[u]
                    BY <1>3, <3>3, <4>2 DEF RequestResGood, ResListSays, Answers, Decided
                <5>2. Acked(req, packet, u) BY <1>5, <2>1, <5>1 DEF Acked
                <5>3. PICK i \in 1..Len(told) : told[i] = packet BY <2>3, <5>2 DEF Has
                <5>4. told[i] \in RequestGood(r, x)
                    BY <1>5, <3>3, <5>1, <5>3 DEF RequestGood, SaysOnly
                <5>5. QED BY <5>4
            <4>3. QED BY <4>1, <4>2
        <3>4. QED BY <3>2, <3>3
    <2>8. QED BY <2>6, <2>7
<1>12. QED BY <1>3, <1>5, <1>10, <1>11, AckView

LEMMA ListView ==
    ASSUME IInv, ViewInv, results # <<>>, results' = Tail(results),
           UNCHANGED <<serverTables, sessions, views, counters>>,
           NEW res, res = Head(results), OnListLoaded(res)
    PROVE  ViewInv'
<1> USE FriendAssumption
<1>1. PICK kind : kind = IF res.req.op = "friendList" THEN "friendListAck"
                         ELSE "friendRequestListAck"
    OBVIOUS
<1>2. PICK packet : packet = [Blank(kind) EXCEPT !.ok = res.ok, !.friends = res.friends,
                                                 !.shown = res.shown]
    OBVIOUS
<1>3. res.req.op \in {"friendList", "requestList"} /\ AckAndNotify(res.req, packet, {})
    BY <1>1, <1>2 DEF OnListLoaded
<1>4. /\ res \in Result /\ res.ok \in BOOLEAN /\ res.friends \in SUBSET Users
      /\ res.shown \in [RequestIds -> Status] /\ res.shown \in TrueShown
    <2>1. res \in Result BY FirstResult
    <2>2. PICK rs \in Seq(Result) : rs = results BY ViewTyped
    <2>3. 1 \in 1..Len(rs) /\ rs[1] = res BY <2>2, Rest
    <2>4. res.shown \in TrueShown BY <2>2, <2>3 DEF ViewInv, ShownIsTrue
    <2>5. QED BY <2>1, <2>4 DEF Result
<1>5. /\ packet \in ToClient /\ packet.kind = kind /\ packet.shown = res.shown
      /\ packet.friends = res.friends
    <2>1. kind \in {"friendListAck", "friendRequestListAck"} BY <1>1
    <2>2. Blank(kind) \in ToClient BY <2>1, BlankTyped
    <2>3. Blank(kind).kind = kind BY DEF Blank
    <2>4. QED BY <1>2, <1>4, <2>2, <2>3 DEF ToClient
<1>6. {} \subseteq RightNotices /\ IsFiniteSet({}) BY FS_EmptySet
<1>7. ASSUME NEW u \in Users, NEW told, told = Told(res.req, packet, {}, u)
      PROVE  TellsFriends(res, u, told) /\ TellsRequests(res, u, told)
    <2>1. PICK req : req = res.req OBVIOUS
    <2>2. PICK N : N = {} /\ N \subseteq RightNotices /\ IsFiniteSet(N) BY <1>6
    <2>3. told = Told(req, packet, N, u) /\ u \in Users BY <1>7, <2>1, <2>2
    <2>4. /\ OnlyTells(told, req, packet, N, u)
          /\ Acked(req, packet, u) => Has(told, packet)
        BY <1>5, <2>2, <2>3, ToldPackets
    <2>5. \A i \in 1..Len(told) : told[i] = packet /\ Acked(req, packet, u)
        BY <2>2, <2>4 DEF OnlyTells
    <2>6. Acked(req, packet, u) <=> Answers(res, req.op, u)
        BY <1>3, <2>1 DEF Acked, Answers
    <2>7. TellsFriends(res, u, told)
        <3>1. CASE req.op = "friendList"
            <4>1. kind = "friendListAck" BY <1>1, <2>1, <3>1
            <4>2. \A v : /\ res \in FriendResGood(u, v) <=>
                               Answers(res, "friendList", u) /\ v \in res.friends
                         /\ res \in FriendResBad(u, v) <=>
                               Answers(res, "friendList", u) /\ v \notin res.friends
                BY <1>4, <2>1, <3>1 DEF FriendResGood, FriendResBad
            <4>3. \A v : /\ packet \in FriendGood(v) <=> v \in res.friends
                         /\ packet \in FriendBad(v) <=> v \notin res.friends
                BY <1>5, <4>1 DEF FriendGood, FriendBad
            <4>4. \A v : res \notin FriendResBad(u, v) \/ res \in FriendResGood(u, v) =>
                            Clean(told, FriendBad(v))
                BY <2>5, <2>6, <3>1, <4>2, <4>3 DEF Clean
            <4>5. \A v : res \in FriendResGood(u, v) =>
                            \E i \in 1..Len(told) : told[i] \in FriendGood(v)
                BY <2>4, <2>6, <3>1, <4>2, <4>3 DEF Has
            <4>6. QED BY <4>4, <4>5 DEF TellsFriends
        <3>2. CASE req.op = "requestList"
            <4>1. kind = "friendRequestListAck" BY <1>1, <2>1, <3>2
            <4>2. \A v : packet \notin FriendBad(v) BY <1>5, <4>1 DEF FriendBad
            <4>3. \A v : Clean(told, FriendBad(v)) BY <2>5, <4>2 DEF Clean
            <4>4. \A v : res \notin FriendResGood(u, v)
                BY <2>1, <3>2 DEF FriendResGood, Answers
            <4>5. QED BY <4>3, <4>4 DEF TellsFriends
        <3>3. QED BY <1>3, <2>1, <3>1, <3>2
    <2>8. TellsRequests(res, u, told)
        <3>1. CASE req.op = "requestList"
            <4>1. kind = "friendRequestListAck" BY <1>1, <2>1, <3>1
            <4>2. \A r, x : /\ res \in RequestResGood(u, r, x) <=>
                                  ResListSays(res, u, r, x)
                            /\ res \in RequestResBad(u, r, x) <=> ResListSays(res, u, r, ~x)
                BY <1>4, <2>1, <3>1 DEF RequestResGood, RequestResBad, Created, Decided, Repeats
            <4>3. \A r, x : ResListSays(res, u, r, x) <=>
                               Acked(req, packet, u) /\ (res.shown[r] = "pending" <=> x)
                BY <2>6, <3>1 DEF ResListSays
            <4>4. \A r, x : /\ packet \in RequestGood(r, x) <=> (res.shown[r] = "pending" <=> x)
                            /\ packet \in RequestBad(r, x) <=> (res.shown[r] = "pending" <=> ~x)
                <5>1. \A r, x : packet \in RequestGood(r, x) <=> (res.shown[r] = "pending" <=> x)
                    BY <1>5, <4>1 DEF RequestGood, ListSays, SaysOnly
                <5>2. \A r, x : packet \in RequestBad(r, x) <=> (res.shown[r] = "pending" <=> ~x)
                    BY <1>5, <4>1 DEF RequestBad, RequestGood, ListSays, SaysOnly
                <5>3. QED BY <5>1, <5>2
            <4>5. ASSUME NEW r, NEW x,
                         res \notin RequestResBad(u, r, x) \/ res \in RequestResGood(u, r, x)
                  PROVE  Clean(told, RequestBad(r, x))
                <5>1. SUFFICES ASSUME NEW i \in 1..Len(told)
                               PROVE  packet \notin RequestBad(r, x)
                    BY <2>5 DEF Clean
                <5>2. Acked(req, packet, u) BY <2>5, <5>1
                <5>3. ~ResListSays(res, u, r, ~x) \/ ResListSays(res, u, r, x) BY <4>2, <4>5
                <5>4. CASE x
                    <6>1. ResListSays(res, u, r, ~x) <=> (Acked(req, packet, u) /\ res.shown[r] # "pending")
                        BY <2>6, <3>1, <5>4 DEF ResListSays
                    <6>2. res.shown[r] = "pending" BY <4>3, <5>2, <5>3, <5>4, <6>1
                    <6>3. QED BY <4>4, <5>4, <6>2
                <5>5. CASE ~x
                    <6>1. ResListSays(res, u, r, ~x) <=> (Acked(req, packet, u) /\ res.shown[r] = "pending")
                        BY <2>6, <3>1, <5>5 DEF ResListSays
                    <6>2. res.shown[r] # "pending" BY <4>3, <5>2, <5>3, <5>5, <6>1
                    <6>3. QED BY <4>4, <5>5, <6>2
                <5>6. QED BY <5>4, <5>5
            <4>6. \A r, x : res \in RequestResGood(u, r, x) =>
                               \E i \in 1..Len(told) : told[i] \in RequestGood(r, x)
                BY <2>4, <4>2, <4>3, <4>4 DEF Has
            <4>7. QED BY <4>5, <4>6 DEF TellsRequests
        <3>2. CASE req.op = "friendList"
            <4>1. kind = "friendListAck" BY <1>1, <2>1, <3>2
            <4>2. \A r, x : packet \notin RequestBad(r, x)
                BY <1>5, <4>1 DEF RequestBad, RequestGood, ListSays, SaysOnly
            <4>3. \A r, x : Clean(told, RequestBad(r, x)) BY <2>5, <4>2 DEF Clean
            <4>4. \A r, x : res \notin RequestResGood(u, r, x)
                BY <2>1, <3>2 DEF RequestResGood, ResListSays, Answers, Created, Decided
            <4>5. QED BY <4>3, <4>4 DEF TellsRequests
        <3>3. QED BY <1>3, <2>1, <3>1, <3>2
    <2>9. QED BY <2>7, <2>8
<1>8. packet.shown \in TrueShown BY <1>4, <1>5
<1>9. QED BY <1>3, <1>5, <1>6, <1>7, <1>8, AckView

LEMMA OnResultView ==
    ASSUME IInv, ViewInv, OnResult
    PROVE  ViewInv'
<1>1. PICK res : res = Head(results) OBVIOUS
<1>2. /\ results # <<>> /\ results' = Tail(results)
      /\ UNCHANGED <<serverTables, sessions, views, counters>>
      /\ \/ OnFriendRequestCreated(res) \/ OnFriendDecisionCompleted(res)
         \/ OnListLoaded(res) \/ OnOfflineLoaded(res)
    BY <1>1 DEF OnResult
<1>3. QED BY <1>1, <1>2, CreatedView, DecidedView, ListView, OfflineLoadedView

(***************************************************************************)
(* A packet becomes what is shown                                          *)
(***************************************************************************)

ReadsFriends(p, u) ==
    \A v \in Users :
        /\ p \in FriendGood(v) => v \in friendList'[u]
        /\ p \notin FriendBad(v) /\ v \in friendList[u] => v \in friendList'[u]

ReadsRequests(p, u) ==
    \A r \in DOMAIN requests : requests[r].to = u =>
        /\ p \in RequestGood(r, Waits(r)) => (requestList'[u][r] = "pending" <=> Waits(r))
        /\ p \notin RequestBad(r, Waits(r)) /\ (requestList[u][r] = "pending" <=> Waits(r)) =>
              (requestList'[u][r] = "pending" <=> Waits(r))

LEMMA FriendRead ==
    ASSUME NEW u, NEW v \in Users, FriendComes(u, v), toClient[u] \in Seq(ToClient),
           toClient[u] # <<>>, NEW p, p = Head(toClient[u]), toClient'[u] = Tail(toClient[u]),
           UNCHANGED <<requests, logins, results>>, ReadsFriends(p, u)
    PROVE  FriendComes(u, v)'
<1>1. PICK a, b : a = FriendResGood(u, v) /\ b = FriendResBad(u, v) OBVIOUS
<1>2. PICK wire \in Seq(ToClient) : wire = toClient[u] OBVIOUS
<1>3. LastWord(results, a, b, wire, FriendGood(v), FriendBad(v), v \in friendList[u])
    BY <1>1, <1>2 DEF FriendComes
<1>4. /\ Head(wire) \in FriendGood(v) => v \in friendList'[u]
      /\ Head(wire) \notin FriendBad(v) /\ v \in friendList[u] => v \in friendList'[u]
    BY <1>2 DEF ReadsFriends
<1>5. wire # <<>> BY <1>2
<1>6. LastWord(results, a, b, Tail(wire), FriendGood(v), FriendBad(v), v \in friendList'[u])
    BY <1>3, <1>4, <1>5, PacketToView
<1>7. FriendResGood(u, v)' = a /\ FriendResBad(u, v)' = b BY <1>1, SameSets
<1>8. LastWord(results', a, b, toClient'[u], FriendGood(v), FriendBad(v), v \in friendList'[u])
    BY <1>2, <1>6
<1>9. QED BY <1>7, <1>8 DEF FriendComes

LEMMA RequestRead ==
    ASSUME NEW u, NEW r \in DOMAIN requests, requests[r].to = u, RequestComes(u, r),
           toClient[u] \in Seq(ToClient),
           toClient[u] # <<>>, NEW p, p = Head(toClient[u]), toClient'[u] = Tail(toClient[u]),
           UNCHANGED <<requests, logins, results>>, ReadsRequests(p, u)
    PROVE  RequestComes(u, r)'
<1>1. PICK w : w = Waits(r) OBVIOUS
<1>2. PICK a, b : a = RequestResGood(u, r, w) /\ b = RequestResBad(u, r, w) OBVIOUS
<1>3. PICK wire \in Seq(ToClient) : wire = toClient[u] OBVIOUS
<1>4. LastWord(results, a, b, wire, RequestGood(r, w), RequestBad(r, w),
               requestList[u][r] = "pending" <=> w)
    BY <1>1, <1>2, <1>3 DEF RequestComes
<1>5. /\ Head(wire) \in RequestGood(r, w) => (requestList'[u][r] = "pending" <=> w)
      /\ Head(wire) \notin RequestBad(r, w) /\ (requestList[u][r] = "pending" <=> w) =>
            (requestList'[u][r] = "pending" <=> w)
    BY <1>1, <1>3 DEF ReadsRequests
<1>6. wire # <<>> BY <1>3
<1>7. LastWord(results, a, b, Tail(wire), RequestGood(r, w), RequestBad(r, w),
               requestList'[u][r] = "pending" <=> w)
    BY <1>4, <1>5, <1>6, PacketToView
<1>8. /\ RequestResGood(u, r, w)' = a /\ RequestResBad(u, r, w)' = b /\ Waits(r)' = w
    BY <1>1, <1>2, SameSets
<1>9. LastWord(results', a, b, toClient'[u], RequestGood(r, w), RequestBad(r, w),
               requestList'[u][r] = "pending" <=> w)
    BY <1>3, <1>7
<1>10. QED BY <1>8, <1>9 DEF RequestComes

\* What was asked for is still, or it was the acknowledgement of the login that was read
LEMMA AsksRead ==
    ASSUME NEW u, NEW op, Asks(u, op), toClient[u] \in Seq(ToClient), toClient[u] # <<>>,
           toClient'[u] = Tail(toClient[u]), Head(toClient[u]).kind # "connectAck",
           dbQueue \in Seq(DbRequest), NEW more \in Seq(DbRequest), dbQueue' = dbQueue \o more
    PROVE  Asks(u, op)'
<1>1. PICK s \in Seq(ToClient) : s = toClient[u] OBVIOUS
<1>2. PICK n \in Nat : n = Len(s) BY LenProperties
<1>3. /\ Head(s) = s[1] /\ Len(Tail(s)) = n - 1
      /\ \A i \in 1..n : i = 1 \/ (i - 1 \in 1..(n - 1) /\ Tail(s)[i - 1] = s[i])
    BY <1>1, <1>2, Rest
<1>4. CASE \E i \in 1..n : s[i].kind = "connectAck"
    <2>1. PICK i \in 1..n : s[i].kind = "connectAck" BY <1>4
    <2>2. i # 1 BY <1>1, <1>3, <2>1
    <2>3. PICK t : t = Tail(s) /\ t = toClient'[u] BY <1>1
    <2>4. PICK k \in 1..(n - 1) : k = i - 1 /\ t[k] = s[i] BY <1>3, <2>2, <2>3
    <2>5. k \in 1..Len(t) /\ t[k].kind = "connectAck" BY <1>3, <2>1, <2>3, <2>4
    <2>6. QED BY <2>3, <2>5 DEF Asks
<1>5. CASE \E i \in 1..Len(dbQueue) : dbQueue[i].op = op /\ dbQueue[i].by = u
    <2>1. PICK q \in Seq(DbRequest) : q = dbQueue OBVIOUS
    <2>2. \A i \in 1..Len(q) : i \in 1..Len(q \o more) /\ (q \o more)[i] = q[i] BY Longer
    <2>3. QED BY <1>5, <2>1, <2>2 DEF Asks
<1>6. QED BY <1>1, <1>2, <1>4, <1>5 DEF Asks

LEMMA AsksPosted ==
    ASSUME NEW u, NEW op, dbQueue \in Seq(DbRequest), NEW more \in Seq(DbRequest),
           dbQueue' = dbQueue \o more, \E i \in 1..Len(more) : more[i].op = op /\ more[i].by = u
    PROVE  Asks(u, op)'
<1>1. PICK q \in Seq(DbRequest) : q = dbQueue OBVIOUS
<1>2. PICK i \in 1..Len(more) : more[i].op = op /\ more[i].by = u OBVIOUS
<1>3. PICK k : k = Len(q) + i OBVIOUS
<1>4. k \in 1..Len(q \o more) /\ (q \o more)[k] = more[i]
    <2>1. /\ Len(q \o more) = Len(q) + Len(more)
          /\ \A j \in 1..Len(more) : Len(q) + j \in 1..(Len(q) + Len(more))
                                     /\ (q \o more)[Len(q) + j] = more[j]
        BY Longer
    <2>2. QED BY <1>2, <1>3, <2>1
<1>5. QED BY <1>1, <1>2, <1>4 DEF Asks

LEMMA HandledView ==
    ASSUME IInv, ViewInv, NEW w \in Users, conn[w] = "up", toClient[w] # <<>>,
           NEW p, p = Head(toClient[w]), toClient' = [toClient EXCEPT ![w] = Tail(@)],
           UNCHANGED <<serverTables, results, sessions, counters>>,
           NEW more \in Seq(DbRequest), dbQueue' = dbQueue \o more,
           \A i \in 1..Len(more) : /\ more[i].login = logins[more[i].by]
                                   /\ more[i].op # "loadOffline",
           \A u \in Users : u # w => friendList'[u] = friendList[u] /\ requestList'[u] = requestList[u],
           requestList'[w] \in TrueShown,
           \/ \A op \in {"friendList", "requestList"} :
                 \E i \in 1..Len(more) : more[i].op = op /\ more[i].by = w
           \/ p.kind # "connectAck" /\ ReadsFriends(p, w) /\ ReadsRequests(p, w)
    PROVE  ViewInv'
<1>1. /\ requests' = requests /\ friendships' = friendships /\ logins' = logins /\ conn' = conn
      /\ results' = results /\ failures' = failures
    BY DEF serverTables, sessions, counters
<1>2. dbQueue \in Seq(DbRequest) /\ toClient[w] \in Seq(ToClient) BY ViewTyped
<1>3. toClient'[w] = Tail(toClient[w]) /\ \A u \in Users : u # w => toClient'[u] = toClient[u]
    BY ViewTyped
<1>4. ASSUME NEW u \in Users, u # w PROVE \A op : Asks(u, op) => Asks(u, op)'
    <2>1. SUFFICES ASSUME NEW op, Asks(u, op) PROVE Asks(u, op)' OBVIOUS
    <2>2. PICK ps \in Seq(ToClient) : ps = toClient[u] BY ViewTyped
    <2>3. ps \o <<>> = ps /\ <<>> \in Seq(ToClient) BY EmptySeq, ConcatEmptySeq
    <2>4. toClient[u] \in Seq(ToClient) /\ toClient'[u] = toClient[u] \o <<>>
        BY <1>3, <1>4, <2>2, <2>3
    <2>5. QED BY <1>2, <2>1, <2>3, <2>4, AsksGrow
<1>5. \A op \in {"friendList", "requestList"} : Asks(w, op) => Asks(w, op)'
    <2>1. CASE p.kind # "connectAck" BY <1>2, <1>3, <2>1, AsksRead
    <2>2. CASE \A op \in {"friendList", "requestList"} :
                 \E i \in 1..Len(more) : more[i].op = op /\ more[i].by = w
        BY <1>2, <2>2, AsksPosted
    <2>3. QED BY <2>1, <2>2
<1>6. QueueIsCurrent'
    <2>1. \A u \in Users : conn[u] = "up" /\ Asks(u, "requestList") => Asks(u, "requestList")'
        BY <1>4, <1>5
    <2>2. QueueIsCurrent BY DEF ViewInv
    <2>3. QED BY <1>2, <2>1, <2>2, QueuePosted
<1>7. ShownIsTrue'
    <2>1. TrueShown' = TrueShown BY <1>1, TrueShownSame
    <2>2. \A u \in Users : requestList'[u] \in TrueShown
        <3>1. \A u \in Users : requestList[u] \in TrueShown BY DEF ViewInv, ShownIsTrue
        <3>2. QED BY <3>1
    <2>3. \A u \in Users : \A i \in 1..Len(toClient'[u]) : toClient'[u][i].shown \in TrueShown
        <3>1. SUFFICES ASSUME NEW u \in Users
                       PROVE  \A i \in 1..Len(toClient'[u]) : toClient'[u][i].shown \in TrueShown
            OBVIOUS
        <3>2. PICK s \in Seq(ToClient) : s = toClient[u] BY ViewTyped
        <3>3. \A i \in 1..Len(s) : s[i].shown \in TrueShown BY <3>2 DEF ViewInv, ShownIsTrue
        <3>4. CASE u # w BY <1>3, <3>2, <3>3, <3>4
        <3>5. CASE u = w
            <4>1. PICK t : t = Tail(s) OBVIOUS
            <4>2. s # <<>> /\ toClient'[u] = t BY <1>3, <3>2, <3>5, <4>1
            <4>3. PICK n \in Nat : n = Len(s) BY LenProperties
            <4>4. Len(t) = n - 1 /\ \A i \in 1..(n - 1) : i + 1 \in 1..n /\ t[i] = s[i + 1]
                BY <4>1, <4>2, <4>3, Rest
            <4>5. \A i \in 1..Len(t) : t[i].shown \in TrueShown BY <3>3, <4>3, <4>4
            <4>6. QED BY <4>2, <4>5
        <3>6. QED BY <3>4, <3>5
    <2>4. QED BY <1>1, <2>1, <2>2, <2>3 DEF ViewInv, ShownIsTrue
<1>8. SUFFICES ASSUME failures' = 0, NEW u \in Users, conn'[u] = "up"
               PROVE  FriendsCome(u)' /\ RequestsCome(u)'
    BY <1>6, <1>7 DEF ViewInv, ViewsCome
<1>9. FriendsCome(u) /\ RequestsCome(u) BY <1>1, <1>8 DEF ViewInv, ViewsCome
<1>10. CASE u # w
    BY <1>1, <1>3, <1>4, <1>9, <1>10, ViewStays
<1>11. CASE u = w
    <2>1. CASE \A op \in {"friendList", "requestList"} :
                 \E i \in 1..Len(more) : more[i].op = op /\ more[i].by = w
        <3>1. Asks(w, "friendList")' /\ Asks(w, "requestList")' BY <1>2, <2>1, AsksPosted
        <3>2. QED BY <1>11, <3>1 DEF FriendsCome, RequestsCome
    <2>2. CASE p.kind # "connectAck" /\ ReadsFriends(p, w) /\ ReadsRequests(p, w)
        <3>1. FriendsCome(w)'
            <4>1. CASE Asks(w, "friendList") BY <1>5, <4>1 DEF FriendsCome
            <4>2. CASE \A v \in FriendsOf(w) : FriendComes(w, v)
                <5>1. \A v \in FriendsOf(w) : v \in Users BY DEF FriendsOf
                <5>2. \A v \in FriendsOf(w) : FriendComes(w, v)'
                    BY <1>1, <1>2, <1>3, <2>2, <4>2, <5>1, FriendRead
                <5>3. FriendsOf(w)' = FriendsOf(w) BY <1>1 DEF FriendsOf
                <5>4. QED BY <5>2, <5>3 DEF FriendsCome
            <4>3. QED BY <1>9, <1>11, <4>1, <4>2 DEF FriendsCome
        <3>2. RequestsCome(w)'
            <4>1. CASE Asks(w, "requestList") BY <1>5, <4>1 DEF RequestsCome
            <4>2. CASE \A r \in DOMAIN requests : requests[r].to = w => RequestComes(w, r)
                <5>1. \A r \in DOMAIN requests : requests[r].to = w => RequestComes(w, r)'
                    BY <1>1, <1>2, <1>3, <2>2, <4>2, RequestRead
                <5>2. QED BY <1>1, <5>1 DEF RequestsCome
            <4>3. QED BY <1>9, <1>11, <4>1, <4>2 DEF RequestsCome
        <3>3. QED BY <1>11, <3>1, <3>2
    <2>3. QED BY <2>1, <2>2
<1>12. QED BY <1>10, <1>11

LEMMA PacketView ==
    ASSUME IInv, ViewInv, NEW w \in Users, HandleIncomingPacket(w)
    PROVE  ViewInv'
<1>1. PICK p : p = Head(toClient[w]) OBVIOUS
<1>2. /\ conn[w] = "up" /\ toClient[w] # <<>> /\ toClient' = [toClient EXCEPT ![w] = Tail(@)]
      /\ UNCHANGED <<serverTables, results, sessions, counters>>
      /\ \/ RefreshAfterAuthentication(w, p) \/ OnFriendListAck(w, p) \/ OnFriendRequestListAck(w, p)
         \/ OnFriendRequestAck(w, p) \/ OnFriendDecisionAck(w, p) \/ OnFriendRequestNotified(w, p)
         \/ OnFriendChanged(w, p)
    BY <1>1 DEF HandleIncomingPacket
<1>3. PICK wire \in Seq(ToClient) : wire = toClient[w] BY ViewTyped
<1>4. 1 \in 1..Len(wire) /\ wire[1] = p /\ p \in ToClient
    BY <1>1, <1>2, <1>3, Rest
<1>5. p.shown \in TrueShown /\ requestList[w] \in TrueShown
    BY <1>3, <1>4 DEF ViewInv, ShownIsTrue
<1>6. /\ requestList \in [Users -> [RequestIds -> Status]] /\ friendList \in [Users -> SUBSET Users]
      /\ requestList[w] \in [RequestIds -> Status]
    BY DEF IInv, TypeOK
<1>7. DOMAIN requests \subseteq RequestIds BY RowsAreIds
<1>8. PICK none \in Seq(DbRequest) : none = <<>> /\ Len(none) = 0 BY EmptySeq
<1>9. dbQueue' = dbQueue => dbQueue' = dbQueue \o none
    <2>1. PICK q \in Seq(DbRequest) : q = dbQueue BY ViewTyped
    <2>2. q \o none = q BY <1>8, ConcatEmptySeq
    <2>3. QED BY <2>1, <2>2
<1>10. CASE RefreshAfterAuthentication(w, p)
    <2>1. PICK a, b : /\ a = DbReq("friendList", w, NoUser, 0, {})
                      /\ b = DbReq("requestList", w, NoUser, 0, {})
        OBVIOUS
    <2>2. a \in DbRequest /\ b \in DbRequest
        BY <2>1, PostedRight DEF RightRequests
    <2>3. /\ a.login = logins[a.by] /\ a.op = "friendList" /\ a.by = w
          /\ b.login = logins[b.by] /\ b.op = "requestList" /\ b.by = w
        BY <2>1 DEF DbReq
    <2>4. PICK more : more = <<a, b>> OBVIOUS
    <2>5. more \in Seq(DbRequest) /\ Len(more) = 2 /\ more[1] = a /\ more[2] = b BY <2>2, <2>4
    <2>6. /\ dbQueue' = dbQueue \o more /\ friendList' = friendList /\ requestList' = requestList
        BY <1>10, <2>1, <2>4 DEF RefreshAfterAuthentication, Post, views
    <2>7. \A i \in 1..Len(more) : /\ more[i].login = logins[more[i].by]
                                  /\ more[i].op # "loadOffline"
        <3>1. \A i \in 1..Len(more) : more[i] = a \/ more[i] = b BY <2>5
        <3>2. QED BY <2>3, <3>1
    <2>8. \A op \in {"friendList", "requestList"} :
             \E i \in 1..Len(more) : more[i].op = op /\ more[i].by = w
        BY <2>3, <2>5
    <2>9. requestList'[w] \in TrueShown BY <1>5, <2>6
    <2>10. \A u \in Users : u # w => friendList'[u] = friendList[u] /\ requestList'[u] = requestList[u]
        BY <2>6
    <2>11. QED BY <1>1, <1>2, <2>5, <2>6, <2>7, <2>8, <2>9, <2>10, HandledView
<1>11. SUFFICES ASSUME ~RefreshAfterAuthentication(w, p)
                PROVE  /\ p.kind # "connectAck" /\ dbQueue' = dbQueue
                       /\ \A u \in Users : u # w => /\ friendList'[u] = friendList[u]
                                                    /\ requestList'[u] = requestList[u]
                       /\ requestList'[w] \in TrueShown
                       /\ ReadsFriends(p, w) /\ ReadsRequests(p, w)
    <2>1. SUFFICES ASSUME p.kind # "connectAck", dbQueue' = dbQueue,
                          \A u \in Users : u # w => /\ friendList'[u] = friendList[u]
                                                    /\ requestList'[u] = requestList[u],
                          requestList'[w] \in TrueShown,
                          ReadsFriends(p, w), ReadsRequests(p, w)
                   PROVE  ViewInv'
        BY <1>10
    <2>2. dbQueue' = dbQueue \o none BY <1>9, <2>1
    <2>3. \A i \in 1..Len(none) : /\ none[i].login = logins[none[i].by]
                                  /\ none[i].op # "loadOffline"
        BY <1>8
    <2>4. QED BY <1>1, <1>2, <2>1, <2>2, <2>3, HandledView
<1>12. ASSUME friendList' = friendList, p.kind # "friendListAck", p.kind # "friendChanged"
       PROVE  ReadsFriends(p, w)
    BY <1>12 DEF ReadsFriends, FriendGood
<1>13. ASSUME requestList' = requestList,
              p.kind \in {"friendRequestAck", "friendListAck", "friendChanged"}
       PROVE  ReadsRequests(p, w)
    BY <1>13 DEF ReadsRequests, RequestGood, ListSays, SaysOnly
<1>14. CASE OnFriendListAck(w, p)
    <2>1. /\ p.kind = "friendListAck" /\ friendList'[w] = p.friends /\ requestList' = requestList
          /\ dbQueue' = dbQueue /\ \A u \in Users : u # w => friendList'[u] = friendList[u]
        BY <1>6, <1>14 DEF OnFriendListAck
    <2>2. ReadsFriends(p, w) BY <1>4, <2>1 DEF ReadsFriends, FriendGood, FriendBad
    <2>3. QED BY <1>5, <1>13, <2>1, <2>2
<1>15. CASE OnFriendChanged(w, p)
    <2>1. /\ p.kind = "friendChanged" /\ friendList'[w] = friendList[w] \cup p.friends
          /\ requestList' = requestList
          /\ dbQueue' = dbQueue /\ \A u \in Users : u # w => friendList'[u] = friendList[u]
        BY <1>6, <1>15 DEF OnFriendChanged
    <2>2. ReadsFriends(p, w) BY <1>4, <2>1 DEF ReadsFriends, FriendGood
    <2>3. QED BY <1>5, <1>13, <2>1, <2>2
<1>16. CASE OnFriendRequestAck(w, p)
    <2>1. /\ p.kind = "friendRequestAck" /\ friendList' = friendList /\ requestList' = requestList
          /\ dbQueue' = dbQueue
        BY <1>16 DEF OnFriendRequestAck
    <2>2. QED BY <1>5, <1>12, <1>13, <2>1
<1>17. CASE OnFriendRequestListAck(w, p)
    <2>1. /\ p.kind = "friendRequestListAck" /\ friendList' = friendList
          /\ requestList'[w] = p.shown
          /\ dbQueue' = dbQueue /\ \A u \in Users : u # w => requestList'[u] = requestList[u]
        BY <1>6, <1>17 DEF OnFriendRequestListAck
    <2>2. ReadsRequests(p, w)
        <3>1. SUFFICES ASSUME NEW r \in DOMAIN requests, NEW x
                       PROVE  /\ p \in RequestGood(r, x) => (p.shown[r] = "pending" <=> x)
                              /\ p \notin RequestBad(r, x) => (p.shown[r] = "pending" <=> x)
            BY <2>1 DEF ReadsRequests
        <3>2. p \in RequestGood(r, x) => (p.shown[r] = "pending" <=> x)
            BY <2>1 DEF RequestGood, ListSays, SaysOnly
        <3>3. p \notin RequestBad(r, x) => (p.shown[r] = "pending" <=> x)
            BY <1>4, <2>1 DEF RequestBad, RequestGood, ListSays, SaysOnly
        <3>4. QED BY <3>2, <3>3
    <2>3. QED BY <1>5, <1>12, <2>1, <2>2
<1>18. CASE OnFriendDecisionAck(w, p)
    <2>1. PICK new : new = [requestList[w] EXCEPT ![p.id] = "none"] OBVIOUS
    <2>2. /\ p.kind = "friendDecisionAck" /\ friendList' = friendList
          /\ requestList'[w] = new
          /\ dbQueue' = dbQueue /\ \A u \in Users : u # w => requestList'[u] = requestList[u]
        BY <1>6, <1>18, <2>1 DEF OnFriendDecisionAck
    <2>3. /\ new \in [RequestIds -> Status]
          /\ \A r \in RequestIds : new[r] = IF r = p.id THEN "none" ELSE requestList[w][r]
        BY <1>6, <2>1 DEF Status
    <2>4. new \in TrueShown BY <1>5, <2>3 DEF TrueShown
    <2>5. ReadsRequests(p, w)
        <3>1. SUFFICES ASSUME NEW r \in RequestIds, NEW x
                       PROVE  /\ p \in RequestGood(r, x) => (new[r] = "pending" <=> x)
                              /\ p \notin RequestBad(r, x) /\ (requestList[w][r] = "pending" <=> x) =>
                                    (new[r] = "pending" <=> x)
            BY <1>7, <2>2 DEF ReadsRequests
        <3>2. CASE r = p.id
            <4>1. new[r] # "pending" BY <2>3, <3>2
            <4>2. CASE x
                BY <1>4, <2>2, <3>2, <4>2 DEF RequestBad, RequestGood, ListSays, SaysOnly
            <4>3. CASE ~x BY <4>1, <4>3
            <4>4. QED BY <4>2, <4>3
        <3>3. CASE r # p.id
            <4>1. new[r] = requestList[w][r] BY <2>3, <3>3
            <4>2. p \notin RequestGood(r, x) BY <2>2, <3>3 DEF RequestGood, ListSays, SaysOnly
            <4>3. QED BY <4>1, <4>2
        <3>4. QED BY <3>2, <3>3
    <2>6. QED BY <1>12, <2>2, <2>4, <2>5
<1>19. CASE OnFriendRequestNotified(w, p)
    <2>1. /\ p.kind = "friendRequestNotify" /\ friendList' = friendList /\ dbQueue' = dbQueue
        BY <1>19 DEF OnFriendRequestNotified
    <2>2. CASE requestList[w][p.id] = "none"
        <3>1. PICK new : new = [requestList[w] EXCEPT ![p.id] = "pending"] OBVIOUS
        <3>2. /\ requestList'[w] = new
              /\ \A u \in Users : u # w => requestList'[u] = requestList[u]
            BY <1>6, <1>19, <2>2, <3>1 DEF OnFriendRequestNotified
        <3>3. /\ new \in [RequestIds -> Status]
              /\ \A r \in RequestIds : new[r] = IF r = p.id THEN "pending" ELSE requestList[w][r]
            BY <1>6, <3>1 DEF Status
        <3>4. new \in TrueShown BY <1>5, <3>3 DEF TrueShown
        <3>5. ReadsRequests(p, w)
            <4>1. SUFFICES ASSUME NEW r \in RequestIds, NEW x
                           PROVE  /\ p \in RequestGood(r, x) => (new[r] = "pending" <=> x)
                                  /\ p \notin RequestBad(r, x) /\ (requestList[w][r] = "pending" <=> x) =>
                                        (new[r] = "pending" <=> x)
                BY <1>7, <3>2 DEF ReadsRequests
            <4>2. CASE r = p.id
                <5>1. new[r] = "pending" BY <3>3, <4>2
                <5>2. CASE x BY <5>1, <5>2
                <5>3. CASE ~x
                    BY <1>4, <2>1, <4>2, <5>3 DEF RequestBad, RequestGood, ListSays, SaysOnly
                <5>4. QED BY <5>2, <5>3
            <4>3. CASE r # p.id
                <5>1. new[r] = requestList[w][r] BY <3>3, <4>3
                <5>2. p \notin RequestGood(r, x) BY <2>1, <4>3 DEF RequestGood, ListSays, SaysOnly
                <5>3. QED BY <5>1, <5>2
            <4>4. QED BY <4>2, <4>3
        <3>6. QED BY <1>12, <2>1, <3>2, <3>4, <3>5
    <2>3. CASE requestList[w][p.id] # "none"
        <3>1. requestList' = requestList BY <1>19, <2>3 DEF OnFriendRequestNotified
        <3>2. ReadsRequests(p, w)
            <4>1. SUFFICES ASSUME NEW r \in RequestIds, NEW x, x = Waits(r), p \in RequestGood(r, x)
                           PROVE  requestList[w][r] = "pending" <=> x
                BY <1>7, <3>1 DEF ReadsRequests
            <4>2. x /\ p.id = r BY <2>1, <4>1 DEF RequestGood, ListSays, SaysOnly
            <4>3. requestList[w][r] \in Status \ {"none"} BY <1>6, <2>3, <4>2
            <4>4. requestList[w][r] \notin {"accepted", "rejected"} BY <1>5, <4>1, <4>2 DEF TrueShown
            <4>5. requestList[w][r] = "pending" BY <4>3, <4>4 DEF Status
            <4>6. QED BY <4>2, <4>5
        <3>3. QED BY <1>5, <1>12, <2>1, <3>1, <3>2
    <2>4. QED BY <2>2, <2>3
<1>20. QED BY <1>2, <1>11, <1>14, <1>15, <1>16, <1>17, <1>18, <1>19

LEMMA ViewInit == Init => ViewInv
<1> SUFFICES ASSUME Init PROVE ViewInv
    OBVIOUS
<1>1. /\ Len(dbQueue) = 0 /\ Len(results) = 0
      /\ \A u \in Users : Len(toClient[u]) = 0 /\ conn[u] = "down" /\ requestList[u] = NoneShown
    BY DEF Init
<1>2. QueueIsCurrent BY <1>1 DEF QueueIsCurrent
<1>3. ShownIsTrue BY <1>1, NoneTrue DEF ShownIsTrue
<1>4. ViewsCome BY <1>1 DEF ViewsCome
<1>5. QED BY <1>2, <1>3, <1>4 DEF ViewInv

LEMMA ViewStutters ==
    ASSUME IInv, ViewInv, UNCHANGED vars
    PROVE  ViewInv'
<1>1. UNCHANGED <<requests, friendships, dbQueue, results, conn, logins, toClient, friendList,
                  requestList, failures>>
    BY DEF vars, serverTables, queues, sessions, views, counters
<1>2. \A u : \A op : Asks(u, op)' <=> Asks(u, op) BY <1>1 DEF Asks
<1>3. QueueIsCurrent' BY <1>1, <1>2 DEF ViewInv, QueueIsCurrent
<1>4. ShownIsTrue' BY <1>1, TrueShownSame DEF ViewInv, ShownIsTrue
<1>5. ViewsCome'
    <2>1. SUFFICES ASSUME failures' = 0, NEW u \in Users, conn'[u] = "up"
                   PROVE  FriendsCome(u)' /\ RequestsCome(u)'
        BY DEF ViewsCome
    <2>2. FriendsCome(u) /\ RequestsCome(u) BY <1>1, <2>1 DEF ViewInv, ViewsCome
    <2>3. QED BY <1>1, <1>2, <2>2, ViewStays
<1>6. QED BY <1>3, <1>4, <1>5 DEF ViewInv

LEMMA ViewNext ==
    ASSUME IInv, ViewInv, [Next]_vars, IInv'
    PROVE  ViewInv'
<1>1. CASE \E u \in Users : Login(u) BY <1>1, LoginView
<1>2. CASE \E u \in Users : ConnectionLost(u) BY <1>2, ConnectionLostView
<1>3. CASE \E u \in Users : OnClientDisconnected(u) BY <1>3, DisconnectedView
<1>4. CASE ServerCrash BY <1>4, CrashView
<1>5. CASE \E u, v \in Users : HandleFriendRequest(u, v)
    <2>1. PICK u, v \in Users : HandleFriendRequest(u, v) BY <1>5
    <2>2. Operation(u, "create", v, 0) /\ 0 \in 0..MaxOps
        BY <2>1, FriendAssumption DEF HandleFriendRequest
    <2>3. QED BY <2>2, OperationView
<1>6. CASE \E u \in Users, r \in RequestIds, s \in {"accepted", "rejected"} :
              HandleFriendDecision(u, r, s)
    <2>1. PICK u \in Users, r \in RequestIds, s \in {"accepted", "rejected"} :
             HandleFriendDecision(u, r, s)
        BY <1>6
    <2>2. Operation(u, s, NoUser, r) /\ r \in 0..MaxOps
        BY <2>1, FriendAssumption DEF HandleFriendDecision, RequestIds
    <2>3. s \in {"create", "accepted", "rejected"} /\ NoUser \in Users \cup {NoUser} OBVIOUS
    <2>4. QED BY <2>2, <2>3, OperationView
<1>7. CASE DbStep BY <1>7, DbStepView
<1>8. CASE DbFails BY <1>8, DbFailsView
<1>9. CASE OnResult BY <1>9, OnResultView
<1>10. CASE \E u \in Users : HandleIncomingPacket(u) BY <1>10, PacketView
<1>11. CASE UNCHANGED vars BY <1>11, ViewStutters
<1>12. QED
    BY <1>1, <1>2, <1>3, <1>4, <1>5, <1>6, <1>7, <1>8, <1>9, <1>10, <1>11 DEF Next

\* Nothing is under way to u: what comes last has come
LEMMA QuietShows ==
    ASSUME IInv, ViewInv, NEW u \in Users, Quiet(u), failures = 0
    PROVE  ShowsTables(u)
<1>1. /\ conn[u] = "up" /\ Len(toClient[u]) = 0 /\ Len(dbQueue) = 0 /\ Len(results) = 0
    BY DEF Quiet
<1>2. \A op : ~Asks(u, op) BY <1>1 DEF Asks
<1>3. /\ \A v \in FriendsOf(u) : FriendComes(u, v)
      /\ \A r \in DOMAIN requests : requests[r].to = u => RequestComes(u, r)
    BY <1>1, <1>2 DEF ViewInv, ViewsCome, FriendsCome, RequestsCome
<1>4. \A goodRs, badRs, good, bad, now :
         LastWord(results, goodRs, badRs, toClient[u], good, bad, now) => now
    BY <1>1 DEF LastWord, Settled
<1>5. \A v \in FriendsOf(u) : v \in friendList[u]
    <2>1. SUFFICES ASSUME NEW v \in FriendsOf(u)
                   PROVE  v \in friendList[u]
        OBVIOUS
    <2>2. FriendComes(u, v) BY <1>3
    <2>3. QED BY ONLY <1>1, <2>2 DEF FriendComes, LastWord, Settled
<1>6. \A r \in DOMAIN requests : requests[r].to = u =>
         (requestList[u][r] = "pending" <=> requests[r].status = "pending")
    BY <1>3, <1>4 DEF RequestComes, Waits
<1>7. friendList[u] \subseteq contacts[u] /\ contacts[u] \subseteq FriendsOf(u)
    BY DEF IInv, FriendsAreTrue
<1>8. friendList[u] = FriendsOf(u) /\ contacts[u] = FriendsOf(u)
    <2>1. FriendsOf(u) \subseteq friendList[u] BY <1>5
    <2>2. QED BY <1>7, <2>1
<1>9. QED BY <1>6, <1>8 DEF ShowsTables

\* Whenever nothing is under way to a connected client, and no query failed, what the client
\* shows and stores is what the tables say, after any reconnections and crashes: lists,
\* acknowledgements, live notices and queued ones come in an order in which the last word is
\* right, whatever FriendRequestUseCase made of the ones before.
THEOREM ViewsAgreeWhenQuiet == Spec => []QuietViewsAgree
<1>1. Init => IInv /\ ViewInv BY InitInv, ViewInit
<1>2. IInv /\ ViewInv /\ [Next]_vars => IInv' /\ ViewInv' BY NextInv, ViewNext
<1>3. IInv /\ ViewInv => QuietViewsAgree
    BY QuietShows DEF QuietViewsAgree, IInv, FriendsAreTrue
<1>4. QED BY <1>1, <1>2, <1>3, PTL DEF Spec
=============================================================================
