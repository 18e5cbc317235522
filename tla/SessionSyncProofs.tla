-------------------------- MODULE SessionSyncProofs --------------------------
(***************************************************************************)
(* Proofs about SessionSync for any users, groups, logins and failures.    *)
(* The requests, results and packets under way are elements of sets that   *)
(* say what is true of them wherever they are. What needs their order is   *)
(* the timer that opens a new group: it opens a group that is still stored *)
(* only because the acknowledgement of a new group comes before anything   *)
(* else that names the group, and every list after it names it (InOrder).  *)
(* That a client to which nothing is under way agrees with the tables      *)
(* needs the order too, but only of what speaks of one group: the last     *)
(* word is right (SyncInv).                                                *)
(***************************************************************************)
EXTENDS SessionSync, FiniteSetTheorems, SequenceTheorems, TLAPS

(***************************************************************************)
(* What is known. A group id is given out once (wereIn), so nothing names  *)
(* a group before it is created; what names one keeps doing so rightly.    *)
(***************************************************************************)
Known == {g \in Groups : wereIn[g] # {}}

\* A request: one of GroupManagement's, or a query of the list or the offline rows. A client
\* leaves only groups it has heard of.
ListRequest == [op : {"list"}, id : 0..session, group : {NoGroup}, by : {Self}, who : {{}}]
RowsRequest == [op : {"loadOffline"}, id : 0..session, group : {NoGroup}, by : {Self}, who : {{}}]

RightRequests ==
    {r \in Request \cup ListRequest \cup RowsRequest :
        /\ r.op \notin {"create", "list", "loadOffline"} => r.group \in Groups
        /\ r.op = "leave" => r.who = {r.by}
        /\ r.op = "leave" /\ r.by = Self => r.group \in Known
        /\ r.op \in {"create", "add", "remove", "leave"} =>
              r.id < nextId /\ (r.id \in asked => r.by = Self)}

KnownRows == {p \in Pushed : p.kind = "message" => p.group \in Known}

KnownPackets ==
    {p \in ClientPacket :
        /\ p.kind = "message" => p.group \in Known
        /\ p.kind = "groupListAck" => DOMAIN p.list \subseteq Known
        /\ p.kind = "opAck" =>
              /\ p.op = "create" /\ p.ok => p.group \in Known
              /\ p.op # "create" => p.group \in Groups}

OpResult == [req : RightRequests, ok : BOOLEAN, group : Groups \cup {NoGroup},
             members : SUBSET Users]
ListResult == [req : RightRequests, ok : {TRUE}, list : Listing(GroupRow)]
RowsResult == [req : RightRequests, ok : {TRUE}, rows : SUBSET KnownRows]

RightResults ==
    {res \in OpResult :
        /\ res.ok => res.req.op \notin {"list", "loadOffline"} /\ res.group \in Groups
        /\ res.ok /\ res.req.op \in {"create", "message"} => res.group \in Known
        /\ res.req.op \in {"add", "remove", "leave"} => res.group \in Groups}
    \cup {res \in ListResult : res.req.op = "list" /\ DOMAIN res.list \subseteq Known}
    \cup {res \in RowsResult : res.req.op = "loadOffline" /\ IsFiniteSet(res.rows)}

QueuesRight ==
    /\ dbQueue \in Seq(RightRequests)
    /\ results \in Seq(RightResults)
    /\ toClient \in Seq(KnownPackets)
    /\ offlineRows \subseteq KnownRows /\ IsFiniteSet(offlineRows)

ServerRight ==
    /\ groups \in Listing(GroupRow)
    /\ \A g \in DOMAIN groups : g \in Known /\ groups[g].creator \in groups[g].members
    /\ wereIn \in [Groups -> SUBSET Users]
    /\ users \subseteq Users
    /\ nextId \in Nat \ {0}
    /\ pendingRequests \subseteq Ids

ClientRight ==
    /\ connected \in BOOLEAN /\ routed \in BOOLEAN
    /\ session \in 0..MaxLogins /\ undetached \in Nat
    /\ undetached + (IF connected THEN 1 ELSE 0) <= session
    /\ toServer \in BOOLEAN /\ (toServer => connected)
    /\ asked \subseteq {i \in Ids : i < nextId}
    /\ localGroups \in Listing(LocalRow)
    /\ DOMAIN localGroups \subseteq Known
    /\ opening \in Groups \cup {NoGroup}
    /\ inProgress \in BOOLEAN /\ recovery \in BOOLEAN

ShownRight ==
    /\ SessionsConsistent
    /\ shown \in {{}, localSessions}
    /\ connected => \/ shown = localSessions
                    \/ toClient # <<>> /\ toClient[1].kind = "connectAck"

(***************************************************************************)
(* The order of things. The acknowledgement of a new group comes before    *)
(* anything else that names the group, and no list that comes after it     *)
(* leaves the group out.                                                   *)
(***************************************************************************)

Owned(g) == g \in DOMAIN groups /\ groups[g].creator = Self /\ Self \in groups[g].members

NoLeave(queue, g) ==
    \A i \in 1..Len(queue) :
        ~(queue[i].op = "leave" /\ queue[i].by = Self /\ queue[i].group = g)

\* nobody can take g from Self, and Self is not about to leave
Secure(g) == Owned(g) /\ NoLeave(dbQueue, g)

Creates(p, g) == p.kind = "opAck" /\ p.op = "create" /\ p.ok /\ p.group = g

Mentions(p, g) ==
    \/ Creates(p, g)
    \/ p.kind = "message" /\ p.group = g
    \/ p.kind = "groupListAck" /\ p.ok /\ g \in DOMAIN p.list

Omits(p, g) == p.kind = "groupListAck" /\ p.ok /\ g \notin DOMAIN p.list

WillCreate(res, g) == res.req.op = "create" /\ res.ok /\ res.group = g

WillMention(res, g) ==
    \/ WillCreate(res, g)
    \/ res.req.op = "message" /\ res.ok /\ res.group = g
    \/ res.req.op = "list" /\ res.ok /\ g \in DOMAIN res.list
    \/ res.req.op = "loadOffline" /\ res.ok /\ [kind |-> "message", group |-> g] \in res.rows

\* a list that is answered: that of the last login, s
WillOmit(res, s, g) ==
    res.req.op = "list" /\ res.ok /\ res.req.id = s /\ g \notin DOMAIN res.list

\* from here on, every list names g
Stays(g) == Secure(g) /\ \A i \in 1..Len(results) : ~WillOmit(results[i], session, g)

OpeningStays(g) ==
    g = opening =>
        /\ g \in DOMAIN localGroups /\ Stays(g)
        /\ \A i \in 1..Len(toClient) : ~Omits(toClient[i], g)

AckComesFirst(g) ==
    \A k \in 1..Len(toClient) : Creates(toClient[k], g) =>
        /\ g \notin DOMAIN localGroups /\ Stays(g)
        /\ \A i \in 1..Len(toClient) : /\ i < k => ~Mentions(toClient[i], g)
                                       /\ k < i => ~Omits(toClient[i], g)

ResultComesFirst(g) ==
    \A k \in 1..Len(results) :
        WillCreate(results[k], g) /\ results[k].req.id \in asked =>
            /\ g \notin DOMAIN localGroups /\ Secure(g)
            /\ [kind |-> "message", group |-> g] \notin offlineRows
            /\ \A i \in 1..Len(toClient) : ~Mentions(toClient[i], g)
            /\ \A i \in 1..Len(results) : /\ i < k => ~WillMention(results[i], g)
                                          /\ k < i => ~WillOmit(results[i], session, g)

InOrder(g) == OpeningStays(g) /\ AckComesFirst(g) /\ ResultComesFirst(g)

IInv ==
    /\ ServerRight
    /\ ClientRight
    /\ QueuesRight
    /\ ShownRight
    /\ \A g \in Groups : InOrder(g)

-----------------------------------------------------------------------------
(***************************************************************************)
(* What the elements of the queues are                                     *)
(***************************************************************************)

LEMMA ListingIs ==
    ASSUME NEW R, NEW f
    PROVE  f \in Listing(R) <=>
              /\ DOMAIN f \subseteq Groups /\ f = [g \in DOMAIN f |-> f[g]]
              /\ \A g \in DOMAIN f : f[g] \in R
<1>1. ASSUME f \in Listing(R)
      PROVE  /\ DOMAIN f \subseteq Groups /\ f = [g \in DOMAIN f |-> f[g]]
             /\ \A g \in DOMAIN f : f[g] \in R
  <2>1. PICK D \in SUBSET Groups : f \in [D -> R]
    BY <1>1 DEF Listing
  <2> QED
    BY <2>1
<1>2. ASSUME DOMAIN f \subseteq Groups, f = [g \in DOMAIN f |-> f[g]],
             \A g \in DOMAIN f : f[g] \in R
      PROVE  f \in Listing(R)
  <2>1. f \in [DOMAIN f -> R]
    BY <1>2
  <2> QED
    BY <1>2, <2>1 DEF Listing
<1> QED
  BY <1>1, <1>2

LEMMA RequestFacts ==
    ASSUME NEW r \in RightRequests
    PROVE  /\ r.by \in Users /\ r.who \in SUBSET Users /\ r.group \in Groups \cup {NoGroup}
           /\ r.op \in {"create", "add", "remove", "leave", "notify", "message", "list",
                        "loadOffline"}
           /\ r.op \notin {"create", "list", "loadOffline"} => r.group \in Groups
           /\ r.op = "leave" => r.who = {r.by}
           /\ r.op = "leave" /\ r.by = Self => r.group \in Known
           /\ r.op \notin {"list", "loadOffline"} => r.id \in Ids
           /\ r.op \in {"list", "loadOffline"} => r.id \in 0..session
           /\ r.op \in {"create", "add", "remove", "leave"} =>
                 r.id < nextId /\ (r.id \in asked => r.by = Self)
BY SyncAssumption DEF RightRequests, Request, ListRequest, RowsRequest

LEMMA ResultFacts ==
    ASSUME NEW res \in RightResults
    PROVE  /\ res.req \in RightRequests /\ res.ok \in BOOLEAN
           /\ res.req.op \notin {"list", "loadOffline"} =>
                 /\ res.group \in Groups \cup {NoGroup} /\ res.members \in SUBSET Users
                 /\ res.ok => res.group \in Groups
                 /\ res.ok /\ res.req.op \in {"create", "message"} => res.group \in Known
                 /\ res.req.op \in {"add", "remove", "leave"} => res.group \in Groups
           /\ res.req.op = "list" /\ res.ok =>
                 res.list \in Listing(GroupRow) /\ DOMAIN res.list \subseteq Known
           /\ res.req.op = "loadOffline" /\ res.ok =>
                 res.rows \subseteq KnownRows /\ IsFiniteSet(res.rows)
<1>1. CASE res \in OpResult /\ (res.ok => res.req.op \notin {"list", "loadOffline"} /\ res.group \in Groups)
           /\ (res.ok /\ res.req.op \in {"create", "message"} => res.group \in Known)
           /\ (res.req.op \in {"add", "remove", "leave"} => res.group \in Groups)
  BY <1>1 DEF OpResult
<1>2. CASE res \in ListResult /\ res.req.op = "list" /\ DOMAIN res.list \subseteq Known
  BY <1>2 DEF ListResult
<1>3. CASE res \in RowsResult /\ res.req.op = "loadOffline" /\ IsFiniteSet(res.rows)
  BY <1>3 DEF RowsResult
<1> QED
  BY <1>1, <1>2, <1>3 DEF RightResults

LEMMA PacketFacts ==
    ASSUME NEW p \in KnownPackets
    PROVE  /\ p \in ClientPacket
           /\ p.kind \in {"connectAck", "groupListAck", "opAck", "memberChanged", "message"}
           /\ p.kind = "message" => p.group \in Known
           /\ p.kind = "groupListAck" =>
                 /\ p.ok \in BOOLEAN /\ p.list \in Listing(GroupRow)
                 /\ DOMAIN p.list \subseteq Known
           /\ p.kind = "opAck" =>
                 /\ p.ok \in BOOLEAN /\ p.op \in {"create", "add", "remove", "leave"}
                 /\ p.who \in SUBSET Users
                 /\ p.op = "create" /\ p.ok => p.group \in Known
                 /\ p.op # "create" => p.group \in Groups
BY DEF KnownPackets, ClientPacket, Pushed

\* The elements of the queues
LEMMA Elements ==
    ASSUME QueuesRight
    PROVE  /\ Len(dbQueue) \in Nat /\ \A i \in 1..Len(dbQueue) : dbQueue[i] \in RightRequests
           /\ Len(results) \in Nat /\ \A i \in 1..Len(results) : results[i] \in RightResults
           /\ Len(toClient) \in Nat /\ \A i \in 1..Len(toClient) : toClient[i] \in KnownPackets
<1>1. /\ dbQueue \in Seq(RightRequests) /\ results \in Seq(RightResults)
      /\ toClient \in Seq(KnownPackets)
  BY DEF QueuesRight
<1>2. Len(dbQueue) \in Nat /\ Len(results) \in Nat /\ Len(toClient) \in Nat
  BY <1>1, LenProperties
<1>3. \A i \in 1..Len(dbQueue) : dbQueue[i] \in RightRequests
  BY <1>1, ElementOfSeq
<1>4. \A i \in 1..Len(results) : results[i] \in RightResults
  BY <1>1, ElementOfSeq
<1>5. \A i \in 1..Len(toClient) : toClient[i] \in KnownPackets
  BY <1>1, ElementOfSeq
<1> QED
  BY <1>2, <1>3, <1>4, <1>5

\* The three forms a queue takes after a step
LEMMA Removed1 ==
    ASSUME NEW S, NEW s \in Seq(S), s # <<>>
    PROVE  /\ Head(s) = s[1] /\ Head(s) \in S /\ 1 \in 1..Len(s)
           /\ Tail(s) \in Seq(S) /\ Len(Tail(s)) = Len(s) - 1 /\ Len(s) \in Nat
           /\ \A i \in 1..(Len(s) - 1) : i + 1 \in 1..Len(s) /\ Tail(s)[i] = s[i + 1]
<1>1. Len(s) \in Nat /\ Len(s) # 0
  BY LenProperties, EmptySeq
<1>2. /\ Head(s) = s[1] /\ Head(s) \in S /\ Tail(s) \in Seq(S) /\ Len(Tail(s)) = Len(s) - 1
      /\ \A i \in 1..(Len(s) - 1) : Tail(s)[i] = s[i + 1]
  BY <1>1, HeadTailProperties
<1> QED
  BY <1>1, <1>2

LEMMA Added ==
    ASSUME NEW S, NEW s \in Seq(S), NEW x \in S
    PROVE  /\ Append(s, x) \in Seq(S) /\ Len(Append(s, x)) = Len(s) + 1 /\ Len(s) \in Nat
           /\ Append(s, x) # <<>> /\ Append(s, x)[Len(s) + 1] = x
           /\ \A i \in 1..Len(s) : i \in 1..(Len(s) + 1) /\ Append(s, x)[i] = s[i]
           /\ \A i \in 1..(Len(s) + 1) : i \in 1..Len(s) \/ i = Len(s) + 1
<1>1. Len(s) \in Nat
  BY LenProperties
<1>2. /\ Append(s, x) \in Seq(S) /\ Len(Append(s, x)) = Len(s) + 1
      /\ Append(s, x)[Len(s) + 1] = x /\ \A i \in 1..Len(s) : Append(s, x)[i] = s[i]
  BY AppendProperties
<1>3. Append(s, x) # <<>>
  BY <1>1, <1>2, EmptySeq
<1> QED
  BY <1>1, <1>2, <1>3

LEMMA Joined ==
    ASSUME NEW S, NEW s \in Seq(S), NEW t \in Seq(S)
    PROVE  /\ s \o t \in Seq(S) /\ Len(s \o t) = Len(s) + Len(t)
           /\ Len(s) \in Nat /\ Len(t) \in Nat
           /\ \A i \in 1..Len(s) : i \in 1..(Len(s) + Len(t)) /\ (s \o t)[i] = s[i]
           /\ \A i \in 1..(Len(s) + Len(t)) : i \in 1..Len(s) \/ i - Len(s) \in 1..Len(t)
           /\ \A i \in 1..(Len(s) + Len(t)) :
                 i \notin 1..Len(s) => (s \o t)[i] = t[i - Len(s)]
<1>1. PICK m \in Nat : m = Len(s)
  BY LenProperties
<1>2. PICK n \in Nat : n = Len(t)
  BY LenProperties
<1>3. /\ s \o t \in Seq(S) /\ Len(s \o t) = m + n
      /\ \A i \in 1..(m + n) : (s \o t)[i] = IF i <= m THEN s[i] ELSE t[i - m]
  BY <1>1, <1>2, ConcatProperties
<1>4. /\ \A i \in 1..m : i \in 1..(m + n) /\ i <= m
      /\ \A i \in 1..(m + n) : i \in 1..m \/ (i - m \in 1..n /\ ~(i <= m))
      /\ \A i \in 1..(m + n) : i \notin 1..m => ~(i <= m)
  OBVIOUS
<1> QED
  BY <1>1, <1>2, <1>3, <1>4

-----------------------------------------------------------------------------
(***************************************************************************)
(* What is known stays known                                               *)
(***************************************************************************)
Grows ==
    /\ \A g \in Groups : wereIn[g] # {} => wereIn'[g] # {}
    /\ session \in Nat /\ session' \in Nat /\ session <= session'
    /\ nextId \in Nat /\ nextId' \in Nat /\ nextId <= nextId'
    /\ \A i \in Ids : i < nextId /\ i \in asked' => i \in asked

LEMMA RightSetsGrow ==
    ASSUME Grows
    PROVE  /\ Known \subseteq Known'
           /\ RightRequests \subseteq RightRequests'
           /\ KnownRows \subseteq KnownRows'
           /\ KnownPackets \subseteq KnownPackets'
           /\ RightResults \subseteq RightResults'
<1>1. Known \subseteq Known'
  BY DEF Grows, Known
<1>2. PICK K : K = Known'
  OBVIOUS
<1>3. ASSUME NEW r \in RightRequests PROVE r \in RightRequests'
  <2>1. 0..session \subseteq 0..session'
    BY DEF Grows
  <2>2. r \in Request \cup ListRequest' \cup RowsRequest'
    BY <2>1 DEF RightRequests, ListRequest, RowsRequest
  <2>3. /\ r.op \notin {"create", "list", "loadOffline"} => r.group \in Groups
        /\ r.op = "leave" => r.who = {r.by}
        /\ r.op = "leave" /\ r.by = Self => r.group \in K
    BY <1>1, <1>2 DEF RightRequests
  <2>4. r.op \in {"create", "add", "remove", "leave"} =>
           r.id < nextId' /\ (r.id \in asked' => r.by = Self)
    <3>1. SUFFICES ASSUME r.op \in {"create", "add", "remove", "leave"}
                   PROVE  r.id < nextId' /\ (r.id \in asked' => r.by = Self)
      OBVIOUS
    <3>2. r.id \in Ids /\ r.id \in Nat
      BY <3>1, GroupAssumption, RequestFacts DEF Ids
    <3>3. r.id < nextId /\ (r.id \in asked => r.by = Self)
      BY <3>1, RequestFacts
    <3> QED
      BY <3>2, <3>3 DEF Grows
  <2> QED
    BY <1>2, <2>2, <2>3, <2>4 DEF RightRequests
<1>4. KnownRows \subseteq KnownRows'
  BY <1>1 DEF KnownRows
<1>5. KnownPackets \subseteq KnownPackets'
  <2>1. SUFFICES ASSUME NEW p \in KnownPackets PROVE p \in KnownPackets'
    OBVIOUS
  <2>2. /\ p \in ClientPacket
        /\ p.kind = "message" => p.group \in K
        /\ p.kind = "groupListAck" => DOMAIN p.list \subseteq K
        /\ p.kind = "opAck" =>
              /\ p.op = "create" /\ p.ok => p.group \in K
              /\ p.op # "create" => p.group \in Groups
    BY <1>1, <1>2 DEF KnownPackets
  <2> QED
    BY <1>2, <2>2 DEF KnownPackets
<1>6. ASSUME NEW res \in RightResults PROVE res \in RightResults'
  <2>1. CASE /\ res \in OpResult
             /\ res.ok => res.req.op \notin {"list", "loadOffline"} /\ res.group \in Groups
             /\ res.ok /\ res.req.op \in {"create", "message"} => res.group \in Known
             /\ res.req.op \in {"add", "remove", "leave"} => res.group \in Groups
    <3>1. res \in OpResult'
      BY <1>3, <2>1 DEF OpResult
    <3> QED
      BY <1>1, <2>1, <3>1 DEF RightResults
  <2>2. CASE res \in ListResult /\ res.req.op = "list" /\ DOMAIN res.list \subseteq Known
    <3>1. res \in ListResult'
      BY <1>3, <2>2 DEF ListResult
    <3> QED
      BY <1>1, <2>2, <3>1 DEF RightResults
  <2>3. CASE res \in RowsResult /\ res.req.op = "loadOffline" /\ IsFiniteSet(res.rows)
    <3>1. res \in RowsResult'
      BY <1>3, <1>4, <2>3 DEF RowsResult
    <3> QED
      BY <2>3, <3>1 DEF RightResults
  <2> QED
    BY <2>1, <2>2, <2>3 DEF RightResults
<1> QED
  BY <1>1, <1>3, <1>4, <1>5, <1>6

LEMMA QueuesGrow ==
    ASSUME Grows, QueuesRight
    PROVE  /\ dbQueue \in Seq(RightRequests')
           /\ results \in Seq(RightResults')
           /\ toClient \in Seq(KnownPackets')
           /\ offlineRows \subseteq KnownRows'
<1>1. /\ dbQueue \in Seq(RightRequests) /\ results \in Seq(RightResults)
      /\ toClient \in Seq(KnownPackets) /\ offlineRows \subseteq KnownRows
  BY DEF QueuesRight
<1>2. PICK A, B, C : A = RightRequests' /\ B = RightResults' /\ C = KnownPackets'
  OBVIOUS
<1>3. RightRequests \subseteq A /\ RightResults \subseteq B /\ KnownPackets \subseteq C
  BY <1>2, RightSetsGrow
<1>4. dbQueue \in Seq(A) /\ results \in Seq(B) /\ toClient \in Seq(C)
  BY <1>1, <1>3, SeqMonotonic
<1>5. offlineRows \subseteq KnownRows'
  BY <1>1, RightSetsGrow
<1> QED
  BY <1>2, <1>4, <1>5

-----------------------------------------------------------------------------
(***************************************************************************)
(* The order of things, step by step. A step keeps the groups secure that  *)
(* the client has not heard of or waits to open.                           *)
(***************************************************************************)
StaysSecure(g) == Secure(g) /\ (g = opening \/ g \notin DOMAIN localGroups) => Secure(g)'

\* Nothing is handled: but the wire may be cut, a login may take place
LEMMA OrderKept ==
    ASSUME NEW g \in Groups, InOrder(g), QueuesRight, StaysSecure(g), Grows,
           opening' \in {opening, NoGroup}, localGroups' = localGroups,
           offlineRows' = offlineRows, results' \in {results, <<>>},
           toClient' = toClient
              \/ \A i \in 1..Len(toClient') : toClient'[i] = [kind |-> "connectAck"],
           session' \in {session, session + 1}
    PROVE  InOrder(g)'
<1>1. g # NoGroup
  BY GroupAssumption
<1>2. /\ Len(results) \in Nat /\ \A i \in 1..Len(results) : results[i] \in RightResults
      /\ \A i \in 1..Len(results') : i \in 1..Len(results) /\ results'[i] = results[i]
  <2>1. /\ Len(results) \in Nat /\ \A i \in 1..Len(results) : results[i] \in RightResults
    BY Elements
  <2>2. CASE results' = results
    BY <2>1, <2>2
  <2>3. CASE results' = <<>>
    <3>1. Len(results') = 0
      BY <2>3
    <3> QED
      BY <2>1, <3>1
  <2> QED
    BY <2>1, <2>2, <2>3
<1>3. ASSUME NEW i \in 1..Len(results'), WillOmit(results'[i], session', g)
      PROVE  WillOmit(results[i], session, g)
  <2>1. PICK res : res = results[i] /\ res = results'[i] /\ res \in RightResults
    BY <1>2
  <2>2. res.req.op = "list" => res.req.id \in 0..session
    BY <2>1, ResultFacts, RequestFacts
  <2>3. WillOmit(res, session', g)
    BY <1>3, <2>1
  <2>4. WillOmit(res, session, g)
    BY <2>2, <2>3 DEF WillOmit, Grows
  <2> QED
    BY <2>1, <2>4
<1>4. ASSUME NEW i \in 1..Len(results'), WillCreate(results'[i], g), results'[i].req.id \in asked'
      PROVE  WillCreate(results[i], g) /\ results[i].req.id \in asked
  <2>1. PICK res : res = results[i] /\ res = results'[i] /\ res \in RightResults
    BY <1>2
  <2>2. res.req.op = "create"
    BY <1>4, <2>1 DEF WillCreate
  <2>3. res.req.id \in Ids /\ res.req.id < nextId
    BY <2>1, <2>2, ResultFacts, RequestFacts
  <2>4. res.req.id \in asked
    BY <1>4, <2>1, <2>3 DEF Grows
  <2> QED
    BY <1>4, <2>1, <2>4
<1>5. Stays(g) /\ (g = opening \/ g \notin DOMAIN localGroups) => Stays(g)'
  <2>1. SUFFICES ASSUME Stays(g), g = opening \/ g \notin DOMAIN localGroups
                 PROVE  Secure(g)' /\ \A i \in 1..Len(results') : ~WillOmit(results'[i], session', g)
    BY DEF Stays
  <2>2. Secure(g)'
    BY <2>1 DEF StaysSecure, Stays
  <2>3. \A i \in 1..Len(results') : ~WillOmit(results'[i], session', g)
    BY <1>2, <1>3, <2>1 DEF Stays
  <2> QED
    BY <2>2, <2>3
<1>6. \/ toClient' = toClient
      \/ \A i \in 1..Len(toClient') :
            ~Omits(toClient'[i], g) /\ ~Creates(toClient'[i], g) /\ ~Mentions(toClient'[i], g)
  BY DEF Omits, Creates, Mentions
<1>7. OpeningStays(g)'
  BY <1>1, <1>5, <1>6 DEF InOrder, OpeningStays
<1>8. AckComesFirst(g)'
  BY <1>5, <1>6 DEF InOrder, AckComesFirst
<1>9. ResultComesFirst(g)'
  <2>1. SUFFICES ASSUME NEW k \in 1..Len(results'), WillCreate(results'[k], g),
                        results'[k].req.id \in asked'
                 PROVE  /\ g \notin DOMAIN localGroups' /\ Secure(g)'
                        /\ [kind |-> "message", group |-> g] \notin offlineRows'
                        /\ \A i \in 1..Len(toClient') : ~Mentions(toClient'[i], g)
                        /\ \A i \in 1..Len(results') :
                              /\ i < k => ~WillMention(results'[i], g)
                              /\ k < i => ~WillOmit(results'[i], session', g)
    BY DEF ResultComesFirst
  <2>2. WillCreate(results[k], g) /\ results[k].req.id \in asked /\ k \in 1..Len(results)
    BY <1>2, <1>4, <2>1
  <2>3. /\ g \notin DOMAIN localGroups /\ Secure(g)
        /\ [kind |-> "message", group |-> g] \notin offlineRows
        /\ \A i \in 1..Len(toClient) : ~Mentions(toClient[i], g)
        /\ \A i \in 1..Len(results) : /\ i < k => ~WillMention(results[i], g)
                                      /\ k < i => ~WillOmit(results[i], session, g)
    BY <2>2 DEF InOrder, ResultComesFirst
  <2>4. Secure(g)'
    BY <2>3 DEF StaysSecure
  <2>5. \A i \in 1..Len(toClient') : ~Mentions(toClient'[i], g)
    BY <1>6, <2>3
  <2>6. \A i \in 1..Len(results') : /\ i < k => ~WillMention(results'[i], g)
                                    /\ k < i => ~WillOmit(results'[i], session', g)
    BY <1>2, <1>3, <2>3
  <2> QED
    BY <2>3, <2>4, <2>5, <2>6
<1> QED
  BY <1>7, <1>8, <1>9 DEF InOrder

\* A request is answered by the database thread
LEMMA OrderOfAnswers ==
    ASSUME NEW g \in Groups, InOrder(g), QueuesRight, StaysSecure(g), NEW res,
           results' = Append(results, res),
           UNCHANGED <<opening, localGroups, offlineRows, toClient, session, asked>>,
           Secure(g) => ~WillOmit(res, session, g),
           WillCreate(res, g) /\ res.req.id \in asked =>
              /\ g \notin DOMAIN localGroups /\ Secure(g)'
              /\ [kind |-> "message", group |-> g] \notin offlineRows
              /\ \A i \in 1..Len(toClient) : ~Mentions(toClient[i], g)
              /\ \A i \in 1..Len(results) : ~WillMention(results[i], g)
    PROVE  InOrder(g)'
<1>1. PICK n \in Nat : n = Len(results)
  BY Elements
<1>2. /\ Len(results') = n + 1 /\ results'[n + 1] = res
      /\ \A i \in 1..n : i \in 1..(n + 1) /\ results'[i] = results[i]
      /\ \A i \in 1..(n + 1) : i \in 1..n \/ i = n + 1
  <2>1. PICK s \in Seq(RightResults \cup {res}) : s = results
    <3>1. results \in Seq(RightResults)
      BY DEF QueuesRight
    <3> QED
      BY <3>1, SeqMonotonic
  <2>2. PICK S : S = RightResults \cup {res}
    OBVIOUS
  <2>3. s \in Seq(S) /\ res \in S
    BY <2>1, <2>2
  <2> QED
    BY <1>1, <2>1, <2>3, Added
<1>3. Stays(g) /\ (g = opening \/ g \notin DOMAIN localGroups) => Stays(g)'
  <2>1. SUFFICES ASSUME Stays(g), g = opening \/ g \notin DOMAIN localGroups
                 PROVE  Secure(g)' /\ \A i \in 1..Len(results') : ~WillOmit(results'[i], session', g)
    BY DEF Stays
  <2>2. Secure(g)' /\ Secure(g)
    BY <2>1 DEF StaysSecure, Stays
  <2>3. \A i \in 1..(n + 1) : ~WillOmit(results'[i], session, g)
    BY <1>1, <1>2, <2>1, <2>2 DEF Stays
  <2> QED
    BY <1>2, <2>2, <2>3
<1>4. OpeningStays(g)'
  BY <1>3 DEF InOrder, OpeningStays
<1>5. AckComesFirst(g)'
  BY <1>3 DEF InOrder, AckComesFirst
<1>6. ResultComesFirst(g)'
  <2>1. SUFFICES ASSUME NEW k \in 1..(n + 1), WillCreate(results'[k], g),
                        results'[k].req.id \in asked
                 PROVE  /\ g \notin DOMAIN localGroups /\ Secure(g)'
                        /\ [kind |-> "message", group |-> g] \notin offlineRows
                        /\ \A i \in 1..Len(toClient) : ~Mentions(toClient[i], g)
                        /\ \A i \in 1..(n + 1) :
                              /\ i < k => ~WillMention(results'[i], g)
                              /\ k < i => ~WillOmit(results'[i], session, g)
    BY <1>2 DEF ResultComesFirst
  <2>2. CASE k \in 1..n
    <3>1. WillCreate(results[k], g) /\ results[k].req.id \in asked /\ k \in 1..Len(results)
      BY <1>1, <1>2, <2>1, <2>2
    <3>2. /\ g \notin DOMAIN localGroups /\ Secure(g)
          /\ [kind |-> "message", group |-> g] \notin offlineRows
          /\ \A i \in 1..Len(toClient) : ~Mentions(toClient[i], g)
          /\ \A i \in 1..n : /\ i < k => ~WillMention(results[i], g)
                             /\ k < i => ~WillOmit(results[i], session, g)
      BY <1>1, <3>1 DEF InOrder, ResultComesFirst
    <3>3. Secure(g)'
      BY <3>2 DEF StaysSecure
    <3>4. \A i \in 1..(n + 1) : /\ i < k => ~WillMention(results'[i], g)
                                /\ k < i => ~WillOmit(results'[i], session, g)
      <4>1. TAKE i \in 1..(n + 1)
      <4>2. CASE i \in 1..n
        BY <1>2, <3>2, <4>2
      <4>3. CASE i = n + 1
        BY <1>2, <2>2, <3>2, <4>3
      <4> QED
        BY <1>2, <4>2, <4>3
    <3> QED
      BY <3>2, <3>3, <3>4
  <2>3. CASE k = n + 1
    <3>1. WillCreate(res, g) /\ res.req.id \in asked
      BY <1>2, <2>1, <2>3
    <3>2. /\ g \notin DOMAIN localGroups /\ Secure(g)'
          /\ [kind |-> "message", group |-> g] \notin offlineRows
          /\ \A i \in 1..Len(toClient) : ~Mentions(toClient[i], g)
          /\ \A i \in 1..n : ~WillMention(results[i], g)
      BY <1>1, <3>1
    <3>3. \A i \in 1..(n + 1) : /\ i < k => ~WillMention(results'[i], g)
                                /\ k < i => ~WillOmit(results'[i], session, g)
      <4>1. TAKE i \in 1..(n + 1)
      <4>2. ~(k < i) /\ (i < k => i \in 1..n)
        BY <2>3
      <4> QED
        BY <1>2, <3>2, <4>2
    <3> QED
      BY <3>2, <3>3
  <2> QED
    BY <1>2, <2>1, <2>2, <2>3
<1> QED
  BY <1>4, <1>5, <1>6 DEF InOrder

\* The packet p stands for the result res
Renders(p, res, g) ==
    /\ Mentions(p, g) => WillMention(res, g)
    /\ Omits(p, g) => WillOmit(res, session, g)
    /\ Creates(p, g) => WillCreate(res, g) /\ res.req.id \in asked

\* A result is handled, and packets are written
LEMMA OrderOfPackets ==
    ASSUME NEW g \in Groups, InOrder(g), QueuesRight, StaysSecure(g), results # <<>>,
           results' = Tail(results), NEW packets \in Seq(ClientPacket),
           toClient' = toClient \o packets,
           \A i \in 1..Len(packets) : Renders(packets[i], Head(results), g),
           Len(packets) <= 1 \/ \A i \in 1..Len(packets) : ~Creates(packets[i], g),
           [kind |-> "message", group |-> g] \in offlineRows' =>
              [kind |-> "message", group |-> g] \in offlineRows \/ WillMention(Head(results), g),
           asked' \subseteq asked,
           UNCHANGED <<opening, localGroups, session>>
    PROVE  InOrder(g)'
<1>1. PICK n \in Nat : n + 1 = Len(results)
  <2>1. PICK s \in Seq(RightResults) : s = results
    BY DEF QueuesRight
  <2>2. Len(s) \in Nat /\ 1 \in 1..Len(s)
    BY <2>1, Removed1
  <2>3. Len(s) - 1 \in Nat /\ (Len(s) - 1) + 1 = Len(results)
    BY <2>1, <2>2
  <2> QED
    BY <2>3
<1>2. PICK l \in Nat : l = Len(toClient)
  BY Elements
<1>3. PICK m \in Nat : m = Len(packets)
  BY LenProperties
<1>4. PICK res : res = Head(results)
  OBVIOUS
<1>5. /\ Len(results') = n /\ results[1] = res /\ 1 \in 1..(n + 1)
      /\ \A i \in 1..n : i + 1 \in 1..(n + 1) /\ results'[i] = results[i + 1]
  <2>1. PICK s \in Seq(RightResults) : s = results
    BY DEF QueuesRight
  <2>2. /\ Head(s) = s[1] /\ 1 \in 1..Len(s) /\ Len(Tail(s)) = Len(s) - 1
        /\ \A i \in 1..(Len(s) - 1) : i + 1 \in 1..Len(s) /\ Tail(s)[i] = s[i + 1]
    BY <2>1, Removed1
  <2>3. n = (n + 1) - 1
    OBVIOUS
  <2> QED
    BY <1>1, <1>4, <2>1, <2>2, <2>3
<1>6. /\ Len(toClient') = l + m
      /\ \A i \in 1..l : i \in 1..(l + m) /\ toClient'[i] = toClient[i]
      /\ \A i \in 1..(l + m) : i \in 1..l \/ (i - l \in 1..m /\ toClient'[i] = packets[i - l])
  <2>1. PICK s \in Seq(ClientPacket) : s = toClient
    <3>1. toClient \in Seq(KnownPackets) /\ KnownPackets \subseteq ClientPacket
      BY DEF QueuesRight, KnownPackets
    <3> QED
      BY <3>1, SeqMonotonic
  <2>2. /\ Len(s \o packets) = l + m
        /\ \A i \in 1..l : i \in 1..(l + m) /\ (s \o packets)[i] = s[i]
        /\ \A i \in 1..(l + m) : i \in 1..l \/ i - l \in 1..m
        /\ \A i \in 1..(l + m) : i \notin 1..l => (s \o packets)[i] = packets[i - l]
    BY <1>2, <1>3, <2>1, Joined
  <2> QED
    BY <2>1, <2>2
<1>7. /\ \A i \in 1..m : Renders(packets[i], res, g)
      /\ m <= 1 \/ \A i \in 1..m : ~Creates(packets[i], g)
  BY <1>3, <1>4
<1>8. Stays(g) /\ (g = opening \/ g \notin DOMAIN localGroups) => Stays(g)' /\ ~WillOmit(res, session, g)
  <2>1. SUFFICES ASSUME Stays(g), g = opening \/ g \notin DOMAIN localGroups
                 PROVE  /\ Secure(g)' /\ \A i \in 1..Len(results') : ~WillOmit(results'[i], session', g)
                        /\ ~WillOmit(res, session, g)
    BY DEF Stays
  <2>2. Secure(g)'
    BY <2>1 DEF StaysSecure, Stays
  <2>3. \A i \in 1..(n + 1) : ~WillOmit(results[i], session, g)
    BY <1>1, <2>1 DEF Stays
  <2>4. \A i \in 1..n : ~WillOmit(results'[i], session, g)
    BY <1>5, <2>3
  <2> QED
    BY <1>5, <2>2, <2>3, <2>4
<1>9. OpeningStays(g)'
  <2>1. SUFFICES ASSUME g = opening'
                 PROVE  /\ g \in DOMAIN localGroups' /\ Stays(g)'
                        /\ \A i \in 1..Len(toClient') : ~Omits(toClient'[i], g)
    BY DEF OpeningStays
  <2>2. /\ g \in DOMAIN localGroups /\ Stays(g) /\ \A i \in 1..l : ~Omits(toClient[i], g)
    BY <1>2, <2>1 DEF InOrder, OpeningStays
  <2>3. Stays(g)' /\ ~WillOmit(res, session, g)
    BY <1>8, <2>1, <2>2
  <2>4. \A i \in 1..(l + m) : ~Omits(toClient'[i], g)
    BY <1>6, <1>7, <2>2, <2>3 DEF Renders
  <2> QED
    BY <1>6, <2>2, <2>3, <2>4
<1>10. AckComesFirst(g)'
  <2>1. SUFFICES ASSUME NEW k \in 1..(l + m), Creates(toClient'[k], g)
                 PROVE  /\ g \notin DOMAIN localGroups /\ Stays(g)'
                        /\ \A i \in 1..(l + m) : /\ i < k => ~Mentions(toClient'[i], g)
                                                 /\ k < i => ~Omits(toClient'[i], g)
    BY <1>6 DEF AckComesFirst
  <2>2. CASE k \in 1..l
    <3>1. /\ g \notin DOMAIN localGroups /\ Stays(g)
          /\ \A i \in 1..l : /\ i < k => ~Mentions(toClient[i], g)
                             /\ k < i => ~Omits(toClient[i], g)
      BY <1>2, <1>6, <2>1, <2>2 DEF InOrder, AckComesFirst
    <3>2. Stays(g)' /\ ~WillOmit(res, session, g)
      BY <1>8, <3>1
    <3>3. \A i \in 1..(l + m) : /\ i < k => ~Mentions(toClient'[i], g)
                                /\ k < i => ~Omits(toClient'[i], g)
      <4>1. TAKE i \in 1..(l + m)
      <4>2. CASE i \in 1..l
        BY <1>6, <3>1, <4>2
      <4>3. CASE i \notin 1..l
        <5>1. ~(i < k)
          BY <2>2, <4>3
        <5>2. i - l \in 1..m /\ toClient'[i] = packets[i - l]
          BY <1>6, <4>3
        <5>3. ~Omits(toClient'[i], g)
          BY <1>7, <3>2, <5>2 DEF Renders
        <5> QED
          BY <5>1, <5>3
      <4> QED
        BY <4>2, <4>3
    <3> QED
      BY <3>1, <3>2, <3>3
  <2>3. CASE k \notin 1..l
    <3>1. k - l \in 1..m /\ Creates(packets[k - l], g)
      BY <1>6, <2>1, <2>3
    <3>2. m <= 1
      BY <1>7, <3>1
    <3>3. WillCreate(res, g) /\ res.req.id \in asked
      BY <1>7, <3>1 DEF Renders
    <3>4. /\ g \notin DOMAIN localGroups /\ Secure(g)
          /\ \A i \in 1..l : ~Mentions(toClient[i], g)
          /\ \A i \in 1..(n + 1) : 1 < i => ~WillOmit(results[i], session, g)
      BY <1>1, <1>2, <1>5, <3>3 DEF InOrder, ResultComesFirst
    <3>5. Stays(g)'
      <4>1. \A i \in 1..n : ~WillOmit(results'[i], session, g)
        <5>1. \A i \in 1..n : 1 < i + 1
          OBVIOUS
        <5> QED
          BY <1>5, <3>4, <5>1
      <4>2. Secure(g)'
        BY <3>4 DEF StaysSecure
      <4> QED
        BY <1>5, <4>1, <4>2 DEF Stays
    <3>6. \A i \in 1..(l + m) : /\ i < k => ~Mentions(toClient'[i], g)
                                /\ k < i => ~Omits(toClient'[i], g)
      <4>1. TAKE i \in 1..(l + m)
      <4>2. ~(k < i) /\ (i < k => i \in 1..l)
        BY <2>3, <3>2
      <4> QED
        BY <1>6, <3>4, <4>2
    <3> QED
      BY <3>4, <3>5, <3>6
  <2> QED
    BY <2>2, <2>3
<1>11. ResultComesFirst(g)'
  <2>1. SUFFICES ASSUME NEW k \in 1..n, WillCreate(results'[k], g), results'[k].req.id \in asked'
                 PROVE  /\ g \notin DOMAIN localGroups /\ Secure(g)'
                        /\ [kind |-> "message", group |-> g] \notin offlineRows'
                        /\ \A i \in 1..(l + m) : ~Mentions(toClient'[i], g)
                        /\ \A i \in 1..n :
                              /\ i < k => ~WillMention(results'[i], g)
                              /\ k < i => ~WillOmit(results'[i], session, g)
    BY <1>5, <1>6 DEF ResultComesFirst
  <2>2. /\ k + 1 \in 1..(n + 1) /\ 1 < k + 1
        /\ WillCreate(results[k + 1], g) /\ results[k + 1].req.id \in asked
    BY <1>5, <2>1
  <2>3. /\ g \notin DOMAIN localGroups /\ Secure(g)
        /\ [kind |-> "message", group |-> g] \notin offlineRows
        /\ \A i \in 1..l : ~Mentions(toClient[i], g)
        /\ \A i \in 1..(n + 1) : /\ i < k + 1 => ~WillMention(results[i], g)
                                 /\ k + 1 < i => ~WillOmit(results[i], session, g)
    BY <1>1, <1>2, <2>2 DEF InOrder, ResultComesFirst
  <2>4. ~WillMention(res, g)
    BY <1>5, <2>2, <2>3
  <2>5. [kind |-> "message", group |-> g] \notin offlineRows'
    BY <1>4, <2>3, <2>4
  <2>6. \A i \in 1..(l + m) : ~Mentions(toClient'[i], g)
    BY <1>6, <1>7, <2>3, <2>4 DEF Renders
  <2>7. Secure(g)'
    BY <2>3 DEF StaysSecure
  <2>8. \A i \in 1..n : /\ i < k => ~WillMention(results'[i], g)
                        /\ k < i => ~WillOmit(results'[i], session, g)
    <3>1. TAKE i \in 1..n
    <3>2. (i < k => i + 1 < k + 1) /\ (k < i => k + 1 < i + 1)
      OBVIOUS
    <3> QED
      BY <1>5, <2>3, <3>2
  <2> QED
    BY <2>3, <2>5, <2>6, <2>7, <2>8
<1> QED
  BY <1>9, <1>10, <1>11 DEF InOrder

\* The client handles a packet
LEMMA OrderReceived ==
    ASSUME NEW g \in Groups, InOrder(g), QueuesRight, StaysSecure(g), toClient # <<>>,
           toClient' = Tail(toClient),
           UNCHANGED <<results, session, asked, offlineRows>>,
           g \in DOMAIN localGroups' => g \in DOMAIN localGroups \/ Mentions(Head(toClient), g),
           g \in DOMAIN localGroups => g \in DOMAIN localGroups' \/ Omits(Head(toClient), g),
           g = opening' => \/ g = opening
                           \/ Creates(Head(toClient), g) /\ g \in DOMAIN localGroups'
    PROVE  InOrder(g)'
<1>1. PICK n \in Nat : n + 1 = Len(toClient)
  <2>1. Len(toClient) \in Nat /\ 1 \in 1..Len(toClient)
    BY Removed1 DEF QueuesRight
  <2> QED
    BY <2>1
<1>2. PICK p : p = Head(toClient)
  OBVIOUS
<1>3. /\ Len(toClient') = n /\ toClient[1] = p /\ 1 \in 1..(n + 1)
      /\ \A i \in 1..n : i + 1 \in 1..(n + 1) /\ toClient'[i] = toClient[i + 1] /\ 1 < i + 1
  <2>1. PICK s \in Seq(KnownPackets) : s = toClient
    BY DEF QueuesRight
  <2>2. /\ Head(s) = s[1] /\ 1 \in 1..Len(s) /\ Len(Tail(s)) = Len(s) - 1
        /\ \A i \in 1..(Len(s) - 1) : i + 1 \in 1..Len(s) /\ Tail(s)[i] = s[i + 1]
    BY <2>1, Removed1
  <2>3. n = (n + 1) - 1 /\ \A i \in 1..n : 1 < i + 1
    OBVIOUS
  <2> QED
    BY <1>1, <1>2, <2>1, <2>2, <2>3
<1>4. Stays(g) /\ (g = opening \/ g \notin DOMAIN localGroups) => Stays(g)'
  BY DEF Stays, StaysSecure
<1>5. OpeningStays(g)'
  <2>1. SUFFICES ASSUME g = opening'
                 PROVE  /\ g \in DOMAIN localGroups' /\ Stays(g)'
                        /\ \A i \in 1..n : ~Omits(toClient'[i], g)
    BY <1>3 DEF OpeningStays
  <2>2. CASE g = opening
    <3>1. /\ g \in DOMAIN localGroups /\ Stays(g) /\ \A i \in 1..(n + 1) : ~Omits(toClient[i], g)
      BY <1>1, <2>2 DEF InOrder, OpeningStays
    <3>2. g \in DOMAIN localGroups'
      BY <1>2, <1>3, <3>1
    <3> QED
      BY <1>3, <1>4, <2>2, <3>1, <3>2
  <2>3. CASE Creates(p, g) /\ g \in DOMAIN localGroups'
    <3>1. /\ g \notin DOMAIN localGroups /\ Stays(g)
          /\ \A i \in 1..(n + 1) : 1 < i => ~Omits(toClient[i], g)
      BY <1>1, <1>3, <2>3 DEF InOrder, AckComesFirst
    <3> QED
      BY <1>3, <1>4, <2>3, <3>1
  <2> QED
    BY <1>2, <2>1, <2>2, <2>3
<1>6. AckComesFirst(g)'
  <2>1. SUFFICES ASSUME NEW k \in 1..n, Creates(toClient'[k], g)
                 PROVE  /\ g \notin DOMAIN localGroups' /\ Stays(g)'
                        /\ \A i \in 1..n : /\ i < k => ~Mentions(toClient'[i], g)
                                           /\ k < i => ~Omits(toClient'[i], g)
    BY <1>3 DEF AckComesFirst
  <2>2. /\ g \notin DOMAIN localGroups /\ Stays(g)
        /\ \A i \in 1..(n + 1) : /\ i < k + 1 => ~Mentions(toClient[i], g)
                                 /\ k + 1 < i => ~Omits(toClient[i], g)
    BY <1>1, <1>3, <2>1 DEF InOrder, AckComesFirst
  <2>3. g \notin DOMAIN localGroups'
    BY <1>2, <1>3, <2>2
  <2>4. \A i \in 1..n : /\ i < k => ~Mentions(toClient'[i], g)
                        /\ k < i => ~Omits(toClient'[i], g)
    <3>1. TAKE i \in 1..n
    <3>2. (i < k => i + 1 < k + 1) /\ (k < i => k + 1 < i + 1)
      OBVIOUS
    <3> QED
      BY <1>3, <2>2, <3>2
  <2> QED
    BY <1>4, <2>2, <2>3, <2>4
<1>7. ResultComesFirst(g)'
  <2>1. SUFFICES ASSUME NEW k \in 1..Len(results), WillCreate(results[k], g), results[k].req.id \in asked
                 PROVE  /\ g \notin DOMAIN localGroups' /\ Secure(g)'
                        /\ [kind |-> "message", group |-> g] \notin offlineRows
                        /\ \A i \in 1..n : ~Mentions(toClient'[i], g)
                        /\ \A i \in 1..Len(results) :
                              /\ i < k => ~WillMention(results[i], g)
                              /\ k < i => ~WillOmit(results[i], session, g)
    BY <1>3 DEF ResultComesFirst
  <2>2. /\ g \notin DOMAIN localGroups /\ Secure(g)
        /\ [kind |-> "message", group |-> g] \notin offlineRows
        /\ \A i \in 1..(n + 1) : ~Mentions(toClient[i], g)
        /\ \A i \in 1..Len(results) :
              /\ i < k => ~WillMention(results[i], g)
              /\ k < i => ~WillOmit(results[i], session, g)
    BY <1>1, <2>1 DEF InOrder, ResultComesFirst
  <2>3. g \notin DOMAIN localGroups'
    BY <1>2, <1>3, <2>2
  <2>4. Secure(g)'
    BY <2>2 DEF StaysSecure
  <2>5. \A i \in 1..n : ~Mentions(toClient'[i], g)
    BY <1>3, <2>2
  <2> QED
    BY <2>2, <2>3, <2>4, <2>5
<1> QED
  BY <1>5, <1>6, <1>7 DEF InOrder

-----------------------------------------------------------------------------
(***************************************************************************)
(* Groups nobody can take from Self                                        *)
(***************************************************************************)
LEMMA NoLeaveTail ==
    ASSUME NEW S, NEW q \in Seq(S), q # <<>>, NEW g, NoLeave(q, g)
    PROVE  NoLeave(Tail(q), g)
<1>1. PICK n \in Nat : n + 1 = Len(q)
  <2>1. Len(q) \in Nat /\ 1 \in 1..Len(q)
    BY Removed1
  <2>2. Len(q) - 1 \in Nat /\ (Len(q) - 1) + 1 = Len(q)
    BY <2>1
  <2> QED
    BY <2>2
<1>2. Len(Tail(q)) = n /\ \A i \in 1..n : i + 1 \in 1..(n + 1) /\ Tail(q)[i] = q[i + 1]
  <2>1. n = (n + 1) - 1
    OBVIOUS
  <2> QED
    BY <1>1, <2>1, Removed1
<1> QED
  BY <1>1, <1>2 DEF NoLeave

LEMMA NoLeaveAppend ==
    ASSUME NEW S, NEW q \in Seq(S), NEW r \in S, NEW g, NoLeave(q, g),
           ~(r.op = "leave" /\ r.by = Self /\ r.group = g)
    PROVE  NoLeave(Append(q, r), g)
<1>1. PICK n \in Nat : n = Len(q)
  BY LenProperties
<1>2. /\ Len(Append(q, r)) = n + 1 /\ Append(q, r)[n + 1] = r
      /\ \A i \in 1..n : Append(q, r)[i] = q[i]
      /\ \A i \in 1..(n + 1) : i \in 1..n \/ i = n + 1
  BY <1>1, Added
<1>3. SUFFICES ASSUME NEW i \in 1..(n + 1)
               PROVE  ~(/\ Append(q, r)[i].op = "leave" /\ Append(q, r)[i].by = Self
                        /\ Append(q, r)[i].group = g)
  BY <1>2 DEF NoLeave
<1>4. CASE i \in 1..n
  BY <1>1, <1>2, <1>4 DEF NoLeave
<1>5. CASE i = n + 1
  BY <1>2, <1>5
<1> QED
  BY <1>2, <1>4, <1>5

\* What becomes of the queue of the database thread
LEMMA SecureKept ==
    ASSUME NEW g, QueuesRight, Grows, Secure(g), Owned(g)',
           \/ dbQueue' = dbQueue
           \/ dbQueue' = <<>>
           \/ dbQueue # <<>> /\ dbQueue' = Tail(dbQueue)
           \/ \E r \in RightRequests' :
                 /\ dbQueue' = Append(dbQueue, r)
                 /\ ~(r.op = "leave" /\ r.by = Self /\ r.group = g)
    PROVE  Secure(g)'
<1>1. PICK q, S : q = dbQueue /\ S = RightRequests' /\ q \in Seq(S)
  BY QueuesGrow
<1>2. NoLeave(q, g)
  BY <1>1 DEF Secure
<1>3. SUFFICES NoLeave(dbQueue', g)
  BY DEF Secure
<1>4. CASE dbQueue' = dbQueue
  BY <1>1, <1>2, <1>4
<1>5. CASE dbQueue' = <<>>
  <2>1. Len(dbQueue') = 0
    BY <1>5
  <2> QED
    BY <2>1 DEF NoLeave
<1>6. CASE dbQueue # <<>> /\ dbQueue' = Tail(dbQueue)
  BY <1>1, <1>2, <1>6, NoLeaveTail
<1>7. ASSUME NEW r \in RightRequests', dbQueue' = Append(dbQueue, r),
             ~(r.op = "leave" /\ r.by = Self /\ r.group = g)
      PROVE  NoLeave(dbQueue', g)
  BY <1>1, <1>2, <1>7, NoLeaveAppend
<1> QED
  BY <1>4, <1>5, <1>6, <1>7

LEMMA OwnedSame ==
    ASSUME NEW g, Owned(g), groups' = groups
    PROVE  Owned(g)'
BY DEF Owned

\* What nothing has been heard of
LEMMA Fresh ==
    ASSUME NEW g, g \notin Known, QueuesRight, ClientRight
    PROVE  /\ g \notin DOMAIN localGroups
           /\ NoLeave(dbQueue, g)
           /\ [kind |-> "message", group |-> g] \notin offlineRows
           /\ \A i \in 1..Len(toClient) : ~Mentions(toClient[i], g)
           /\ \A i \in 1..Len(results) : ~WillMention(results[i], g)
<1>1. g \notin DOMAIN localGroups
  BY DEF ClientRight
<1>2. NoLeave(dbQueue, g)
  <2>1. SUFFICES ASSUME NEW i \in 1..Len(dbQueue)
                 PROVE  ~(/\ dbQueue[i].op = "leave" /\ dbQueue[i].by = Self
                          /\ dbQueue[i].group = g)
    BY DEF NoLeave
  <2>2. dbQueue[i] \in RightRequests
    BY Elements
  <2> QED
    BY <2>2, RequestFacts
<1>3. [kind |-> "message", group |-> g] \notin KnownRows
  BY DEF KnownRows
<1>4. ASSUME NEW i \in 1..Len(toClient) PROVE ~Mentions(toClient[i], g)
  <2>1. PICK p : p = toClient[i] /\ p \in KnownPackets
    BY Elements
  <2>2. ~Mentions(p, g)
    BY <2>1, PacketFacts DEF Mentions, Creates
  <2> QED
    BY <2>1, <2>2
<1>5. ASSUME NEW i \in 1..Len(results) PROVE ~WillMention(results[i], g)
  <2>1. PICK res : res = results[i] /\ res \in RightResults
    BY Elements
  <2>2. ~WillMention(res, g)
    BY <1>3, <2>1, ResultFacts DEF WillMention, WillCreate
  <2> QED
    BY <2>1, <2>2
<1> QED
  BY <1>1, <1>2, <1>3, <1>4, <1>5 DEF QueuesRight

-----------------------------------------------------------------------------
(***************************************************************************)
(* Steps of the server                                                     *)
(***************************************************************************)
LEMMA ServerSteady ==
    ASSUME ServerRight, UNCHANGED <<groups, wereIn>>, users' \subseteq Users,
           nextId' \in Nat \ {0}, pendingRequests' \subseteq Ids
    PROVE  ServerRight'
BY DEF ServerRight, Known

\* The client is left alone; the wire may get longer
LEMMA ClientUntouched ==
    ASSUME ClientRight, ShownRight, QueuesRight, Grows,
           UNCHANGED <<client, connected, session, undetached, routed>>,
           toServer' \in {FALSE, toServer}, asked' \subseteq {i \in Ids : i < nextId'},
           \E packets \in Seq(ClientPacket) : toClient' = toClient \o packets
    PROVE  ClientRight' /\ ShownRight'
<1>1. Known \subseteq Known'
  BY RightSetsGrow
<1>2. ClientRight'
  <2>1. /\ localGroups' = localGroups /\ opening' = opening
        /\ inProgress' = inProgress /\ recovery' = recovery
        /\ connected' = connected /\ session' = session /\ undetached' = undetached
        /\ routed' = routed
    BY DEF client, localTables, flags
  <2>2. undetached' + (IF connected' THEN 1 ELSE 0) <= session'
    BY <2>1 DEF ClientRight
  <2>3. toServer' \in BOOLEAN /\ (toServer' => connected')
    <3>1. toServer \in BOOLEAN /\ (toServer => connected)
      BY DEF ClientRight
    <3>2. CASE toServer' = FALSE
      BY <3>2
    <3>3. CASE toServer' = toServer
      BY ONLY <2>1, <3>1, <3>3
    <3> QED
      BY <3>2, <3>3
  <2>4. /\ localGroups' \in Listing(LocalRow) /\ DOMAIN localGroups' \subseteq Known'
        /\ opening' \in Groups \cup {NoGroup}
    BY <1>1, <2>1 DEF ClientRight
  <2>5. /\ connected' \in BOOLEAN /\ routed' \in BOOLEAN
        /\ session' \in 0..MaxLogins /\ undetached' \in Nat
        /\ inProgress' \in BOOLEAN /\ recovery' \in BOOLEAN
    BY <2>1 DEF ClientRight
  <2> QED
    BY <2>2, <2>3, <2>4, <2>5 DEF ClientRight
<1>3. toClient # <<>> => toClient' # <<>> /\ toClient'[1] = toClient[1]
  <2>1. PICK packets \in Seq(ClientPacket) : toClient' = toClient \o packets
    OBVIOUS
  <2>2. SUFFICES ASSUME toClient # <<>>
                 PROVE  toClient' # <<>> /\ toClient'[1] = toClient[1]
    OBVIOUS
  <2>3. PICK s \in Seq(ClientPacket) : s = toClient
    <3>1. toClient \in Seq(KnownPackets) /\ KnownPackets \subseteq ClientPacket
      BY DEF QueuesRight, KnownPackets
    <3> QED
      BY <3>1, SeqMonotonic
  <2>4. 1 \in 1..Len(s)
    BY <2>2, <2>3, Removed1
  <2>5. /\ s \o packets \in Seq(ClientPacket) /\ (s \o packets)[1] = s[1]
        /\ Len(s \o packets) = Len(s) + Len(packets) /\ Len(s) \in Nat /\ Len(packets) \in Nat
    BY <2>4, Joined
  <2>6. Len(s \o packets) # 0
    BY <2>4, <2>5
  <2>7. s \o packets # <<>>
    BY <2>6, EmptySeq
  <2> QED
    BY <2>1, <2>3, <2>5, <2>7
<1>4. ShownRight'
  BY <1>3 DEF ShownRight, SessionsConsistent, client, localTables, flags
<1> QED
  BY <1>2, <1>4

\* Nothing is written
LEMMA NothingWritten ==
    ASSUME QueuesRight
    PROVE  \E packets \in Seq(ClientPacket) : /\ packets = <<>> /\ toClient = toClient \o packets
                                              /\ packets \in Seq(KnownPackets)
<1>1. toClient \in Seq(KnownPackets) /\ KnownPackets \subseteq ClientPacket
  BY DEF QueuesRight, KnownPackets
<1>2. toClient = toClient \o << >>
  BY <1>1, ConcatEmptySeq
<1>3. << >> \in Seq(ClientPacket) /\ << >> \in Seq(KnownPackets)
  BY EmptySeq
<1> QED
  BY <1>2, <1>3

\* A request is posted. Self leaves only groups it has heard of and has opened.
LEMMA Posted ==
    ASSUME IInv, Grows, NEW r \in RightRequests', dbQueue' = Append(dbQueue, r),
           UNCHANGED <<client, connected, session, undetached, routed, toClient, offlineRows,
                       results, groups, wereIn, users>>,
           toServer' \in {FALSE, toServer}, asked' \subseteq {i \in Ids : i < nextId'},
           nextId' \in Nat \ {0}, pendingRequests' \subseteq Ids,
           r.op = "leave" /\ r.by = Self => r.group \in DOMAIN localGroups /\ r.group # opening
    PROVE  IInv'
<1>1. ServerRight'
  BY ServerSteady DEF IInv, ServerRight
<1>2. ClientRight' /\ ShownRight'
  <2>1. \E packets \in Seq(ClientPacket) : toClient' = toClient \o packets
    BY NothingWritten DEF IInv
  <2> QED
    BY <2>1, ClientUntouched DEF IInv
<1>3. QueuesRight'
  <2>1. PICK S, s : S = RightRequests' /\ s = dbQueue /\ s \in Seq(S)
    BY QueuesGrow DEF IInv
  <2>2. Append(s, r) \in Seq(S)
    BY <2>1, Added
  <2>3. dbQueue' \in Seq(RightRequests')
    BY <2>1, <2>2
  <2>4. results' \in Seq(RightResults') /\ toClient' \in Seq(KnownPackets')
    BY QueuesGrow DEF IInv
  <2>5. offlineRows' \subseteq KnownRows' /\ IsFiniteSet(offlineRows')
    BY QueuesGrow DEF IInv, QueuesRight
  <2> QED
    BY <2>3, <2>4, <2>5 DEF QueuesRight
<1>4. ASSUME NEW g \in Groups PROVE InOrder(g)'
  <2>1. StaysSecure(g)
    <3>1. SUFFICES ASSUME Secure(g), g = opening \/ g \notin DOMAIN localGroups
                   PROVE  Secure(g)'
      BY DEF StaysSecure
    <3>2. Owned(g)'
      BY <3>1, OwnedSame DEF Secure
    <3>3. ~(r.op = "leave" /\ r.by = Self /\ r.group = g)
      BY <3>1
    <3> QED
      BY <3>1, <3>2, <3>3, SecureKept DEF IInv
  <2>2. /\ opening' = opening /\ localGroups' = localGroups
        /\ results' = results /\ toClient' = toClient /\ session' = session
    BY DEF client, localTables
  <2> QED
    BY <2>1, <2>2, OrderKept DEF IInv
<1> QED
  BY <1>1, <1>2, <1>3, <1>4 DEF IInv

LEMMA RequestPosted ==
    ASSUME IInv, NEW by \in Users, HandleClientRequest(by)
    PROVE  IInv'
<1>1. UNCHANGED <<client, connected, session, undetached, routed, toServer, toClient, offlineRows>>
  BY DEF HandleClientRequest
<1>2. PICK op, g, who :
         /\ NewRequest(op, g, by, who)
         /\ UNCHANGED <<tables, results, history>>
         /\ pendingRequests' \in {pendingRequests, pendingRequests \cup {nextId}}
         /\ op \in {"create", "add", "remove", "leave", "message"}
         /\ g \in Groups \cup {NoGroup} /\ (op # "create" => g \in Groups) /\ who \in SUBSET Users
         /\ op = "leave" => who = {by}
         /\ op = "leave" /\ by = Self => g \in shown /\ g # opening
  <2>1. CASE \E invited \in SUBSET Users : HandleCreateGroup(by, invited)
    <3>1. PICK invited \in SUBSET Users : HandleCreateGroup(by, invited)
      BY <2>1
    <3> QED
      BY <3>1 DEF HandleCreateGroup, HandleRequest
  <2>2. ASSUME NEW g \in Groups, by = Self => g \in shown \ {opening},
               \/ \E u \in Users : HandleAddMember(g, by, u) \/ HandleRemoveMember(g, by, u)
               \/ HandleLeaveGroup(g, by)
               \/ HandleGroupMessage(g, by)
        PROVE  \E op, h, who :
                 /\ NewRequest(op, h, by, who)
                 /\ UNCHANGED <<tables, results, history>>
                 /\ pendingRequests' \in {pendingRequests, pendingRequests \cup {nextId}}
                 /\ op \in {"create", "add", "remove", "leave", "message"}
                 /\ h \in Groups \cup {NoGroup} /\ (op # "create" => h \in Groups)
                 /\ who \in SUBSET Users
                 /\ op = "leave" => who = {by}
                 /\ op = "leave" /\ by = Self => h \in shown /\ h # opening
    <3>1. CASE \E u \in Users : HandleAddMember(g, by, u)
      <4>1. PICK u \in Users : HandleAddMember(g, by, u)
        BY <3>1
      <4> QED
        BY <4>1 DEF HandleAddMember, HandleRequest
    <3>2. CASE \E u \in Users : HandleRemoveMember(g, by, u)
      <4>1. PICK u \in Users : HandleRemoveMember(g, by, u)
        BY <3>2
      <4> QED
        BY <4>1 DEF HandleRemoveMember, HandleRequest
    <3>3. CASE HandleLeaveGroup(g, by)
      BY <2>2, <3>3 DEF HandleLeaveGroup, HandleRequest
    <3>4. CASE HandleGroupMessage(g, by)
      BY <3>4 DEF HandleGroupMessage, pending
    <3> QED
      BY <2>2, <3>1, <3>2, <3>3, <3>4
  <2>3. shown \subseteq Groups
    <3>1. localGroups \in Listing(LocalRow) /\ shown \subseteq DOMAIN localGroups
      BY DEF IInv, ClientRight, ShownRight, SessionsConsistent
    <3> QED
      BY <3>1, ListingIs
  <2> QED
    BY <2>1, <2>2, <2>3 DEF HandleClientRequest, Requests
<1>3. PICK r : r = [op |-> op, id |-> nextId, group |-> g, by |-> by, who |-> who]
  OBVIOUS
<1>4. /\ dbQueue' = Append(dbQueue, r) /\ nextId' = nextId + 1 /\ nextId \in Ids
      /\ nextId \in Nat \ {0} /\ nextId' \in Nat \ {0} /\ nextId < nextId' /\ nextId <= nextId'
  <2>1. nextId \in Nat \ {0} /\ nextId' = nextId + 1 /\ nextId <= MaxRequests
    BY <1>2 DEF NewRequest, IInv, ServerRight
  <2>2. nextId \in Ids
    BY <2>1, GroupAssumption DEF Ids
  <2> QED
    BY <1>2, <1>3, <2>1, <2>2 DEF NewRequest, Post
<1>5. pendingRequests' \subseteq Ids /\ pendingRequests' \ pendingRequests \subseteq {nextId}
  BY <1>2, <1>4 DEF IInv, ServerRight
<1>6. asked \subseteq {i \in Ids : i < nextId} /\ Ids \subseteq Nat
  BY GroupAssumption DEF IInv, ClientRight, Ids
<1>7. /\ asked' \subseteq {i \in Ids : i < nextId'}
      /\ \A i \in Ids : i < nextId /\ i \in asked' => i \in asked
      /\ nextId \in asked' => by = Self
  <2>1. asked' \subseteq asked \cup {nextId} /\ (by # Self => asked' = asked)
    BY <1>5 DEF HandleClientRequest
  <2>2. nextId \notin asked /\ \A i \in asked : i < nextId'
    BY <1>4, <1>6
  <2> QED
    BY <1>4, <1>6, <2>1, <2>2
<1>8. UNCHANGED <<results, groups, wereIn, users>>
  BY <1>2 DEF tables, history
<1>9. Grows
  BY <1>1, <1>4, <1>7, <1>8 DEF Grows, IInv, ClientRight
<1>10. g \in shown => g \in Known /\ g \in DOMAIN localGroups
  BY DEF IInv, ClientRight, ShownRight, SessionsConsistent
<1>11. r \in RightRequests'
  <2>1. r \in Request
    BY <1>2, <1>3, <1>4 DEF Request
  <2>2. g \in Known => g \in Known'
    BY <1>9, RightSetsGrow
  <2> QED
    BY <1>2, <1>3, <1>4, <1>7, <1>10, <2>1, <2>2 DEF RightRequests
<1>12. r.op = "leave" /\ r.by = Self => r.group \in DOMAIN localGroups /\ r.group # opening
  BY <1>2, <1>3, <1>10
<1> QED
  BY <1>1, <1>4, <1>5, <1>7, <1>8, <1>9, <1>11, <1>12, Posted

LEMMA ListAsked ==
    ASSUME IInv, HandleGroupList
    PROVE  IInv'
<1>1. PICK r : r = [op |-> "list", id |-> session, group |-> NoGroup, by |-> Self, who |-> {}]
  OBVIOUS
<1>2. /\ dbQueue' = Append(dbQueue, r) /\ toServer' = FALSE
      /\ UNCHANGED <<client, connected, session, undetached, routed, toClient, offlineRows,
                     results, groups, wereIn, users, nextId, pendingRequests, asked>>
  BY <1>1 DEF HandleGroupList, Post, tables, history, pending
<1>3. session \in Nat /\ session \in 0..session /\ nextId \in Nat /\ nextId <= nextId
  <2>1. session \in Nat /\ nextId \in Nat
    BY SyncAssumption DEF IInv, ClientRight, ServerRight
  <2> QED
    BY <2>1
<1>4. Grows
  <2>1. session <= session
    BY <1>3
  <2> QED
    BY <1>2, <1>3, <2>1 DEF Grows
<1>5. r \in RightRequests'
  <2>1. r \in RightRequests
    <3>1. r \in ListRequest
      BY <1>1, <1>3 DEF ListRequest
    <3>2. r.op = "list"
      BY <1>1
    <3> QED
      BY <3>1, <3>2 DEF RightRequests
  <2> QED
    BY <1>4, <2>1, RightSetsGrow
<1>6. asked' \subseteq {i \in Ids : i < nextId'} /\ nextId' \in Nat \ {0} /\ pendingRequests' \subseteq Ids
  BY <1>2 DEF IInv, ClientRight, ServerRight
<1>7. r.op # "leave"
  BY <1>1
<1> QED
  BY <1>2, <1>4, <1>5, <1>6, <1>7, Posted

\* The database thread answers the request at the head of its queue
LEMMA Answered ==
    ASSUME IInv, Grows, dbQueue # <<>>, dbQueue' = Tail(dbQueue),
           NEW res \in RightResults', results' = Append(results, res),
           UNCHANGED <<wire, client, nextId>>,
           ServerRight',
           \A g \in Groups : Secure(g) => Owned(g)' /\ ~WillOmit(res, session, g),
           \A g \in Groups : WillCreate(res, g) /\ res.req.id \in asked => g \notin Known /\ Owned(g)'
    PROVE  IInv'
<1>1. /\ UNCHANGED <<connected, session, undetached, routed, toServer, toClient, asked, offlineRows>>
      /\ UNCHANGED <<localGroups, opening>>
  BY DEF wire, client, localTables
<1>2. ClientRight' /\ ShownRight'
  <2>1. \E packets \in Seq(ClientPacket) : toClient' = toClient \o packets
    BY <1>1, NothingWritten DEF IInv
  <2>2. asked' \subseteq {i \in Ids : i < nextId'}
    BY <1>1 DEF IInv, ClientRight
  <2> QED
    BY <1>1, <2>1, <2>2, ClientUntouched DEF IInv
<1>3. QueuesRight'
  <2>1. PICK S, s : S = RightRequests' /\ s = dbQueue /\ s \in Seq(S)
    BY QueuesGrow DEF IInv
  <2>2. Tail(s) \in Seq(S)
    BY <2>1, Removed1
  <2>3. dbQueue' \in Seq(RightRequests')
    BY <2>1, <2>2
  <2>4. PICK R, t : R = RightResults' /\ t = results /\ t \in Seq(R)
    BY QueuesGrow DEF IInv
  <2>5. Append(t, res) \in Seq(R)
    BY <2>4, Added
  <2>6. results' \in Seq(RightResults')
    BY <2>4, <2>5
  <2>7. toClient' \in Seq(KnownPackets')
    BY <1>1, QueuesGrow DEF IInv
  <2>8. offlineRows' \subseteq KnownRows' /\ IsFiniteSet(offlineRows')
    BY <1>1, QueuesGrow DEF IInv, QueuesRight
  <2> QED
    BY <2>3, <2>6, <2>7, <2>8 DEF QueuesRight
<1>4. ASSUME NEW g \in Groups PROVE InOrder(g)'
  <2>1. StaysSecure(g)
    BY SecureKept DEF StaysSecure, IInv
  <2>2. ASSUME WillCreate(res, g), res.req.id \in asked
        PROVE  /\ g \notin DOMAIN localGroups /\ Secure(g)'
               /\ [kind |-> "message", group |-> g] \notin offlineRows
               /\ \A i \in 1..Len(toClient) : ~Mentions(toClient[i], g)
               /\ \A i \in 1..Len(results) : ~WillMention(results[i], g)
    <3>1. g \notin Known /\ Owned(g)'
      BY <2>2
    <3>2. /\ g \notin DOMAIN localGroups /\ NoLeave(dbQueue, g)
          /\ [kind |-> "message", group |-> g] \notin offlineRows
          /\ \A i \in 1..Len(toClient) : ~Mentions(toClient[i], g)
          /\ \A i \in 1..Len(results) : ~WillMention(results[i], g)
      BY <3>1, Fresh DEF IInv
    <3>3. NoLeave(dbQueue', g)
      <4>1. PICK s \in Seq(RightRequests) : s = dbQueue
        BY DEF IInv, QueuesRight
      <4>2. NoLeave(Tail(s), g)
        BY <3>2, <4>1, NoLeaveTail
      <4> QED
        BY <4>1, <4>2
    <3> QED
      BY <3>1, <3>2, <3>3 DEF Secure
  <2>3. UNCHANGED <<opening, localGroups, offlineRows, toClient, session, asked>>
    BY <1>1
  <2> QED
    BY <2>1, <2>2, <2>3, OrderOfAnswers DEF IInv
<1> QED
  BY <1>2, <1>3, <1>4 DEF IInv

\* Steps of the database thread that create no group leave what is known as it is
LEMMA GrowsIfSame ==
    ASSUME IInv, \A g \in Groups : wereIn[g] # {} => wereIn'[g] # {}, nextId' = nextId,
           session' = session, asked' \subseteq asked
    PROVE  Grows
<1>1. session \in Nat /\ nextId \in Nat
  BY SyncAssumption DEF IInv, ClientRight, ServerRight
<1>2. session <= session /\ nextId <= nextId
  BY <1>1
<1> QED
  BY <1>1, <1>2 DEF Grows

LEMMA GroupsOfSelfAre ==
    ASSUME ServerRight
    PROVE  /\ GroupsOfSelf \in Listing(GroupRow)
           /\ DOMAIN GroupsOfSelf \subseteq Known
           /\ \A g : Owned(g) => g \in DOMAIN GroupsOfSelf
<1>1. groups \in Listing(GroupRow) /\ \A g \in DOMAIN groups : g \in Known
  BY DEF ServerRight
<1>2. DOMAIN groups \subseteq Groups /\ \A g \in DOMAIN groups : groups[g] \in GroupRow
  BY <1>1, ListingIs
<1>3. PICK D : D = {h \in DOMAIN groups : Self \in groups[h].members}
  OBVIOUS
<1>4. GroupsOfSelf = [g \in D |-> groups[g]]
  BY <1>3 DEF GroupsOfSelf
<1>5. PICK f : f = [g \in D |-> groups[g]]
  OBVIOUS
<1>6. /\ DOMAIN f = D /\ D \subseteq Groups /\ f = [g \in DOMAIN f |-> f[g]]
      /\ \A g \in DOMAIN f : f[g] \in GroupRow
  BY <1>2, <1>3, <1>5
<1>7. f \in Listing(GroupRow)
  BY <1>6, ListingIs
<1>8. \A g : Owned(g) => g \in D
  BY <1>3 DEF Owned
<1> QED
  BY <1>1, <1>3, <1>4, <1>5, <1>6, <1>7, <1>8

LEMMA QueryAnswered ==
    ASSUME IInv, QueryStep
    PROVE  IInv'
<1>1. PICK req : req = Head(dbQueue) /\ req \in RightRequests
  <2>1. PICK s \in Seq(RightRequests) : s = dbQueue
    BY DEF IInv, QueuesRight
  <2>2. s # <<>>
    BY <2>1 DEF QueryStep
  <2>3. Head(s) \in RightRequests
    BY <2>2, Removed1
  <2> QED
    BY <2>1, <2>3
<1>2. /\ UNCHANGED <<users, groups, pendingRequests, nextId, wereIn, wire, client>>
      /\ dbQueue # <<>> /\ dbQueue' = Tail(dbQueue)
  BY DEF QueryStep, tables, pending, history
<1>3. session' = session /\ asked' \subseteq asked
  BY <1>2 DEF wire
<1>4. Grows
  BY <1>2, <1>3, GrowsIfSame
<1>5. ServerRight'
  BY <1>2, ServerSteady DEF IInv, ServerRight
<1>6. \A g : Owned(g) => Owned(g)'
  BY <1>2, OwnedSame
<1>7. CASE LoadGroupList(req)
  <2>1. PICK res : res = [req |-> req, ok |-> TRUE, list |-> GroupsOfSelf]
    OBVIOUS
  <2>2. results' = Append(results, res) /\ req.op = "list"
    BY <1>7, <2>1 DEF LoadGroupList
  <2>3. GroupsOfSelf \in Listing(GroupRow) /\ DOMAIN GroupsOfSelf \subseteq Known
    BY GroupsOfSelfAre DEF IInv
  <2>4. res \in RightResults
    <3>1. res \in ListResult
      BY <1>1, <2>1, <2>3 DEF ListResult
    <3> QED
      BY <2>1, <2>2, <2>3, <3>1 DEF RightResults
  <2>5. res \in RightResults'
    BY <1>4, <2>4, RightSetsGrow
  <2>6. \A g : ~WillCreate(res, g)
    BY <2>1, <2>2 DEF WillCreate
  <2>7. \A g \in Groups : Secure(g) => Owned(g)' /\ ~WillOmit(res, session, g)
    BY <1>6, <2>1, GroupsOfSelfAre DEF Secure, WillOmit, IInv
  <2> QED
    BY <1>2, <1>4, <1>5, <2>2, <2>5, <2>6, <2>7, Answered
<1>8. CASE LoadOffline(req)
  <2>1. PICK res : res = [req |-> req, ok |-> TRUE, rows |-> offlineRows]
    OBVIOUS
  <2>2. results' = Append(results, res) /\ req.op = "loadOffline"
    BY <1>8, <2>1 DEF LoadOffline
  <2>3. res \in RightResults
    <3>1. offlineRows \subseteq KnownRows /\ IsFiniteSet(offlineRows)
      BY DEF IInv, QueuesRight
    <3>2. res \in RowsResult
      BY <1>1, <2>1, <3>1 DEF RowsResult
    <3> QED
      BY <2>1, <2>2, <3>1, <3>2 DEF RightResults
  <2>4. res \in RightResults'
    BY <1>4, <2>3, RightSetsGrow
  <2>5. \A g : ~WillCreate(res, g) /\ ~WillOmit(res, session, g)
    BY <2>1, <2>2 DEF WillCreate, WillOmit
  <2>6. \A g \in Groups : Secure(g) => Owned(g)' /\ ~WillOmit(res, session, g)
    BY <1>6, <2>5 DEF Secure
  <2> QED
    BY <1>2, <1>4, <1>5, <2>2, <2>4, <2>5, <2>6, Answered
<1> QED
  BY <1>1, <1>7, <1>8 DEF QueryStep

LEMMA HeadRequest ==
    ASSUME QueuesRight, dbQueue # <<>>
    PROVE  Head(dbQueue) \in RightRequests
<1>1. PICK s \in Seq(RightRequests) : s = dbQueue
  BY DEF QueuesRight
<1>2. Head(s) \in RightRequests
  BY <1>1, Removed1
<1> QED
  BY <1>1, <1>2

LEMMA Replied ==
    ASSUME IInv, dbQueue # <<>>, dbQueue' = Tail(dbQueue), NEW req, req = Head(dbQueue),
           NEW ok \in BOOLEAN, NEW g \in Groups \cup {NoGroup}, NEW members \in SUBSET Users,
           Reply(req, ok, g, members), UNCHANGED <<wire, client, nextId>>, ServerRight',
           \A h \in Groups : wereIn[h] # {} => wereIn'[h] # {},
           \A h \in Groups : Secure(h) => Owned(h)',
           ok => req.op \notin {"list", "loadOffline"} /\ g \in Groups,
           ok /\ req.op \in {"create", "message"} => g \in Known',
           req.op \in {"add", "remove", "leave"} => g \in Groups,
           ok /\ req.op = "create" /\ req.id \in asked => g \notin Known /\ Owned(g)'
    PROVE  IInv'
<1>1. session' = session /\ asked' \subseteq asked /\ nextId' = nextId
  BY DEF wire
<1>2. Grows
  BY <1>1, GrowsIfSame
<1>3. PICK R, K : R = RightRequests' /\ K = Known' /\ req \in R
  <2>1. req \in RightRequests'
    BY <1>2, HeadRequest, RightSetsGrow DEF IInv
  <2> QED
    BY <2>1
<1>4. PICK res : res = [req |-> req, ok |-> ok, group |-> g, members |-> members]
  OBVIOUS
<1>5. results' = Append(results, res)
  BY <1>4 DEF Reply
<1>6. res \in RightResults'
  <2>1. res \in OpResult'
    BY <1>3, <1>4 DEF OpResult
  <2>2. /\ res.ok => res.req.op \notin {"list", "loadOffline"} /\ res.group \in Groups
        /\ res.ok /\ res.req.op \in {"create", "message"} => res.group \in K
        /\ res.req.op \in {"add", "remove", "leave"} => res.group \in Groups
    BY <1>3, <1>4
  <2> QED
    BY <1>3, <2>1, <2>2 DEF RightResults
<1>7. \A h : ~WillOmit(res, session, h)
  BY <1>4 DEF WillOmit
<1>8. \A h \in Groups : WillCreate(res, h) /\ res.req.id \in asked => h \notin Known /\ Owned(h)'
  BY <1>4 DEF WillCreate
<1> QED
  BY <1>2, <1>5, <1>6, <1>7, <1>8, Answered

LEMMA RowsAre ==
    ASSUME ServerRight
    PROVE  /\ DOMAIN groups \subseteq Groups /\ groups = [h \in DOMAIN groups |-> groups[h]]
           /\ \A h \in DOMAIN groups : /\ groups[h] \in GroupRow /\ h \in Known
                                       /\ groups[h].creator \in groups[h].members
                                       /\ groups[h].creator \in Users
                                       /\ groups[h].members \in SUBSET Users
           /\ \A h \in Groups : wereIn[h] \in SUBSET Users
<1>1. groups \in Listing(GroupRow) /\ wereIn \in [Groups -> SUBSET Users]
  BY DEF ServerRight
<1>2. /\ DOMAIN groups \subseteq Groups /\ groups = [h \in DOMAIN groups |-> groups[h]]
      /\ \A h \in DOMAIN groups : groups[h] \in GroupRow
  BY <1>1, ListingIs
<1> QED
  BY <1>1, <1>2 DEF ServerRight, GroupRow

\* The tables after a transaction
LEMMA RowsRight ==
    ASSUME ServerRight, UNCHANGED <<users, nextId, pendingRequests>>,
           wereIn' \in [Groups -> SUBSET Users],
           NEW D \in SUBSET Groups, DOMAIN groups' = D, groups' = [h \in D |-> groups'[h]],
           \A h \in D : /\ groups'[h] \in GroupRow /\ wereIn'[h] # {}
                        /\ groups'[h].creator \in groups'[h].members
    PROVE  ServerRight'
<1>1. PICK f : f = groups'
  OBVIOUS
<1>2. /\ DOMAIN f = D /\ f = [h \in DOMAIN f |-> f[h]] /\ \A h \in DOMAIN f : f[h] \in GroupRow
  BY <1>1
<1>3. f \in Listing(GroupRow)
  BY <1>2, ListingIs
<1>4. \A h \in DOMAIN f : h \in Known' /\ f[h].creator \in f[h].members
  BY <1>1 DEF Known
<1> QED
  BY <1>1, <1>3, <1>4 DEF ServerRight

LEMMA GroupCreated ==
    ASSUME IInv, ServerDbStep, DbStep, CreateGroup(Head(dbQueue))
    PROVE  IInv'
<1>1. PICK req : req = Head(dbQueue) /\ req \in RightRequests
  BY HeadRequest DEF IInv, DbStep
<1>2. /\ dbQueue # <<>> /\ dbQueue' = Tail(dbQueue)
      /\ UNCHANGED <<users, pendingRequests, nextId, wire, client>>
  BY DEF ServerDbStep, DbStep, pending
<1>3. PICK g \in Groups :
         /\ wereIn[g] = {}
         /\ groups' = [h \in DOMAIN groups \cup {g} |->
                          IF h = g THEN [creator |-> req.by, members |-> {req.by} \cup req.who]
                          ELSE groups[h]]
         /\ wereIn' = [wereIn EXCEPT ![g] = {req.by} \cup req.who]
         /\ Reply(req, TRUE, g, {})
  BY <1>1 DEF CreateGroup
<1>4. req.op = "create" /\ req.by \in Users /\ req.who \in SUBSET Users
      /\ (req.id \in asked => req.by = Self)
  BY <1>1, RequestFacts DEF CreateGroup
<1>5. PICK D : D = DOMAIN groups \cup {g}
  OBVIOUS
<1>6. PICK row : row = [creator |-> req.by, members |-> {req.by} \cup req.who]
  OBVIOUS
<1>7. row \in GroupRow /\ row.creator \in row.members /\ row.creator = req.by
  BY <1>4, <1>6 DEF GroupRow
<1>8. /\ D \in SUBSET Groups /\ DOMAIN groups' = D
      /\ \A h \in D : groups'[h] = IF h = g THEN row ELSE groups[h]
      /\ groups' = [h \in D |-> groups'[h]]
  <2>1. groups' = [h \in D |-> IF h = g THEN row ELSE groups[h]]
    BY <1>3, <1>5, <1>6
  <2>2. PICK f : f = [h \in D |-> IF h = g THEN row ELSE groups[h]]
    OBVIOUS
  <2>3. DOMAIN f = D /\ f = [h \in D |-> f[h]] /\ \A h \in D : f[h] = IF h = g THEN row ELSE groups[h]
    BY <2>2
  <2>4. D \in SUBSET Groups
    BY <1>5, RowsAre DEF IInv
  <2> QED
    BY <2>1, <2>2, <2>3, <2>4
<1>9. /\ wereIn' \in [Groups -> SUBSET Users] /\ wereIn'[g] # {}
      /\ \A h \in Groups : h # g => wereIn'[h] = wereIn[h]
  <2>1. wereIn \in [Groups -> SUBSET Users]
    BY DEF IInv, ServerRight
  <2> QED
    BY <1>3, <1>4, <2>1
<1>10. g \notin Known /\ g \notin DOMAIN groups /\ g \in Known'
  <2>1. g \notin Known
    BY <1>3 DEF Known
  <2>2. g \in Known'
    BY <1>9 DEF Known
  <2> QED
    BY <2>1, <2>2, RowsAre DEF IInv
<1>11. ServerRight'
  <2>1. \A h \in D : /\ groups'[h] \in GroupRow /\ wereIn'[h] # {}
                     /\ groups'[h].creator \in groups'[h].members
    <3>1. TAKE h \in D
    <3>2. CASE h = g
      BY <1>7, <1>8, <1>9, <3>2
    <3>3. CASE h # g
      <4>1. h \in DOMAIN groups /\ h \in Groups /\ groups'[h] = groups[h]
        BY <1>5, <1>8, <3>3
      <4> QED
        BY <1>9, <3>3, <4>1, RowsAre DEF IInv, Known
    <3> QED
      BY <3>2, <3>3
  <2> QED
    BY <1>2, <1>8, <1>9, <2>1, RowsRight DEF IInv
<1>12. \A h \in Groups : Secure(h) => Owned(h)'
  <2>1. SUFFICES ASSUME NEW h \in Groups, Owned(h)
                 PROVE  /\ h \in DOMAIN groups' /\ groups'[h].creator = Self
                        /\ Self \in groups'[h].members
    BY DEF Secure, Owned
  <2>2. h \in DOMAIN groups /\ h # g /\ h \in D
    BY <1>5, <1>10, <2>1 DEF Owned
  <2>3. groups'[h] = groups[h]
    BY <1>8, <2>2
  <2> QED
    BY <1>8, <2>1, <2>2, <2>3 DEF Owned
<1>13. req.id \in asked => g \notin Known /\ Owned(g)'
  <2>1. SUFFICES ASSUME req.id \in asked
                 PROVE  /\ g \in DOMAIN groups' /\ groups'[g].creator = Self
                        /\ Self \in groups'[g].members
    BY <1>10 DEF Owned
  <2>2. g \in D /\ groups'[g] = row
    BY <1>5, <1>8
  <2>3. row.creator = Self /\ Self \in row.members
    BY <1>4, <1>7, <2>1
  <2> QED
    BY <1>8, <2>2, <2>3
<1>14. \A h \in Groups : wereIn[h] # {} => wereIn'[h] # {}
  BY <1>9
<1>15. g \in Groups \cup {NoGroup} /\ {} \in SUBSET Users /\ TRUE \in BOOLEAN
  OBVIOUS
<1> HIDE DEF Reply
<1> QED
  BY <1>1, <1>2, <1>3, <1>4, <1>10, <1>11, <1>12, <1>13, <1>14, <1>15, Replied

\* One group's row is changed, and its creator stays
LEMMA RowChanged ==
    ASSUME IInv, dbQueue # <<>>, dbQueue' = Tail(dbQueue), NEW req, req = Head(dbQueue),
           req.op \in {"add", "remove", "leave"}, req.group \in DOMAIN groups,
           UNCHANGED <<users, pendingRequests, nextId, wire, client>>,
           Reply(req, TRUE, req.group, {}),
           NEW members \in SUBSET Users,
           groups' = [groups EXCEPT ![req.group].members = members],
           groups[req.group].creator \in members,
           wereIn' \in [Groups -> SUBSET Users],
           \A h \in Groups : wereIn[h] # {} => wereIn'[h] # {}
    PROVE  IInv'
<1>1. PICK g : g = req.group /\ g \in Groups
  BY RowsAre DEF IInv
<1>2. PICK row : row = [groups[g] EXCEPT !.members = members]
  OBVIOUS
<1>3. groups[g] \in GroupRow
  BY <1>1, RowsAre DEF IInv
<1>4. row \in GroupRow /\ row.creator = groups[g].creator /\ row.members = members
  BY <1>2, <1>3 DEF GroupRow
<1>5. /\ DOMAIN groups' = DOMAIN groups /\ groups'[g] = row
      /\ \A h \in DOMAIN groups : h # g => groups'[h] = groups[h]
      /\ groups' = [h \in DOMAIN groups |-> groups'[h]]
  <2>1. groups' = [h \in DOMAIN groups |-> IF h = g THEN row ELSE groups[h]]
    BY <1>1, <1>2
  <2>2. PICK f : f = [h \in DOMAIN groups |-> IF h = g THEN row ELSE groups[h]]
    OBVIOUS
  <2>3. /\ DOMAIN f = DOMAIN groups /\ f = [h \in DOMAIN groups |-> f[h]]
        /\ f[g] = row /\ \A h \in DOMAIN groups : h # g => f[h] = groups[h]
    BY <1>1, <2>2
  <2> QED
    BY <2>1, <2>2, <2>3
<1>6. ServerRight'
  <2>1. \A h \in DOMAIN groups : /\ groups'[h] \in GroupRow /\ wereIn'[h] # {}
                                 /\ groups'[h].creator \in groups'[h].members
    <3>1. TAKE h \in DOMAIN groups
    <3>2. wereIn'[h] # {}
      BY RowsAre DEF IInv, Known
    <3>3. CASE h = g
      BY <1>1, <1>4, <1>5, <3>2, <3>3
    <3>4. CASE h # g
      BY <1>5, <3>2, <3>4, RowsAre DEF IInv
    <3> QED
      BY <3>3, <3>4
  <2>2. DOMAIN groups \in SUBSET Groups
    BY RowsAre DEF IInv
  <2> QED
    BY <1>5, <2>1, <2>2, RowsRight DEF IInv
<1>7. \A h \in Groups : Secure(h) => Owned(h)'
  <2>1. SUFFICES ASSUME NEW h \in Groups, Owned(h)
                 PROVE  /\ h \in DOMAIN groups' /\ groups'[h].creator = Self
                        /\ Self \in groups'[h].members
    BY DEF Secure, Owned
  <2>2. CASE h = g
    BY <1>1, <1>4, <1>5, <2>1, <2>2 DEF Owned
  <2>3. CASE h # g
    BY <1>5, <2>1, <2>3 DEF Owned
  <2> QED
    BY <2>2, <2>3
<1>8. /\ {} \in SUBSET Users /\ TRUE \in BOOLEAN /\ req.group \in Groups \cup {NoGroup}
      /\ req.op \notin {"create", "message", "list", "loadOffline"} /\ req.group \in Groups
  BY <1>1
<1> QED
  BY <1>6, <1>7, <1>8, Replied

\* Nothing is changed in the tables
LEMMA TablesRead ==
    ASSUME IInv, dbQueue # <<>>, dbQueue' = Tail(dbQueue), NEW req, req = Head(dbQueue),
           NEW ok \in BOOLEAN, NEW members \in SUBSET Users, Reply(req, ok, req.group, members),
           UNCHANGED <<users, groups, wereIn, pendingRequests, nextId, wire, client>>,
           ok => req.op \in {"notify", "message"} /\ req.group \in DOMAIN groups
    PROVE  IInv'
<1>1. req \in RightRequests
  BY HeadRequest DEF IInv
<1>2. /\ req.group \in Groups \cup {NoGroup}
      /\ req.op \in {"add", "remove", "leave"} => req.group \in Groups
  BY <1>1, RequestFacts
<1>3. ServerRight'
  BY ServerSteady DEF IInv, ServerRight
<1>4. \A h \in Groups : Secure(h) => Owned(h)'
  BY OwnedSame DEF Secure
<1>5. ok => req.group \in Groups /\ req.group \in Known'
  <2>1. PICK K : K = Known' /\ K = Known
    BY DEF Known
  <2> QED
    BY <2>1, RowsAre DEF IInv
<1>6. \A h \in Groups : wereIn[h] # {} => wereIn'[h] # {}
  OBVIOUS
<1> QED
  BY <1>2, <1>3, <1>4, <1>5, <1>6, Replied

\* The creator leaves last, and dissolves the group: no other group of Self's is touched
LEMMA GroupDissolved ==
    ASSUME IInv, dbQueue # <<>>, dbQueue' = Tail(dbQueue), NEW req, req = Head(dbQueue),
           req.op = "leave", req.group \in DOMAIN groups, req.by = groups[req.group].creator,
           UNCHANGED <<users, wereIn, pendingRequests, nextId, wire, client>>,
           Reply(req, TRUE, req.group, {}),
           groups' = [g \in DOMAIN groups \ {req.group} |-> groups[g]]
    PROVE  IInv'
<1>1. PICK D : D = DOMAIN groups \ {req.group}
  OBVIOUS
<1>2. /\ DOMAIN groups' = D /\ groups' = [h \in D |-> groups'[h]]
      /\ \A h \in D : groups'[h] = groups[h]
  <2>1. PICK f : f = [h \in D |-> groups[h]]
    OBVIOUS
  <2>2. groups' = f
    BY <1>1, <2>1
  <2>3. DOMAIN f = D /\ f = [h \in D |-> f[h]] /\ \A h \in D : f[h] = groups[h]
    BY <2>1
  <2> QED
    BY <2>2, <2>3
<1>3. ServerRight'
  <2>1. wereIn' \in [Groups -> SUBSET Users] /\ D \in SUBSET Groups
    BY <1>1, RowsAre DEF IInv, ServerRight
  <2>2. \A h \in D : /\ groups'[h] \in GroupRow /\ wereIn'[h] # {}
                     /\ groups'[h].creator \in groups'[h].members
    BY <1>1, <1>2, RowsAre DEF IInv, Known
  <2> QED
    BY <1>2, <2>1, <2>2, RowsRight DEF IInv
<1>4. \A h \in Groups : Secure(h) => Owned(h)'
  <2>1. SUFFICES ASSUME NEW h \in Groups, Owned(h), NoLeave(dbQueue, h)
                 PROVE  /\ h \in DOMAIN groups' /\ groups'[h].creator = Self
                        /\ Self \in groups'[h].members
    BY DEF Secure, Owned
  <2>2. h # req.group
    <3>1. PICK s \in Seq(RightRequests) : s = dbQueue
      BY DEF IInv, QueuesRight
    <3>2. 1 \in 1..Len(s) /\ s[1] = req
      BY <3>1, Removed1
    <3>3. ~(req.op = "leave" /\ req.by = Self /\ req.group = h)
      BY <2>1, <3>1, <3>2 DEF NoLeave
    <3> QED
      BY <2>1, <3>3 DEF Owned
  <2>3. h \in D
    BY <1>1, <2>1, <2>2 DEF Owned
  <2> QED
    BY <1>2, <2>1, <2>3 DEF Owned
<1>5. /\ {} \in SUBSET Users /\ TRUE \in BOOLEAN /\ req.group \in Groups
      /\ req.group \in Groups \cup {NoGroup}
      /\ req.op \notin {"create", "message", "list", "loadOffline"}
  BY RowsAre DEF IInv
<1>6. \A h \in Groups : wereIn[h] # {} => wereIn'[h] # {}
  OBVIOUS
<1> QED
  BY <1>3, <1>4, <1>5, <1>6, Replied

LEMMA RequestAnswered ==
    ASSUME IInv, ServerDbStep
    PROVE  IInv'
<1>1. UNCHANGED <<wire, client>> /\ (DbStep \/ DbFails)
  BY DEF ServerDbStep
<1>2. CASE DbFails
  <2>1. /\ dbQueue # <<>> /\ dbQueue' = Tail(dbQueue)
        /\ Reply(Head(dbQueue), FALSE, Head(dbQueue).group, {})
        /\ UNCHANGED <<users, groups, wereIn, pendingRequests, nextId>>
    BY <1>2 DEF DbFails, tables, pending
  <2>2. {} \in SUBSET Users /\ FALSE \in BOOLEAN
    OBVIOUS
  <2>3. PICK req : req = Head(dbQueue)
    OBVIOUS
  <2>4. Reply(req, FALSE, req.group, {})
    BY <2>1, <2>3
  <2> QED
    BY <1>1, <2>1, <2>2, <2>3, <2>4, TablesRead
<1>3. CASE DbStep
  <2>1. PICK req : req = Head(dbQueue) /\ req \in RightRequests
    BY <1>3, HeadRequest DEF IInv, DbStep
  <2>2. /\ dbQueue # <<>> /\ dbQueue' = Tail(dbQueue)
        /\ UNCHANGED <<users, pendingRequests, nextId>>
    BY <1>3 DEF DbStep, pending
  <2>3. /\ req.by \in Users /\ req.who \in SUBSET Users
        /\ req.op = "leave" => req.who = {req.by}
    BY <2>1, RequestFacts
  <2>4. wereIn \in [Groups -> SUBSET Users] /\ {} \in SUBSET Users
    BY DEF IInv, ServerRight
  <2>5. CASE CreateGroup(req)
    BY <1>3, <2>1, <2>5, GroupCreated
  <2>6. CASE AddMember(req)
    <3>1. /\ req.op = "add" /\ req.group \in DOMAIN groups
          /\ groups' = [groups EXCEPT ![req.group].members = @ \cup req.who]
          /\ wereIn' = [wereIn EXCEPT ![req.group] = @ \cup req.who]
          /\ Reply(req, TRUE, req.group, {})
      BY <2>6 DEF AddMember, MayAdd, Exists
    <3>2. PICK members : members = groups[req.group].members \cup req.who
      OBVIOUS
    <3>3. members \in SUBSET Users /\ groups[req.group].creator \in members
      BY <2>3, <3>1, <3>2, RowsAre DEF IInv
    <3>4. groups' = [groups EXCEPT ![req.group].members = members]
      BY <3>1, <3>2
    <3>5. /\ wereIn' \in [Groups -> SUBSET Users]
          /\ \A h \in Groups : wereIn[h] # {} => wereIn'[h] # {}
      <4>1. PICK g : g = req.group /\ g \in Groups
        BY <3>1, RowsAre DEF IInv
      <4> QED
        BY <2>3, <2>4, <3>1, <4>1
    <3>6. req.op \in {"add", "remove", "leave"}
      BY <3>1
    <3> HIDE DEF Reply
    <3> QED
      BY <1>1, <2>1, <2>2, <3>1, <3>3, <3>4, <3>5, <3>6, RowChanged
  <2>7. CASE RemoveMember(req)
    <3>1. /\ req.op = "remove" /\ req.group \in DOMAIN groups
          /\ groups[req.group].creator \notin req.who
          /\ groups' = [groups EXCEPT ![req.group].members = @ \ req.who]
          /\ wereIn' = wereIn
          /\ Reply(req, TRUE, req.group, {})
      BY <2>7 DEF RemoveMember, MayRemove, Exists
    <3>2. PICK members : members = groups[req.group].members \ req.who
      OBVIOUS
    <3>3. members \in SUBSET Users /\ groups[req.group].creator \in members
      BY <3>1, <3>2, RowsAre DEF IInv
    <3>4. groups' = [groups EXCEPT ![req.group].members = members]
      BY <3>1, <3>2
    <3>5. /\ wereIn' \in [Groups -> SUBSET Users]
          /\ \A h \in Groups : wereIn[h] # {} => wereIn'[h] # {}
      BY <2>4, <3>1
    <3>6. req.op \in {"add", "remove", "leave"}
      BY <3>1
    <3> QED
      BY <1>1, <2>1, <2>2, <3>1, <3>3, <3>4, <3>5, <3>6, RowChanged
  <2>8. CASE LeaveGroup(req)
    <3>1. /\ req.op = "leave" /\ req.group \in DOMAIN groups
          /\ groups' = IF req.by = groups[req.group].creator
                       THEN [g \in DOMAIN groups \ {req.group} |-> groups[g]]
                       ELSE [groups EXCEPT ![req.group].members = @ \ req.who]
          /\ wereIn' = wereIn
          /\ Reply(req, TRUE, req.group, {})
      BY <2>8 DEF LeaveGroup, MayLeave, Exists
    <3>2. CASE req.by = groups[req.group].creator
      <4>1. groups' = [g \in DOMAIN groups \ {req.group} |-> groups[g]]
        BY <3>1, <3>2
      <4> QED
        BY <1>1, <2>1, <2>2, <3>1, <3>2, <4>1, GroupDissolved
    <3>3. CASE req.by # groups[req.group].creator
      <4>1. PICK members : members = groups[req.group].members \ req.who
        OBVIOUS
      <4>2. members \in SUBSET Users /\ groups[req.group].creator \in members
        BY <2>3, <3>1, <3>3, <4>1, RowsAre DEF IInv
      <4>3. groups' = [groups EXCEPT ![req.group].members = members]
        BY <3>1, <3>3, <4>1
      <4>4. /\ wereIn' \in [Groups -> SUBSET Users]
            /\ \A h \in Groups : wereIn[h] # {} => wereIn'[h] # {}
        BY <2>4, <3>1
      <4>5. req.op \in {"add", "remove", "leave"}
        BY <3>1
      <4> QED
        BY <1>1, <2>1, <2>2, <3>1, <4>2, <4>3, <4>4, <4>5, RowChanged
    <3> QED
      BY <3>2, <3>3
  <2>9. CASE LoadGroupMembers(req)
    <3>1. /\ req.op \in {"notify", "message"} /\ req.group \in DOMAIN groups
          /\ Reply(req, TRUE, req.group, groups[req.group].members)
          /\ UNCHANGED <<groups, wereIn>>
      BY <2>9 DEF LoadGroupMembers, Exists
    <3>2. groups[req.group].members \in SUBSET Users
      BY <3>1, RowsAre DEF IInv
    <3>3. PICK members \in SUBSET Users : Reply(req, TRUE, req.group, members)
      BY <3>1, <3>2
    <3> QED
      BY <1>1, <2>1, <2>2, <3>1, <3>3, TablesRead
  <2>10. CASE Rejected(req)
    <3>1. Reply(req, FALSE, req.group, {}) /\ UNCHANGED <<groups, wereIn>>
      BY <2>10 DEF Rejected
    <3> QED
      BY <1>1, <2>1, <2>2, <2>4, <3>1, TablesRead
  <2> QED
    BY <1>3, <2>1, <2>5, <2>6, <2>7, <2>8, <2>9, <2>10 DEF DbStep
<1> QED
  BY <1>1, <1>2, <1>3

LEMMA HeadResult ==
    ASSUME QueuesRight, results # <<>>
    PROVE  Head(results) \in RightResults
<1>1. PICK s \in Seq(RightResults) : s = results
  BY DEF QueuesRight
<1>2. Head(s) \in RightResults
  BY <1>1, Removed1
<1> QED
  BY <1>1, <1>2

\* The main thread handles the result at the head, writes packets and may post a query
LEMMA ResultHandled ==
    ASSUME IInv, results # <<>>, results' = Tail(results),
           NEW packets \in Seq(KnownPackets), toClient' = toClient \o packets,
           \A g \in Groups : \A i \in 1..Len(packets) : Renders(packets[i], Head(results), g),
           \/ Len(packets) <= 1
           \/ \A g \in Groups : \A i \in 1..Len(packets) : ~Creates(packets[i], g),
           offlineRows' \subseteq KnownRows, IsFiniteSet(offlineRows'),
           \A g \in Groups : [kind |-> "message", group |-> g] \in offlineRows' =>
              [kind |-> "message", group |-> g] \in offlineRows \/ WillMention(Head(results), g),
           asked' \subseteq asked, pendingRequests' \subseteq pendingRequests,
           UNCHANGED <<client, connected, session, undetached, routed, toServer, groups, wereIn,
                       users, nextId>>,
           \/ dbQueue' = dbQueue
           \/ \E r \in RightRequests : r.op # "leave" /\ dbQueue' = Append(dbQueue, r)
    PROVE  IInv'
<1>1. Grows
  BY GrowsIfSame
<1>2. ServerRight'
  BY ServerSteady DEF IInv, ServerRight
<1>3. packets \in Seq(ClientPacket)
  BY SeqMonotonic DEF KnownPackets
<1>4. ClientRight' /\ ShownRight'
  <2>1. asked' \subseteq {i \in Ids : i < nextId'}
    BY DEF IInv, ClientRight
  <2> QED
    BY <1>1, <1>3, <2>1, ClientUntouched DEF IInv
<1>5. QueuesRight'
  <2>1. dbQueue' \in Seq(RightRequests')
    <3>1. PICK S, s : S = RightRequests' /\ s = dbQueue /\ s \in Seq(S)
      BY <1>1, QueuesGrow DEF IInv
    <3>2. CASE dbQueue' = dbQueue
      BY <3>1, <3>2
    <3>3. ASSUME NEW r \in RightRequests, dbQueue' = Append(dbQueue, r)
          PROVE  dbQueue' \in Seq(RightRequests')
      <4>1. r \in S
        BY <1>1, <3>1, RightSetsGrow
      <4>2. Append(s, r) \in Seq(S)
        BY <3>1, <4>1, Added
      <4> QED
        BY <3>1, <3>3, <4>2
    <3> QED
      BY <3>2, <3>3
  <2>2. results' \in Seq(RightResults')
    <3>1. PICK R, t : R = RightResults' /\ t = results /\ t \in Seq(R)
      BY <1>1, QueuesGrow DEF IInv
    <3>2. Tail(t) \in Seq(R)
      BY <3>1, Removed1
    <3> QED
      BY <3>1, <3>2
  <2>3. toClient' \in Seq(KnownPackets')
    <3>1. PICK P, s : P = KnownPackets' /\ s = toClient /\ s \in Seq(P)
      BY <1>1, QueuesGrow DEF IInv
    <3>2. KnownPackets \subseteq P
      BY <1>1, <3>1, RightSetsGrow
    <3>3. packets \in Seq(P)
      BY <3>2, SeqMonotonic
    <3>4. s \o packets \in Seq(P)
      BY <3>1, <3>3, Joined
    <3> QED
      BY <3>1, <3>4
  <2>4. offlineRows' \subseteq KnownRows'
    BY <1>1, RightSetsGrow
  <2> QED
    BY <2>1, <2>2, <2>3, <2>4 DEF QueuesRight
<1>6. ASSUME NEW g \in Groups PROVE InOrder(g)'
  <2>1. StaysSecure(g)
    <3>1. SUFFICES ASSUME Secure(g) PROVE Secure(g)'
      BY DEF StaysSecure
    <3>2. Owned(g)'
      BY <3>1, OwnedSame DEF Secure
    <3>3. \/ dbQueue' = dbQueue
          \/ \E r \in RightRequests' :
                /\ dbQueue' = Append(dbQueue, r)
                /\ ~(r.op = "leave" /\ r.by = Self /\ r.group = g)
      <4>1. CASE dbQueue' = dbQueue
        BY <4>1
      <4>2. ASSUME NEW r \in RightRequests, r.op # "leave", dbQueue' = Append(dbQueue, r)
            PROVE  \E q \in RightRequests' :
                      /\ dbQueue' = Append(dbQueue, q)
                      /\ ~(q.op = "leave" /\ q.by = Self /\ q.group = g)
        <5>1. r \in RightRequests'
          BY <1>1, RightSetsGrow
        <5> QED
          BY <4>2, <5>1
      <4> QED
        BY <4>1, <4>2
    <3> QED
      BY <1>1, <3>1, <3>2, <3>3, SecureKept DEF IInv
  <2>2. UNCHANGED <<opening, localGroups, session>>
    BY DEF client, localTables
  <2> QED
    BY <1>3, <2>1, <2>2, OrderOfPackets DEF IInv
<1> QED
  BY <1>2, <1>4, <1>5, <1>6 DEF IInv

\* At most one packet is written, and only if it is to be
LEMMA WrittenIs ==
    ASSUME QueuesRight, NEW p \in KnownPackets, NEW alive,
           toClient' = IF alive THEN Written(<<p>>) ELSE toClient
    PROVE  \E packets \in Seq(KnownPackets) :
              /\ toClient' = toClient \o packets
              /\ Len(packets) <= 1
              /\ \A i \in 1..Len(packets) : packets[i] = p /\ alive
<1>1. CASE toClient' = toClient
  <2>1. PICK e \in Seq(KnownPackets) : toClient' = toClient \o e /\ e = <<>>
    BY <1>1, NothingWritten
  <2>2. Len(e) <= 1 /\ \A i \in 1..Len(e) : FALSE
    BY <2>1
  <2> QED
    BY <2>1, <2>2
<1>2. CASE alive /\ toClient' = toClient \o <<p>>
  <2>1. PICK s : s = <<p>>
    OBVIOUS
  <2>2. s \in Seq(KnownPackets) /\ Len(s) = 1 /\ s[1] = p
    BY <2>1
  <2>3. \A i \in 1..Len(s) : s[i] = p
    BY <2>2
  <2>4. Len(s) <= 1
    BY <2>2
  <2> QED
    BY <1>2, <2>1, <2>2, <2>3, <2>4
<1> QED
  BY <1>1, <1>2 DEF Written

LEMMA OperationAnswered ==
    ASSUME IInv, AnswerOp
    PROVE  IInv'
<1>1. PICK res : res = Head(results) /\ res \in RightResults
  BY HeadResult DEF IInv, AnswerOp, OnCompleted
<1>2. /\ res.req \in RightRequests /\ res.ok \in BOOLEAN
      /\ res.group \in Groups \cup {NoGroup}
      /\ res.ok => res.group \in Groups
      /\ res.ok /\ res.req.op = "create" => res.group \in Known
      /\ res.req.op # "create" => res.group \in Groups
      /\ res.req.op \in {"create", "add", "remove", "leave"}
      /\ res.req.who \in SUBSET Users /\ res.req.by \in Users /\ res.req.id \in Ids
  <2>1. res.req.op \in {"create", "add", "remove", "leave"}
    BY <1>1 DEF AnswerOp, OnCompleted
  <2>2. res.req \in RightRequests
    BY <1>1, ResultFacts
  <2> QED
    BY <1>1, <2>1, <2>2, ResultFacts, RequestFacts
<1>3. PICK p : p = [kind |-> "opAck", op |-> res.req.op, ok |-> res.ok,
                    group |-> res.group, who |-> res.req.who]
  OBVIOUS
<1>4. p \in KnownPackets
  <2>1. p \in ClientPacket
    BY <1>2, <1>3 DEF ClientPacket
  <2> QED
    BY <1>2, <1>3, <2>1 DEF KnownPackets
<1>5. /\ toClient' = IF res.req.id \in asked THEN Written(<<p>>) ELSE toClient
      /\ asked' \subseteq asked /\ pendingRequests' \subseteq pendingRequests
      /\ results # <<>> /\ results' = Tail(results)
      /\ UNCHANGED <<client, connected, session, undetached, routed, toServer, groups, wereIn,
                     users, nextId, offlineRows>>
  BY <1>1, <1>3 DEF AnswerOp, OnCompleted, Answer, tables
<1>6. PICK packets \in Seq(KnownPackets) :
         /\ toClient' = toClient \o packets
         /\ Len(packets) <= 1
         /\ \A i \in 1..Len(packets) : packets[i] = p /\ res.req.id \in asked
  <2>1. PICK alive : alive = (res.req.id \in asked)
    OBVIOUS
  <2>2. toClient' = IF alive THEN Written(<<p>>) ELSE toClient
    BY <1>5, <2>1
  <2> QED
    BY <1>4, <2>1, <2>2, WrittenIs DEF IInv
<1>7. ASSUME NEW g \in Groups, NEW i \in 1..Len(packets)
      PROVE  Renders(packets[i], Head(results), g)
  <2>1. res.req.id \in asked => Renders(p, res, g)
    BY <1>3 DEF Renders, Mentions, Omits, Creates, WillMention, WillCreate
  <2> QED
    BY <1>1, <1>6, <2>1
<1>8. \/ dbQueue' = dbQueue
      \/ \E r \in RightRequests : r.op # "leave" /\ dbQueue' = Append(dbQueue, r)
  <2>1. CASE res.ok
    <3>1. PICK r : r = [op |-> "notify", id |-> res.req.id, group |-> res.group,
                        by |-> res.req.by, who |-> {}]
      OBVIOUS
    <3>2. dbQueue' = Append(dbQueue, r)
      BY <1>1, <2>1, <3>1 DEF AnswerOp, OnCompleted, Announce, NotifyLater, Post
    <3>3. r \in RightRequests
      <4>1. r \in Request
        BY <1>2, <3>1 DEF Request
      <4> QED
        BY <1>2, <2>1, <3>1, <4>1 DEF RightRequests
    <3> QED
      BY <3>1, <3>2, <3>3
  <2>2. CASE ~res.ok
    BY <1>1, <2>2 DEF AnswerOp, OnCompleted, Announce
  <2> QED
    BY <2>1, <2>2
<1>9. offlineRows' \subseteq KnownRows /\ IsFiniteSet(offlineRows')
  BY <1>5 DEF IInv, QueuesRight
<1> QED
  BY <1>5, <1>6, <1>7, <1>8, <1>9, ResultHandled

\* A packet is pushed to Self, at once or through the offline queue
LEMMA Pushes ==
    ASSUME IInv, results # <<>>, results' = Tail(results), NEW told,
           NEW p, told => p \in KnownRows, Push(told, p),
           \A g \in Groups : told /\ p = [kind |-> "message", group |-> g]
              => WillMention(Head(results), g),
           UNCHANGED <<client, connected, session, undetached, routed, toServer, asked, groups,
                       wereIn, users, nextId, pendingRequests, dbQueue>>
    PROVE  IInv'
<1>1. told => /\ p \in KnownPackets
              /\ p.kind \in {"memberChanged", "message"} /\ p.group \in Groups
              /\ p = [kind |-> p.kind, group |-> p.group]
  BY DEF KnownPackets, ClientPacket, KnownRows, Pushed
<1>2. PICK packets \in Seq(KnownPackets) :
         /\ toClient' = toClient \o packets
         /\ Len(packets) <= 1
         /\ \A i \in 1..Len(packets) : packets[i] = p /\ told
  <2>1. CASE told
    <3>1. PICK alive : alive = (told /\ routed)
      OBVIOUS
    <3>2. toClient' = IF alive THEN Written(<<p>>) ELSE toClient
      BY <3>1 DEF Push
    <3> QED
      BY <1>1, <2>1, <3>2, WrittenIs DEF IInv
  <2>2. CASE ~told
    <3>1. toClient' = toClient
      BY <2>2 DEF Push
    <3>2. PICK e \in Seq(KnownPackets) : toClient' = toClient \o e /\ e = <<>>
      BY <3>1, NothingWritten DEF IInv
    <3>3. Len(e) <= 1 /\ \A i \in 1..Len(e) : FALSE
      BY <3>2
    <3> QED
      BY <3>2, <3>3
  <2> QED
    BY <2>1, <2>2
<1>3. ASSUME NEW g \in Groups, NEW i \in 1..Len(packets)
      PROVE  Renders(packets[i], Head(results), g)
  <2>1. told => Renders(p, Head(results), g)
    BY <1>1 DEF Renders, Mentions, Omits, Creates
  <2> QED
    BY <1>2, <2>1
<1>4. offlineRows' = offlineRows \/ (told /\ offlineRows' = offlineRows \cup {p})
  BY DEF Push
<1>5. offlineRows' \subseteq KnownRows /\ IsFiniteSet(offlineRows')
  <2>1. offlineRows \subseteq KnownRows /\ IsFiniteSet(offlineRows)
    BY DEF IInv, QueuesRight
  <2> QED
    BY <1>4, <2>1, FS_AddElement
<1>6. \A g \in Groups : [kind |-> "message", group |-> g] \in offlineRows' =>
         [kind |-> "message", group |-> g] \in offlineRows \/ WillMention(Head(results), g)
  BY <1>4
<1> QED
  BY <1>2, <1>3, <1>5, <1>6, ResultHandled

LEMMA NotificationPushed ==
    ASSUME IInv, PushNotification
    PROVE  IInv'
<1>1. PICK res : res = Head(results) /\ res \in RightResults
  BY HeadResult DEF IInv, PushNotification, OnGroupMembersForNotify
<1>2. PICK told : told = (res.ok /\ Self \in Recipients(res))
  OBVIOUS
<1>3. PICK p : p = [kind |-> "memberChanged", group |-> res.group]
  OBVIOUS
<1>4. /\ results # <<>> /\ results' = Tail(results) /\ res.req.op = "notify"
      /\ UNCHANGED <<client, connected, session, undetached, routed, toServer, asked, groups,
                     wereIn, users, nextId, pendingRequests, dbQueue>>
  BY <1>1 DEF PushNotification, OnGroupMembersForNotify, tables
<1>5. Push(told, p)
  BY <1>1, <1>2, <1>3 DEF PushNotification, Push
<1>6. told => p \in KnownRows
  <2>1. res.ok => res.group \in Groups
    BY <1>1, <1>4, ResultFacts
  <2> QED
    BY <1>2, <1>3, <2>1 DEF KnownRows, Pushed
<1>7. \A g \in Groups : p # [kind |-> "message", group |-> g]
  BY <1>3
<1> QED
  BY <1>4, <1>5, <1>6, <1>7, Pushes

LEMMA MessagePushed ==
    ASSUME IInv, PushMessage
    PROVE  IInv'
<1>1. PICK res : res = Head(results) /\ res \in RightResults
  BY HeadResult DEF IInv, PushMessage, OnGroupMembersForMessage
<1>2. PICK told : told = (res.ok /\ res.req.by \in res.members
                          /\ Self \in res.members \ {res.req.by})
  OBVIOUS
<1>3. PICK p : p = [kind |-> "message", group |-> res.group]
  OBVIOUS
<1>4. /\ results # <<>> /\ results' = Tail(results) /\ res.req.op = "message"
      /\ UNCHANGED <<client, connected, session, undetached, routed, toServer, asked, groups,
                     wereIn, users, nextId, pendingRequests, dbQueue>>
  BY <1>1 DEF PushMessage, OnGroupMembersForMessage, tables, pending
<1>5. Push(told, p)
  BY <1>1, <1>2, <1>3 DEF PushMessage, Push
<1>6. told => p \in KnownRows
  <2>1. res.ok => res.group \in Groups /\ res.group \in Known
    BY <1>1, <1>4, ResultFacts
  <2> QED
    BY <1>2, <1>3, <2>1 DEF KnownRows, Pushed
<1>7. \A g \in Groups : told /\ p = [kind |-> "message", group |-> g]
         => WillMention(Head(results), g)
  <2>1. \A g \in Groups : told /\ p = [kind |-> "message", group |-> g] => res.group = g /\ res.ok
    BY <1>2, <1>3
  <2>2. \A g \in Groups : res.group = g /\ res.ok => WillMention(res, g)
    BY <1>4 DEF WillMention
  <2> QED
    BY <1>1, <2>1, <2>2
<1> QED
  BY <1>4, <1>5, <1>6, <1>7, Pushes

LEMMA ListAnswered ==
    ASSUME IInv, OnGroupListLoaded
    PROVE  IInv'
<1>1. PICK res : res = Head(results) /\ res \in RightResults
  BY HeadResult DEF IInv, OnGroupListLoaded
<1>2. PICK list : list = IF res.ok THEN res.list ELSE NoGroups
  OBVIOUS
<1>3. PICK p : p = [kind |-> "groupListAck", ok |-> res.ok, list |-> list]
  OBVIOUS
<1>4. /\ results # <<>> /\ results' = Tail(results) /\ res.req.op = "list"
      /\ toClient' = IF res.req.id = session THEN Written(<<p>>) ELSE toClient
      /\ UNCHANGED <<client, connected, session, undetached, routed, toServer, asked, groups,
                     wereIn, users, nextId, pendingRequests, dbQueue, offlineRows>>
  BY <1>1, <1>2, <1>3 DEF OnGroupListLoaded, Answer, tables, history, pending
<1>5. p \in KnownPackets
  <2>1. NoGroups \in Listing(GroupRow) /\ DOMAIN NoGroups = {}
    <3>1. PICK f : f = [g \in {} |-> {}]
      OBVIOUS
    <3>2. DOMAIN f = {} /\ f = [g \in DOMAIN f |-> f[g]]
      BY <3>1
    <3>3. f \in Listing(GroupRow)
      BY <3>2, ListingIs
    <3> QED
      BY <3>1, <3>2, <3>3 DEF NoGroups
  <2>2. list \in Listing(GroupRow) /\ DOMAIN list \subseteq Known /\ res.ok \in BOOLEAN
    BY <1>1, <1>2, <1>4, <2>1, ResultFacts
  <2>3. p \in ClientPacket
    BY <1>3, <2>2 DEF ClientPacket
  <2> QED
    BY <1>3, <2>2, <2>3 DEF KnownPackets
<1>6. PICK packets \in Seq(KnownPackets) :
         /\ toClient' = toClient \o packets
         /\ Len(packets) <= 1
         /\ \A i \in 1..Len(packets) : packets[i] = p /\ res.req.id = session
  <2>1. PICK alive : alive = (res.req.id = session)
    OBVIOUS
  <2>2. toClient' = IF alive THEN Written(<<p>>) ELSE toClient
    BY <1>4, <2>1
  <2> QED
    BY <1>5, <2>1, <2>2, WrittenIs DEF IInv
<1>7. ASSUME NEW g \in Groups, NEW i \in 1..Len(packets)
      PROVE  Renders(packets[i], Head(results), g)
  <2>1. res.req.id = session => Renders(p, res, g)
    BY <1>2, <1>3, <1>4 DEF Renders, Mentions, Omits, Creates, WillMention, WillOmit
  <2> QED
    BY <1>1, <1>6, <2>1
<1>8. offlineRows' \subseteq KnownRows /\ IsFiniteSet(offlineRows')
  BY <1>4 DEF IInv, QueuesRight
<1> QED
  BY <1>4, <1>6, <1>7, <1>8, ResultHandled

LEMMA OfflineDelivered ==
    ASSUME IInv, OnOfflineLoaded
    PROVE  IInv'
<1>1. PICK res : res = Head(results) /\ res \in RightResults
  BY HeadResult DEF IInv, OnOfflineLoaded
<1>2. PICK loaded : loaded = IF res.ok THEN res.rows ELSE {}
  OBVIOUS
<1>3. /\ results # <<>> /\ results' = Tail(results) /\ res.req.op = "loadOffline"
      /\ UNCHANGED <<client, connected, session, undetached, routed, toServer, asked, groups,
                     wereIn, users, nextId, pendingRequests, dbQueue>>
  BY <1>1 DEF OnOfflineLoaded, tables, history, pending
<1>4. loaded \subseteq KnownRows /\ IsFiniteSet(loaded)
  BY <1>1, <1>2, <1>3, ResultFacts, FS_EmptySet
<1>5. KnownRows \subseteq KnownPackets
  BY DEF KnownRows, KnownPackets, ClientPacket, Pushed
<1>6. PICK packets \in Seq(KnownPackets) :
         /\ toClient' = toClient \o packets
         /\ \A i \in 1..Len(packets) : packets[i] \in loaded
  <2>1. CASE toClient' = toClient
    <3>1. PICK e \in Seq(KnownPackets) : toClient' = toClient \o e /\ e = <<>>
      BY <2>1, NothingWritten DEF IInv
    <3>2. \A i \in 1..Len(e) : FALSE
      BY <3>1
    <3> QED
      BY <3>1, <3>2
  <2>2. ASSUME NEW s \in SetToSeqs(loaded), toClient' = toClient \o s
        PROVE  \E packets \in Seq(KnownPackets) :
                  /\ toClient' = toClient \o packets
                  /\ \A i \in 1..Len(packets) : packets[i] \in loaded
    <3>1. PICK n \in Nat : n = Cardinality(loaded)
      BY <1>4, FS_CardinalityType
    <3>2. s \in [1..n -> loaded]
      BY <3>1 DEF SetToSeqs
    <3>3. s \in Seq(loaded) /\ Len(s) = n
      BY <3>2
    <3>4. s \in Seq(KnownPackets)
      BY <1>4, <1>5, <3>3, SeqMonotonic
    <3>5. \A i \in 1..Len(s) : s[i] \in loaded
      BY <3>2, <3>3
    <3> QED
      BY <2>2, <3>4, <3>5
  <2>3. toClient' = toClient \/ \E s \in SetToSeqs(loaded) : toClient' = toClient \o s
    BY <1>1, <1>2 DEF OnOfflineLoaded, Written
  <2> QED
    BY <2>1, <2>2, <2>3
<1>7. ASSUME NEW g \in Groups, NEW i \in 1..Len(packets)
      PROVE  Renders(packets[i], Head(results), g) /\ ~Creates(packets[i], g)
  <2>1. PICK p : p = packets[i] /\ p \in loaded
    BY <1>6
  <2>2. p \in KnownRows /\ res.ok /\ p \in res.rows
    BY <1>2, <1>4, <2>1
  <2>3. p.kind \in {"memberChanged", "message"} /\ p = [kind |-> p.kind, group |-> p.group]
    BY <2>2 DEF KnownRows, Pushed
  <2>4. Renders(p, res, g) /\ ~Creates(p, g)
    BY <1>3, <2>2, <2>3 DEF Renders, Mentions, Omits, Creates, WillMention
  <2> QED
    BY <1>1, <2>1, <2>4
<1>8. offlineRows' \subseteq offlineRows
  BY <1>1 DEF OnOfflineLoaded
<1>9. offlineRows' \subseteq KnownRows /\ IsFiniteSet(offlineRows')
  BY <1>8, FS_Subset DEF IInv, QueuesRight
<1> QED
  BY <1>3, <1>6, <1>7, <1>8, <1>9, ResultHandled

-----------------------------------------------------------------------------
(***************************************************************************)
(* Connections                                                             *)
(***************************************************************************)
LEMMA LoggedIn ==
    ASSUME IInv, Login
    PROVE  IInv'
<1>1. PICK s : s = session + 1
  OBVIOUS
<1>2. PICK r : r = [op |-> "loadOffline", id |-> s, group |-> NoGroup, by |-> Self, who |-> {}]
  OBVIOUS
<1>3. /\ ~connected /\ session < MaxLogins /\ dbQueue = <<>>
      /\ connected' = TRUE /\ routed' = TRUE /\ session' = s
      /\ users' = users \cup {Self}
      /\ dbQueue' = Append(dbQueue, r)
      /\ toClient' = <<[kind |-> "connectAck"]>>
      /\ UNCHANGED <<groups, results, nextId, wereIn, pendingRequests, undetached, toServer, asked,
                     offlineRows, client>>
  BY <1>1, <1>2 DEF Login, Post, pending, history
<1>4. /\ session \in Nat /\ session <= s /\ s \in 0..MaxLogins /\ s \in Nat /\ s \in 0..s
      /\ nextId \in Nat /\ nextId <= nextId
  <2>1. session \in Nat /\ nextId \in Nat /\ MaxLogins \in Nat /\ session + 1 <= MaxLogins
    BY <1>3, SyncAssumption DEF IInv, ClientRight, ServerRight
  <2> QED
    BY <1>1, <2>1
<1>5. Grows
  BY <1>3, <1>4 DEF Grows
<1>6. ServerRight'
  <2>1. users' \subseteq Users
    BY <1>3, SyncAssumption DEF IInv, ServerRight
  <2> QED
    BY <1>3, <2>1, ServerSteady DEF IInv, ServerRight
<1>7. ClientRight'
  <2>1. /\ localGroups' = localGroups /\ opening' = opening
        /\ inProgress' = inProgress /\ recovery' = recovery
    BY <1>3 DEF client, localTables, flags
  <2>2. undetached' \in Nat /\ undetached' + (IF connected' THEN 1 ELSE 0) <= session'
    <3>1. undetached \in Nat /\ undetached + 0 <= session
      BY <1>3 DEF IInv, ClientRight
    <3>2. undetached + 1 <= s
      BY <1>1, <1>4, <3>1
    <3> QED
      BY <1>3, <3>1, <3>2
  <2>3. /\ localGroups' \in Listing(LocalRow) /\ DOMAIN localGroups' \subseteq Known'
        /\ opening' \in Groups \cup {NoGroup}
        /\ inProgress' \in BOOLEAN /\ recovery' \in BOOLEAN
    BY <1>5, <2>1, RightSetsGrow DEF IInv, ClientRight
  <2>4. toServer' \in BOOLEAN /\ (toServer' => connected')
    BY <1>3 DEF IInv, ClientRight
  <2>5. asked' \subseteq {i \in Ids : i < nextId'}
    BY <1>3 DEF IInv, ClientRight
  <2>6. connected' \in BOOLEAN /\ routed' \in BOOLEAN /\ session' \in 0..MaxLogins
    BY <1>3, <1>4
  <2> QED
    BY <2>2, <2>3, <2>4, <2>5, <2>6 DEF ClientRight
<1>8. /\ toClient' # <<>> /\ Len(toClient') = 1 /\ toClient'[1] = [kind |-> "connectAck"]
      /\ \A i \in 1..Len(toClient') : toClient'[i] = [kind |-> "connectAck"]
      /\ toClient' \in Seq(KnownPackets')
  <2>1. PICK p : p = [kind |-> "connectAck"]
    OBVIOUS
  <2>2. PICK P : P = KnownPackets'
    OBVIOUS
  <2>3. p \in P
    <3>1. p \in KnownPackets
      BY <2>1 DEF KnownPackets, ClientPacket
    <3> QED
      BY <1>5, <2>2, <3>1, RightSetsGrow
  <2>4. <<p>> \in Seq(P) /\ Len(<<p>>) = 1 /\ <<p>>[1] = p /\ <<p>> # <<>>
    BY <2>3
  <2>5. \A i \in 1..1 : <<p>>[i] = p
    BY <2>4
  <2> QED
    BY <1>3, <2>1, <2>2, <2>4, <2>5
<1>9. ShownRight'
  BY <1>3, <1>8 DEF IInv, ShownRight, SessionsConsistent, client, localTables
<1>10. r \in RightRequests'
  <2>1. PICK R : R = [op : {"loadOffline"}, id : 0..s, group : {NoGroup}, by : {Self}, who : {{}}]
    OBVIOUS
  <2>2. R = RowsRequest'
    BY <1>3, <2>1 DEF RowsRequest
  <2>3. r \in R
    BY <1>2, <1>4, <2>1
  <2>4. r.op = "loadOffline"
    BY <1>2
  <2> QED
    BY <2>2, <2>3, <2>4 DEF RightRequests
<1>11. QueuesRight'
  <2>1. PICK S, q : S = RightRequests' /\ q = dbQueue /\ q \in Seq(S)
    BY <1>5, QueuesGrow DEF IInv
  <2>2. Append(q, r) \in Seq(S)
    BY <1>10, <2>1, Added
  <2>3. dbQueue' \in Seq(RightRequests')
    BY <1>3, <2>1, <2>2
  <2>4. results' \in Seq(RightResults')
    BY <1>3, <1>5, QueuesGrow DEF IInv
  <2>5. offlineRows' \subseteq KnownRows' /\ IsFiniteSet(offlineRows')
    BY <1>3, <1>5, QueuesGrow DEF IInv, QueuesRight
  <2> QED
    BY <1>8, <2>3, <2>4, <2>5 DEF QueuesRight
<1>12. ASSUME NEW g \in Groups PROVE InOrder(g)'
  <2>1. StaysSecure(g)
    <3>1. SUFFICES ASSUME Secure(g) PROVE Secure(g)'
      BY DEF StaysSecure
    <3>2. Owned(g)'
      BY <1>3, <3>1, OwnedSame DEF Secure
    <3>3. r.op # "leave"
      BY <1>2
    <3> QED
      BY <1>3, <1>5, <1>10, <3>1, <3>2, <3>3, SecureKept DEF IInv
  <2>2. opening' = opening /\ localGroups' = localGroups
    BY <1>3 DEF client, localTables
  <2>3. session' \in {session, session + 1} /\ results' = results /\ offlineRows' = offlineRows
    BY <1>1, <1>3
  <2> QED
    BY <1>5, <1>8, <2>1, <2>2, <2>3, OrderKept DEF IInv
<1> QED
  BY <1>6, <1>7, <1>9, <1>11, <1>12 DEF IInv

\* A connection ends or is detached: what was on the wire is gone, the tables stay
LEMMA CutOff ==
    ASSUME IInv, Grows,
           UNCHANGED <<groups, wereIn, users, nextId, session, offlineRows, localTables>>,
           pendingRequests' \subseteq Ids,
           \/ UNCHANGED <<dbQueue, results>>
           \/ dbQueue' = <<>> /\ results' = <<>>,
           \/ connected' = connected /\ UNCHANGED <<toClient, toServer, asked, flags, shown, current>>
           \/ ConnectionEnds /\ UNCHANGED <<shown, current>>
           \/ ConnectionEnds /\ shown' = {} /\ current' = NoGroup,
           opening' \in {opening, NoGroup}, routed' \in BOOLEAN,
           undetached' \in Nat, undetached' + (IF connected' THEN 1 ELSE 0) <= session
    PROVE  IInv'
<1>1. ServerRight'
  BY ServerSteady DEF IInv, ServerRight
<1>2. localGroups' = localGroups /\ localSessions' = localSessions
  BY DEF localTables
<1>3. ClientRight'
  <2>1. /\ localGroups' \in Listing(LocalRow) /\ DOMAIN localGroups' \subseteq Known'
        /\ opening' \in Groups \cup {NoGroup} /\ session' \in 0..MaxLogins
    BY <1>2, RightSetsGrow DEF IInv, ClientRight
  <2>2. CASE connected' = connected /\ UNCHANGED <<toClient, toServer, asked, flags, shown, current>>
    <3>1. asked' \subseteq {i \in Ids : i < nextId'}
      BY <2>2 DEF IInv, ClientRight
    <3>2. connected' \in BOOLEAN /\ toServer' \in BOOLEAN /\ (toServer' => connected')
      BY <2>2 DEF IInv, ClientRight
    <3>3. inProgress' \in BOOLEAN /\ recovery' \in BOOLEAN
      BY <2>2 DEF IInv, ClientRight, flags
    <3> QED
      BY <2>1, <3>1, <3>2, <3>3 DEF ClientRight
  <2>3. CASE ConnectionEnds
    BY <2>1, <2>3 DEF ClientRight, ConnectionEnds, ResetRuntimeState
  <2> QED
    BY <2>2, <2>3
<1>4. ShownRight'
  <2>1. CASE connected' = connected /\ UNCHANGED <<toClient, shown, current>>
    BY <1>2, <2>1 DEF IInv, ShownRight, SessionsConsistent
  <2>2. CASE ConnectionEnds /\ UNCHANGED <<shown, current>>
    BY <1>2, <2>2 DEF IInv, ShownRight, SessionsConsistent, ConnectionEnds
  <2>3. CASE ConnectionEnds /\ shown' = {} /\ current' = NoGroup
    BY <1>2, <2>3 DEF IInv, ShownRight, SessionsConsistent, ConnectionEnds
  <2> QED
    BY <2>1, <2>2, <2>3
<1>5. QueuesRight'
  <2>1. dbQueue' \in Seq(RightRequests') /\ results' \in Seq(RightResults')
    BY QueuesGrow, EmptySeq DEF IInv
  <2>2. toClient' \in Seq(KnownPackets')
    BY QueuesGrow, EmptySeq DEF IInv, ConnectionEnds
  <2>3. offlineRows' \subseteq KnownRows' /\ IsFiniteSet(offlineRows')
    BY QueuesGrow DEF IInv, QueuesRight
  <2> QED
    BY <2>1, <2>2, <2>3 DEF QueuesRight
<1>6. ASSUME NEW g \in Groups PROVE InOrder(g)'
  <2>1. StaysSecure(g)
    <3>1. SUFFICES ASSUME Secure(g) PROVE Secure(g)'
      BY DEF StaysSecure
    <3>2. Owned(g)'
      BY <3>1, OwnedSame DEF Secure
    <3> QED
      BY <3>1, <3>2, SecureKept DEF IInv
  <2>2. toClient' = toClient
           \/ \A i \in 1..Len(toClient') : toClient'[i] = [kind |-> "connectAck"]
    <3>1. toClient' = <<>> => Len(toClient') = 0
      OBVIOUS
    <3> QED
      BY <3>1 DEF ConnectionEnds
  <2>3. results' \in {results, <<>>} /\ session' \in {session, session + 1}
    OBVIOUS
  <2> QED
    BY <1>2, <2>1, <2>2, <2>3, OrderKept DEF IInv
<1> QED
  BY <1>1, <1>3, <1>4, <1>5, <1>6 DEF IInv

\* The count of connections that are closed and not detached
LEMMA Undetached ==
    ASSUME IInv
    PROVE  /\ undetached \in Nat /\ session \in Nat /\ undetached + 1 \in Nat
           /\ undetached <= session /\ undetached + 0 <= session
           /\ connected => undetached + 1 <= session
           /\ undetached > 0 => undetached - 1 \in Nat
           /\ undetached - 1 + (IF connected THEN 1 ELSE 0) <= session
           /\ undetached + (IF connected THEN 1 ELSE 0) <= session
<1>1. undetached \in Nat /\ session \in Nat
  BY SyncAssumption DEF IInv, ClientRight
<1>2. undetached + (IF connected THEN 1 ELSE 0) <= session
  BY DEF IInv, ClientRight
<1> QED
  BY <1>1, <1>2

LEMMA ConnectionChanged ==
    ASSUME IInv,
           ConnectionLost \/ LogoutOrRestart \/ OnClientDisconnected \/ ServerStops
    PROVE  IInv'
<1>1. asked' \subseteq asked /\ session' = session /\ nextId' = nextId /\ wereIn' = wereIn
  BY DEF ConnectionLost, LogoutOrRestart, OnClientDisconnected, ServerStops, ConnectionEnds,
         vars, ServerCrash, history
<1>2. Grows
  BY <1>1, GrowsIfSame
<1>3. pendingRequests \subseteq Ids /\ routed \in BOOLEAN
  BY DEF IInv, ServerRight, ClientRight
<1>4. CASE ConnectionLost
  <2>1. undetached' \in Nat /\ undetached' + (IF connected' THEN 1 ELSE 0) <= session
    <3>1. connected /\ undetached' = undetached + 1 /\ connected' = FALSE
      BY <1>4 DEF ConnectionLost, ConnectionEnds
    <3>2. undetached + 1 + 0 <= session
      BY <3>1, Undetached
    <3> QED
      BY <3>1, <3>2, Undetached
  <2>2. /\ UNCHANGED <<groups, wereIn, users, nextId, session, offlineRows, localTables>>
        /\ pendingRequests' \subseteq Ids /\ UNCHANGED <<dbQueue, results>>
        /\ ConnectionEnds
        /\ UNCHANGED <<shown, current>>
        /\ opening' \in {opening, NoGroup} /\ routed' \in BOOLEAN
    BY <1>3, <1>4 DEF ConnectionLost, vars, tables, queues, pending, history
  <2> QED
    BY <1>2, <2>1, <2>2, CutOff
<1>5. CASE LogoutOrRestart
  <2>1. undetached' \in Nat /\ undetached' + (IF connected' THEN 1 ELSE 0) <= session
    <3>1. connected' = FALSE /\ undetached' = IF connected THEN undetached + 1 ELSE undetached
      BY <1>5 DEF LogoutOrRestart, ConnectionEnds
    <3>2. CASE connected
      <4>1. undetached + 1 + 0 <= session
        BY <3>2, Undetached
      <4> QED
        BY <3>1, <3>2, <4>1, Undetached
    <3>3. CASE ~connected
      BY <3>1, <3>3, Undetached
    <3> QED
      BY <3>2, <3>3
  <2>2. /\ UNCHANGED <<groups, wereIn, users, nextId, session, offlineRows, localTables>>
        /\ pendingRequests' \subseteq Ids /\ UNCHANGED <<dbQueue, results>>
        /\ ConnectionEnds
        /\ shown' = {} /\ current' = NoGroup
        /\ opening' \in {opening, NoGroup} /\ routed' \in BOOLEAN
    BY <1>3, <1>5 DEF LogoutOrRestart, vars, tables, queues, pending, history
  <2> QED
    BY <1>2, <2>1, <2>2, CutOff
<1>6. CASE OnClientDisconnected
  <2>1. undetached' \in Nat /\ undetached' + (IF connected' THEN 1 ELSE 0) <= session
    <3>1. undetached > 0 /\ undetached' = undetached - 1 /\ connected' = connected
      BY <1>6 DEF OnClientDisconnected
    <3> QED
      BY <3>1, Undetached
  <2>2. /\ UNCHANGED <<groups, wereIn, users, nextId, session, offlineRows, localTables>>
        /\ pendingRequests' \subseteq Ids /\ UNCHANGED <<dbQueue, results>>
        /\ connected' = connected
        /\ UNCHANGED <<toClient, toServer, asked, flags, shown, current>>
        /\ opening' \in {opening, NoGroup} /\ routed' \in BOOLEAN
    BY <1>3, <1>6 DEF OnClientDisconnected, client, vars, tables, queues, pending, history
  <2> QED
    BY <1>2, <2>1, <2>2, CutOff
<1>7. CASE ServerStops
  <2>1. undetached' \in Nat /\ undetached' + (IF connected' THEN 1 ELSE 0) <= session
    <3>1. undetached' = 0 /\ connected' = FALSE
      BY <1>7 DEF ServerStops, ConnectionEnds
    <3>2. 0 <= session
      BY Undetached
    <3> QED
      BY <3>1, <3>2
  <2>2. pendingRequests' = {} /\ {} \subseteq Ids
    BY <1>7 DEF ServerStops, ServerCrash
  <2>3. /\ UNCHANGED <<groups, wereIn, users, nextId, session, offlineRows, localTables>>
        /\ pendingRequests' \subseteq Ids /\ dbQueue' = <<>> /\ results' = <<>>
        /\ ConnectionEnds
        /\ UNCHANGED <<shown, current>>
        /\ opening' \in {opening, NoGroup} /\ routed' \in BOOLEAN
    BY <1>7, <2>2 DEF ServerStops, ServerCrash, tables, history
  <2> QED
    BY <1>2, <2>1, <2>3, CutOff
<1> QED
  BY <1>4, <1>5, <1>6, <1>7

-----------------------------------------------------------------------------
(***************************************************************************)
(* The client                                                              *)
(***************************************************************************)
\* The client handles the packet at the head and shows what it stores
LEMMA Received ==
    ASSUME IInv, connected, toClient # <<>>, toClient' = Tail(toClient),
           UNCHANGED <<vars, connected, session, undetached, routed, asked, offlineRows>>,
           toServer' \in BOOLEAN, inProgress' \in BOOLEAN, recovery' \in BOOLEAN,
           localGroups' \in Listing(LocalRow),
           \A g \in Groups : g \in DOMAIN localGroups' =>
              g \in DOMAIN localGroups \/ Mentions(Head(toClient), g),
           \A g \in Groups : g \in DOMAIN localGroups =>
              g \in DOMAIN localGroups' \/ Omits(Head(toClient), g),
           opening' \in Groups \cup {NoGroup},
           \A g \in Groups : g = opening' =>
              g = opening \/ (Creates(Head(toClient), g) /\ g \in DOMAIN localGroups'),
           localSessions' = DOMAIN localGroups', shown' = localSessions',
           current' \in localSessions' \cup {NoGroup}
    PROVE  IInv'
<1>1. UNCHANGED <<users, groups, dbQueue, results, pendingRequests, nextId, wereIn>>
  BY DEF vars, tables, queues, pending, history
<1>2. Grows
  BY <1>1, GrowsIfSame
<1>3. ServerRight'
  BY <1>1, ServerSteady DEF IInv, ServerRight
<1>4. PICK p : p = Head(toClient) /\ p \in KnownPackets
  <2>1. PICK s \in Seq(KnownPackets) : s = toClient
    BY DEF IInv, QueuesRight
  <2>2. Head(s) \in KnownPackets
    BY <2>1, Removed1
  <2> QED
    BY <2>1, <2>2
<1>5. DOMAIN localGroups' \subseteq Known
  <2>1. DOMAIN localGroups' \subseteq Groups
    <3>1. PICK f : f = localGroups'
      OBVIOUS
    <3>2. DOMAIN f \subseteq Groups
      BY <3>1, ListingIs
    <3> QED
      BY <3>1, <3>2
  <2>2. \A g : Mentions(p, g) => g \in Known
    BY <1>4, PacketFacts DEF Mentions, Creates
  <2>3. DOMAIN localGroups \subseteq Known
    BY DEF IInv, ClientRight
  <2> QED
    BY <1>4, <2>1, <2>2, <2>3
<1>6. ClientRight'
  <2>1. DOMAIN localGroups' \subseteq Known'
    BY <1>2, <1>5, RightSetsGrow
  <2>2. asked' \subseteq {i \in Ids : i < nextId'}
    BY <1>1 DEF IInv, ClientRight
  <2>3. /\ connected' \in BOOLEAN /\ routed' \in BOOLEAN
        /\ session' \in 0..MaxLogins /\ undetached' \in Nat
        /\ undetached' + (IF connected' THEN 1 ELSE 0) <= session'
    BY DEF IInv, ClientRight
  <2> QED
    BY <2>1, <2>2, <2>3 DEF ClientRight
<1>7. ShownRight'
  BY DEF ShownRight, SessionsConsistent
<1>8. QueuesRight'
  <2>1. dbQueue' \in Seq(RightRequests') /\ results' \in Seq(RightResults')
    BY <1>1, <1>2, QueuesGrow DEF IInv
  <2>2. toClient' \in Seq(KnownPackets')
    <3>1. PICK P, s : P = KnownPackets' /\ s = toClient /\ s \in Seq(P)
      BY <1>2, QueuesGrow DEF IInv
    <3>2. Tail(s) \in Seq(P)
      BY <3>1, Removed1
    <3> QED
      BY <3>1, <3>2
  <2>3. offlineRows' \subseteq KnownRows' /\ IsFiniteSet(offlineRows')
    BY <1>2, QueuesGrow DEF IInv, QueuesRight
  <2> QED
    BY <2>1, <2>2, <2>3 DEF QueuesRight
<1>9. ASSUME NEW g \in Groups PROVE InOrder(g)'
  <2>1. StaysSecure(g)
    <3>1. SUFFICES ASSUME Secure(g) PROVE Secure(g)'
      BY DEF StaysSecure
    <3>2. Owned(g)'
      BY <1>1, <3>1, OwnedSame DEF Secure
    <3> QED
      BY <1>1, <1>2, <3>1, <3>2, SecureKept DEF IInv
  <2>2. UNCHANGED <<results, session, asked, offlineRows>>
    BY <1>1
  <2> QED
    BY <2>1, <2>2, OrderReceived DEF IInv
<1> QED
  BY <1>3, <1>6, <1>7, <1>8, <1>9 DEF IInv

\* What is shown before a packet is handled
LEMMA ClientIs ==
    ASSUME IInv, connected
    PROVE  /\ localSessions = DOMAIN localGroups
           /\ current \in localSessions \cup {NoGroup}
           /\ localGroups \in Listing(LocalRow)
           /\ DOMAIN localGroups \subseteq Groups
           /\ localGroups = [g \in DOMAIN localGroups |-> localGroups[g]]
           /\ \A g \in DOMAIN localGroups : /\ localGroups[g] \in LocalRow
                                            /\ localGroups[g].members \in SUBSET Users
           /\ opening \in Groups \cup {NoGroup}
           /\ toServer \in BOOLEAN /\ inProgress \in BOOLEAN /\ recovery \in BOOLEAN
           /\ toClient # <<>> /\ Head(toClient).kind # "connectAck" => shown = localSessions
<1>1. /\ localSessions = DOMAIN localGroups
      /\ current \in localSessions \cup {NoGroup}
  BY DEF IInv, ShownRight, SessionsConsistent
<1>2. localGroups \in Listing(LocalRow)
  BY DEF IInv, ClientRight
<1>3. /\ DOMAIN localGroups \subseteq Groups
      /\ localGroups = [g \in DOMAIN localGroups |-> localGroups[g]]
      /\ \A g \in DOMAIN localGroups : localGroups[g] \in LocalRow
  BY <1>2, ListingIs
<1>4. \A g \in DOMAIN localGroups : localGroups[g].members \in SUBSET Users
  BY <1>3 DEF LocalRow
<1>5. toClient # <<>> /\ Head(toClient).kind # "connectAck" => shown = localSessions
  <2>1. SUFFICES ASSUME toClient # <<>>, Head(toClient).kind # "connectAck"
                 PROVE  shown = localSessions
    OBVIOUS
  <2>2. PICK s \in Seq(KnownPackets) : s = toClient
    BY DEF IInv, QueuesRight
  <2>3. Head(s) = s[1]
    BY <2>1, <2>2, Removed1
  <2> QED
    BY <2>1, <2>2, <2>3 DEF IInv, ShownRight
<1>6. /\ opening \in Groups \cup {NoGroup}
      /\ toServer \in BOOLEAN /\ inProgress \in BOOLEAN /\ recovery \in BOOLEAN
  BY DEF IInv, ClientRight
<1> QED
  BY <1>1, <1>2, <1>3, <1>4, <1>5, <1>6

\* One row is stored
LEMMA RowStored ==
    ASSUME NEW f, f \in Listing(LocalRow), NEW g \in Groups, NEW row \in LocalRow, NEW h,
           h = [i \in DOMAIN f \cup {g} |-> IF i = g THEN row ELSE f[i]]
    PROVE  h \in Listing(LocalRow) /\ DOMAIN h = DOMAIN f \cup {g}
<1>1. DOMAIN f \subseteq Groups /\ \A i \in DOMAIN f : f[i] \in LocalRow
  BY ListingIs
<1>2. /\ DOMAIN h = DOMAIN f \cup {g} /\ h = [i \in DOMAIN h |-> h[i]]
      /\ \A i \in DOMAIN h : h[i] = IF i = g THEN row ELSE f[i]
  OBVIOUS
<1>3. \A i \in DOMAIN h : h[i] \in LocalRow
  BY <1>1, <1>2
<1>4. DOMAIN h \subseteq Groups
  BY <1>1, <1>2
<1> QED
  BY <1>2, <1>3, <1>4, ListingIs

LEMMA PacketHandled ==
    ASSUME IInv, HandleIncomingPacket
    PROVE  IInv'
<1>1. PICK p : p = Head(toClient) /\ p \in KnownPackets
  <2>1. PICK s \in Seq(KnownPackets) : s = toClient
    BY DEF IInv, QueuesRight
  <2>2. s # <<>>
    BY <2>1 DEF HandleIncomingPacket
  <2>3. Head(s) \in KnownPackets
    BY <2>2, Removed1
  <2> QED
    BY <2>1, <2>3
<1>2. /\ connected /\ toClient # <<>> /\ toClient' = Tail(toClient)
      /\ UNCHANGED <<vars, connected, session, undetached, routed, asked, offlineRows>>
  BY DEF HandleIncomingPacket
<1>3. /\ localSessions = DOMAIN localGroups
      /\ current \in localSessions \cup {NoGroup}
      /\ localGroups \in Listing(LocalRow)
      /\ DOMAIN localGroups \subseteq Groups
      /\ opening \in Groups \cup {NoGroup}
      /\ toServer \in BOOLEAN /\ inProgress \in BOOLEAN /\ recovery \in BOOLEAN
      /\ p.kind # "connectAck" => shown = localSessions
  BY <1>1, <1>2, ClientIs
<1>4. CASE OnAuthenticated(p)
  <2>1. /\ inProgress' = TRUE /\ toServer' = TRUE /\ recovery' = TRUE
        /\ localSessions' = localSessions \cup DOMAIN localGroups
        /\ shown' = localSessions \cup DOMAIN localGroups
        /\ UNCHANGED <<localGroups, current, opening>>
    BY <1>4 DEF OnAuthenticated, LoadSessions
  <2> QED
    BY <1>1, <1>2, <1>3, <2>1, Received
<1>5. CASE OnGroupListAck(p)
  <2>1. PICK stale : stale = IF p.ok THEN DOMAIN localGroups \ DOMAIN p.list ELSE {}
    OBVIOUS
  <2>2. PICK kept : kept = IF p.ok THEN p.list ELSE localGroups
    OBVIOUS
  <2>3. /\ p.kind = "groupListAck"
        /\ inProgress' = FALSE /\ recovery' = FALSE
        /\ localGroups' = kept
        /\ localSessions' = (localSessions \ stale) \cup DOMAIN kept
        /\ shown' = (localSessions \ stale) \cup DOMAIN kept
        /\ current' = IF current \in stale THEN NoGroup ELSE current
        /\ UNCHANGED <<toServer, opening>>
    BY <1>5, <2>1, <2>2 DEF OnGroupListAck, LoadSessions, CloseIf
  <2>4. kept \in Listing(LocalRow)
    <3>1. p.ok => p.list \in Listing(GroupRow)
      BY <1>1, <2>3, PacketFacts
    <3>2. GroupRow \subseteq LocalRow
      BY DEF GroupRow, LocalRow
    <3>3. p.ok => p.list \in Listing(LocalRow)
      <4>1. PICK l : l = p.list
        OBVIOUS
      <4> QED
        BY <3>1, <3>2, <4>1, ListingIs
    <3> QED
      BY <1>3, <2>2, <3>3
  <2>5. localSessions' = DOMAIN kept
    BY <1>3, <2>1, <2>2, <2>3
  <2>6. current' \in localSessions' \cup {NoGroup}
    BY <1>3, <2>1, <2>2, <2>3, <2>5
  <2>7. /\ \A g \in Groups : g \in DOMAIN kept => g \in DOMAIN localGroups \/ Mentions(p, g)
        /\ \A g \in Groups : g \in DOMAIN localGroups => g \in DOMAIN kept \/ Omits(p, g)
    BY <2>2, <2>3 DEF Mentions, Omits
  <2>8. inProgress' \in BOOLEAN /\ recovery' \in BOOLEAN /\ toServer' \in BOOLEAN
    BY <1>3, <2>3
  <2> QED
    BY <1>1, <1>2, <1>3, <2>3, <2>4, <2>5, <2>6, <2>7, <2>8, Received
<1>6. CASE OnCreateGroupAck(p)
  <2>1. /\ p.kind = "opAck" /\ p.op = "create" /\ p.ok
        /\ inProgress' = TRUE /\ toServer' = (toServer \/ ~inProgress)
        /\ opening' = p.group /\ UNCHANGED <<current, recovery>>
        /\ localSessions' = (localSessions \cup {p.group}) \cup DOMAIN localGroups'
        /\ shown' = (localSessions \cup {p.group}) \cup DOMAIN localGroups'
    BY <1>6 DEF OnCreateGroupAck, Succeeded, SyncGroupSessions, LoadSessions
  <2>2. PICK g \in Groups : g = p.group
    <3>1. p.group \in Known
      BY <1>1, <2>1, PacketFacts
    <3> QED
      BY <3>1 DEF Known
  <2>3. PICK base : base = IF g \in DOMAIN localGroups THEN localGroups[g]
                           ELSE [creator |-> Self, members |-> {}]
    OBVIOUS
  <2>4. PICK row : row = [base EXCEPT !.members = {Self} \cup p.who]
    OBVIOUS
  <2>5. row \in LocalRow
    <3>1. p.who \in SUBSET Users
      BY <1>1, <2>1, PacketFacts
    <3>2. base \in LocalRow
      BY <1>2, <2>3, ClientIs, SyncAssumption DEF LocalRow
    <3> QED
      BY <2>4, <3>1, <3>2, SyncAssumption DEF LocalRow
  <2>6. localGroups' = [i \in DOMAIN localGroups \cup {g} |->
                           IF i = g THEN row ELSE localGroups[i]]
    BY <1>6, <2>2, <2>3, <2>4 DEF OnCreateGroupAck
  <2>7. localGroups' \in Listing(LocalRow) /\ DOMAIN localGroups' = DOMAIN localGroups \cup {g}
    <3>1. PICK h : h = localGroups'
      OBVIOUS
    <3>2. h \in Listing(LocalRow) /\ DOMAIN h = DOMAIN localGroups \cup {g}
      BY <1>3, <2>5, <2>6, <3>1, RowStored
    <3> QED
      BY <3>1, <3>2
  <2>8. localSessions' = DOMAIN localGroups' /\ shown' = localSessions'
    BY <1>3, <2>1, <2>2, <2>7
  <2>9. Creates(p, g) /\ Mentions(p, g)
    BY <2>1, <2>2 DEF Creates, Mentions
  <2>10. current' \in localSessions' \cup {NoGroup}
    BY <1>3, <2>1, <2>7, <2>8
  <2>11. inProgress' \in BOOLEAN /\ recovery' \in BOOLEAN /\ toServer' \in BOOLEAN
    BY <1>3, <2>1
  <2>12. /\ \A i \in Groups : i \in DOMAIN localGroups' => i \in DOMAIN localGroups \/ Mentions(p, i)
         /\ \A i \in Groups : i \in DOMAIN localGroups => i \in DOMAIN localGroups' \/ Omits(p, i)
         /\ opening' \in Groups \cup {NoGroup}
         /\ \A i \in Groups : i = opening' =>
               i = opening \/ (Creates(p, i) /\ i \in DOMAIN localGroups')
    BY <2>1, <2>2, <2>7, <2>9
  <2> QED
    BY <1>1, <1>2, <2>7, <2>8, <2>10, <2>11, <2>12, Received
<1>7. CASE OnMemberOpAck(p)
  <2>1. /\ p.kind = "opAck"
        /\ inProgress' = TRUE /\ toServer' = (toServer \/ ~inProgress)
        /\ UNCHANGED <<localSessions, shown, current, opening, recovery>>
    BY <1>7 DEF OnMemberOpAck, SyncGroupSessions
  <2>2. PICK D : D = DOMAIN localGroups
    OBVIOUS
  <2>3. PICK h : h = [g \in D |-> IF g = p.group
                         THEN [localGroups[g] EXCEPT !.members = MembersAfter(p, localGroups[g])]
                         ELSE localGroups[g]]
    OBVIOUS
  <2>4. localGroups' = h
    BY <1>7, <2>2, <2>3 DEF OnMemberOpAck
  <2>5. DOMAIN h = D /\ h = [g \in DOMAIN h |-> h[g]]
    BY <2>3
  <2>6. \A g \in D : h[g] \in LocalRow
    <3>1. SUFFICES ASSUME NEW g \in D PROVE h[g] \in LocalRow
      OBVIOUS
    <3>2. PICK row : row = localGroups[g] /\ row \in LocalRow /\ row.members \in SUBSET Users
      BY <1>2, <2>2, ClientIs
    <3>3. p.who \in SUBSET Users
      BY <1>1, <2>1, PacketFacts
    <3>4. MembersAfter(p, row) \in SUBSET Users
      BY <3>2, <3>3 DEF MembersAfter
    <3>5. [row EXCEPT !.members = MembersAfter(p, row)] \in LocalRow
      BY <3>2, <3>4 DEF LocalRow
    <3>6. h[g] \in {row, [row EXCEPT !.members = MembersAfter(p, row)]}
      BY <2>3, <3>2
    <3> QED
      BY <3>2, <3>5, <3>6
  <2>7. localGroups' \in Listing(LocalRow) /\ DOMAIN localGroups' = DOMAIN localGroups
    <3>1. D \subseteq Groups
      BY <1>3, <2>2
    <3>2. h \in Listing(LocalRow)
      BY <2>5, <2>6, <3>1, ListingIs
    <3> QED
      BY <2>2, <2>4, <2>5, <3>2
  <2>8. inProgress' \in BOOLEAN /\ recovery' \in BOOLEAN /\ toServer' \in BOOLEAN
    BY <1>3, <2>1
  <2>9. /\ localSessions' = DOMAIN localGroups' /\ shown' = localSessions'
        /\ current' \in localSessions' \cup {NoGroup}
    BY <1>3, <2>1, <2>7
  <2> QED
    BY <1>1, <1>2, <1>3, <2>1, <2>7, <2>8, <2>9, Received
<1>8. CASE OnRefused(p)
  <2>1. /\ p.kind = "opAck"
        /\ UNCHANGED <<toServer, localGroups, localSessions, shown, current, opening,
                       inProgress, recovery>>
    BY <1>8 DEF OnRefused, client, localTables, flags
  <2>2. inProgress' \in BOOLEAN /\ recovery' \in BOOLEAN /\ toServer' \in BOOLEAN
    BY <1>3, <2>1
  <2>3. /\ localSessions' = DOMAIN localGroups' /\ shown' = localSessions'
        /\ current' \in localSessions' \cup {NoGroup}
    BY <1>3, <2>1
  <2> QED
    BY <1>1, <1>2, <1>3, <2>1, <2>2, <2>3, Received
<1>9. CASE OnGroupMemberChanged(p)
  <2>1. /\ p.kind = "memberChanged"
        /\ inProgress' = TRUE /\ toServer' = (toServer \/ ~inProgress)
        /\ UNCHANGED <<localGroups, localSessions, shown, current, opening, recovery>>
    BY <1>9 DEF OnGroupMemberChanged, SyncGroupSessions, localTables
  <2>2. inProgress' \in BOOLEAN /\ recovery' \in BOOLEAN /\ toServer' \in BOOLEAN
    BY <1>3, <2>1
  <2>3. /\ localSessions' = DOMAIN localGroups' /\ shown' = localSessions'
        /\ current' \in localSessions' \cup {NoGroup}
    BY <1>3, <2>1
  <2> QED
    BY <1>1, <1>2, <1>3, <2>1, <2>2, <2>3, Received
<1>10. CASE OnIncomingMessage(p)
  <2>1. /\ p.kind = "message"
        /\ localSessions' = localSessions \cup {p.group}
        /\ shown' = shown \cup {p.group}
        /\ UNCHANGED <<toServer, current, opening, inProgress, recovery>>
    BY <1>10 DEF OnIncomingMessage, flags
  <2>2. PICK g \in Groups : g = p.group
    <3>1. p.group \in Known
      BY <1>1, <2>1, PacketFacts
    <3> QED
      BY <3>1 DEF Known
  <2>3. PICK row : row = IF g \in DOMAIN localGroups THEN localGroups[g]
                         ELSE [creator |-> NoUser, members |-> {}]
    OBVIOUS
  <2>4. row \in LocalRow
    BY <1>2, <2>3, ClientIs DEF LocalRow
  <2>5. PICK h : h = [i \in DOMAIN localGroups \cup {g} |-> IF i = g THEN row ELSE localGroups[i]]
    OBVIOUS
  <2>6. localGroups' = h
    BY <1>10, <2>2, <2>3, <2>5 DEF OnIncomingMessage
  <2>7. localGroups' \in Listing(LocalRow) /\ DOMAIN localGroups' = DOMAIN localGroups \cup {g}
    BY <1>3, <2>4, <2>5, <2>6, RowStored
  <2>8. Mentions(p, g)
    BY <2>1, <2>2 DEF Mentions
  <2>9. inProgress' \in BOOLEAN /\ recovery' \in BOOLEAN /\ toServer' \in BOOLEAN
    BY <1>3, <2>1
  <2>10. /\ localSessions' = DOMAIN localGroups' /\ shown' = localSessions'
         /\ current' \in localSessions' \cup {NoGroup}
    BY <1>3, <2>1, <2>2, <2>7
  <2>11. /\ \A i \in Groups : i \in DOMAIN localGroups' => i \in DOMAIN localGroups \/ Mentions(p, i)
         /\ \A i \in Groups : i \in DOMAIN localGroups => i \in DOMAIN localGroups'
    BY <2>7, <2>8
  <2> QED
    BY <1>1, <1>2, <1>3, <2>1, <2>7, <2>9, <2>10, <2>11, Received
<1> QED
  BY <1>1, <1>4, <1>5, <1>6, <1>7, <1>8, <1>9, <1>10 DEF HandleIncomingPacket

\* The user, or the timer of a new group, changes what is shown
LEMMA ViewChanged ==
    ASSUME IInv, UNCHANGED <<vars, wire, localTables, flags>>, opening' \in {opening, NoGroup},
           shown' \in {shown, localSessions},
           \/ current' \in shown' \cup {NoGroup}
           \/ current' \in localSessions
    PROVE  IInv'
<1>1. /\ UNCHANGED <<users, groups, dbQueue, results, pendingRequests, nextId, wereIn>>
      /\ UNCHANGED <<connected, session, undetached, routed, toServer, toClient, asked, offlineRows>>
      /\ UNCHANGED <<localGroups, localSessions, inProgress, recovery>>
  BY DEF vars, tables, queues, pending, history, wire, localTables, flags
<1>2. Grows
  BY <1>1, GrowsIfSame
<1>3. ServerRight'
  BY <1>1, ServerSteady DEF IInv, ServerRight
<1>4. ClientRight'
  <2>1. DOMAIN localGroups' \subseteq Known'
    BY <1>1, <1>2, RightSetsGrow DEF IInv, ClientRight
  <2>2. asked' \subseteq {i \in Ids : i < nextId'}
    BY <1>1 DEF IInv, ClientRight
  <2>3. toServer' \in BOOLEAN /\ (toServer' => connected')
    BY <1>1 DEF IInv, ClientRight
  <2>4. /\ connected' \in BOOLEAN /\ routed' \in BOOLEAN
        /\ session' \in 0..MaxLogins /\ undetached' \in Nat
        /\ undetached' + (IF connected' THEN 1 ELSE 0) <= session'
        /\ localGroups' \in Listing(LocalRow) /\ opening' \in Groups \cup {NoGroup}
        /\ inProgress' \in BOOLEAN /\ recovery' \in BOOLEAN
    BY <1>1 DEF IInv, ClientRight
  <2> QED
    BY <2>1, <2>2, <2>3, <2>4 DEF ClientRight
<1>5. ShownRight'
  <2>1. shown' \in {{}, localSessions} /\ localSessions = DOMAIN localGroups
    BY DEF IInv, ShownRight, SessionsConsistent
  <2>2. connected => \/ shown' = localSessions
                     \/ toClient # <<>> /\ toClient[1].kind = "connectAck"
    BY DEF IInv, ShownRight
  <2> QED
    BY <1>1, <2>1, <2>2 DEF ShownRight, SessionsConsistent
<1>6. QueuesRight'
  BY <1>1, <1>2, QueuesGrow DEF IInv, QueuesRight
<1>7. ASSUME NEW g \in Groups PROVE InOrder(g)'
  <2>1. StaysSecure(g)
    <3>1. SUFFICES ASSUME Secure(g) PROVE Secure(g)'
      BY DEF StaysSecure
    <3>2. Owned(g)'
      BY <1>1, <3>1, OwnedSame DEF Secure
    <3> QED
      BY <1>1, <1>2, <3>1, <3>2, SecureKept DEF IInv
  <2>2. /\ localGroups' = localGroups /\ offlineRows' = offlineRows
        /\ results' \in {results, <<>>} /\ toClient' = toClient
        /\ session' \in {session, session + 1}
    BY <1>1
  <2> QED
    BY <1>2, <2>1, <2>2, OrderKept DEF IInv
<1> QED
  BY <1>3, <1>4, <1>5, <1>6, <1>7 DEF IInv

LEMMA SessionChosen ==
    ASSUME IInv, NEW g \in Groups, SwitchToSession(g) \/ DeleteSession(g)
    PROVE  IInv'
<1>1. /\ localSessions = DOMAIN localGroups /\ shown \subseteq localSessions
      /\ current \in localSessions \cup {NoGroup}
  BY DEF IInv, ShownRight, SessionsConsistent
<1>2. CASE SwitchToSession(g)
  <2>1. /\ g \in shown /\ current' = g
        /\ UNCHANGED <<vars, wire, localTables, shown, opening, flags>>
    BY <1>2 DEF SwitchToSession
  <2> QED
    BY <2>1, ViewChanged
<1>3. CASE DeleteSession(g)
  <2>1. /\ g \in shown
        /\ localSessions' = (localSessions \ {g}) \cup DOMAIN localGroups
        /\ shown' = (localSessions \ {g}) \cup DOMAIN localGroups
        /\ current' = IF current \in {g} THEN NoGroup ELSE current
        /\ UNCHANGED <<vars, wire, localGroups, opening, flags>>
    BY <1>3 DEF DeleteSession, LoadSessions, CloseIf
  <2>2. localSessions' = localSessions /\ shown' = localSessions
    BY <1>1, <2>1
  <2>3. UNCHANGED localTables
    BY <2>1, <2>2 DEF localTables
  <2>4. current' \in shown' \cup {NoGroup}
    BY <1>1, <2>1, <2>2
  <2> QED
    BY <2>1, <2>2, <2>3, <2>4, ViewChanged
<1> QED
  BY <1>2, <1>3

LEMMA GroupOpened ==
    ASSUME IInv, OpenNewGroup
    PROVE  IInv'
<1>1. PICK g \in Groups : g = opening /\ opening' = NoGroup /\ current' = g
  BY DEF OpenNewGroup, IInv, ClientRight
<1>2. g \in DOMAIN localGroups
  BY <1>1 DEF IInv, InOrder, OpeningStays
<1>3. current' \in localSessions
  BY <1>1, <1>2 DEF IInv, ShownRight, SessionsConsistent
<1>4. UNCHANGED <<vars, wire, localTables, shown, flags>>
  BY DEF OpenNewGroup
<1> QED
  BY <1>1, <1>3, <1>4, ViewChanged

-----------------------------------------------------------------------------
(***************************************************************************)
(* The invariant holds at the start and is kept                            *)
(***************************************************************************)
\* The tables an earlier run left, on the server and on the client
LEMMA TablesAtStart ==
    ASSUME SyncInit
    PROVE  /\ ServerRight
           /\ localGroups \in Listing(LocalRow) /\ DOMAIN localGroups \subseteq Known
<1>1. PICK D \in SUBSET Groups :
         groups \in {f \in [D -> GroupRow] : \A g \in D : WellFormed(f[g])}
  BY DEF SyncInit, Init
<1>2. /\ groups \in [D -> GroupRow] /\ DOMAIN groups = D
      /\ \A g \in D : groups[g] \in GroupRow /\ groups[g].creator \in groups[g].members
  BY <1>1 DEF WellFormed
<1>3. groups \in Listing(GroupRow)
  BY <1>2 DEF Listing
<1>4. wereIn = [g \in Groups |-> IF g \in DOMAIN groups THEN groups[g].members ELSE {}]
  BY DEF SyncInit, Init
<1>5. \A g \in D : groups[g].creator \in Users /\ groups[g].members \in SUBSET Users
  BY <1>2 DEF GroupRow
<1>6. wereIn \in [Groups -> SUBSET Users]
  <2>1. \A g \in Groups :
           (IF g \in DOMAIN groups THEN groups[g].members ELSE {}) \in SUBSET Users
    BY <1>2, <1>5
  <2> QED
    BY <1>4, <2>1
<1>7. \A g \in D : g \in Known
  <2>1. SUFFICES ASSUME NEW g \in D PROVE g \in Known
    OBVIOUS
  <2>2. g \in Groups /\ wereIn[g] = groups[g].members
    BY <1>2, <1>4
  <2> QED
    BY <1>2, <2>2 DEF Known
<1>8. ServerRight
  <2>1. users \subseteq Users /\ nextId = 1 /\ pendingRequests = {}
    BY DEF SyncInit, Init
  <2>2. nextId \in Nat \ {0} /\ pendingRequests \subseteq Ids
    BY <2>1
  <2>3. \A g \in DOMAIN groups : g \in Known /\ groups[g].creator \in groups[g].members
    BY <1>2, <1>7
  <2> QED
    BY <1>3, <1>6, <2>1, <2>2, <2>3 DEF ServerRight
<1>9. CASE localGroups = NoGroups
  <2>1. PICK f : f = localGroups
    OBVIOUS
  <2>2. f = [g \in {} |-> {}] /\ DOMAIN f = {}
    BY <1>9, <2>1 DEF NoGroups
  <2>3. f = [g \in DOMAIN f |-> f[g]]
    BY <2>2
  <2>4. DOMAIN f \subseteq Groups /\ \A g \in DOMAIN f : f[g] \in LocalRow
    BY <2>2
  <2>5. f \in Listing(LocalRow)
    BY <2>3, <2>4, ListingIs
  <2> QED
    BY <1>8, <2>1, <2>2, <2>5
<1>10. CASE localGroups = GroupsOfSelf
  <2>1. PICK f : f = localGroups
    OBVIOUS
  <2>2. f \in Listing(GroupRow) /\ DOMAIN f \subseteq Known
    BY <1>8, <1>10, <2>1, GroupsOfSelfAre
  <2>3. /\ DOMAIN f \subseteq Groups /\ f = [g \in DOMAIN f |-> f[g]]
        /\ \A g \in DOMAIN f : f[g] \in GroupRow
    BY <2>2, ListingIs
  <2>4. \A g \in DOMAIN f : f[g] \in LocalRow
    BY <2>3 DEF GroupRow, LocalRow
  <2>5. f \in Listing(LocalRow)
    BY <2>3, <2>4, ListingIs
  <2> QED
    BY <1>8, <2>1, <2>2, <2>5
<1>11. CASE localGroups = [g \in DOMAIN groups |->
                              [groups[g] EXCEPT !.members = {groups[g].creator, Self}]]
  <2>1. PICK f : f = localGroups
    OBVIOUS
  <2>2. /\ DOMAIN f = D /\ f = [g \in DOMAIN f |-> f[g]]
        /\ \A g \in D : f[g] = [groups[g] EXCEPT !.members = {groups[g].creator, Self}]
    BY <1>2, <1>11, <2>1
  <2>3. \A g \in D : f[g] \in LocalRow
    <3>1. SUFFICES ASSUME NEW g \in D PROVE f[g] \in LocalRow
      OBVIOUS
    <3>2. groups[g] \in GroupRow /\ groups[g].creator \in Users
      BY <1>2, <1>5
    <3>3. {groups[g].creator, Self} \in SUBSET Users
      BY <3>2, SyncAssumption
    <3>4. f[g] = [creator |-> groups[g].creator, members |-> {groups[g].creator, Self}]
      BY <2>2, <3>2 DEF GroupRow
    <3> QED
      BY <3>2, <3>3, <3>4 DEF LocalRow
  <2>4. f \in Listing(LocalRow)
    BY <2>2, <2>3, ListingIs
  <2> QED
    BY <1>7, <1>8, <2>1, <2>2, <2>4
<1> QED
  BY <1>9, <1>10, <1>11 DEF SyncInit

LEMMA InitInv ==
    ASSUME SyncInit
    PROVE  IInv
<1>1. /\ dbQueue = <<>> /\ results = <<>> /\ toClient = <<>> /\ offlineRows = {} /\ asked = {}
      /\ connected = FALSE /\ session = 0 /\ undetached = 0 /\ routed = FALSE /\ toServer = FALSE
      /\ localSessions = DOMAIN localGroups /\ shown = {} /\ current = NoGroup
      /\ opening = NoGroup /\ inProgress = FALSE /\ recovery = FALSE
  BY DEF SyncInit, Init
<1>2. ServerRight
  BY TablesAtStart
<1>3. ClientRight
  <2>1. localGroups \in Listing(LocalRow) /\ DOMAIN localGroups \subseteq Known
    BY TablesAtStart
  <2>2. session \in 0..MaxLogins
    BY <1>1, SyncAssumption
  <2>3. undetached + (IF connected THEN 1 ELSE 0) <= session /\ undetached \in Nat
    BY <1>1
  <2>4. asked \subseteq {i \in Ids : i < nextId} /\ opening \in Groups \cup {NoGroup}
    BY <1>1
  <2>5. /\ connected \in BOOLEAN /\ routed \in BOOLEAN /\ inProgress \in BOOLEAN
        /\ recovery \in BOOLEAN /\ toServer \in BOOLEAN /\ (toServer => connected)
    BY <1>1
  <2> QED
    BY <2>1, <2>2, <2>3, <2>4, <2>5 DEF ClientRight
<1>4. QueuesRight
  <2>1. /\ dbQueue \in Seq(RightRequests) /\ results \in Seq(RightResults)
        /\ toClient \in Seq(KnownPackets)
    BY <1>1, EmptySeq
  <2>2. offlineRows \subseteq KnownRows /\ IsFiniteSet(offlineRows)
    BY <1>1, FS_EmptySet
  <2> QED
    BY <2>1, <2>2 DEF QueuesRight
<1>5. ShownRight
  BY <1>1 DEF ShownRight, SessionsConsistent
<1>6. \A g \in Groups : InOrder(g)
  <2>1. SUFFICES ASSUME NEW g \in Groups PROVE InOrder(g)
    OBVIOUS
  <2>2. g # opening
    BY <1>1, GroupAssumption
  <2>3. Len(toClient) = 0 /\ Len(results) = 0
    BY <1>1, EmptySeq
  <2>4. \A k \in 1..Len(toClient) : FALSE
    BY <2>3
  <2>5. \A k \in 1..Len(results) : FALSE
    BY <2>3
  <2> QED
    BY <2>2, <2>4, <2>5 DEF InOrder, OpeningStays, AckComesFirst, ResultComesFirst
<1> QED
  BY <1>2, <1>3, <1>4, <1>5, <1>6 DEF IInv

LEMMA Stuttering ==
    ASSUME IInv, UNCHANGED syncVars
    PROVE  IInv'
<1>1. /\ UNCHANGED <<vars, wire, localTables, flags>>
      /\ shown' = shown /\ current' = current /\ opening' = opening
  BY DEF syncVars, client
<1>2. \/ current' \in shown' \cup {NoGroup}
      \/ current' \in localSessions
  BY <1>1 DEF IInv, ShownRight, SessionsConsistent
<1> QED
  BY <1>1, <1>2, ViewChanged

LEMMA NextKeeps == IInv /\ [SyncNext]_syncVars => IInv'
<1> SUFFICES ASSUME IInv, [SyncNext]_syncVars PROVE IInv'
  OBVIOUS
<1>1. CASE \E by \in Users : HandleClientRequest(by)
  BY <1>1, RequestPosted
<1>2. CASE HandleGroupList
  BY <1>2, ListAsked
<1>3. CASE QueryStep
  BY <1>3, QueryAnswered
<1>4. CASE ServerDbStep
  BY <1>4, RequestAnswered
<1>5. CASE AnswerOp
  BY <1>5, OperationAnswered
<1>6. CASE PushNotification \/ PushMessage
  BY <1>6, NotificationPushed, MessagePushed
<1>7. CASE OnGroupListLoaded
  BY <1>7, ListAnswered
<1>8. CASE OnOfflineLoaded
  BY <1>8, OfflineDelivered
<1>9. CASE Login
  BY <1>9, LoggedIn
<1>10. CASE ConnectionLost \/ LogoutOrRestart \/ OnClientDisconnected \/ ServerStops
  BY <1>10, ConnectionChanged
<1>11. CASE HandleIncomingPacket
  BY <1>11, PacketHandled
<1>12. CASE \/ \E g \in Groups : SwitchToSession(g)
            \/ \E g \in Groups : DeleteSession(g)
  BY <1>12, SessionChosen
<1>13. CASE OpenNewGroup
  BY <1>13, GroupOpened
<1>14. CASE UNCHANGED syncVars
  BY <1>14, Stuttering
<1> QED
  BY <1>1, <1>2, <1>3, <1>4, <1>5, <1>6, <1>7, <1>8, <1>9, <1>10, <1>11, <1>12, <1>13, <1>14
  DEF SyncNext

LEMMA Invariance == SyncSpec => []IInv
BY InitInv, NextKeeps, PTL DEF SyncSpec

LEMMA TypesFollow == IInv => SyncTypeOK
<1> SUFFICES ASSUME IInv PROVE SyncTypeOK
  OBVIOUS
<1>1. /\ localGroups \in Listing(LocalRow) /\ connected \in BOOLEAN /\ routed \in BOOLEAN
      /\ session \in 0..MaxLogins /\ toServer \in BOOLEAN /\ (toServer => connected)
      /\ asked \subseteq Ids /\ opening \in Groups \cup {NoGroup}
      /\ inProgress \in BOOLEAN /\ recovery \in BOOLEAN
  BY DEF IInv, ClientRight
<1>2. undetached \in 0..MaxLogins
  <2>1. undetached \in Nat /\ session \in Nat /\ undetached <= session
    BY Undetached
  <2>2. session <= MaxLogins /\ MaxLogins \in Nat
    BY <1>1, SyncAssumption
  <2> QED
    BY <2>1, <2>2
<1>3. \A i \in DOMAIN toClient : toClient[i] \in ClientPacket
  <2>1. PICK s \in Seq(KnownPackets) : s = toClient
    BY DEF IInv, QueuesRight
  <2>2. DOMAIN s = 1..Len(s) /\ \A i \in 1..Len(s) : s[i] \in KnownPackets
    BY LenProperties, ElementOfSeq
  <2> QED
    BY <2>1, <2>2, PacketFacts
<1>4. offlineRows \subseteq Pushed
  BY DEF IInv, QueuesRight, KnownRows
<1>5. /\ localSessions \subseteq Groups /\ shown \subseteq Groups
      /\ current \in Groups \cup {NoGroup}
  <2>1. DOMAIN localGroups \subseteq Groups
    BY <1>1, ListingIs
  <2> QED
    BY <2>1 DEF IInv, ShownRight, SessionsConsistent
<1> QED
  BY <1>1, <1>2, <1>3, <1>4, <1>5 DEF SyncTypeOK

\* Every variable of the client and the wire holds a value of its kind, and what is routed
\* or waited for belongs to a login that has taken place: for any users, groups and bounds
\* (NetworkService::handleIncomingPacket, SessionManager::m_userMap).
THEOREM TypeCorrect == SyncSpec => []SyncTypeOK
<1>1. QED
  BY TypesFollow, Invariance, PTL

\* A group has a session exactly if it is stored, the list shows only sessions that exist,
\* and the open one is among them: for any order of lists, acknowledgements, old packets,
\* logouts and timers, the timer that opens a new group included (loadSessions,
\* staleGroupSessionCleared, deleteSession, createGroupResult).
THEOREM SessionsAgree == SyncSpec => []SessionsConsistent
<1>1. IInv => SessionsConsistent
  BY DEF IInv, ShownRight
<1>2. QED
  BY <1>1, Invariance, PTL

\* The acknowledgement of a new group comes before anything else that names the group, and
\* no later list leaves it out: so the group its timer opens is still stored
\* (onGroupCreated, loadGroupList, createGroupResult).
THEOREM NewGroupsInOrder == SyncSpec => [](\A g \in Groups : InOrder(g))
<1>1. IInv => \A g \in Groups : InOrder(g)
  BY DEF IInv
<1>2. QED
  BY <1>1, Invariance, PTL

-----------------------------------------------------------------------------
(***************************************************************************)
(* The last word. What the client will be told about one group is on the   *)
(* wire, in the results, or still to be loaded. Of the results and the     *)
(* packets, good ones put the group right, or make the client ask for the  *)
(* list again, and bad ones put it wrong: it is right in the end if        *)
(* nothing bad follows the last good one, or if it is right now and        *)
(* nothing bad is under way.                                               *)
(***************************************************************************)
Clean(s, bad) == \A j \in 1..Len(s) : s[j] \notin bad

Settled(s, good, bad) ==
    \E k \in 1..Len(s) : s[k] \in good /\ \A j \in 1..Len(s) : j > k => s[j] \notin bad

LastWord(rs, goodRs, badRs, ps, good, bad, now) ==
    \/ Settled(rs, goodRs, badRs)
    \/ Clean(rs, badRs) /\ Settled(ps, good, bad)
    \/ Clean(rs, badRs) /\ Clean(ps, bad) /\ now

AnyRequest == [op : {"create", "add", "remove", "leave", "notify", "message", "list",
                     "loadOffline"},
               id : Nat, group : Groups \cup {NoGroup}, by : Users, who : SUBSET Users]
AnyResult ==
    [req : AnyRequest, ok : BOOLEAN, group : Groups \cup {NoGroup}, members : SUBSET Users]
    \cup [req : AnyRequest, ok : BOOLEAN, list : Listing(GroupRow)]
    \cup [req : AnyRequest, ok : BOOLEAN, rows : SUBSET Pushed]

SelfIn(g) == Self \in groups[g].members

\* What a list, or the client's table, says of a group that exists is right
Agrees(list, g) ==
    g \in DOMAIN list \/ SelfIn(g) => SelfIn(g) /\ g \in DOMAIN list /\ list[g] = groups[g]

PacketGood(g) ==
    {p \in ClientPacket :
        \/ p.kind = "memberChanged" /\ p.group = g
        \/ p.kind = "opAck" /\ p.ok /\ p.group = g
        \/ p.kind = "groupListAck" /\ p.ok /\ Agrees(p.list, g)}

PacketBad(g) ==
    {p \in ClientPacket :
        \/ p.kind = "groupListAck" /\ ~(p.ok /\ Agrees(p.list, g))
        \/ p.kind = "message" /\ p.group = g /\ ~SelfIn(g)}

\* Self is told of a change: it is a member, or who was removed
Tells(req, members) == Self \in members \/ Self \in pendingNotifications[req.id]

\* a list for the session Self has now
ListFor(req) == req.op = "list" /\ req.id = session

ResultGood(g) ==
    {res \in AnyResult :
        \/ /\ res.req.op \in {"create", "add", "remove", "leave"} /\ res.ok /\ res.group = g
           /\ SelfIn(g) \/ Self \in Also(res.req)
        \/ res.req.op = "notify" /\ res.ok /\ res.group = g /\ Tells(res.req, res.members)
        \/ ListFor(res.req) /\ res.ok /\ Agrees(res.list, g)}

ResultBad(g) ==
    {res \in AnyResult :
        \/ ListFor(res.req) /\ ~(res.ok /\ Agrees(res.list, g))
        \/ res.req.op = "message" /\ res.ok /\ res.group = g /\ Self \in res.members /\ ~SelfIn(g)
        \/ /\ res.req.op = "loadOffline" /\ res.ok /\ ~SelfIn(g)
           /\ [kind |-> "message", group |-> g] \in res.rows}

GroupComes(g) ==
    LastWord(results, ResultGood(g), ResultBad(g), toClient, PacketGood(g), PacketBad(g),
             Agrees(localGroups, g))

\* The members of g will be loaded, for a notification of Self
WillTell(g) ==
    \E i \in 1..Len(dbQueue) :
        /\ dbQueue[i].op = "notify" /\ dbQueue[i].group = g
        /\ Tells(dbQueue[i], groups[g].members)

\* A list that will be asked for, or is, but not loaded: it will be right
ListDue ==
    \/ toServer
    \/ \E i \in 1..Len(dbQueue) : ListFor(dbQueue[i])
    \/ \E i \in 1..Len(toClient) : toClient[i].kind = "connectAck"

GroupsCome ==
    failures = 0 /\ connected /\ routed =>
        ListDue \/ \A g \in DOMAIN groups : WillTell(g) \/ GroupComes(g)

\* The list the client waits for is under way
ListUnderWay ==
    \/ toServer
    \/ \E i \in 1..Len(dbQueue) : ListFor(dbQueue[i])
    \/ \E i \in 1..Len(results) : ListFor(results[i].req)
    \/ \E i \in 1..Len(toClient) : toClient[i].kind = "groupListAck"

ListComes ==
    /\ recovery => inProgress
    /\ inProgress => connected /\ ListUnderWay

\* The offline rows are loaded first of all after a login, and so before the list
RowsFirst ==
    \A i \in 1..Len(dbQueue) :
        dbQueue[i].op = "loadOffline" => i = 1 /\ (connected => ListDue)

\* The request was answered, and its notification is not forgotten
Announced(id) ==
    /\ id < nextId /\ id \notin pendingRequests
    /\ id \in DOMAIN pendingNotifications

\* At most one notification of a request is under way
NotifyOnce ==
    /\ \A i \in 1..Len(dbQueue) : dbQueue[i].op = "notify" => Announced(dbQueue[i].id)
    /\ \A i \in 1..Len(results) : results[i].req.op = "notify" => Announced(results[i].req.id)
    /\ \A i, j \in 1..Len(dbQueue) :
          dbQueue[i].op = "notify" /\ dbQueue[j].op = "notify" /\ dbQueue[i].id = dbQueue[j].id
             => i = j
    /\ \A i, j \in 1..Len(results) :
          results[i].req.op = "notify" /\ results[j].req.op = "notify"
             /\ results[i].req.id = results[j].req.id => i = j
    /\ \A i \in 1..Len(dbQueue), j \in 1..Len(results) :
          dbQueue[i].op = "notify" /\ results[j].req.op = "notify"
             => dbQueue[i].id # results[j].req.id

\* Without failures every list was loaded
ListsLoaded ==
    failures = 0 =>
        /\ \A i \in 1..Len(results) : results[i].req.op = "list" => results[i].ok
        /\ \A i \in 1..Len(toClient) : toClient[i].kind = "groupListAck" => toClient[i].ok

SyncInv ==
    /\ GroupsCome
    /\ ListsLoaded
    /\ ListComes
    /\ RowsFirst
    /\ NotifyOnce
    /\ failures \in Nat

LEMMA Rest ==
    ASSUME NEW S, NEW s \in Seq(S), s # <<>>
    PROVE  /\ Head(s) = s[1] /\ Head(s) \in S /\ 1 \in 1..Len(s)
           /\ Tail(s) \in Seq(S) /\ Len(Tail(s)) = Len(s) - 1 /\ Len(s) \in Nat
           /\ \A i \in 1..(Len(s) - 1) : i + 1 \in 1..Len(s) /\ Tail(s)[i] = s[i + 1]
           /\ \A i \in 1..Len(s) : i = 1 \/ (i - 1 \in 1..(Len(s) - 1) /\ Tail(s)[i - 1] = s[i])
<1>1. Len(s) \in Nat /\ Len(s) # 0
    BY LenProperties, EmptySeq
<1>2. /\ Head(s) = s[1] /\ Head(s) \in S /\ Tail(s) \in Seq(S) /\ Len(Tail(s)) = Len(s) - 1
      /\ \A i \in 1..(Len(s) - 1) : Tail(s)[i] = s[i + 1]
    BY <1>1, HeadTailProperties
<1>3. ASSUME NEW i \in 1..Len(s), i # 1
      PROVE  i - 1 \in 1..(Len(s) - 1) /\ Tail(s)[i - 1] = s[i]
    <2>1. i - 1 \in 1..(Len(s) - 1) /\ (i - 1) + 1 = i BY <1>1, <1>3
    <2>2. Tail(s)[i - 1] = s[(i - 1) + 1] BY <1>2, <2>1
    <2>3. QED BY <2>1, <2>2
<1>4. QED BY <1>1, <1>2, <1>3

LEMMA Longer ==
    ASSUME NEW S, NEW s \in Seq(S), NEW t \in Seq(S)
    PROVE  /\ s \o t \in Seq(S) /\ Len(s \o t) = Len(s) + Len(t)
           /\ Len(s) \in Nat /\ Len(t) \in Nat
           /\ \A i \in 1..Len(s) : i \in 1..(Len(s) + Len(t)) /\ (s \o t)[i] = s[i]
           /\ \A i \in 1..Len(t) : Len(s) + i \in 1..(Len(s) + Len(t)) /\ (s \o t)[Len(s) + i] = t[i]
           /\ \A i \in 1..(Len(s) + Len(t)) : i \in 1..Len(s) \/ i - Len(s) \in 1..Len(t)
           /\ \A i \in 1..(Len(s) + Len(t)) :
                 i \notin 1..Len(s) => (s \o t)[i] = t[i - Len(s)]
<1>1. PICK m \in Nat : m = Len(s) BY LenProperties
<1>2. PICK n \in Nat : n = Len(t) BY LenProperties
<1>3. /\ s \o t \in Seq(S) /\ Len(s \o t) = m + n
      /\ \A i \in 1..(m + n) : (s \o t)[i] = IF i <= m THEN s[i] ELSE t[i - m]
    BY <1>1, <1>2, ConcatProperties
<1>4. \A i \in 1..m : i \in 1..(m + n) /\ (s \o t)[i] = s[i] BY <1>3
<1>5. ASSUME NEW i \in 1..n
      PROVE  m + i \in 1..(m + n) /\ (s \o t)[m + i] = t[i]
    <2>1. m + i \in 1..(m + n) /\ ~(m + i <= m) /\ (m + i) - m = i OBVIOUS
    <2>2. (s \o t)[m + i] = t[(m + i) - m] BY <1>3, <2>1
    <2>3. QED BY <2>1, <2>2
<1>6. \A i \in 1..(m + n) : i \in 1..m \/ i - m \in 1..n OBVIOUS
<1>7. \A i \in 1..(m + n) : i \notin 1..m => (s \o t)[i] = t[i - m] BY <1>3
<1>8. QED BY <1>1, <1>2, <1>3, <1>4, <1>5, <1>6, <1>7

LEMMA OneMore ==
    ASSUME NEW S, NEW s \in Seq(S), NEW x \in S
    PROVE  /\ Append(s, x) \in Seq(S) /\ Len(Append(s, x)) = Len(s) + 1 /\ Len(s) \in Nat
           /\ Len(s) + 1 \in 1..(Len(s) + 1) /\ Append(s, x)[Len(s) + 1] = x
           /\ \A i \in 1..Len(s) : i \in 1..(Len(s) + 1) /\ Append(s, x)[i] = s[i]
           /\ \A i \in 1..(Len(s) + 1) : i \in 1..Len(s) \/ i = Len(s) + 1
<1>1. Len(s) \in Nat BY LenProperties
<1>2. /\ Append(s, x) \in Seq(S) /\ Len(Append(s, x)) = Len(s) + 1
      /\ Append(s, x)[Len(s) + 1] = x /\ \A i \in 1..Len(s) : Append(s, x)[i] = s[i]
    BY AppendProperties
<1>3. QED BY <1>1, <1>2

\* A good result is the last word
LEMMA GoodResult ==
    ASSUME NEW R, NEW rs \in Seq(R), NEW res \in R, NEW goodRs, NEW badRs, res \in goodRs,
           NEW ps, NEW good, NEW bad, NEW now
    PROVE  LastWord(Append(rs, res), goodRs, badRs, ps, good, bad, now)
<1>1. PICK n \in Nat : n = Len(rs) BY LenProperties
<1>2. PICK s : s = Append(rs, res) OBVIOUS
<1>3. Len(s) = n + 1 /\ s[n + 1] = res BY <1>1, <1>2, OneMore
<1>4. Settled(s, goodRs, badRs)
    <2>1. n + 1 \in 1..Len(s) /\ \A j \in 1..Len(s) : ~(j > n + 1) BY <1>3
    <2>2. QED BY <1>3, <2>1 DEF Settled
<1>5. QED BY <1>2, <1>4 DEF LastWord

\* A result that is not bad changes nothing
LEMMA NeutralResult ==
    ASSUME NEW R, NEW rs \in Seq(R), NEW res \in R, NEW goodRs, NEW badRs, res \notin badRs,
           NEW ps, NEW good, NEW bad, NEW now, LastWord(rs, goodRs, badRs, ps, good, bad, now)
    PROVE  LastWord(Append(rs, res), goodRs, badRs, ps, good, bad, now)
<1>1. PICK n \in Nat : n = Len(rs) BY LenProperties
<1>2. PICK s : s = Append(rs, res) OBVIOUS
<1>3. /\ Len(s) = n + 1 /\ s[n + 1] = res
      /\ \A i \in 1..n : i \in 1..(n + 1) /\ s[i] = rs[i]
      /\ \A i \in 1..(n + 1) : i \in 1..n \/ i = n + 1
    BY <1>1, <1>2, OneMore
<1>4. Clean(rs, badRs) => Clean(s, badRs)
    BY <1>1, <1>3 DEF Clean
<1>5. Settled(rs, goodRs, badRs) => Settled(s, goodRs, badRs)
    <2>1. SUFFICES ASSUME NEW k \in 1..n, rs[k] \in goodRs,
                          \A j \in 1..n : j > k => rs[j] \notin badRs
                   PROVE  Settled(s, goodRs, badRs)
        BY <1>1 DEF Settled
    <2>2. k \in 1..(n + 1) /\ s[k] \in goodRs BY <1>3, <2>1
    <2>3. \A j \in 1..(n + 1) : j > k => s[j] \notin badRs BY <1>3, <2>1
    <2>4. QED BY <1>3, <2>2, <2>3 DEF Settled
<1>6. QED BY <1>2, <1>4, <1>5 DEF LastWord

\* What comes after the head of a queue: something settles it, or all of it is clean and the
\* head had the say, or was not bad
LEMMA WithoutHead ==
    ASSUME NEW S, NEW s \in Seq(S), s # <<>>, NEW good, NEW bad
    PROVE  /\ Settled(s, good, bad) =>
                 Settled(Tail(s), good, bad) \/ (Clean(Tail(s), bad) /\ Head(s) \in good)
           /\ Clean(s, bad) => Clean(Tail(s), bad) /\ Head(s) \notin bad
<1>1. PICK n \in Nat : n + 1 = Len(s)
    <2>1. Len(s) \in Nat /\ 1 \in 1..Len(s) BY Rest
    <2>2. Len(s) - 1 \in Nat /\ (Len(s) - 1) + 1 = Len(s) BY <2>1
    <2>3. QED BY <2>2
<1>2. PICK t : t = Tail(s) OBVIOUS
<1>3. /\ Len(t) = n /\ Head(s) = s[1] /\ 1 \in 1..(n + 1)
      /\ \A i \in 1..n : i + 1 \in 1..(n + 1) /\ t[i] = s[i + 1]
    <2>1. (n + 1) - 1 = n OBVIOUS
    <2>2. QED BY <1>1, <1>2, <2>1, Rest
<1>4. ASSUME NEW k \in 1..(n + 1), s[k] \in good, \A j \in 1..(n + 1) : j > k => s[j] \notin bad
      PROVE  Settled(t, good, bad) \/ (Clean(t, bad) /\ Head(s) \in good)
    <2>1. CASE k = 1
        <3>1. \A j \in 1..n : t[j] \notin bad
            <4>1. SUFFICES ASSUME NEW j \in 1..n PROVE t[j] \notin bad OBVIOUS
            <4>2. j + 1 \in 1..(n + 1) /\ j + 1 > k BY <2>1
            <4>3. QED BY <1>3, <1>4, <4>2
        <3>2. QED BY <1>3, <1>4, <2>1, <3>1 DEF Clean
    <2>2. CASE k # 1
        <3>1. PICK i \in 1..n : i + 1 = k
            <4>1. k - 1 \in 1..n /\ (k - 1) + 1 = k BY <2>2
            <4>2. QED BY <4>1
        <3>2. t[i] \in good BY <1>3, <1>4, <3>1
        <3>3. ASSUME NEW j \in 1..n, j > i PROVE t[j] \notin bad
            <4>1. j + 1 \in 1..(n + 1) /\ j + 1 > k BY <3>1, <3>3
            <4>2. QED BY <1>3, <1>4, <4>1
        <3>4. QED BY <1>3, <3>2, <3>3 DEF Settled
    <2>3. QED BY <2>1, <2>2
<1>5. Clean(s, bad) => Clean(t, bad) /\ Head(s) \notin bad
    BY <1>1, <1>3 DEF Clean
<1>6. Settled(s, good, bad) => Settled(t, good, bad) \/ (Clean(t, bad) /\ Head(s) \in good)
    BY <1>1, <1>4 DEF Settled
<1>7. QED BY <1>2, <1>5, <1>6

\* Packets that are not bad change nothing, and a good one among them is the last word
LEMMA MorePackets ==
    ASSUME NEW S, NEW s \in Seq(S), NEW t \in Seq(S), NEW good, NEW bad, Clean(t, bad)
    PROVE  /\ Clean(s, bad) => Clean(s \o t, bad)
           /\ Settled(s, good, bad) => Settled(s \o t, good, bad)
           /\ (\E i \in 1..Len(t) : t[i] \in good) => Settled(s \o t, good, bad)
<1>1. PICK m \in Nat : m = Len(s) BY LenProperties
<1>2. PICK n \in Nat : n = Len(t) BY LenProperties
<1>3. PICK u : u = s \o t OBVIOUS
<1>4. /\ Len(u) = m + n
      /\ \A i \in 1..m : i \in 1..(m + n) /\ u[i] = s[i]
      /\ \A i \in 1..n : m + i \in 1..(m + n) /\ u[m + i] = t[i]
      /\ \A i \in 1..(m + n) : i \in 1..m \/ i - m \in 1..n
      /\ \A i \in 1..(m + n) : i \notin 1..m => u[i] = t[i - m]
    BY <1>1, <1>2, <1>3, Longer
<1>5. \A i \in 1..n : t[i] \notin bad BY <1>2 DEF Clean
<1>6. \A i \in 1..(m + n) : i \notin 1..m => u[i] \notin bad BY <1>4, <1>5
<1>7. Clean(s, bad) => Clean(u, bad)
    BY <1>1, <1>4, <1>6 DEF Clean
<1>8. ASSUME NEW k \in 1..m, s[k] \in good, \A j \in 1..m : j > k => s[j] \notin bad
      PROVE  Settled(u, good, bad)
    <2>1. k \in 1..(m + n) /\ u[k] \in good BY <1>4, <1>8
    <2>2. \A j \in 1..(m + n) : j > k => u[j] \notin bad BY <1>4, <1>6, <1>8
    <2>3. QED BY <1>4, <2>1, <2>2 DEF Settled
<1>9. ASSUME NEW i \in 1..n, t[i] \in good
      PROVE  Settled(u, good, bad)
    <2>1. m + i \in 1..(m + n) /\ u[m + i] \in good BY <1>4, <1>9
    <2>2. \A j \in 1..(m + n) : j > m + i => u[j] \notin bad
        <3>1. \A j \in 1..(m + n) : j > m + i => j \notin 1..m OBVIOUS
        <3>2. QED BY <1>6, <3>1
    <2>3. QED BY <1>4, <2>1, <2>2 DEF Settled
<1>10. Settled(s, good, bad) => Settled(u, good, bad)
    BY <1>1, <1>8 DEF Settled
<1>11. QED BY <1>2, <1>3, <1>7, <1>9, <1>10

\* The main thread turns the first result into packets
LEMMA ResultToPackets ==
    ASSUME NEW R, NEW rs \in Seq(R), rs # <<>>, NEW P, NEW ps \in Seq(P), NEW packets \in Seq(P),
           NEW goodRs, NEW badRs, NEW good, NEW bad, NEW now,
           LastWord(rs, goodRs, badRs, ps, good, bad, now),
           Head(rs) \notin badRs \/ Head(rs) \in goodRs => Clean(packets, bad),
           Head(rs) \in goodRs => \E i \in 1..Len(packets) : packets[i] \in good
    PROVE  LastWord(Tail(rs), goodRs, badRs, ps \o packets, good, bad, now)
<1>1. CASE Settled(rs, goodRs, badRs)
    <2>1. CASE Settled(Tail(rs), goodRs, badRs) BY <2>1 DEF LastWord
    <2>2. CASE Clean(Tail(rs), badRs) /\ Head(rs) \in goodRs
        <3>1. Settled(ps \o packets, good, bad) BY <2>2, MorePackets
        <3>2. QED BY <2>2, <3>1 DEF LastWord
    <2>3. QED BY <1>1, <2>1, <2>2, WithoutHead
<1>2. CASE Clean(rs, badRs)
    <2>1. Clean(Tail(rs), badRs) /\ Head(rs) \notin badRs BY <1>2, WithoutHead
    <2>2. Clean(packets, bad) BY <2>1
    <2>3. Settled(ps, good, bad) => Settled(ps \o packets, good, bad) BY <2>2, MorePackets
    <2>4. Clean(ps, bad) => Clean(ps \o packets, bad) BY <2>2, MorePackets
    <2>5. Settled(rs, goodRs, badRs) => Settled(Tail(rs), goodRs, badRs)
                                        \/ Head(rs) \in goodRs
        BY WithoutHead
    <2>6. CASE Settled(rs, goodRs, badRs) BY <1>1, <2>6
    <2>7. CASE ~Settled(rs, goodRs, badRs) BY <2>1, <2>3, <2>4, <2>7 DEF LastWord
    <2>8. QED BY <2>6, <2>7
<1>3. QED BY <1>1, <1>2 DEF LastWord

\* The client handles the first packet
LEMMA PacketToView ==
    ASSUME NEW P, NEW ps \in Seq(P), ps # <<>>, NEW rs, NEW goodRs, NEW badRs, NEW good, NEW bad,
           NEW now, NEW later,
           LastWord(rs, goodRs, badRs, ps, good, bad, now),
           Head(ps) \in good => later,
           Head(ps) \notin bad /\ now => later
    PROVE  LastWord(rs, goodRs, badRs, Tail(ps), good, bad, later)
<1>1. /\ Settled(ps, good, bad) =>
            Settled(Tail(ps), good, bad) \/ (Clean(Tail(ps), bad) /\ Head(ps) \in good)
      /\ Clean(ps, bad) => Clean(Tail(ps), bad) /\ Head(ps) \notin bad
    BY WithoutHead
<1>2. QED BY <1>1 DEF LastWord

\* The same elements are good and bad
LEMMA SameWord ==
    ASSUME NEW rs, NEW goodRs, NEW badRs, NEW goodRs2, NEW badRs2, NEW ps, NEW good, NEW bad,
           NEW now,
           \A i \in 1..Len(rs) : /\ rs[i] \in goodRs => rs[i] \in goodRs2
                                 /\ rs[i] \in badRs2 => rs[i] \in badRs,
           LastWord(rs, goodRs, badRs, ps, good, bad, now)
    PROVE  LastWord(rs, goodRs2, badRs2, ps, good, bad, now)
<1>1. Clean(rs, badRs) => Clean(rs, badRs2) BY DEF Clean
<1>2. Settled(rs, goodRs, badRs) => Settled(rs, goodRs2, badRs2)
    <2>1. SUFFICES ASSUME NEW k \in 1..Len(rs), rs[k] \in goodRs,
                          \A j \in 1..Len(rs) : j > k => rs[j] \notin badRs
                   PROVE  Settled(rs, goodRs2, badRs2)
        BY DEF Settled
    <2>2. rs[k] \in goodRs2 /\ \A j \in 1..Len(rs) : j > k => rs[j] \notin badRs2 BY <2>1
    <2>3. QED BY <2>2 DEF Settled
<1>3. QED BY <1>1, <1>2 DEF LastWord

-----------------------------------------------------------------------------
(***************************************************************************)
(* The types the last word needs                                           *)
(***************************************************************************)
LEMMA SyncTyped ==
    ASSUME IInv
    PROVE  /\ dbQueue \in Seq(AnyRequest) /\ results \in Seq(AnyResult)
           /\ toClient \in Seq(ClientPacket)
           /\ RightRequests \subseteq AnyRequest /\ RightResults \subseteq AnyResult
           /\ session \in Nat /\ nextId \in Nat
<1>1. session \in Nat /\ nextId \in Nat /\ 0..session \subseteq Nat
    BY SyncAssumption DEF IInv, ClientRight, ServerRight
<1>2. Ids \subseteq Nat BY DEF Ids
<1>3. RightRequests \subseteq AnyRequest
    BY <1>1, <1>2, SyncAssumption
    DEF RightRequests, Request, ListRequest, RowsRequest, AnyRequest
<1>4. KnownRows \subseteq Pushed BY DEF KnownRows
<1>5. OpResult \subseteq AnyResult BY <1>3 DEF OpResult, AnyResult
<1>6. ListResult \subseteq AnyResult BY <1>3 DEF ListResult, AnyResult
<1>7. RowsResult \subseteq AnyResult BY <1>3, <1>4 DEF RowsResult, AnyResult
<1>8. RightResults \subseteq AnyResult BY <1>5, <1>6, <1>7 DEF RightResults
<1>9. KnownPackets \subseteq ClientPacket BY DEF KnownPackets
<1>10. /\ dbQueue \in Seq(RightRequests) /\ results \in Seq(RightResults)
       /\ toClient \in Seq(KnownPackets)
    BY DEF IInv, QueuesRight
<1>11. QED BY <1>1, <1>3, <1>8, <1>9, <1>10, SeqMonotonic

\* A queue to which something is added, or nothing
Continues(s, t) == \A i \in 1..Len(s) : i \in 1..Len(t) /\ t[i] = s[i]

LEMMA Continued ==
    ASSUME NEW S, NEW s \in Seq(S)
    PROVE  /\ Continues(s, s)
           /\ \A x \in S : Continues(s, Append(s, x))
           /\ \A t \in Seq(S) : Continues(s, s \o t)
<1>1. Continues(s, s) BY DEF Continues
<1>2. ASSUME NEW x \in S PROVE Continues(s, Append(s, x))
    BY OneMore DEF Continues
<1>3. ASSUME NEW t \in Seq(S) PROVE Continues(s, s \o t)
    BY Longer DEF Continues
<1>4. QED BY <1>1, <1>2, <1>3

LEMMA ListDueGrows ==
    ASSUME session' = session, toServer => toServer', Continues(dbQueue, dbQueue'),
           Continues(toClient, toClient')
    PROVE  /\ ListDue => ListDue'
           /\ ListUnderWay /\ results' = results => ListUnderWay'
<1>1. PICK s : s = dbQueue' OBVIOUS
<1>2. PICK t : t = toClient' OBVIOUS
<1>3. ASSUME NEW i \in 1..Len(dbQueue), ListFor(dbQueue[i])
      PROVE  \E j \in 1..Len(dbQueue') : dbQueue'[j].op = "list" /\ dbQueue'[j].id = session'
    <2>1. i \in 1..Len(s) /\ s[i] = dbQueue[i] BY <1>1 DEF Continues
    <2>2. QED BY <1>1, <1>3, <2>1 DEF ListFor
<1>4. \A kind : (\E i \in 1..Len(toClient) : toClient[i].kind = kind)
                   => \E i \in 1..Len(toClient') : toClient'[i].kind = kind
    BY <1>2 DEF Continues
<1>5. ListDue => ListDue' BY <1>3, <1>4 DEF ListDue, ListFor
<1>6. results' = results /\ (\E i \in 1..Len(results) : ListFor(results[i].req))
         => \E i \in 1..Len(results') : /\ results'[i].req.op = "list"
                                        /\ results'[i].req.id = session'
    BY DEF ListFor
<1>7. ListUnderWay /\ results' = results => ListUnderWay'
    BY <1>3, <1>4, <1>6 DEF ListUnderWay, ListFor
<1>8. QED BY <1>5, <1>7

\* A notification stays to be loaded as long as its entry is kept
LEMMA TellsStill ==
    ASSUME NEW g, groups'[g] = groups[g], Continues(dbQueue, dbQueue'),
           \A i \in 1..Len(dbQueue) : dbQueue[i].op = "notify" =>
              pendingNotifications'[dbQueue[i].id] = pendingNotifications[dbQueue[i].id],
           WillTell(g)
    PROVE  WillTell(g)'
<1>1. PICK s : s = dbQueue' OBVIOUS
<1>2. PICK i \in 1..Len(dbQueue) : /\ dbQueue[i].op = "notify" /\ dbQueue[i].group = g
                                   /\ Tells(dbQueue[i], groups[g].members)
    BY DEF WillTell
<1>3. i \in 1..Len(s) /\ s[i] = dbQueue[i] BY <1>1 DEF Continues
<1>4. PICK q : q = dbQueue[i] OBVIOUS
<1>5. Tells(q, groups[g].members)' BY <1>2, <1>4 DEF Tells
<1>6. QED BY <1>1, <1>2, <1>3, <1>4, <1>5 DEF WillTell

\* What is good and bad stays so while the tables and the notifications are as they are
LEMMA SameSets ==
    ASSUME UNCHANGED <<groups, session, pendingNotifications>>
    PROVE  /\ \A g : ResultGood(g)' = ResultGood(g) /\ ResultBad(g)' = ResultBad(g)
           /\ \A g : PacketGood(g)' = PacketGood(g) /\ PacketBad(g)' = PacketBad(g)
           /\ \A list, g : Agrees(list, g)' <=> Agrees(list, g)
           /\ \A req, members : Tells(req, members)' <=> Tells(req, members)
<1>1. \A g : SelfIn(g)' <=> SelfIn(g) BY DEF SelfIn
<1>2. \A list, g : Agrees(list, g)' <=> Agrees(list, g) BY <1>1 DEF Agrees
<1>3. \A req, members : Tells(req, members)' <=> Tells(req, members) BY DEF Tells
<1>4. \A req : ListFor(req)' <=> ListFor(req) BY DEF ListFor
<1>5. \A g : ResultGood(g)' = ResultGood(g)
    BY <1>1, <1>2, <1>3, <1>4 DEF ResultGood
<1>6. \A g : ResultBad(g)' = ResultBad(g) BY <1>1, <1>2, <1>4 DEF ResultBad
<1>7. \A g : PacketGood(g)' = PacketGood(g) BY <1>1, <1>2 DEF PacketGood
<1>8. \A g : PacketBad(g)' = PacketBad(g) BY <1>1, <1>2 DEF PacketBad
<1>9. QED BY <1>2, <1>3, <1>5, <1>6, <1>7, <1>8

\* Nothing is said of the groups
LEMMA ComesStill ==
    ASSUME UNCHANGED <<groups, session, pendingNotifications, results, toClient, localGroups>>,
           NEW g, GroupComes(g)
    PROVE  GroupComes(g)'
<1>1. PICK a, b : a = ResultGood(g) /\ b = ResultBad(g) OBVIOUS
<1>2. PICK c, d : c = PacketGood(g) /\ d = PacketBad(g) OBVIOUS
<1>3. PICK stored : stored = localGroups OBVIOUS
<1>4. LastWord(results, a, b, toClient, c, d, Agrees(stored, g))
    BY <1>1, <1>2, <1>3 DEF GroupComes
<1>5. /\ a = ResultGood(g)' /\ b = ResultBad(g)' /\ c = PacketGood(g)' /\ d = PacketBad(g)'
    BY <1>1, <1>2, SameSets
<1>6. Agrees(stored, g)' <=> Agrees(stored, g) BY SameSets
<1>7. LastWord(results', a, b, toClient', c, d, Agrees(stored, g)')
    BY <1>4, <1>6 DEF LastWord
<1>8. stored = localGroups' BY <1>3
<1>9. QED BY <1>5, <1>7, <1>8 DEF GroupComes, Agrees, SelfIn

\* Lists, rows and notifications when a query is posted
LEMMA OncePosted ==
    ASSUME NotifyOnce, NEW S, dbQueue \in Seq(S), NEW r \in S, dbQueue' = Append(dbQueue, r),
           r.op # "notify", results' = results, \A id : Announced(id) => Announced(id)'
    PROVE  NotifyOnce'
<1>1. PICK q \in Seq(S) : q = dbQueue OBVIOUS
<1>2. PICK n \in Nat : n = Len(q) BY LenProperties
<1>3. PICK p : p = dbQueue' OBVIOUS
<1>4. /\ Len(p) = n + 1 /\ p[n + 1] = r /\ \A i \in 1..n : p[i] = q[i]
      /\ \A i \in 1..(n + 1) : i \in 1..n \/ i = n + 1
    BY <1>1, <1>2, <1>3, OneMore
<1>5. \A i \in 1..(n + 1) : p[i].op = "notify" => i \in 1..n /\ p[i] = q[i]
    BY <1>4
<1>6. \A i \in 1..n : q[i].op = "notify" => Announced(q[i].id)
    BY <1>1, <1>2 DEF NotifyOnce
<1>7. \A i \in 1..n, j \in 1..n :
         q[i].op = "notify" /\ q[j].op = "notify" /\ q[i].id = q[j].id => i = j
    BY <1>1, <1>2 DEF NotifyOnce
<1>8. PICK rs : rs = results OBVIOUS
<1>9. /\ \A i \in 1..Len(rs) : rs[i].req.op = "notify" => Announced(rs[i].req.id)
      /\ \A i, j \in 1..Len(rs) : rs[i].req.op = "notify" /\ rs[j].req.op = "notify"
                                     /\ rs[i].req.id = rs[j].req.id => i = j
      /\ \A i \in 1..n, j \in 1..Len(rs) :
            q[i].op = "notify" /\ rs[j].req.op = "notify" => q[i].id # rs[j].req.id
    BY <1>1, <1>2, <1>8 DEF NotifyOnce
<1>10. /\ \A i \in 1..(n + 1) : p[i].op = "notify" => Announced(p[i].id)'
       /\ \A i \in 1..Len(rs) : rs[i].req.op = "notify" => Announced(rs[i].req.id)'
    BY <1>5, <1>6, <1>9
<1>11. \A i \in 1..(n + 1), j \in 1..(n + 1) :
          p[i].op = "notify" /\ p[j].op = "notify" /\ p[i].id = p[j].id => i = j
    BY <1>5, <1>7
<1>12. \A i \in 1..(n + 1), j \in 1..Len(rs) :
          p[i].op = "notify" /\ rs[j].req.op = "notify" => p[i].id # rs[j].req.id
    BY <1>5, <1>9
<1>13. p = dbQueue' /\ rs = results' /\ Len(p) = n + 1 BY <1>3, <1>4, <1>8
<1>14. QED BY <1>9, <1>10, <1>11, <1>12, <1>13 DEF NotifyOnce, Announced

\* The head of the queue, and the first of the offline rows
LEMMA RowsPosted ==
    ASSUME RowsFirst, NEW S, dbQueue \in Seq(S), NEW r \in S, dbQueue' = Append(dbQueue, r),
           r.op # "loadOffline", connected' = connected, ListDue => ListDue'
    PROVE  RowsFirst'
<1>1. PICK q \in Seq(S) : q = dbQueue OBVIOUS
<1>2. PICK n \in Nat : n = Len(q) BY LenProperties
<1>3. PICK p : p = dbQueue' OBVIOUS
<1>4. /\ Len(p) = n + 1 /\ p[n + 1] = r /\ \A i \in 1..n : p[i] = q[i]
      /\ \A i \in 1..(n + 1) : i \in 1..n \/ i = n + 1
    BY <1>1, <1>2, <1>3, OneMore
<1>5. SUFFICES ASSUME NEW i \in 1..(n + 1), p[i].op = "loadOffline"
               PROVE  i = 1 /\ (connected => ListDue')
    BY <1>3, <1>4 DEF RowsFirst
<1>6. i \in 1..n /\ q[i].op = "loadOffline" BY <1>4, <1>5
<1>7. i = 1 /\ (connected => ListDue) BY <1>1, <1>2, <1>6 DEF RowsFirst
<1>8. QED BY <1>7

\* A query of another kind is posted
LEMMA QueryPosted ==
    ASSUME IInv, SyncInv, NEW r \in AnyRequest, dbQueue' = Append(dbQueue, r),
           r.op \notin {"notify", "loadOffline"},
           UNCHANGED <<groups, session, pendingNotifications, results, toClient, localGroups,
                       connected, routed, inProgress, recovery, failures>>,
           toServer => toServer' \/ ListFor(r),
           \A id : Announced(id) => Announced(id)'
    PROVE  SyncInv'
<1>1. dbQueue \in Seq(AnyRequest) /\ toClient \in Seq(ClientPacket) BY SyncTyped
<1>2. Continues(dbQueue, dbQueue') /\ Continues(toClient, toClient')
    BY <1>1, Continued
<1>3. (ListDue => ListDue') /\ (ListUnderWay => ListUnderWay')
    <2>1. CASE toServer => toServer' BY <1>2, <2>1, ListDueGrows
    <2>2. CASE ListFor(r)
        <3>1. PICK n, p : n = Len(dbQueue) + 1 /\ p = dbQueue' OBVIOUS
        <3>2. n \in 1..Len(p) /\ p[n] = r BY <1>1, <3>1, OneMore
        <3>3. \E i \in 1..Len(dbQueue') : dbQueue'[i].op = "list" /\ dbQueue'[i].id = session'
            BY <2>2, <3>1, <3>2 DEF ListFor
        <3>4. QED BY <3>3 DEF ListDue, ListUnderWay, ListFor
    <2>3. QED BY <2>1, <2>2
<1>4. GroupsCome'
    <2>1. SUFFICES ASSUME failures' = 0, connected', routed', ~ListDue,
                          NEW g \in DOMAIN groups
                   PROVE  WillTell(g)' \/ GroupComes(g)'
        BY <1>3 DEF GroupsCome
    <2>2. WillTell(g) \/ GroupComes(g) BY <2>1 DEF SyncInv, GroupsCome
    <2>3. WillTell(g) => WillTell(g)' BY <1>2, TellsStill
    <2>4. GroupComes(g) => GroupComes(g)' BY ComesStill
    <2>5. QED BY <2>2, <2>3, <2>4
<1>5. ListComes' BY <1>3 DEF SyncInv, ListComes
<1>6. RowsFirst' BY <1>1, <1>3, RowsPosted DEF SyncInv
<1>7. NotifyOnce' BY <1>1, OncePosted DEF SyncInv
<1>8. ListsLoaded' BY DEF SyncInv, ListsLoaded
<1>9. QED BY <1>4, <1>5, <1>6, <1>7, <1>8 DEF SyncInv

LEMMA RequestSync ==
    ASSUME IInv, SyncInv, NEW by \in Users, HandleClientRequest(by)
    PROVE  SyncInv'
<1>1. \E op \in {"create", "add", "remove", "leave", "message"}, g \in Groups \cup {NoGroup},
         who \in SUBSET Users :
         /\ NewRequest(op, g, by, who)
         /\ pendingRequests' \subseteq pendingRequests \cup {nextId}
         /\ UNCHANGED <<groups, results, pendingNotifications, failures>>
    <2>1. Requests(by) BY DEF HandleClientRequest
    <2>2. shown \subseteq Groups
        BY DEF IInv, ShownRight, SessionsConsistent, ClientRight, Known
    <2>3. CASE \E invited \in SUBSET Users : HandleCreateGroup(by, invited)
        BY <2>3 DEF HandleCreateGroup, HandleRequest, tables, history
    <2>4. ASSUME NEW g \in Groups, NEW u \in Users,
                 \/ HandleAddMember(g, by, u) \/ HandleRemoveMember(g, by, u)
                 \/ HandleLeaveGroup(g, by) \/ HandleGroupMessage(g, by)
          PROVE  \E op \in {"create", "add", "remove", "leave", "message"}, who \in SUBSET Users :
                    /\ NewRequest(op, g, by, who)
                    /\ pendingRequests' \subseteq pendingRequests \cup {nextId}
                    /\ UNCHANGED <<groups, results, pendingNotifications, failures>>
        <3>1. {u} \in SUBSET Users /\ {by} \in SUBSET Users /\ {} \in SUBSET Users OBVIOUS
        <3>2. CASE HandleAddMember(g, by, u)
            BY <3>1, <3>2 DEF HandleAddMember, HandleRequest, tables, history
        <3>3. CASE HandleRemoveMember(g, by, u)
            BY <3>1, <3>3 DEF HandleRemoveMember, HandleRequest, tables, history
        <3>4. CASE HandleLeaveGroup(g, by)
            BY <3>1, <3>4 DEF HandleLeaveGroup, HandleRequest, tables, history
        <3>5. CASE HandleGroupMessage(g, by)
            BY <3>1, <3>5 DEF HandleGroupMessage, tables, history, pending
        <3>6. QED BY <2>4, <3>2, <3>3, <3>4, <3>5
    <2>5. (IF by = Self THEN shown \ {opening} ELSE Groups) \subseteq Groups BY <2>2
    <2>6. QED BY <2>1, <2>3, <2>4, <2>5 DEF Requests
<1>2. PICK op \in {"create", "add", "remove", "leave", "message"}, g \in Groups \cup {NoGroup},
         who \in SUBSET Users :
         /\ NewRequest(op, g, by, who)
         /\ pendingRequests' \subseteq pendingRequests \cup {nextId}
         /\ UNCHANGED <<groups, results, pendingNotifications, failures>>
    BY <1>1
<1>3. PICK r : r = [op |-> op, id |-> nextId, group |-> g, by |-> by, who |-> who] OBVIOUS
<1>4. dbQueue' = Append(dbQueue, r) /\ nextId' = nextId + 1
    BY <1>2, <1>3 DEF NewRequest, Post
<1>5. nextId \in Nat BY SyncTyped
<1>6. r \in AnyRequest /\ r.op \notin {"notify", "loadOffline"}
    <2>1. op \in {"create", "add", "remove", "leave", "notify", "message", "list", "loadOffline"}
        BY <1>2
    <2>2. r \in AnyRequest BY <1>2, <1>3, <1>5, <2>1 DEF AnyRequest
    <2>3. QED BY <1>2, <1>3, <2>2
<1>7. UNCHANGED <<session, toClient, localGroups, connected, routed, inProgress, recovery, toServer>>
    BY DEF HandleClientRequest, client, localTables, flags
<1>8. ASSUME NEW id, Announced(id) PROVE Announced(id)'
    BY <1>2, <1>4, <1>5, <1>8 DEF Announced
<1>9. QED BY <1>2, <1>4, <1>6, <1>7, <1>8, QueryPosted

LEMMA ListAskedSync ==
    ASSUME IInv, SyncInv, HandleGroupList
    PROVE  SyncInv'
<1>1. PICK r : r = [op |-> "list", id |-> session, group |-> NoGroup, by |-> Self, who |-> {}]
    OBVIOUS
<1>2. /\ dbQueue' = Append(dbQueue, r)
      /\ UNCHANGED <<groups, session, pendingNotifications, results, toClient, localGroups,
                     connected, routed, inProgress, recovery, failures, pendingRequests, nextId>>
    BY <1>1 DEF HandleGroupList, Post, tables, pending, history, client, localTables, flags
<1>3. r \in AnyRequest /\ ListFor(r)
    BY <1>1, SyncTyped, SyncAssumption DEF AnyRequest, ListFor
<1>4. r.op \notin {"notify", "loadOffline"} BY <1>1
<1>5. \A id : Announced(id) => Announced(id)' BY <1>2 DEF Announced
<1>6. QED BY <1>2, <1>3, <1>4, <1>5, QueryPosted

-----------------------------------------------------------------------------
(***************************************************************************)
(* Connections                                                             *)
(***************************************************************************)
LEMMA ViewsSync ==
    ASSUME SyncInv, routed' => routed,
           UNCHANGED <<groups, session, pendingNotifications, results, toClient, localGroups,
                       dbQueue, toServer, inProgress, recovery, pendingRequests, nextId,
                       failures, connected>>
    PROVE  SyncInv'
<1>1. ListDue' <=> ListDue BY DEF ListDue, ListFor
<1>2. GroupsCome'
    <2>1. SUFFICES ASSUME failures' = 0, connected', routed', ~ListDue, NEW g \in DOMAIN groups
                   PROVE  WillTell(g)' \/ GroupComes(g)'
        BY <1>1 DEF GroupsCome
    <2>2. WillTell(g) \/ GroupComes(g) BY <2>1 DEF SyncInv, GroupsCome
    <2>3. WillTell(g) => WillTell(g)' BY DEF WillTell, Tells
    <2>4. GroupComes(g) => GroupComes(g)' BY ComesStill
    <2>5. QED BY <2>2, <2>3, <2>4
<1>3. ListComes' BY DEF SyncInv, ListComes, ListUnderWay, ListFor
<1>4. RowsFirst' BY <1>1 DEF SyncInv, RowsFirst
<1>5. NotifyOnce' BY DEF SyncInv, NotifyOnce, Announced
<1>6. ListsLoaded' BY DEF SyncInv, ListsLoaded
<1>7. QED BY <1>2, <1>3, <1>4, <1>5, <1>6 DEF SyncInv

\* Without a connection nothing is waited for
LEMMA CutSync ==
    ASSUME SyncInv, ConnectionEnds,
           UNCHANGED <<results, dbQueue, pendingRequests, pendingNotifications, nextId, failures>>
    PROVE  SyncInv'
<1>1. ~connected' /\ ~inProgress' /\ ~recovery' BY DEF ConnectionEnds, ResetRuntimeState
<1>2. GroupsCome' BY <1>1 DEF GroupsCome
<1>3. ListComes' BY <1>1 DEF ListComes
<1>4. RowsFirst' BY <1>1 DEF SyncInv, RowsFirst
<1>5. NotifyOnce' BY DEF SyncInv, NotifyOnce, Announced
<1>6. ListsLoaded'
    <2>1. Len(toClient') = 0 BY DEF ConnectionEnds
    <2>2. QED BY <2>1 DEF SyncInv, ListsLoaded
<1>7. QED BY <1>2, <1>3, <1>4, <1>5, <1>6 DEF SyncInv

LEMMA StopsSync ==
    ASSUME SyncInv, ServerStops
    PROVE  SyncInv'
<1>1. ~connected' /\ ~inProgress' /\ ~recovery'
    BY DEF ServerStops, ConnectionEnds, ResetRuntimeState
<1>2. /\ Len(dbQueue') = 0 /\ Len(results') = 0 /\ failures' = failures
    BY DEF ServerStops, ServerCrash
<1>3. GroupsCome' BY <1>1 DEF GroupsCome
<1>4. ListComes' BY <1>1 DEF ListComes
<1>5. RowsFirst' BY <1>2 DEF RowsFirst
<1>6. NotifyOnce' BY <1>2 DEF NotifyOnce
<1>7. ListsLoaded'
    <2>1. Len(toClient') = 0 BY DEF ServerStops, ConnectionEnds
    <2>2. QED BY <1>2, <2>1 DEF ListsLoaded
<1>8. QED BY <1>2, <1>3, <1>4, <1>5, <1>6, <1>7 DEF SyncInv

LEMMA LoginSync ==
    ASSUME IInv, SyncInv, Login
    PROVE  SyncInv'
<1>1. PICK r : r = [op |-> "loadOffline", id |-> session', group |-> NoGroup, by |-> Self,
                    who |-> {}]
    OBVIOUS
<1>2. /\ dbQueue = <<>> /\ dbQueue' = Append(dbQueue, r) /\ ~connected
      /\ results' = results
      /\ UNCHANGED <<pendingRequests, pendingNotifications, nextId, failures, inProgress, recovery>>
    BY <1>1 DEF Login, Post, pending, history, client, flags
<1>3. dbQueue \in Seq(AnyRequest) /\ r \in AnyRequest
    <2>1. session' \in Nat BY SyncTyped DEF Login
    <2>2. QED BY <1>1, <2>1, SyncTyped, SyncAssumption DEF AnyRequest
<1>4. ListDue'
    <2>1. PICK p, t : p = [kind |-> "connectAck"] /\ t = <<p>> OBVIOUS
    <2>2. Len(t) = 1 /\ t[1] = p /\ p.kind = "connectAck" BY <2>1
    <2>3. toClient' = t BY <2>1 DEF Login
    <2>4. 1 \in 1..1 OBVIOUS
    <2>5. \E i \in 1..Len(toClient') : toClient'[i].kind = "connectAck" BY <2>2, <2>3, <2>4
    <2>6. QED BY <2>5 DEF ListDue
<1>5. GroupsCome' BY <1>4 DEF GroupsCome
<1>6. ListComes' BY <1>2 DEF SyncInv, ListComes
<1>7. RowsFirst'
    <2>1. PICK e : e = dbQueue /\ Len(e) = 0 BY <1>2
    <2>2. Len(Append(e, r)) = 0 + 1 BY <1>3, <2>1, OneMore
    <2>3. Len(dbQueue') = 1 BY <1>2, <2>1, <2>2
    <2>4. \A i \in 1..1 : i = 1 OBVIOUS
    <2>5. QED BY <1>4, <2>3, <2>4 DEF RowsFirst
<1>8. NotifyOnce'
    <2>1. r.op # "notify" BY <1>1
    <2>2. \A id : Announced(id) => Announced(id)' BY <1>2 DEF Announced
    <2>3. QED BY <1>2, <1>3, <2>1, <2>2, OncePosted DEF SyncInv
<1>9. ListsLoaded'
    <2>1. PICK p, t : p = [kind |-> "connectAck"] /\ t = <<p>> OBVIOUS
    <2>2. Len(t) = 1 /\ t[1].kind = "connectAck" BY <2>1
    <2>3. \A i \in 1..1 : i = 1 OBVIOUS
    <2>4. \A i \in 1..Len(t) : t[i].kind # "groupListAck" BY <2>2, <2>3
    <2>5. toClient' = t BY <2>1 DEF Login
    <2>6. QED BY <1>2, <2>4, <2>5 DEF SyncInv, ListsLoaded
<1>10. QED BY <1>2, <1>5, <1>6, <1>7, <1>8, <1>9 DEF SyncInv
-----------------------------------------------------------------------------
(***************************************************************************)
(* The database thread                                                     *)
(***************************************************************************)

\* g is the same to Self
SameToSelf(g) == (SelfIn(g)' <=> SelfIn(g)) /\ (SelfIn(g) => groups'[g] = groups[g])

LEMMA SameAt ==
    ASSUME NEW g, SameToSelf(g), UNCHANGED <<session, pendingNotifications>>
    PROVE  /\ ResultGood(g)' = ResultGood(g) /\ ResultBad(g)' = ResultBad(g)
           /\ PacketGood(g)' = PacketGood(g) /\ PacketBad(g)' = PacketBad(g)
           /\ \A list : Agrees(list, g)' <=> Agrees(list, g)
<1>1. SelfIn(g)' <=> SelfIn(g) BY DEF SameToSelf
<1>2. \A list : Agrees(list, g)' <=> Agrees(list, g) BY DEF Agrees, SameToSelf
<1>3. \A req, members : Tells(req, members)' <=> Tells(req, members) BY DEF Tells
<1>4. \A req : ListFor(req)' <=> ListFor(req) BY DEF ListFor
<1>5. ResultGood(g)' = ResultGood(g) BY <1>1, <1>2, <1>3, <1>4 DEF ResultGood
<1>6. ResultBad(g)' = ResultBad(g) BY <1>1, <1>2, <1>4 DEF ResultBad
<1>7. PacketGood(g)' = PacketGood(g) BY <1>1, <1>2 DEF PacketGood
<1>8. PacketBad(g)' = PacketBad(g) BY <1>1, <1>2 DEF PacketBad
<1>9. QED BY <1>2, <1>5, <1>6, <1>7, <1>8

\* A result is added
LEMMA ComesAfterGood ==
    ASSUME NEW g, results \in Seq(AnyResult), NEW res \in AnyResult,
           results' = Append(results, res), res \in ResultGood(g)'
    PROVE  GroupComes(g)'
<1>1. PICK a, b : a = ResultGood(g)' /\ b = ResultBad(g)' OBVIOUS
<1>2. PICK rs \in Seq(AnyResult) : rs = results OBVIOUS
<1>3. PICK ps, c, d, now : ps = toClient' /\ c = PacketGood(g)' /\ d = PacketBad(g)'
                           /\ now = Agrees(localGroups, g)'
    OBVIOUS
<1>4. LastWord(Append(rs, res), a, b, ps, c, d, now) BY <1>1, GoodResult
<1>5. results' = Append(rs, res) BY <1>2
<1>6. QED BY <1>1, <1>3, <1>4, <1>5 DEF GroupComes

LEMMA ComesAfterOther ==
    ASSUME NEW g, SameToSelf(g), UNCHANGED <<session, pendingNotifications, toClient, localGroups>>,
           results \in Seq(AnyResult), NEW res \in AnyResult,
           results' = Append(results, res), res \notin ResultBad(g), GroupComes(g)
    PROVE  GroupComes(g)'
<1>1. PICK a, b : a = ResultGood(g) /\ b = ResultBad(g) OBVIOUS
<1>2. PICK c, d : c = PacketGood(g) /\ d = PacketBad(g) OBVIOUS
<1>3. PICK stored, ps : stored = localGroups /\ ps = toClient OBVIOUS
<1>4. PICK rs \in Seq(AnyResult) : rs = results OBVIOUS
<1>5. LastWord(rs, a, b, ps, c, d, Agrees(stored, g))
    BY <1>1, <1>2, <1>3, <1>4 DEF GroupComes
<1>6. LastWord(Append(rs, res), a, b, ps, c, d, Agrees(stored, g))
    BY <1>1, <1>5, NeutralResult
<1>7. /\ a = ResultGood(g)' /\ b = ResultBad(g)' /\ c = PacketGood(g)' /\ d = PacketBad(g)'
      /\ Agrees(stored, g)' <=> Agrees(stored, g)
    BY <1>1, <1>2, SameAt
<1>8. LastWord(Append(rs, res), a, b, ps, c, d, Agrees(stored, g)')
    BY <1>6, <1>7 DEF LastWord
<1>9. stored = localGroups' /\ ps = toClient' /\ results' = Append(rs, res) BY <1>3, <1>4
<1>10. QED BY <1>7, <1>8, <1>9 DEF GroupComes, Agrees, SelfIn

\* Nothing names a group before it is created
LEMMA ComesUnnamed ==
    ASSUME IInv, ListsLoaded, failures = 0, NEW g, g \notin Known, ~SelfIn(g)',
           UNCHANGED <<session, toClient, localGroups>>,
           NEW res \in AnyResult, results' = Append(results, res), res \notin ResultBad(g)'
    PROVE  GroupComes(g)'
<1>1. PICK a, b : a = ResultGood(g)' /\ b = ResultBad(g)' OBVIOUS
<1>2. PICK rs \in Seq(AnyResult) : rs = results BY SyncTyped
<1>3. /\ Len(rs) \in Nat /\ \A i \in 1..Len(rs) : rs[i] \in RightResults
      /\ Len(toClient) \in Nat /\ \A i \in 1..Len(toClient) : toClient[i] \in KnownPackets
    BY <1>2, Elements DEF IInv
<1>4. \A list : DOMAIN list \subseteq Known => Agrees(list, g)' BY DEF Agrees
<1>5. \A i \in 1..Len(rs) : rs[i] \notin b
    <2>1. SUFFICES ASSUME NEW i \in 1..Len(rs), NEW x \in RightResults, x = rs[i], x \in b
                   PROVE  FALSE
        BY <1>3
    <2>2. CASE x.req.op = "list" /\ ~(x.ok /\ Agrees(x.list, g)')
        <3>1. x.ok BY <1>2, <2>1, <2>2 DEF ListsLoaded
        <3>2. DOMAIN x.list \subseteq Known BY <2>2, <3>1, ResultFacts
        <3>3. QED BY <1>4, <2>2, <3>1, <3>2
    <2>3. CASE x.req.op = "message" /\ x.ok /\ x.group = g
        BY <2>3, ResultFacts
    <2>4. CASE x.req.op = "loadOffline" /\ x.ok /\ [kind |-> "message", group |-> g] \in x.rows
        <3>1. PICK p : p = [kind |-> "message", group |-> g] /\ p \in KnownRows
            BY <2>4, ResultFacts
        <3>2. QED BY <3>1 DEF KnownRows
    <2>5. \/ x.req.op = "list" /\ ~(x.ok /\ Agrees(x.list, g)')
          \/ x.req.op = "message" /\ x.ok /\ x.group = g
          \/ x.req.op = "loadOffline" /\ x.ok /\ [kind |-> "message", group |-> g] \in x.rows
        BY <1>1, <2>1 DEF ResultBad, ListFor
    <2>6. QED BY <2>2, <2>3, <2>4, <2>5
<1>6. Clean(Append(rs, res), b)
    <2>1. PICK n \in Nat : n = Len(rs) BY <1>3
    <2>2. PICK p : p = Append(rs, res) OBVIOUS
    <2>3. /\ Len(p) = n + 1 /\ p[n + 1] = res /\ \A i \in 1..n : p[i] = rs[i]
          /\ \A i \in 1..(n + 1) : i \in 1..n \/ i = n + 1
        BY <2>1, <2>2, OneMore
    <2>4. res \notin b BY <1>1
    <2>5. \A i \in 1..(n + 1) : p[i] \notin b BY <1>5, <2>1, <2>3, <2>4
    <2>6. QED BY <2>2, <2>3, <2>5 DEF Clean
<1>7. \A i \in 1..Len(toClient) : toClient[i] \notin PacketBad(g)'
    <2>1. SUFFICES ASSUME NEW i \in 1..Len(toClient), NEW p \in KnownPackets, p = toClient[i],
                          p \in PacketBad(g)'
                   PROVE  FALSE
        BY <1>3
    <2>2. CASE p.kind = "groupListAck" /\ ~(p.ok /\ Agrees(p.list, g)')
        <3>1. p.ok BY <2>1, <2>2 DEF ListsLoaded
        <3>2. DOMAIN p.list \subseteq Known BY <2>2, PacketFacts
        <3>3. QED BY <1>4, <2>2, <3>1, <3>2
    <2>3. CASE p.kind = "message" /\ p.group = g BY <2>3, PacketFacts
    <2>4. QED BY <2>1, <2>2, <2>3 DEF PacketBad
<1>8. Agrees(localGroups, g)'
    <2>1. DOMAIN localGroups \subseteq Known BY DEF IInv, ClientRight
    <2>2. QED BY <1>4, <2>1 DEF Agrees
<1>9. Clean(toClient, PacketBad(g))' BY <1>7 DEF Clean
<1>10. Clean(results, ResultBad(g))' BY <1>1, <1>2, <1>6 DEF Clean
<1>11. QED BY <1>8, <1>9, <1>10 DEF GroupComes, LastWord

\* The database thread takes a request from its queue and adds the result
LEMMA OnceMoved ==
    ASSUME NotifyOnce, NEW S, dbQueue \in Seq(S), dbQueue # <<>>, dbQueue' = Tail(dbQueue),
           NEW T, results \in Seq(T), NEW res \in T, results' = Append(results, res),
           res.req = Head(dbQueue), \A id : Announced(id) => Announced(id)'
    PROVE  NotifyOnce'
<1>1. PICK q \in Seq(S) : q = dbQueue OBVIOUS
<1>2. PICK rs \in Seq(T) : rs = results OBVIOUS
<1>3. PICK n \in Nat : n + 1 = Len(q)
    <2>1. Len(q) \in Nat /\ 1 \in 1..Len(q) BY <1>1, Rest
    <2>2. Len(q) - 1 \in Nat /\ (Len(q) - 1) + 1 = Len(q) BY <2>1
    <2>3. QED BY <2>2
<1>4. PICK m \in Nat : m = Len(rs) BY LenProperties
<1>5. PICK p, ps : p = dbQueue' /\ ps = results' OBVIOUS
<1>6. /\ Len(p) = n /\ Head(q) = q[1] /\ 1 \in 1..(n + 1)
      /\ \A i \in 1..n : i + 1 \in 1..(n + 1) /\ i + 1 # 1 /\ p[i] = q[i + 1]
    <2>1. (n + 1) - 1 = n OBVIOUS
    <2>2. p = Tail(q) /\ q # <<>> BY <1>1, <1>5
    <2>3. \A i \in 1..n : i + 1 # 1 OBVIOUS
    <2>4. QED BY <1>3, <2>1, <2>2, <2>3, Rest
<1>7. /\ Len(ps) = m + 1 /\ ps[m + 1] = res /\ \A i \in 1..m : ps[i] = rs[i]
      /\ \A i \in 1..(m + 1) : i \in 1..m \/ i = m + 1
    BY <1>2, <1>4, <1>5, OneMore
<1>8. PICK h : h = q[1] /\ res.req = h BY <1>1, <1>6
<1>9. /\ \A i \in 1..(n + 1) : q[i].op = "notify" => Announced(q[i].id)
      /\ \A i \in 1..m : rs[i].req.op = "notify" => Announced(rs[i].req.id)
      /\ \A i, j \in 1..(n + 1) :
            q[i].op = "notify" /\ q[j].op = "notify" /\ q[i].id = q[j].id => i = j
      /\ \A i, j \in 1..m :
            rs[i].req.op = "notify" /\ rs[j].req.op = "notify" /\ rs[i].req.id = rs[j].req.id
               => i = j
      /\ \A i \in 1..(n + 1), j \in 1..m :
            q[i].op = "notify" /\ rs[j].req.op = "notify" => q[i].id # rs[j].req.id
    BY <1>1, <1>2, <1>3, <1>4 DEF NotifyOnce
<1>10. \A i \in 1..n : p[i].op = "notify" => Announced(p[i].id)'
    BY <1>6, <1>9
<1>11. \A i \in 1..(m + 1) : ps[i].req.op = "notify" => Announced(ps[i].req.id)'
    <2>1. \A i \in 1..m : ps[i].req.op = "notify" => Announced(ps[i].req.id)'
        BY <1>7, <1>9
    <2>2. h.op = "notify" => Announced(h.id)' BY <1>6, <1>8, <1>9
    <2>3. QED BY <1>7, <1>8, <2>1, <2>2
<1>12. \A i, j \in 1..n : p[i].op = "notify" /\ p[j].op = "notify" /\ p[i].id = p[j].id => i = j
    <2>1. SUFFICES ASSUME NEW i \in 1..n, NEW j \in 1..n,
                          p[i].op = "notify", p[j].op = "notify", p[i].id = p[j].id
                   PROVE  i = j
        OBVIOUS
    <2>2. PICK k, l : k = i + 1 /\ l = j + 1 OBVIOUS
    <2>3. k \in 1..(n + 1) /\ l \in 1..(n + 1) /\ p[i] = q[k] /\ p[j] = q[l] BY <1>6, <2>2
    <2>4. k = l BY <1>9, <2>1, <2>3
    <2>5. QED BY <2>2, <2>4
<1>13. \A j \in 1..m : rs[j].req.op = "notify" /\ h.op = "notify" => rs[j].req.id # h.id
    BY <1>6, <1>8, <1>9
<1>14. \A i, j \in 1..(m + 1) :
          ps[i].req.op = "notify" /\ ps[j].req.op = "notify" /\ ps[i].req.id = ps[j].req.id
             => i = j
    <2>1. SUFFICES ASSUME NEW i \in 1..(m + 1), NEW j \in 1..(m + 1), ps[i].req.op = "notify",
                          ps[j].req.op = "notify", ps[i].req.id = ps[j].req.id
                   PROVE  i = j
        OBVIOUS
    <2>2. CASE i \in 1..m /\ j \in 1..m BY <1>7, <1>9, <2>1, <2>2
    <2>3. CASE i \in 1..m /\ j = m + 1 BY <1>7, <1>8, <1>13, <2>1, <2>3
    <2>4. CASE i = m + 1 /\ j \in 1..m BY <1>7, <1>8, <1>13, <2>1, <2>4
    <2>5. QED BY <1>7, <2>2, <2>3, <2>4
<1>15. \A i \in 1..n : p[i].op = "notify" /\ h.op = "notify" => p[i].id # h.id
    BY <1>6, <1>8, <1>9
<1>16. \A i \in 1..n, j \in 1..(m + 1) :
          p[i].op = "notify" /\ ps[j].req.op = "notify" => p[i].id # ps[j].req.id
    <2>1. \A i \in 1..n, j \in 1..m :
             p[i].op = "notify" /\ ps[j].req.op = "notify" => p[i].id # ps[j].req.id
        <3>1. SUFFICES ASSUME NEW i \in 1..n, NEW j \in 1..m,
                              p[i].op = "notify", ps[j].req.op = "notify"
                       PROVE  p[i].id # ps[j].req.id
            OBVIOUS
        <3>2. PICK k : k = i + 1 OBVIOUS
        <3>3. k \in 1..(n + 1) /\ p[i] = q[k] /\ ps[j] = rs[j] BY <1>6, <1>7, <3>2
        <3>4. QED BY <1>9, <3>1, <3>3
    <2>2. QED BY <1>7, <1>8, <1>15, <2>1
<1>17. Len(p) = n /\ Len(ps) = m + 1 BY <1>6, <1>7
<1>18. \A i \in 1..Len(p) : p[i].op = "notify" =>
          /\ p[i].id < nextId' /\ p[i].id \notin pendingRequests'
          /\ p[i].id \in DOMAIN pendingNotifications'
    BY <1>10, <1>17 DEF Announced
<1>19. \A i \in 1..Len(ps) : ps[i].req.op = "notify" =>
          /\ ps[i].req.id < nextId' /\ ps[i].req.id \notin pendingRequests'
          /\ ps[i].req.id \in DOMAIN pendingNotifications'
    BY <1>11, <1>17 DEF Announced
<1>20. /\ \A i, j \in 1..Len(p) :
             p[i].op = "notify" /\ p[j].op = "notify" /\ p[i].id = p[j].id => i = j
       /\ \A i, j \in 1..Len(ps) :
             ps[i].req.op = "notify" /\ ps[j].req.op = "notify"
                /\ ps[i].req.id = ps[j].req.id => i = j
       /\ \A i \in 1..Len(p), j \in 1..Len(ps) :
             p[i].op = "notify" /\ ps[j].req.op = "notify" => p[i].id # ps[j].req.id
    BY <1>12, <1>14, <1>16, <1>17
<1>21. p = dbQueue' /\ ps = results' BY <1>5, <1>6, <1>7
<1>22. QED BY <1>18, <1>19, <1>20, <1>21 DEF NotifyOnce, Announced

\* All the rest of what is due stays due
LEMMA DueWithoutHead ==
    ASSUME NEW S, dbQueue \in Seq(S), dbQueue # <<>>, dbQueue' = Tail(dbQueue),
           UNCHANGED <<session, toServer, toClient>>
    PROVE  /\ ListDue /\ ~ListFor(Head(dbQueue)) => ListDue'
           /\ \A i \in 1..Len(dbQueue) : ListFor(dbQueue[i]) => ListDue' \/ ListFor(Head(dbQueue))
<1>1. PICK q \in Seq(S) : q = dbQueue OBVIOUS
<1>2. PICK p : p = dbQueue' OBVIOUS
<1>3. /\ Head(q) = q[1] /\ Len(p) = Len(q) - 1
      /\ \A i \in 1..Len(q) : i = 1 \/ (i - 1 \in 1..(Len(q) - 1) /\ p[i - 1] = q[i])
    BY <1>1, <1>2, Rest
<1>4. ASSUME NEW i \in 1..Len(q), ListFor(q[i])
      PROVE  ListDue' \/ ListFor(Head(q))
    <2>1. CASE i = 1 BY <1>3, <1>4, <2>1
    <2>2. CASE i # 1
        <3>1. PICK k : k = i - 1 OBVIOUS
        <3>2. k \in 1..Len(p) /\ p[k] = q[i] BY <1>3, <2>2, <3>1
        <3>3. \E j \in 1..Len(dbQueue') : dbQueue'[j].op = "list" /\ dbQueue'[j].id = session'
            BY <1>2, <1>4, <3>2 DEF ListFor
        <3>4. QED BY <3>3 DEF ListDue, ListFor
    <2>3. QED BY <2>1, <2>2
<1>5. ListDue => \/ ListDue'
                 \/ \E i \in 1..Len(q) : ListFor(q[i])
    BY <1>1 DEF ListDue
<1>6. QED BY <1>1, <1>4, <1>5

\* A notification that is not at the head stays to be loaded
LEMMA TellsWithoutHead ==
    ASSUME NEW g, SameToSelf(g), NEW S, dbQueue \in Seq(S), dbQueue # <<>>,
           dbQueue' = Tail(dbQueue), pendingNotifications' = pendingNotifications, WillTell(g),
           NEW h, h = Head(dbQueue),
           ~(h.op = "notify" /\ h.group = g /\ Tells(h, groups[g].members))
    PROVE  WillTell(g)'
<1>1. PICK q \in Seq(S) : q = dbQueue OBVIOUS
<1>2. PICK p : p = dbQueue' OBVIOUS
<1>3. /\ Head(q) = q[1] /\ Len(p) = Len(q) - 1
      /\ \A i \in 1..Len(q) : i = 1 \/ (i - 1 \in 1..(Len(q) - 1) /\ p[i - 1] = q[i])
    BY <1>1, <1>2, Rest
<1>4. PICK i \in 1..Len(q) : /\ q[i].op = "notify" /\ q[i].group = g
                             /\ Tells(q[i], groups[g].members)
    BY <1>1 DEF WillTell
<1>5. i # 1 BY <1>1, <1>3, <1>4
<1>6. PICK k : k = i - 1 OBVIOUS
<1>7. k \in 1..Len(p) /\ p[k] = q[i] BY <1>3, <1>5, <1>6
<1>8. PICK x : x = q[i] OBVIOUS
<1>9. Tells(x, groups[g].members)' BY <1>4, <1>8 DEF Tells, SameToSelf, SelfIn
<1>10. QED BY <1>2, <1>4, <1>7, <1>8, <1>9 DEF WillTell

LEMMA TakenSync ==
    ASSUME IInv, SyncInv, dbQueue # <<>>, dbQueue' = Tail(dbQueue),
           NEW req, req = Head(dbQueue), NEW res \in AnyResult, res.req = req,
           results' = Append(results, res),
           UNCHANGED <<session, pendingNotifications, pendingRequests, nextId, toClient,
                       localGroups, connected, routed, toServer, inProgress, recovery>>,
           failures' \in Nat, failures' = 0 => failures = 0,
           failures' = 0 /\ req.op = "list" => res.ok,
           failures' = 0 /\ connected /\ req.op # "loadOffline" =>
              \A g \in DOMAIN groups' :
                 \/ res \in ResultGood(g)'
                 \/ /\ g \in DOMAIN groups /\ SameToSelf(g) /\ res \notin ResultBad(g)
                    /\ ~ListFor(req)
                    /\ ~(req.op = "notify" /\ req.group = g /\ Tells(req, groups[g].members))
                 \/ ~ListFor(req) /\ GroupComes(g)'
    PROVE  SyncInv'
<1>1. dbQueue \in Seq(AnyRequest) /\ results \in Seq(AnyResult) BY SyncTyped
<1>2. ListDue /\ ~ListFor(req) => ListDue' BY <1>1, DueWithoutHead
<1>3. GroupsCome'
    <2>1. SUFFICES ASSUME failures' = 0, connected, routed, ~ListDue', NEW g \in DOMAIN groups'
                   PROVE  WillTell(g)' \/ GroupComes(g)'
        BY DEF GroupsCome
    <2>2. req.op # "loadOffline"
        <3>1. PICK q \in Seq(AnyRequest) : q = dbQueue BY <1>1
        <3>2. 1 \in 1..Len(q) /\ q[1] = req BY <3>1, Rest
        <3>3. req.op = "loadOffline" => ListDue
            BY <2>1, <3>1, <3>2 DEF SyncInv, RowsFirst
        <3>4. req.op = "loadOffline" => ~ListFor(req) BY DEF ListFor
        <3>5. QED BY <1>2, <2>1, <3>3, <3>4
    <2>3. CASE res \in ResultGood(g)' BY <1>1, <2>3, ComesAfterGood
    <2>4. CASE /\ g \in DOMAIN groups /\ SameToSelf(g) /\ res \notin ResultBad(g)
               /\ ~ListFor(req)
               /\ ~(req.op = "notify" /\ req.group = g /\ Tells(req, groups[g].members))
        <3>1. ~ListDue BY <1>2, <2>1, <2>4
        <3>2. WillTell(g) \/ GroupComes(g) BY <2>1, <2>4, <3>1 DEF SyncInv, GroupsCome
        <3>3. WillTell(g) => WillTell(g)' BY <1>1, <2>4, TellsWithoutHead
        <3>4. GroupComes(g) => GroupComes(g)' BY <1>1, <2>4, ComesAfterOther
        <3>5. QED BY <3>2, <3>3, <3>4
    <2>5. QED BY <2>1, <2>2, <2>3, <2>4
<1>4. PICK m, ps : m = Len(results) + 1 /\ ps = results' OBVIOUS
<1>5. /\ m \in 1..Len(ps) /\ ps[m] = res
      /\ \A i \in 1..Len(results) : i \in 1..Len(ps) /\ ps[i] = results[i]
      /\ \A i \in 1..Len(ps) : i \in 1..Len(results) \/ i = m
    BY <1>1, <1>4, OneMore
<1>6. ListUnderWay => ListUnderWay'
    <2>1. \A i \in 1..Len(dbQueue) : ListFor(dbQueue[i]) => ListDue' \/ ListFor(req)
        BY <1>1, DueWithoutHead
    <2>2. ASSUME NEW i \in 1..Len(ps), ListFor(ps[i].req) PROVE ListUnderWay'
        <3>1. \E j \in 1..Len(results') : results'[j].req.op = "list"
                                          /\ results'[j].req.id = session'
            BY <1>4, <2>2 DEF ListFor
        <3>2. QED BY <3>1 DEF ListUnderWay, ListFor
    <2>3. ListFor(req) => ListUnderWay' BY <1>5, <2>2
    <2>4. (\E i \in 1..Len(results) : ListFor(results[i].req)) => ListUnderWay'
        BY <1>5, <2>2
    <2>5. (\E i \in 1..Len(dbQueue) : ListFor(dbQueue[i])) => ListUnderWay'
        <3>1. ASSUME NEW i \in 1..Len(dbQueue), ListFor(dbQueue[i]) PROVE ListUnderWay'
            <4>1. PICK q \in Seq(AnyRequest) : q = dbQueue BY <1>1
            <4>2. PICK p : p = dbQueue' OBVIOUS
            <4>3. /\ Head(q) = q[1] /\ Len(p) = Len(q) - 1
                  /\ \A j \in 1..Len(q) : j = 1 \/ (j - 1 \in 1..(Len(q) - 1) /\ p[j - 1] = q[j])
                BY <4>1, <4>2, Rest
            <4>4. CASE i = 1 BY <2>3, <3>1, <4>1, <4>3, <4>4
            <4>5. CASE i # 1
                <5>1. PICK k : k = i - 1 OBVIOUS
                <5>2. k \in 1..Len(p) /\ p[k] = dbQueue[i] BY <4>1, <4>3, <4>5, <5>1
                <5>3. \E j \in 1..Len(dbQueue') : dbQueue'[j].op = "list" /\ dbQueue'[j].id = session'
                    BY <3>1, <4>2, <5>2 DEF ListFor
                <5>4. QED BY <5>3 DEF ListUnderWay, ListFor
            <4>6. QED BY <4>4, <4>5
        <3>2. QED BY <3>1
    <2>6. toServer \/ (\E i \in 1..Len(toClient) : toClient[i].kind = "groupListAck")
             => ListUnderWay'
        BY DEF ListUnderWay
    <2>7. QED BY <2>4, <2>5, <2>6 DEF ListUnderWay
<1>7. ListComes' BY <1>6 DEF SyncInv, ListComes
<1>8. RowsFirst'
    <2>1. PICK q \in Seq(AnyRequest) : q = dbQueue BY <1>1
    <2>2. PICK p : p = dbQueue' OBVIOUS
    <2>3. /\ Len(p) = Len(q) - 1 /\ Len(q) \in Nat
          /\ \A i \in 1..(Len(q) - 1) : i + 1 \in 1..Len(q) /\ p[i] = q[i + 1]
        BY <2>1, <2>2, Rest
    <2>4. \A i \in 1..Len(q) : q[i].op = "loadOffline" => i = 1
        BY <2>1 DEF SyncInv, RowsFirst
    <2>5. \A i \in 1..Len(p) : p[i].op # "loadOffline"
        <3>1. SUFFICES ASSUME NEW i \in 1..(Len(q) - 1), p[i].op = "loadOffline" PROVE FALSE
            BY <2>3
        <3>2. PICK k : k = i + 1 OBVIOUS
        <3>3. k \in 1..Len(q) /\ q[k].op = "loadOffline" BY <2>3, <3>1, <3>2
        <3>4. k = 1 BY <2>4, <3>3
        <3>5. QED BY <2>3, <3>2, <3>4
    <2>6. QED BY <2>2, <2>5 DEF RowsFirst
<1>9. NotifyOnce'
    <2>1. \A id : Announced(id) => Announced(id)' BY DEF Announced
    <2>2. QED BY <1>1, <2>1, OnceMoved DEF SyncInv
<1>10. ListsLoaded'
    <2>1. SUFFICES ASSUME failures' = 0
                   PROVE  /\ \A i \in 1..Len(ps) : ps[i].req.op = "list" => ps[i].ok
                          /\ \A i \in 1..Len(toClient) :
                                toClient[i].kind = "groupListAck" => toClient[i].ok
        BY <1>4 DEF ListsLoaded
    <2>2. ListsLoaded /\ failures = 0 BY <2>1 DEF SyncInv
    <2>3. QED BY <1>5, <2>1, <2>2 DEF ListsLoaded
<1>11. QED BY <1>3, <1>7, <1>8, <1>9, <1>10 DEF SyncInv

\* A successful operation on g: Self is told, or g is the same to it
LEMMA OperationTaken ==
    ASSUME IInv, SyncInv, dbQueue # <<>>, dbQueue' = Tail(dbQueue),
           NEW req, req = Head(dbQueue), req.op \in {"create", "add", "remove", "leave"},
           NEW g \in Groups, Reply(req, TRUE, g, {}),
           UNCHANGED <<session, pendingNotifications, pendingRequests, nextId, toClient, failures,
                       localGroups, connected, routed, toServer, inProgress, recovery>>,
           \A h \in DOMAIN groups' : h # g => h \in DOMAIN groups /\ groups'[h] = groups[h],
           g \in DOMAIN groups' =>
              \/ SelfIn(g)' \/ Self \in Also(req)
              \/ g \in DOMAIN groups /\ ~SelfIn(g)
              \/ g \notin Known
    PROVE  SyncInv'
<1>1. PICK res : res = [req |-> req, ok |-> TRUE, group |-> g, members |-> {}] OBVIOUS
<1>2. results' = Append(results, res) BY <1>1 DEF Reply
<1>3. req \in AnyRequest BY HeadRequest, SyncTyped DEF IInv
<1>4. {} \in SUBSET Users /\ TRUE \in BOOLEAN /\ g \in Groups \cup {NoGroup} OBVIOUS
<1>5. res \in AnyResult BY <1>1, <1>3, <1>4 DEF AnyResult
<1>6. res.req = req /\ res.ok /\ res.group = g BY <1>1
<1>7. ~ListFor(req) /\ req.op # "notify" /\ req.op # "list" BY DEF ListFor
<1>8. \A h : res \notin ResultBad(h) /\ res \notin ResultBad(h)'
    BY <1>6 DEF ResultBad, ListFor
<1>9. failures \in Nat BY DEF SyncInv
<1>10. ASSUME NEW h \in DOMAIN groups', failures = 0
       PROVE  \/ res \in ResultGood(h)'
              \/ h \in DOMAIN groups /\ SameToSelf(h)
              \/ GroupComes(h)'
    <2>1. CASE h # g
        BY <1>10, <2>1 DEF SameToSelf, SelfIn
    <2>2. CASE h = g /\ (SelfIn(g)' \/ Self \in Also(req))
        BY <1>5, <1>6, <2>2 DEF ResultGood
    <2>3. CASE h = g /\ ~SelfIn(g)' /\ g \in DOMAIN groups /\ ~SelfIn(g)
        BY <2>3 DEF SameToSelf
    <2>4. CASE h = g /\ ~SelfIn(g)' /\ g \notin Known
        BY <1>2, <1>5, <1>8, <1>10, <2>4, ComesUnnamed DEF SyncInv
    <2>5. QED BY <1>10, <2>1, <2>2, <2>3, <2>4
<1>11. QED BY <1>2, <1>5, <1>6, <1>7, <1>8, <1>9, <1>10, TakenSync

\* The tables are read, or a statement failed
LEMMA ReadTaken ==
    ASSUME IInv, SyncInv, dbQueue # <<>>, dbQueue' = Tail(dbQueue),
           NEW req, req = Head(dbQueue), NEW res \in AnyResult, res.req = req,
           results' = Append(results, res),
           UNCHANGED <<session, pendingNotifications, pendingRequests, nextId, toClient, groups,
                       localGroups, connected, routed, toServer, inProgress, recovery>>,
           failures' \in Nat, failures' = 0 => failures = 0,
           failures' = 0 /\ req.op = "list" => res.ok,
           failures' = 0 /\ connected /\ req.op # "loadOffline" =>
              \A g \in DOMAIN groups :
                 \/ res \in ResultGood(g)
                 \/ /\ res \notin ResultBad(g) /\ ~ListFor(req)
                    /\ ~(req.op = "notify" /\ req.group = g /\ Tells(req, groups[g].members))
    PROVE  SyncInv'
<1>1. \A g : SameToSelf(g) BY DEF SameToSelf, SelfIn
<1>2. \A g : ResultGood(g)' = ResultGood(g) BY SameSets
<1>3. failures' = 0 /\ connected /\ req.op # "loadOffline" =>
              \A g \in DOMAIN groups' :
                 \/ res \in ResultGood(g)'
                 \/ /\ g \in DOMAIN groups /\ SameToSelf(g) /\ res \notin ResultBad(g)
                    /\ ~ListFor(req)
                    /\ ~(req.op = "notify" /\ req.group = g /\ Tells(req, groups[g].members))
                 \/ ~ListFor(req) /\ GroupComes(g)'
    BY <1>1, <1>2
<1>4. QED BY <1>3, TakenSync

LEMMA QuerySync ==
    ASSUME IInv, SyncInv, QueryStep
    PROVE  SyncInv'
<1>1. PICK req : req = Head(dbQueue) OBVIOUS
<1>2. /\ dbQueue # <<>> /\ dbQueue' = Tail(dbQueue)
      /\ LoadGroupList(req) \/ LoadOffline(req)
      /\ UNCHANGED <<session, pendingNotifications, pendingRequests, nextId, toClient, groups,
                     localGroups, connected, routed, toServer, inProgress, recovery, failures>>
    BY <1>1 DEF QueryStep, tables, pending, history, wire, client, localTables, flags
<1>3. req \in AnyRequest BY <1>1, <1>2, HeadRequest, SyncTyped DEF IInv
<1>4. failures \in Nat BY DEF SyncInv
<1>5. CASE LoadGroupList(req)
    <2>1. PICK res : res = [req |-> req, ok |-> TRUE, list |-> GroupsOfSelf] OBVIOUS
    <2>2. results' = Append(results, res) /\ req.op = "list"
        BY <1>5, <2>1 DEF LoadGroupList
    <2>3. GroupsOfSelf \in Listing(GroupRow) BY GroupsOfSelfAre DEF IInv
    <2>4. res \in AnyResult BY <1>3, <2>1, <2>3 DEF AnyResult
    <2>5. res.req = req /\ res.ok /\ res.list = GroupsOfSelf BY <2>1
    <2>6. ASSUME NEW g \in DOMAIN groups PROVE Agrees(GroupsOfSelf, g)
        <3>1. /\ DOMAIN GroupsOfSelf = {h \in DOMAIN groups : SelfIn(h)}
              /\ \A h \in DOMAIN GroupsOfSelf : GroupsOfSelf[h] = groups[h]
            BY DEF GroupsOfSelf, SelfIn
        <3>2. QED BY <3>1 DEF Agrees
    <2>7. ASSUME NEW g \in DOMAIN groups
          PROVE  res \in ResultGood(g) \/ (res \notin ResultBad(g) /\ ~ListFor(req))
        <3>1. CASE ListFor(req)
            BY <2>4, <2>5, <2>6, <3>1 DEF ResultGood
        <3>2. CASE ~ListFor(req)
            BY <2>2, <2>5, <3>2 DEF ResultBad
        <3>3. QED BY <3>1, <3>2
    <2>8. req.op # "notify" BY <2>2
    <2>9. QED BY <1>1, <1>2, <1>4, <2>2, <2>4, <2>5, <2>7, <2>8, ReadTaken
<1>6. CASE LoadOffline(req)
    <2>1. PICK res : res = [req |-> req, ok |-> TRUE, rows |-> offlineRows] OBVIOUS
    <2>2. results' = Append(results, res) /\ req.op = "loadOffline"
        BY <1>6, <2>1 DEF LoadOffline
    <2>3. offlineRows \subseteq Pushed BY DEF IInv, QueuesRight, KnownRows
    <2>4. res \in AnyResult BY <1>3, <2>1, <2>3 DEF AnyResult
    <2>5. res.req = req BY <2>1
    <2>6. req.op # "list" BY <2>2
    <2>7. QED BY <1>1, <1>2, <1>4, <2>2, <2>4, <2>5, <2>6, ReadTaken
<1>7. QED BY <1>2, <1>5, <1>6

LEMMA DbSync ==
    ASSUME IInv, SyncInv, ServerDbStep
    PROVE  SyncInv'
<1>1. PICK req : req = Head(dbQueue) OBVIOUS
<1>2. /\ dbQueue # <<>> /\ dbQueue' = Tail(dbQueue) /\ (DbStep \/ DbFails)
      /\ UNCHANGED <<session, pendingNotifications, pendingRequests, nextId, toClient,
                     localGroups, connected, routed, toServer, inProgress, recovery>>
    BY DEF ServerDbStep, DbStep, DbFails, pending, wire, client, localTables, flags
<1>3. req \in RightRequests /\ req \in AnyRequest
    BY <1>1, <1>2, HeadRequest, SyncTyped DEF IInv
<1>4. /\ failures \in Nat /\ {} \in SUBSET Users
      /\ req.group \in Groups \cup {NoGroup} /\ req.by \in Users /\ req.who \in SUBSET Users
      /\ req.op = "leave" => req.who = {req.by}
    BY <1>3, RequestFacts DEF SyncInv
<1>5. /\ DOMAIN groups \subseteq Groups
      /\ \A g \in DOMAIN groups : /\ groups[g].members \in SUBSET Users
                                  /\ groups[g] \in GroupRow /\ g \in Known
    BY RowsAre DEF IInv
<1>6. CASE DbFails
    <2>1. PICK res : res = [req |-> req, ok |-> FALSE, group |-> req.group, members |-> {}]
        OBVIOUS
    <2>2. /\ results' = Append(results, res) /\ failures' = failures + 1 /\ groups' = groups
        BY <1>1, <1>6, <2>1 DEF DbFails, Reply, tables
    <2>3. res \in AnyResult BY <1>3, <1>4, <2>1 DEF AnyResult
    <2>4. res.req = req BY <2>1
    <2>5. failures' \in Nat /\ failures' # 0 BY <1>4, <2>2
    <2>6. QED BY <1>1, <1>2, <2>2, <2>3, <2>4, <2>5, ReadTaken
<1>7. CASE DbStep
    <2>1. /\ CreateGroup(req) \/ AddMember(req) \/ RemoveMember(req) \/ LeaveGroup(req)
             \/ LoadGroupMembers(req) \/ Rejected(req)
          /\ failures' = failures
        BY <1>1, <1>7 DEF DbStep
    <2>2. CASE CreateGroup(req)
        <3>1. PICK g \in Groups :
                 /\ wereIn[g] = {}
                 /\ groups' = [h \in DOMAIN groups \cup {g} |->
                                  IF h = g THEN [creator |-> req.by, members |-> {req.by} \cup req.who]
                                  ELSE groups[h]]
                 /\ Reply(req, TRUE, g, {}) /\ req.op = "create"
            BY <2>2 DEF CreateGroup
        <3>2. g \notin Known BY <3>1 DEF Known
        <3>3. \A h \in DOMAIN groups' : h # g => h \in DOMAIN groups /\ groups'[h] = groups[h]
            BY <3>1
        <3>4. req.op \in {"create", "add", "remove", "leave"} BY <3>1
        <3>5. QED BY <1>1, <1>2, <2>1, <3>1, <3>2, <3>3, <3>4, OperationTaken
    <2>3. ASSUME NEW members \in SUBSET Users, req.op \in {"create", "add", "remove", "leave"},
                 req.group \in DOMAIN groups, Reply(req, TRUE, req.group, {}),
                 groups' = [groups EXCEPT ![req.group].members = members],
                 Self \in groups[req.group].members => Self \in members \/ Self \in Also(req)
          PROVE  SyncInv'
        <3>1. PICK g \in Groups : g = req.group BY <1>5, <2>3
        <3>2. PICK row : row = [groups[g] EXCEPT !.members = members] OBVIOUS
        <3>3. groups[g] \in GroupRow BY <1>5, <2>3, <3>1
        <3>4. row.members = members BY <3>2, <3>3 DEF GroupRow
        <3>5. groups' = [groups EXCEPT ![g] = row] BY <2>3, <3>1, <3>2
        <3>6. /\ \A h \in DOMAIN groups' : h # g => h \in DOMAIN groups /\ groups'[h] = groups[h]
              /\ groups'[g] = row
            BY <2>3, <3>1, <3>5
        <3>7. SelfIn(g)' \/ Self \in Also(req) \/ (g \in DOMAIN groups /\ ~SelfIn(g))
            BY <2>3, <3>1, <3>4, <3>6 DEF SelfIn
        <3>8. Reply(req, TRUE, g, {}) BY <2>3, <3>1
        <3>9. QED BY <1>1, <1>2, <2>1, <2>3, <3>6, <3>7, <3>8, OperationTaken
    <2>4. CASE AddMember(req)
        <3>1. /\ req.op = "add" /\ req.group \in DOMAIN groups
              /\ groups' = [groups EXCEPT ![req.group].members = @ \cup req.who]
              /\ Reply(req, TRUE, req.group, {})
            BY <2>4 DEF AddMember, MayAdd, Exists
        <3>2. PICK members \in SUBSET Users : members = groups[req.group].members \cup req.who
            BY <1>4, <1>5, <3>1
        <3>3. groups' = [groups EXCEPT ![req.group].members = members] BY <3>1, <3>2
        <3>4. QED BY <2>3, <3>1, <3>2, <3>3
    <2>5. CASE RemoveMember(req)
        <3>1. /\ req.op = "remove" /\ req.group \in DOMAIN groups
              /\ groups' = [groups EXCEPT ![req.group].members = @ \ req.who]
              /\ Reply(req, TRUE, req.group, {})
            BY <2>5 DEF RemoveMember, MayRemove, Exists
        <3>2. PICK members \in SUBSET Users : members = groups[req.group].members \ req.who
            BY <1>5, <3>1
        <3>3. groups' = [groups EXCEPT ![req.group].members = members] BY <3>1, <3>2
        <3>4. Also(req) = req.who BY <3>1 DEF Also
        <3>5. QED BY <2>3, <3>1, <3>2, <3>3, <3>4
    <2>6. CASE LeaveGroup(req)
        <3>1. /\ req.op = "leave" /\ req.group \in DOMAIN groups
              /\ groups' = IF req.by = groups[req.group].creator
                           THEN [h \in DOMAIN groups \ {req.group} |-> groups[h]]
                           ELSE [groups EXCEPT ![req.group].members = @ \ req.who]
              /\ Reply(req, TRUE, req.group, {})
            BY <2>6 DEF LeaveGroup, MayLeave, Exists
        <3>2. CASE req.by # groups[req.group].creator
            <4>1. PICK members \in SUBSET Users : members = groups[req.group].members \ req.who
                BY <1>5, <3>1
            <4>2. groups' = [groups EXCEPT ![req.group].members = members] BY <3>1, <3>2, <4>1
            <4>3. Also(req) = req.who BY <3>1 DEF Also
            <4>4. QED BY <2>3, <3>1, <4>1, <4>2, <4>3
        <3>3. CASE req.by = groups[req.group].creator
            <4>1. PICK g \in Groups : g = req.group BY <1>5, <3>1
            <4>2. groups' = [h \in DOMAIN groups \ {g} |-> groups[h]] BY <3>1, <3>3, <4>1
            <4>3. /\ \A h \in DOMAIN groups' : h # g => h \in DOMAIN groups /\ groups'[h] = groups[h]
                  /\ g \notin DOMAIN groups'
                BY <4>2
            <4>4. Reply(req, TRUE, g, {}) /\ req.op \in {"create", "add", "remove", "leave"}
                BY <3>1, <4>1
            <4>5. QED BY <1>1, <1>2, <2>1, <4>3, <4>4, OperationTaken
        <3>4. QED BY <3>2, <3>3
    <2>7. CASE LoadGroupMembers(req)
        <3>1. /\ req.op \in {"notify", "message"} /\ req.group \in DOMAIN groups
              /\ Reply(req, TRUE, req.group, groups[req.group].members)
              /\ groups' = groups
            BY <2>7 DEF LoadGroupMembers, Exists
        <3>2. PICK members \in SUBSET Users : members = groups[req.group].members
            BY <1>5, <3>1
        <3>3. PICK res : res = [req |-> req, ok |-> TRUE, group |-> req.group, members |-> members]
            OBVIOUS
        <3>4. results' = Append(results, res) BY <3>1, <3>2, <3>3 DEF Reply
        <3>5. res \in AnyResult BY <1>3, <1>4, <3>3 DEF AnyResult
        <3>6. res.req = req /\ res.ok /\ res.group = req.group /\ res.members = members BY <3>3
        <3>7. ~ListFor(req) /\ req.op # "list" BY <3>1 DEF ListFor
        <3>8. ASSUME NEW g \in DOMAIN groups
              PROVE  \/ res \in ResultGood(g)
                     \/ /\ res \notin ResultBad(g)
                        /\ ~(req.op = "notify" /\ req.group = g /\ Tells(req, groups[g].members))
            <4>1. CASE req.op = "notify" /\ req.group = g /\ Tells(req, groups[g].members)
                BY <3>2, <3>5, <3>6, <4>1 DEF ResultGood
            <4>2. res \notin ResultBad(g)
                <5>1. ~(res.group = g /\ Self \in res.members /\ ~SelfIn(g))
                    BY <3>2, <3>6 DEF SelfIn
                <5>2. QED BY <3>1, <3>6, <3>7, <5>1 DEF ResultBad
            <4>3. QED BY <4>1, <4>2
        <3>9. QED BY <1>1, <1>2, <1>4, <2>1, <3>1, <3>4, <3>5, <3>6, <3>7, <3>8, ReadTaken
    <2>8. CASE Rejected(req)
        <3>1. /\ req.op \in {"create", "add", "remove", "leave", "notify", "message"}
              /\ req.op = "notify" => req.group \notin DOMAIN groups
              /\ Reply(req, FALSE, req.group, {}) /\ groups' = groups
            BY <2>8 DEF Rejected, Exists
        <3>2. PICK res : res = [req |-> req, ok |-> FALSE, group |-> req.group, members |-> {}]
            OBVIOUS
        <3>3. results' = Append(results, res) BY <3>1, <3>2 DEF Reply
        <3>4. res \in AnyResult BY <1>3, <1>4, <3>2 DEF AnyResult
        <3>5. res.req = req /\ ~res.ok BY <3>2
        <3>6. ~ListFor(req) /\ req.op # "list" BY <3>1 DEF ListFor
        <3>7. \A g : res \notin ResultBad(g) BY <3>1, <3>5, <3>6 DEF ResultBad
        <3>8. QED BY <1>1, <1>2, <1>4, <2>1, <3>1, <3>3, <3>4, <3>5, <3>6, <3>7, ReadTaken
    <2>9. QED BY <2>1, <2>2, <2>4, <2>5, <2>6, <2>7, <2>8
<1>8. QED BY <1>2, <1>6, <1>7
-----------------------------------------------------------------------------
(***************************************************************************)
(* The main thread handles the first result                                *)
(***************************************************************************)

\* At most one notification is added, of a request that was waited for till now
LEMMA OnceHandled ==
    ASSUME NotifyOnce, NEW S, results \in Seq(S), results # <<>>, results' = Tail(results),
           NEW n \in Nat, n = Len(dbQueue), NEW k,
           \A i \in 1..Len(dbQueue') :
              \/ i \in 1..n /\ dbQueue'[i] = dbQueue[i]
              \/ i = n + 1 /\ dbQueue'[i].id = k /\ ~Announced(k) /\ Announced(k)',
           NEW h, h = Head(results).req,
           \A id : Announced(id) /\ ~(h.op = "notify" /\ id = h.id) => Announced(id)'
    PROVE  NotifyOnce'
<1>1. PICK rs \in Seq(S) : rs = results OBVIOUS
<1>2. PICK m \in Nat : m + 1 = Len(rs)
    <2>1. Len(rs) \in Nat /\ 1 \in 1..Len(rs) BY <1>1, Rest
    <2>2. Len(rs) - 1 \in Nat /\ (Len(rs) - 1) + 1 = Len(rs) BY <2>1
    <2>3. QED BY <2>2
<1>3. PICK q, p, ps : q = dbQueue /\ p = dbQueue' /\ ps = results' OBVIOUS
<1>4. /\ Len(ps) = m /\ h = rs[1].req /\ 1 \in 1..(m + 1)
      /\ \A i \in 1..m : i + 1 \in 1..(m + 1) /\ i + 1 # 1 /\ ps[i] = rs[i + 1]
    <2>1. (m + 1) - 1 = m /\ \A i \in 1..m : i + 1 # 1 OBVIOUS
    <2>2. ps = Tail(rs) /\ rs # <<>> BY <1>1, <1>3
    <2>3. QED BY <1>1, <1>2, <2>1, <2>2, Rest
<1>5. \A i \in 1..Len(p) : \/ i \in 1..n /\ p[i] = q[i]
                           \/ i = n + 1 /\ p[i].id = k /\ ~Announced(k) /\ Announced(k)'
    BY <1>3
<1>6. /\ \A i \in 1..n : q[i].op = "notify" => Announced(q[i].id)
      /\ \A i \in 1..(m + 1) : rs[i].req.op = "notify" => Announced(rs[i].req.id)
      /\ \A i, j \in 1..n :
            q[i].op = "notify" /\ q[j].op = "notify" /\ q[i].id = q[j].id => i = j
      /\ \A i, j \in 1..(m + 1) :
            rs[i].req.op = "notify" /\ rs[j].req.op = "notify" /\ rs[i].req.id = rs[j].req.id
               => i = j
      /\ \A i \in 1..n, j \in 1..(m + 1) :
            q[i].op = "notify" /\ rs[j].req.op = "notify" => q[i].id # rs[j].req.id
    BY <1>1, <1>2, <1>3 DEF NotifyOnce
<1>7. ASSUME NEW i \in 1..Len(p), p[i].op = "notify"
      PROVE  Announced(p[i].id)'
    <2>1. CASE i \in 1..n /\ p[i] = q[i]
        <3>1. Announced(q[i].id) /\ ~(h.op = "notify" /\ q[i].id = h.id)
            BY <1>4, <1>6, <1>7, <2>1
        <3>2. QED BY <2>1, <3>1
    <2>2. QED BY <1>5, <2>1
<1>8. ASSUME NEW i \in 1..m, ps[i].req.op = "notify"
      PROVE  /\ Announced(ps[i].req.id) /\ Announced(ps[i].req.id)'
             /\ \E j \in 1..(m + 1) : j = i + 1 /\ ps[i] = rs[j]
    <2>1. PICK j : j = i + 1 OBVIOUS
    <2>2. j \in 1..(m + 1) /\ j # 1 /\ ps[i] = rs[j] BY <1>4, <2>1
    <2>3. Announced(rs[j].req.id) /\ ~(h.op = "notify" /\ rs[j].req.id = h.id)
        BY <1>4, <1>6, <1>8, <2>2
    <2>4. QED BY <2>1, <2>2, <2>3
<1>9. ASSUME NEW i \in 1..Len(p), NEW j \in 1..Len(p), p[i].op = "notify", p[j].op = "notify",
             p[i].id = p[j].id
      PROVE  i = j
    <2>1. CASE i \in 1..n /\ p[i] = q[i] /\ j \in 1..n /\ p[j] = q[j]
        BY <1>6, <1>9, <2>1
    <2>2. CASE i \in 1..n /\ p[i] = q[i] /\ p[j].id = k /\ ~Announced(k)
        BY <1>6, <1>9, <2>2
    <2>3. CASE j \in 1..n /\ p[j] = q[j] /\ p[i].id = k /\ ~Announced(k)
        BY <1>6, <1>9, <2>3
    <2>4. QED BY <1>5, <2>1, <2>2, <2>3
<1>10. ASSUME NEW i \in 1..m, NEW j \in 1..m, ps[i].req.op = "notify", ps[j].req.op = "notify",
              ps[i].req.id = ps[j].req.id
       PROVE  i = j
    <2>1. PICK a \in 1..(m + 1) : a = i + 1 /\ ps[i] = rs[a] BY <1>8, <1>10
    <2>2. PICK b \in 1..(m + 1) : b = j + 1 /\ ps[j] = rs[b] BY <1>8, <1>10
    <2>3. a = b BY <1>6, <1>10, <2>1, <2>2
    <2>4. QED BY <2>1, <2>2, <2>3
<1>11. ASSUME NEW i \in 1..Len(p), NEW j \in 1..m, p[i].op = "notify", ps[j].req.op = "notify"
       PROVE  p[i].id # ps[j].req.id
    <2>1. PICK b \in 1..(m + 1) : b = j + 1 /\ ps[j] = rs[b] BY <1>8, <1>11
    <2>2. CASE i \in 1..n /\ p[i] = q[i] BY <1>6, <1>11, <2>1, <2>2
    <2>3. CASE p[i].id = k /\ ~Announced(k) BY <1>8, <1>11, <2>3
    <2>4. QED BY <1>5, <2>2, <2>3
<1>12. p = dbQueue' /\ ps = results' /\ Len(ps) = m BY <1>3, <1>4
<1>13. /\ \A i \in 1..Len(p) : p[i].op = "notify" => Announced(p[i].id)'
       /\ \A i \in 1..m : ps[i].req.op = "notify" => Announced(ps[i].req.id)'
       /\ \A i, j \in 1..Len(p) :
             p[i].op = "notify" /\ p[j].op = "notify" /\ p[i].id = p[j].id => i = j
       /\ \A i, j \in 1..m :
             ps[i].req.op = "notify" /\ ps[j].req.op = "notify" /\ ps[i].req.id = ps[j].req.id
                => i = j
       /\ \A i \in 1..Len(p), j \in 1..m :
             p[i].op = "notify" /\ ps[j].req.op = "notify" => p[i].id # ps[j].req.id
    BY <1>7, <1>8, <1>9, <1>10, <1>11
<1>14. QED BY <1>12, <1>13 DEF NotifyOnce, Announced

\* The packets carry what the first result says of g
Carried(packets, g) ==
    /\ Head(results) \notin ResultBad(g) \/ Head(results) \in ResultGood(g) =>
          Clean(packets, PacketBad(g))
    /\ Head(results) \in ResultGood(g) => \E i \in 1..Len(packets) : packets[i] \in PacketGood(g)

\* The entries of the notifications that are under way are kept
EntriesKept ==
    /\ \A i \in 1..Len(dbQueue) : dbQueue[i].op = "notify" =>
          pendingNotifications'[dbQueue[i].id] = pendingNotifications[dbQueue[i].id]
    /\ \A i \in 1..Len(results') : results'[i].req.op = "notify" =>
          pendingNotifications'[results'[i].req.id] = pendingNotifications[results'[i].req.id]

LEMMA ComesHandled ==
    ASSUME results \in Seq(AnyResult), results # <<>>, results' = Tail(results), EntriesKept,
           toClient \in Seq(ClientPacket), NEW packets \in Seq(ClientPacket),
           toClient' = toClient \o packets, UNCHANGED <<groups, session, localGroups>>,
           NEW g, GroupComes(g), Carried(packets, g)
    PROVE  GroupComes(g)'
<1>1. PICK a, b : a = ResultGood(g) /\ b = ResultBad(g) OBVIOUS
<1>2. PICK c, d : c = PacketGood(g) /\ d = PacketBad(g) OBVIOUS
<1>3. PICK stored : stored = localGroups OBVIOUS
<1>4. PICK rs \in Seq(AnyResult) : rs = results OBVIOUS
<1>5. PICK ps \in Seq(ClientPacket) : ps = toClient OBVIOUS
<1>6. LastWord(rs, a, b, ps, c, d, Agrees(stored, g))
    BY <1>1, <1>2, <1>3, <1>4, <1>5 DEF GroupComes
<1>7. PICK now : now <=> Agrees(stored, g) OBVIOUS
<1>8. LastWord(rs, a, b, ps, c, d, now) BY <1>6, <1>7 DEF LastWord
<1>9. /\ Head(rs) \notin b \/ Head(rs) \in a => Clean(packets, d)
      /\ Head(rs) \in a => \E i \in 1..Len(packets) : packets[i] \in c
    BY <1>1, <1>2, <1>4 DEF Carried
<1>10. LastWord(Tail(rs), a, b, ps \o packets, c, d, now)
    BY <1>4, <1>8, <1>9, ResultToPackets
<1>11. PICK a2, b2 : a2 = ResultGood(g)' /\ b2 = ResultBad(g)' OBVIOUS
<1>12. (SelfIn(g)' <=> SelfIn(g)) /\ (\A list : Agrees(list, g)' <=> Agrees(list, g))
    BY DEF SelfIn, Agrees
<1>13. /\ c = PacketGood(g)' /\ d = PacketBad(g)' /\ b2 = b
    <2>1. PacketGood(g)' = PacketGood(g) BY <1>12 DEF PacketGood
    <2>2. PacketBad(g)' = PacketBad(g) BY <1>12 DEF PacketBad
    <2>3. ResultBad(g)' = ResultBad(g) BY <1>12 DEF ResultBad, ListFor
    <2>4. QED BY <1>1, <1>2, <1>11, <2>1, <2>2, <2>3
<1>14. PICK ts : ts = Tail(rs) OBVIOUS
<1>15. ASSUME NEW i \in 1..Len(ts), ts[i] \in a PROVE ts[i] \in a2
    <2>1. PICK x \in AnyResult : x = ts[i] BY <1>1, <1>15 DEF ResultGood
    <2>2. x.req.op = "notify" => pendingNotifications'[x.req.id] = pendingNotifications[x.req.id]
        BY <1>4, <1>14, <2>1 DEF EntriesKept
    <2>3. CASE /\ x.req.op \in {"create", "add", "remove", "leave"} /\ x.ok /\ x.group = g
               /\ SelfIn(g) \/ Self \in Also(x.req)
        BY <1>11, <1>12, <2>1, <2>3 DEF ResultGood
    <2>4. CASE x.req.op = "notify" /\ x.ok /\ x.group = g /\ Tells(x.req, x.members)
        <3>1. Tells(x.req, x.members)' BY <2>2, <2>4 DEF Tells
        <3>2. QED BY <1>11, <2>1, <2>4, <3>1 DEF ResultGood
    <2>5. CASE ListFor(x.req) /\ x.ok /\ Agrees(x.list, g)
        <3>1. ListFor(x.req)' /\ Agrees(x.list, g)' BY <1>12, <2>5 DEF ListFor
        <3>2. QED BY <1>11, <2>1, <2>5, <3>1 DEF ResultGood
    <2>6. QED BY <1>1, <1>15, <2>1, <2>3, <2>4, <2>5 DEF ResultGood
<1>16. LastWord(ts, a, b, ps \o packets, c, d, now) BY <1>10, <1>14
<1>17. LastWord(ts, a2, b2, ps \o packets, c, d, now)
    BY <1>13, <1>15, <1>16, SameWord
<1>18. LastWord(ts, a2, b2, ps \o packets, c, d, Agrees(stored, g)')
    BY <1>7, <1>12, <1>17 DEF LastWord
<1>19. stored = localGroups' /\ ts = results' /\ toClient' = ps \o packets
    BY <1>3, <1>4, <1>5, <1>14
<1>20. QED BY <1>11, <1>13, <1>18, <1>19 DEF GroupComes, Agrees, SelfIn

LEMMA HandledSync ==
    ASSUME IInv, SyncInv, results # <<>>, results' = Tail(results), NotifyOnce', EntriesKept,
           NEW packets \in Seq(ClientPacket), toClient' = toClient \o packets,
           Continues(dbQueue, dbQueue'),
           \A i \in 1..Len(dbQueue') : dbQueue'[i].op = "loadOffline" =>
              i \in 1..Len(dbQueue) /\ dbQueue[i].op = "loadOffline",
           UNCHANGED <<groups, session, localGroups, connected, routed, toServer, inProgress,
                       recovery, failures>>,
           failures = 0 /\ connected /\ routed =>
              \A g \in DOMAIN groups : WillTell(g)' \/ Carried(packets, g),
           connected /\ ListFor(Head(results).req) =>
              \E i \in 1..Len(packets) : packets[i].kind = "groupListAck",
           failures = 0 =>
              \A i \in 1..Len(packets) : packets[i].kind = "groupListAck" => packets[i].ok
    PROVE  SyncInv'
<1>1. results \in Seq(AnyResult) /\ toClient \in Seq(ClientPacket) BY SyncTyped
<1>2. Continues(toClient, toClient') BY <1>1, Continued
<1>3. ListDue => ListDue' BY <1>2, ListDueGrows
<1>4. GroupsCome'
    <2>1. SUFFICES ASSUME failures = 0, connected, routed, ~ListDue, NEW g \in DOMAIN groups
                   PROVE  WillTell(g)' \/ GroupComes(g)'
        BY <1>3 DEF GroupsCome
    <2>2. WillTell(g) \/ GroupComes(g) BY <2>1 DEF SyncInv, GroupsCome
    <2>3. WillTell(g) => WillTell(g)' BY TellsStill DEF EntriesKept
    <2>4. GroupComes(g) /\ Carried(packets, g) => GroupComes(g)' BY <1>1, ComesHandled
    <2>5. QED BY <2>1, <2>2, <2>3, <2>4
<1>5. PICK rs, ps, ts : rs = results /\ ps = results' /\ ts = toClient' OBVIOUS
<1>6. /\ Head(rs) = rs[1]
      /\ \A i \in 1..Len(rs) : i = 1 \/ (i - 1 \in 1..(Len(rs) - 1) /\ ps[i - 1] = rs[i])
      /\ Len(ps) = Len(rs) - 1 /\ Len(rs) \in Nat
      /\ \A i \in 1..(Len(rs) - 1) : i + 1 \in 1..Len(rs) /\ ps[i] = rs[i + 1]
    BY <1>1, <1>5, Rest
<1>7. /\ Len(ts) = Len(toClient) + Len(packets) /\ Len(toClient) \in Nat /\ Len(packets) \in Nat
      /\ \A i \in 1..Len(toClient) : i \in 1..Len(ts) /\ ts[i] = toClient[i]
      /\ \A i \in 1..Len(packets) : Len(toClient) + i \in 1..Len(ts)
                                    /\ ts[Len(toClient) + i] = packets[i]
      /\ \A i \in 1..Len(ts) : i \in 1..Len(toClient) \/ i - Len(toClient) \in 1..Len(packets)
      /\ \A i \in 1..Len(ts) :
            i \notin 1..Len(toClient) => ts[i] = packets[i - Len(toClient)]
    BY <1>1, <1>5, Longer
<1>8. ListUnderWay /\ connected => ListUnderWay'
    <2>1. toServer => ListUnderWay' BY DEF ListUnderWay
    <2>2. ASSUME NEW i \in 1..Len(dbQueue), ListFor(dbQueue[i]) PROVE ListUnderWay'
        <3>1. PICK p : p = dbQueue' OBVIOUS
        <3>2. i \in 1..Len(p) /\ p[i] = dbQueue[i] BY <3>1 DEF Continues
        <3>3. \E j \in 1..Len(dbQueue') : dbQueue'[j].op = "list" /\ dbQueue'[j].id = session'
            BY <2>2, <3>1, <3>2 DEF ListFor
        <3>4. QED BY <3>3 DEF ListUnderWay, ListFor
    <2>3. ASSUME NEW i \in 1..Len(ts), ts[i].kind = "groupListAck" PROVE ListUnderWay'
        BY <1>5, <2>3 DEF ListUnderWay
    <2>4. ASSUME NEW i \in 1..Len(rs), ListFor(rs[i].req), connected PROVE ListUnderWay'
        <3>1. CASE i = 1
            <4>1. PICK j \in 1..Len(packets) : packets[j].kind = "groupListAck"
                BY <1>5, <1>6, <2>4, <3>1
            <4>2. PICK k : k = Len(toClient) + j OBVIOUS
            <4>3. k \in 1..Len(ts) /\ ts[k] = packets[j] BY <1>7, <4>2
            <4>4. QED BY <2>3, <4>1, <4>3
        <3>2. CASE i # 1
            <4>1. PICK k : k = i - 1 OBVIOUS
            <4>2. k \in 1..Len(ps) /\ ps[k] = rs[i] BY <1>6, <3>2, <4>1
            <4>3. \E j \in 1..Len(results') : results'[j].req.op = "list"
                                              /\ results'[j].req.id = session'
                BY <1>5, <2>4, <4>2 DEF ListFor
            <4>4. QED BY <4>3 DEF ListUnderWay, ListFor
        <3>3. QED BY <3>1, <3>2
    <2>5. ASSUME NEW i \in 1..Len(toClient), toClient[i].kind = "groupListAck"
          PROVE  ListUnderWay'
        BY <1>7, <2>3, <2>5
    <2>6. QED BY <1>5, <2>1, <2>2, <2>4, <2>5 DEF ListUnderWay
<1>9. ListComes' BY <1>8 DEF SyncInv, ListComes
<1>10. RowsFirst'
    <2>1. SUFFICES ASSUME NEW i \in 1..Len(dbQueue'), dbQueue'[i].op = "loadOffline"
                   PROVE  i = 1 /\ (connected => ListDue')
        BY DEF RowsFirst
    <2>2. i \in 1..Len(dbQueue) /\ dbQueue[i].op = "loadOffline" BY <2>1
    <2>3. QED BY <1>3, <2>2 DEF SyncInv, RowsFirst
<1>11. ListsLoaded'
    <2>1. SUFFICES ASSUME failures = 0
                   PROVE  /\ \A i \in 1..Len(ps) : ps[i].req.op = "list" => ps[i].ok
                          /\ \A i \in 1..Len(ts) : ts[i].kind = "groupListAck" => ts[i].ok
        BY <1>5 DEF ListsLoaded
    <2>2. /\ \A i \in 1..Len(rs) : rs[i].req.op = "list" => rs[i].ok
          /\ \A i \in 1..Len(toClient) : toClient[i].kind = "groupListAck" => toClient[i].ok
        BY <1>5, <2>1 DEF SyncInv, ListsLoaded
    <2>3. \A i \in 1..Len(ps) : ps[i].req.op = "list" => ps[i].ok
        BY <1>6, <2>2
    <2>4. ASSUME NEW i \in 1..Len(ts), ts[i].kind = "groupListAck" PROVE ts[i].ok
        <3>1. CASE i \in 1..Len(toClient) BY <1>7, <2>2, <2>4, <3>1
        <3>2. CASE i \notin 1..Len(toClient)
            <4>1. PICK k : k = i - Len(toClient) OBVIOUS
            <4>2. k \in 1..Len(packets) /\ ts[i] = packets[k] BY <1>7, <3>2, <4>1
            <4>3. QED BY <2>1, <2>4, <4>2
        <3>3. QED BY <3>1, <3>2
    <2>5. QED BY <2>3, <2>4
<1>12. QED BY <1>4, <1>9, <1>10, <1>11 DEF SyncInv

LEMMA FirstResult ==
    ASSUME IInv, results # <<>>
    PROVE  /\ Head(results) \in RightResults /\ Head(results) \in AnyResult
           /\ Head(results).req \in AnyRequest
           /\ \E i \in 1..Len(results) : results[i] = Head(results)
<1>1. Head(results) \in RightResults /\ Head(results).req \in RightRequests
    BY HeadResult, ResultFacts DEF IInv
<1>2. PICK rs \in Seq(AnyResult) : rs = results BY SyncTyped
<1>3. 1 \in 1..Len(rs) /\ Head(rs) = rs[1] BY <1>2, Rest
<1>4. QED BY <1>1, <1>2, <1>3, SyncTyped

\* At most one packet, and if it is to be written and can be, one
LEMMA WrittenPacket ==
    ASSUME toClient \in Seq(ClientPacket), NEW alive, NEW p, alive => p \in ClientPacket,
           toClient' = IF alive THEN Written(<<p>>) ELSE toClient
    PROVE  \E packets \in Seq(ClientPacket) :
              /\ toClient' = toClient \o packets
              /\ \A i \in 1..Len(packets) : packets[i] = p /\ alive
              /\ connected /\ alive => \E i \in 1..Len(packets) : packets[i] = p
<1>1. CASE alive /\ connected
    <2>1. PICK s : s = <<p>> OBVIOUS
    <2>2. s \in Seq(ClientPacket) /\ Len(s) = 1 /\ s[1] = p BY <1>1, <2>1
    <2>3. toClient' = toClient \o s BY <1>1, <2>1 DEF Written
    <2>4. \A i \in 1..Len(s) : s[i] = p BY <2>2
    <2>5. \E i \in 1..Len(s) : s[i] = p BY <2>2
    <2>6. QED BY <1>1, <2>2, <2>3, <2>4, <2>5
<1>2. CASE ~(alive /\ connected)
    <2>1. toClient' = toClient BY <1>2 DEF Written
    <2>2. PICK none \in Seq(ClientPacket) : none = <<>> /\ Len(none) = 0 BY EmptySeq
    <2>3. toClient \o none = toClient BY <2>2, ConcatEmptySeq
    <2>4. toClient' = toClient \o none BY <2>1, <2>3
    <2>5. \A i \in 1..Len(none) : FALSE BY <2>2
    <2>6. QED BY <1>2, <2>4, <2>5
<1>3. QED BY <1>1, <1>2

\* Packets none of which is a list, or bad for g
LEMMA OperationSync ==
    ASSUME IInv, SyncInv, AnswerOp
    PROVE  SyncInv'
<1>1. PICK res : res = Head(results) OBVIOUS
<1>2. /\ results # <<>> /\ results' = Tail(results)
      /\ res.req.op \in {"create", "add", "remove", "leave"}
      /\ res.req.id \in pendingRequests /\ pendingRequests' = pendingRequests \ {res.req.id}
      /\ Announce(res)
      /\ UNCHANGED <<groups, session, localGroups, connected, routed, toServer, inProgress,
                     recovery, failures, nextId>>
    BY <1>1 DEF AnswerOp, OnCompleted, tables, client, localTables, flags
<1>3. res \in RightResults /\ res \in AnyResult /\ res.req \in RightRequests
    BY <1>1, <1>2, FirstResult, ResultFacts
<1>4. /\ res.group \in Groups \cup {NoGroup} /\ res.ok \in BOOLEAN
      /\ res.req.id \in Nat /\ res.req.id < nextId /\ res.req.by \in Users
      /\ res.req.who \in SUBSET Users
    BY <1>2, <1>3, ResultFacts, RequestFacts DEF Ids
<1>5. PICK p : p = [kind |-> "opAck", op |-> res.req.op, ok |-> res.ok,
                    group |-> res.group, who |-> res.req.who]
    OBVIOUS
<1>6. p \in ClientPacket BY <1>2, <1>4, <1>5 DEF ClientPacket
<1>7. dbQueue \in Seq(AnyRequest) /\ toClient \in Seq(ClientPacket)
      /\ results \in Seq(AnyResult)
    BY SyncTyped
<1>8. PICK packets \in Seq(ClientPacket) :
         /\ toClient' = toClient \o packets
         /\ \A i \in 1..Len(packets) : packets[i] = p
    <2>1. PICK alive : alive = (res.req.id \in asked) OBVIOUS
    <2>2. toClient' = IF alive THEN Written(<<p>>) ELSE toClient
        BY <1>1, <1>5, <2>1 DEF AnswerOp, Answer
    <2>3. QED BY <1>6, <1>7, <2>2, WrittenPacket
<1>9. \A i \in 1..Len(packets) : packets[i].kind = "opAck" BY <1>5, <1>8
<1>10. \A g : Clean(packets, PacketBad(g)) BY <1>9 DEF Clean, PacketBad
<1>11. ~ListFor(res.req) /\ res.req.op # "notify" BY <1>2 DEF ListFor
<1>12. PICK r : r = [op |-> "notify", id |-> res.req.id, group |-> res.group,
                     by |-> res.req.by, who |-> {}]
    OBVIOUS
<1>13. r \in AnyRequest /\ r.op = "notify" /\ r.id = res.req.id /\ r.group = res.group
    <2>1. {} \in SUBSET Users OBVIOUS
    <2>2. r \in AnyRequest BY <1>4, <1>12, <2>1 DEF AnyRequest
    <2>3. QED BY <1>12, <2>2
<1>14. PICK n \in Nat : n = Len(dbQueue) BY <1>7, LenProperties
<1>15. CASE ~res.ok
    <2>1. dbQueue' = dbQueue /\ pendingNotifications' = pendingNotifications
        BY <1>2, <1>15 DEF Announce
    <2>2. Continues(dbQueue, dbQueue') BY <1>7, <2>1, Continued
    <2>3. \A id : Announced(id) => Announced(id)' BY <1>2, <2>1 DEF Announced
    <2>4. NotifyOnce'
        <3>1. \A i \in 1..Len(dbQueue') : i \in 1..n /\ dbQueue'[i] = dbQueue[i]
            BY <1>14, <2>1
        <3>2. QED BY <1>1, <1>2, <1>7, <1>14, <2>3, <3>1, OnceHandled DEF SyncInv
    <2>5. EntriesKept BY <2>1 DEF EntriesKept
    <2>6. \A g : res \notin ResultGood(g)
        BY <1>11, <1>15 DEF ResultGood
    <2>7. \A g : Carried(packets, g) BY <1>1, <1>10, <2>6 DEF Carried
    <2>8. QED BY <1>1, <1>2, <1>8, <1>9, <1>11, <2>1, <2>2, <2>4, <2>5, <2>7, HandledSync
<1>16. CASE res.ok
    <2>1. PICK entries : entries = [i \in DOMAIN pendingNotifications \cup {r.id} |->
                                      IF i = r.id THEN Also(res.req) ELSE pendingNotifications[i]]
        OBVIOUS
    <2>2. dbQueue' = Append(dbQueue, r) /\ pendingNotifications' = entries
        BY <1>2, <1>12, <1>13, <1>16, <2>1 DEF Announce, NotifyLater, Post
    <2>3. /\ DOMAIN entries = DOMAIN pendingNotifications \cup {r.id}
          /\ entries[r.id] = Also(res.req)
          /\ \A i \in DOMAIN pendingNotifications : i # r.id => entries[i] = pendingNotifications[i]
        BY <2>1
    <2>4. PICK q : q = dbQueue' OBVIOUS
    <2>5. /\ Len(q) = n + 1 /\ n + 1 \in 1..Len(q) /\ q[n + 1] = r
          /\ \A i \in 1..n : q[i] = dbQueue[i]
          /\ \A i \in 1..(n + 1) : i \in 1..n \/ i = n + 1
        BY <1>7, <1>13, <1>14, <2>2, <2>4, OneMore
    <2>6. Continues(dbQueue, dbQueue') BY <1>7, <1>13, <2>2, Continued
    <2>7. ~Announced(r.id) BY <1>2, <1>13 DEF Announced
    <2>8. Announced(r.id)' BY <1>2, <1>4, <1>13, <2>2, <2>3 DEF Announced
    <2>9. \A id : Announced(id) => Announced(id)' BY <1>2, <2>2, <2>3 DEF Announced
    <2>10. NotifyOnce'
        <3>1. \A i \in 1..Len(dbQueue') :
                 \/ i \in 1..n /\ dbQueue'[i] = dbQueue[i]
                 \/ i = n + 1 /\ dbQueue'[i].id = r.id /\ ~Announced(r.id) /\ Announced(r.id)'
            BY <2>4, <2>5, <2>7, <2>8
        <3>2. QED BY <1>1, <1>2, <1>7, <1>14, <2>9, <3>1, OnceHandled DEF SyncInv
    <2>11. \A id : Announced(id) => entries[id] = pendingNotifications[id]
        BY <2>3, <2>7 DEF Announced
    <2>12. EntriesKept
        <3>1. \A i \in 1..Len(dbQueue) : dbQueue[i].op = "notify" => Announced(dbQueue[i].id)
            BY DEF SyncInv, NotifyOnce
        <3>2. PICK rs \in Seq(AnyResult) : rs = results BY <1>7
        <3>3. PICK ps : ps = results' OBVIOUS
        <3>4. \A i \in 1..Len(ps) : \E j \in 1..Len(rs) : ps[i] = rs[j]
            BY <1>2, <3>2, <3>3, Rest
        <3>5. \A j \in 1..Len(rs) : rs[j].req.op = "notify" => Announced(rs[j].req.id)
            BY <3>2 DEF SyncInv, NotifyOnce
        <3>6. \A i \in 1..Len(ps) : ps[i].req.op = "notify" => Announced(ps[i].req.id)
            BY <3>4, <3>5
        <3>7. QED BY <2>2, <2>11, <3>1, <3>3, <3>6 DEF EntriesKept
    <2>13. ASSUME NEW g PROVE WillTell(g)' \/ Carried(packets, g)
        <3>1. CASE res \in ResultGood(g)
            <4>1. res.group = g /\ (SelfIn(g) \/ Self \in Also(res.req))
                BY <1>2, <1>11, <3>1 DEF ResultGood
            <4>2. Self \in groups'[g].members \/ Self \in entries[r.id]
                BY <1>2, <2>3, <4>1 DEF SelfIn
            <4>3. PICK k \in 1..Len(q) : q[k] = r BY <2>5
            <4>4. WillTell(g)'
                BY <1>13, <2>2, <2>4, <4>1, <4>2, <4>3 DEF WillTell, Tells
            <4>5. QED BY <4>4
        <3>2. CASE res \notin ResultGood(g)
            BY <1>1, <1>10, <3>2 DEF Carried
        <3>3. QED BY <3>1, <3>2
    <2>14. \A i \in 1..Len(dbQueue') : dbQueue'[i].op = "loadOffline" =>
              i \in 1..Len(dbQueue) /\ dbQueue[i].op = "loadOffline"
        <3>1. r.op # "loadOffline" BY <1>13
        <3>2. \A i \in 1..Len(q) : q[i].op = "loadOffline" => i \in 1..n /\ q[i] = dbQueue[i]
            BY <2>5, <3>1
        <3>3. QED BY <1>14, <2>4, <3>2
    <2>15. QED
        BY <1>1, <1>2, <1>8, <1>9, <1>11, <2>6, <2>10, <2>12, <2>13, <2>14, HandledSync
<1>17. QED BY <1>4, <1>15, <1>16

\* A result without consequences for the queue and the notifications
LEMMA AnsweredSync ==
    ASSUME IInv, SyncInv, results # <<>>, results' = Tail(results),
           NEW packets \in Seq(ClientPacket), toClient' = toClient \o packets,
           UNCHANGED <<groups, session, localGroups, connected, routed, toServer, inProgress,
                       recovery, failures, nextId, dbQueue, pendingRequests>>,
           pendingNotifications' = pendingNotifications,
           failures = 0 /\ connected /\ routed =>
              \A g \in DOMAIN groups : Carried(packets, g),
           connected /\ ListFor(Head(results).req) =>
              \E i \in 1..Len(packets) : packets[i].kind = "groupListAck",
           failures = 0 =>
              \A i \in 1..Len(packets) : packets[i].kind = "groupListAck" => packets[i].ok
    PROVE  SyncInv'
<1>1. dbQueue \in Seq(AnyRequest) /\ results \in Seq(AnyResult) BY SyncTyped
<1>2. Continues(dbQueue, dbQueue') BY <1>1, Continued
<1>3. \A id : Announced(id) => Announced(id)' BY DEF Announced
<1>4. NotifyOnce'
    <2>1. PICK n \in Nat : n = Len(dbQueue) BY <1>1, LenProperties
    <2>2. \A i \in 1..Len(dbQueue') : i \in 1..n /\ dbQueue'[i] = dbQueue[i] BY <2>1
    <2>3. PICK h : h = Head(results).req OBVIOUS
    <2>4. QED BY <1>1, <1>3, <2>1, <2>2, <2>3, OnceHandled DEF SyncInv
<1>5. EntriesKept BY DEF EntriesKept
<1>6. QED BY <1>2, <1>4, <1>5, HandledSync

LEMMA ListAnsweredSync ==
    ASSUME IInv, SyncInv, OnGroupListLoaded
    PROVE  SyncInv'
<1>1. PICK res : res = Head(results) OBVIOUS
<1>2. PICK list : list = IF res.ok THEN res.list ELSE NoGroups OBVIOUS
<1>3. PICK p : p = [kind |-> "groupListAck", ok |-> res.ok, list |-> list] OBVIOUS
<1>4. /\ results # <<>> /\ results' = Tail(results) /\ res.req.op = "list"
      /\ toClient' = IF res.req.id = session THEN Written(<<p>>) ELSE toClient
      /\ UNCHANGED <<groups, session, localGroups, connected, routed, toServer, inProgress,
                     recovery, failures, nextId, dbQueue, pendingRequests, pendingNotifications>>
    BY <1>1, <1>2, <1>3
    DEF OnGroupListLoaded, Answer, tables, history, pending, client, localTables, flags
<1>5. res \in RightResults /\ res \in AnyResult
      /\ \E i \in 1..Len(results) : results[i] = res
    BY <1>1, <1>4, FirstResult
<1>6. p \in ClientPacket
    <2>1. PICK f : f = [g \in {} |-> {}] OBVIOUS
    <2>2. DOMAIN f = {} /\ f = [g \in DOMAIN f |-> f[g]] BY <2>1
    <2>3. f \in Listing(GroupRow) BY <2>2, ListingIs
    <2>4. NoGroups \in Listing(GroupRow) BY <2>1, <2>3 DEF NoGroups
    <2>5. list \in Listing(GroupRow) /\ res.ok \in BOOLEAN
        BY <1>2, <1>4, <1>5, <2>4, ResultFacts
    <2>6. QED BY <1>3, <2>5 DEF ClientPacket
<1>7. PICK packets \in Seq(ClientPacket) :
         /\ toClient' = toClient \o packets
         /\ \A i \in 1..Len(packets) : packets[i] = p /\ res.req.id = session
         /\ connected /\ res.req.id = session => \E i \in 1..Len(packets) : packets[i] = p
    <2>1. PICK alive : alive = (res.req.id = session) OBVIOUS
    <2>2. toClient' = IF alive THEN Written(<<p>>) ELSE toClient BY <1>4, <2>1
    <2>3. toClient \in Seq(ClientPacket) BY SyncTyped
    <2>4. QED BY <1>6, <2>1, <2>2, <2>3, WrittenPacket
<1>8. p.kind = "groupListAck" /\ p.ok = res.ok /\ p.list = list BY <1>3
<1>9. failures = 0 => res.ok BY <1>4, <1>5 DEF SyncInv, ListsLoaded
<1>10. ASSUME NEW g, failures = 0, connected PROVE Carried(packets, g)
    <2>1. res.ok /\ p.ok /\ p.list = res.list BY <1>2, <1>8, <1>9, <1>10
    <2>2. CASE ListFor(res.req) /\ Agrees(res.list, g)
        <3>1. p \in PacketGood(g) /\ p \notin PacketBad(g)
            BY <1>6, <1>8, <2>1, <2>2 DEF PacketGood, PacketBad
        <3>2. Clean(packets, PacketBad(g)) BY <1>7, <3>1 DEF Clean
        <3>3. \E i \in 1..Len(packets) : packets[i] \in PacketGood(g)
            BY <1>7, <1>10, <2>2, <3>1 DEF ListFor
        <3>4. QED BY <3>2, <3>3 DEF Carried
    <2>3. CASE ListFor(res.req) /\ ~Agrees(res.list, g)
        <3>1. res \in ResultBad(g) BY <1>5, <2>3 DEF ResultBad
        <3>2. res \notin ResultGood(g) BY <1>4, <2>3 DEF ResultGood
        <3>3. QED BY <1>1, <3>1, <3>2 DEF Carried
    <2>4. CASE ~ListFor(res.req)
        <3>1. \A i \in 1..Len(packets) : FALSE BY <1>4, <1>7, <2>4 DEF ListFor
        <3>2. Clean(packets, PacketBad(g)) BY <3>1 DEF Clean
        <3>3. res \notin ResultGood(g) BY <1>4, <2>4 DEF ResultGood
        <3>4. QED BY <1>1, <3>2, <3>3 DEF Carried
    <2>5. QED BY <2>2, <2>3, <2>4
<1>11. connected /\ ListFor(res.req) => \E i \in 1..Len(packets) : packets[i].kind = "groupListAck"
    BY <1>7, <1>8 DEF ListFor
<1>12. failures = 0 => \A i \in 1..Len(packets) : packets[i].ok
    BY <1>7, <1>8, <1>9
<1>13. QED BY <1>1, <1>4, <1>7, <1>10, <1>11, <1>12, AnsweredSync

LEMMA MessageSync ==
    ASSUME IInv, SyncInv, PushMessage
    PROVE  SyncInv'
<1>1. PICK res : res = Head(results) OBVIOUS
<1>2. PICK told : told = (res.ok /\ res.req.by \in res.members
                          /\ Self \in res.members \ {res.req.by})
    OBVIOUS
<1>3. PICK p : p = [kind |-> "message", group |-> res.group] OBVIOUS
<1>4. /\ results # <<>> /\ results' = Tail(results) /\ res.req.op = "message"
      /\ UNCHANGED <<groups, session, localGroups, connected, routed, toServer, inProgress,
                     recovery, failures, nextId, dbQueue, pendingRequests, pendingNotifications>>
    BY <1>1 DEF PushMessage, OnGroupMembersForMessage, tables, pending, client, localTables, flags
<1>5. res \in RightResults /\ res \in AnyResult BY <1>1, <1>4, FirstResult
<1>6. told => p \in ClientPacket
    <2>1. res.ok => res.group \in Groups BY <1>4, <1>5, ResultFacts
    <2>2. QED BY <1>2, <1>3, <2>1 DEF ClientPacket, Pushed
<1>7. PICK packets \in Seq(ClientPacket) :
         /\ toClient' = toClient \o packets
         /\ \A i \in 1..Len(packets) : packets[i] = p /\ told
    <2>1. PICK alive : alive = (told /\ routed) OBVIOUS
    <2>2. toClient' = IF alive THEN Written(<<p>>) ELSE toClient
        BY <1>1, <1>2, <1>3, <2>1 DEF PushMessage, Push
    <2>3. toClient \in Seq(ClientPacket) BY SyncTyped
    <2>4. QED BY <1>6, <2>1, <2>2, <2>3, WrittenPacket
<1>8. p.kind = "message" /\ p.group = res.group BY <1>3
<1>9. ~ListFor(res.req) BY <1>4 DEF ListFor
<1>10. ASSUME NEW g PROVE Carried(packets, g)
    <2>1. res \notin ResultGood(g) BY <1>4, <1>9 DEF ResultGood
    <2>2. res \notin ResultBad(g) => Clean(packets, PacketBad(g))
        <3>1. told /\ p \in PacketBad(g) => res \in ResultBad(g)
            BY <1>2, <1>4, <1>5, <1>8 DEF PacketBad, ResultBad
        <3>2. QED BY <1>7, <3>1 DEF Clean
    <2>3. QED BY <1>1, <2>1, <2>2 DEF Carried
<1>11. \A i \in 1..Len(packets) : packets[i].kind # "groupListAck" BY <1>7, <1>8
<1>12. QED BY <1>1, <1>4, <1>7, <1>9, <1>10, <1>11, AnsweredSync

LEMMA OfflineSync ==
    ASSUME IInv, SyncInv, OnOfflineLoaded
    PROVE  SyncInv'
<1>1. PICK res : res = Head(results) OBVIOUS
<1>2. PICK loaded : loaded = IF res.ok THEN res.rows ELSE {} OBVIOUS
<1>3. /\ results # <<>> /\ results' = Tail(results) /\ res.req.op = "loadOffline"
      /\ UNCHANGED <<groups, session, localGroups, connected, routed, toServer, inProgress,
                     recovery, failures, nextId, dbQueue, pendingRequests, pendingNotifications>>
    BY <1>1 DEF OnOfflineLoaded, tables, history, pending, client, localTables, flags
<1>4. res \in RightResults /\ res \in AnyResult BY <1>1, <1>3, FirstResult
<1>5. loaded \subseteq Pushed /\ IsFiniteSet(loaded)
    <2>1. res.ok => res.rows \subseteq KnownRows /\ IsFiniteSet(res.rows)
        BY <1>3, <1>4, ResultFacts
    <2>2. QED BY <1>2, <2>1, FS_EmptySet DEF KnownRows
<1>6. Pushed \subseteq ClientPacket BY DEF ClientPacket
<1>7. PICK packets \in Seq(ClientPacket) :
         /\ toClient' = toClient \o packets
         /\ \A i \in 1..Len(packets) : packets[i] \in loaded
    <2>1. CASE toClient' = toClient
        <3>1. PICK none \in Seq(ClientPacket) : none = <<>> /\ Len(none) = 0 BY EmptySeq
        <3>2. toClient \o none = toClient BY <3>1, ConcatEmptySeq, SyncTyped
        <3>3. toClient' = toClient \o none BY <2>1, <3>2
        <3>4. \A i \in 1..Len(none) : FALSE BY <3>1
        <3>5. QED BY <3>3, <3>4
    <2>2. ASSUME NEW s \in SetToSeqs(loaded), toClient' = toClient \o s
          PROVE  \E packets \in Seq(ClientPacket) :
                    /\ toClient' = toClient \o packets
                    /\ \A i \in 1..Len(packets) : packets[i] \in loaded
        <3>1. PICK n \in Nat : n = Cardinality(loaded) BY <1>5, FS_CardinalityType
        <3>2. s \in [1..n -> loaded] BY <3>1 DEF SetToSeqs
        <3>3. s \in Seq(loaded) /\ Len(s) = n BY <3>2
        <3>4. s \in Seq(ClientPacket) BY <1>5, <1>6, <3>3, SeqMonotonic
        <3>5. \A i \in 1..Len(s) : s[i] \in loaded BY <3>2, <3>3
        <3>6. QED BY <2>2, <3>4, <3>5
    <2>3. toClient' = toClient \/ \E s \in SetToSeqs(loaded) : toClient' = toClient \o s
        BY <1>1, <1>2 DEF OnOfflineLoaded, Written
    <2>4. QED BY <2>1, <2>2, <2>3
<1>8. ~ListFor(res.req) BY <1>3 DEF ListFor
<1>9. ASSUME NEW i \in 1..Len(packets)
      PROVE  /\ packets[i].kind \in {"memberChanged", "message"}
             /\ packets[i] = [kind |-> packets[i].kind, group |-> packets[i].group]
             /\ res.ok /\ packets[i] \in res.rows
    BY <1>2, <1>5, <1>7 DEF Pushed
<1>10. ASSUME NEW g PROVE Carried(packets, g)
    <2>1. res \notin ResultGood(g) BY <1>3, <1>8 DEF ResultGood
    <2>2. ASSUME res \notin ResultBad(g) PROVE Clean(packets, PacketBad(g))
        <3>1. SUFFICES ASSUME NEW i \in 1..Len(packets), packets[i] \in PacketBad(g)
                       PROVE  FALSE
            BY DEF Clean
        <3>2. packets[i].kind = "message" /\ packets[i].group = g /\ ~SelfIn(g)
            BY <1>9, <3>1 DEF PacketBad
        <3>3. [kind |-> "message", group |-> g] \in res.rows /\ res.ok
            BY <1>9, <3>2
        <3>4. QED BY <1>3, <1>4, <2>2, <3>2, <3>3 DEF ResultBad
    <2>3. QED BY <1>1, <2>1, <2>2 DEF Carried
<1>11. \A i \in 1..Len(packets) : packets[i].kind # "groupListAck" BY <1>9
<1>12. QED BY <1>1, <1>3, <1>7, <1>8, <1>10, <1>11, AnsweredSync

LEMMA NotificationSync ==
    ASSUME IInv, SyncInv, PushNotification
    PROVE  SyncInv'
<1>1. PICK res : res = Head(results) OBVIOUS
<1>2. PICK told : told = (res.ok /\ Self \in Recipients(res)) OBVIOUS
<1>3. PICK p : p = [kind |-> "memberChanged", group |-> res.group] OBVIOUS
<1>4. /\ results # <<>> /\ results' = Tail(results) /\ res.req.op = "notify"
      /\ ForgetNotification(res)
      /\ UNCHANGED <<groups, session, localGroups, connected, routed, toServer, inProgress,
                     recovery, failures, nextId, dbQueue, pendingRequests>>
    BY <1>1 DEF PushNotification, OnGroupMembersForNotify, tables, client, localTables, flags
<1>5. res \in RightResults /\ res \in AnyResult BY <1>1, <1>4, FirstResult
<1>6. told => p \in ClientPacket
    <2>1. res.ok => res.group \in Groups BY <1>4, <1>5, ResultFacts
    <2>2. QED BY <1>2, <1>3, <2>1 DEF ClientPacket, Pushed
<1>7. PICK packets \in Seq(ClientPacket) :
         /\ toClient' = toClient \o packets
         /\ \A i \in 1..Len(packets) : packets[i] = p /\ told
         /\ connected /\ told /\ routed => \E i \in 1..Len(packets) : packets[i] = p
    <2>1. PICK alive : alive = (told /\ routed) OBVIOUS
    <2>2. toClient' = IF alive THEN Written(<<p>>) ELSE toClient
        BY <1>1, <1>2, <1>3, <2>1 DEF PushNotification, Push
    <2>3. toClient \in Seq(ClientPacket) BY SyncTyped
    <2>4. QED BY <1>6, <2>1, <2>2, <2>3, WrittenPacket
<1>8. p.kind = "memberChanged" /\ p.group = res.group BY <1>3
<1>9. ~ListFor(res.req) BY <1>4 DEF ListFor
<1>10. ASSUME NEW g, connected, routed PROVE Carried(packets, g)
    <2>1. p \notin PacketBad(g) BY <1>8 DEF PacketBad
    <2>2. Clean(packets, PacketBad(g)) BY <1>7, <2>1 DEF Clean
    <2>3. ASSUME res \in ResultGood(g) PROVE \E i \in 1..Len(packets) : packets[i] \in PacketGood(g)
        <3>1. res.ok /\ res.group = g /\ Tells(res.req, res.members)
            BY <1>4, <1>9, <2>3 DEF ResultGood
        <3>2. told BY <1>2, <3>1 DEF Tells, Recipients
        <3>3. p \in PacketGood(g) BY <1>6, <1>8, <3>1, <3>2 DEF PacketGood
        <3>4. QED BY <1>7, <1>10, <3>2, <3>3
    <2>4. QED BY <1>1, <2>2, <2>3 DEF Carried
<1>11. \A i \in 1..Len(packets) : packets[i].kind # "groupListAck" BY <1>7, <1>8
<1>12. PICK h : h = res.req OBVIOUS
<1>13. PICK entries : entries = [i \in DOMAIN pendingNotifications \ {h.id} |->
                                   pendingNotifications[i]]
    OBVIOUS
<1>14. /\ pendingNotifications' = entries
       /\ DOMAIN entries = DOMAIN pendingNotifications \ {h.id}
       /\ \A i \in DOMAIN entries : entries[i] = pendingNotifications[i]
    BY <1>4, <1>12, <1>13 DEF ForgetNotification
<1>15. \A id : Announced(id) /\ id # h.id =>
          Announced(id)' /\ entries[id] = pendingNotifications[id]
    BY <1>4, <1>14 DEF Announced
<1>16. dbQueue \in Seq(AnyRequest) /\ results \in Seq(AnyResult) BY SyncTyped
<1>17. NotifyOnce'
    <2>1. PICK n \in Nat : n = Len(dbQueue) BY <1>16, LenProperties
    <2>2. \A i \in 1..Len(dbQueue') : i \in 1..n /\ dbQueue'[i] = dbQueue[i] BY <1>4, <2>1
    <2>3. h = Head(results).req /\ h.op = "notify" BY <1>1, <1>4, <1>12
    <2>4. \A id : Announced(id) /\ ~(h.op = "notify" /\ id = h.id) => Announced(id)'
        BY <1>15, <2>3
    <2>5. QED BY <1>4, <1>16, <2>1, <2>2, <2>3, <2>4, OnceHandled DEF SyncInv
<1>18. EntriesKept
    <2>1. PICK rs \in Seq(AnyResult) : rs = results BY <1>16
    <2>2. PICK ps : ps = results' OBVIOUS
    <2>3. /\ Head(rs) = rs[1] /\ 1 \in 1..Len(rs) /\ Len(ps) = Len(rs) - 1 /\ Len(rs) \in Nat
          /\ \A i \in 1..(Len(rs) - 1) : i + 1 \in 1..Len(rs) /\ ps[i] = rs[i + 1]
        BY <1>4, <2>1, <2>2, Rest
    <2>4. h = rs[1].req /\ h.op = "notify" BY <1>1, <1>4, <1>12, <2>1, <2>3
    <2>5. ASSUME NEW i \in 1..Len(dbQueue), dbQueue[i].op = "notify"
          PROVE  Announced(dbQueue[i].id) /\ dbQueue[i].id # h.id
        BY <2>1, <2>3, <2>4, <2>5 DEF SyncInv, NotifyOnce
    <2>6. ASSUME NEW i \in 1..Len(ps), ps[i].req.op = "notify"
          PROVE  Announced(ps[i].req.id) /\ ps[i].req.id # h.id
        <3>1. PICK j : j = i + 1 OBVIOUS
        <3>2. j \in 1..Len(rs) /\ j # 1 /\ ps[i] = rs[j] BY <2>3, <3>1
        <3>3. QED BY <2>1, <2>3, <2>4, <2>6, <3>2 DEF SyncInv, NotifyOnce
    <2>7. QED BY <1>14, <1>15, <2>2, <2>5, <2>6 DEF EntriesKept
<1>19. Continues(dbQueue, dbQueue') BY <1>4, <1>16, Continued
<1>20. QED BY <1>1, <1>4, <1>7, <1>9, <1>10, <1>11, <1>17, <1>18, <1>19, HandledSync

-----------------------------------------------------------------------------
(***************************************************************************)
(* The client handles the first packet                                     *)
(***************************************************************************)

\* A client that waits for a list, and will not ask again, will be put right by it
LEMMA WaitingComes ==
    ASSUME IInv, ListUnderWay, ~ListDue, toClient # <<>>, toClient' = Tail(toClient),
           UNCHANGED <<groups, session, pendingNotifications, results>>,
           Head(toClient).kind # "groupListAck", NEW g, GroupComes(g)
    PROVE  GroupComes(g)'
<1>1. PICK rs \in Seq(AnyResult) : rs = results BY SyncTyped
<1>2. PICK ps \in Seq(ClientPacket) : ps = toClient BY SyncTyped
<1>3. PICK a, b : a = ResultGood(g) /\ b = ResultBad(g) OBVIOUS
<1>4. PICK c, d : c = PacketGood(g) /\ d = PacketBad(g) OBVIOUS
<1>5. PICK now : now = Agrees(localGroups, g) OBVIOUS
<1>6. PICK later : later = Agrees(localGroups, g)' OBVIOUS
<1>7. PICK ts : ts = Tail(ps) OBVIOUS
<1>8. LastWord(rs, a, b, ps, c, d, now) BY <1>1, <1>2, <1>3, <1>4, <1>5 DEF GroupComes
<1>9. a = ResultGood(g)' /\ b = ResultBad(g)' /\ c = PacketGood(g)' /\ d = PacketBad(g)'
    BY <1>3, <1>4, SameSets
<1>10. /\ Head(ps) = ps[1] /\ Len(ts) = Len(ps) - 1 /\ ts \in Seq(ClientPacket)
       /\ \A i \in 1..Len(ps) : i = 1 \/ (i - 1 \in 1..(Len(ps) - 1) /\ ts[i - 1] = ps[i])
    BY <1>2, <1>7, Rest
<1>11. \/ \E i \in 1..Len(rs) : ListFor(rs[i].req)
       \/ \E i \in 1..Len(ts) : ts[i].kind = "groupListAck"
    <2>1. \/ \E i \in 1..Len(rs) : ListFor(rs[i].req)
          \/ \E i \in 1..Len(ps) : ps[i].kind = "groupListAck"
        BY <1>1, <1>2 DEF ListUnderWay, ListDue
    <2>2. ASSUME NEW i \in 1..Len(ps), ps[i].kind = "groupListAck"
          PROVE  \E j \in 1..Len(ts) : ts[j].kind = "groupListAck"
        <3>1. i # 1 BY <1>2, <1>10, <2>2
        <3>2. PICK k : k = i - 1 OBVIOUS
        <3>3. k \in 1..Len(ts) /\ ts[k] = ps[i] BY <1>10, <3>1, <3>2
        <3>4. QED BY <2>2, <3>3
    <2>3. QED BY <2>1, <2>2
<1>12. ASSUME Clean(rs, b), NEW i \in 1..Len(rs), ListFor(rs[i].req)
       PROVE  Settled(rs, a, b)
    <2>1. PICK x \in AnyResult : x = rs[i] BY <1>1, <1>12, ElementOfSeq
    <2>2. x \notin b BY <1>12, <2>1 DEF Clean
    <2>3. x \in a BY <1>3, <1>12, <2>1, <2>2 DEF ResultGood, ResultBad
    <2>4. QED BY <1>12, <2>1, <2>3 DEF Settled, Clean
<1>13. ASSUME Clean(ts, d), NEW i \in 1..Len(ts), ts[i].kind = "groupListAck"
       PROVE  Settled(ts, c, d)
    <2>1. PICK x \in ClientPacket : x = ts[i] BY <1>10, <1>13, ElementOfSeq
    <2>2. x \notin d BY <1>13, <2>1 DEF Clean
    <2>3. x \in c BY <1>4, <1>13, <2>1, <2>2 DEF PacketGood, PacketBad
    <2>4. QED BY <1>13, <2>1, <2>3 DEF Settled, Clean
<1>14. /\ Settled(ps, c, d) => Settled(ts, c, d) \/ Clean(ts, d)
       /\ Clean(ps, d) => Clean(ts, d)
    BY <1>2, <1>7, WithoutHead
<1>15. LastWord(rs, a, b, ts, c, d, later)
    BY <1>8, <1>11, <1>12, <1>13, <1>14 DEF LastWord
<1>16. rs = results' /\ ts = toClient' BY <1>1, <1>2, <1>7
<1>17. QED BY <1>6, <1>9, <1>15, <1>16 DEF GroupComes

\* What the client stores follows what the packet says, or stays
LEMMA ViewFollows ==
    ASSUME IInv, toClient # <<>>, toClient' = Tail(toClient),
           UNCHANGED <<groups, session, pendingNotifications, results>>, NEW g,
           Head(toClient) \in PacketGood(g) => Agrees(localGroups, g)',
           Head(toClient) \notin PacketBad(g) /\ Agrees(localGroups, g)
              => Agrees(localGroups, g)',
           GroupComes(g)
    PROVE  GroupComes(g)'
<1>1. PICK rs \in Seq(AnyResult) : rs = results BY SyncTyped
<1>2. PICK ps \in Seq(ClientPacket) : ps = toClient BY SyncTyped
<1>3. PICK a, b : a = ResultGood(g) /\ b = ResultBad(g) OBVIOUS
<1>4. PICK c, d : c = PacketGood(g) /\ d = PacketBad(g) OBVIOUS
<1>5. PICK now : now = Agrees(localGroups, g) OBVIOUS
<1>6. PICK later : later = Agrees(localGroups, g)' OBVIOUS
<1>7. PICK ts : ts = Tail(ps) OBVIOUS
<1>8. LastWord(rs, a, b, ps, c, d, now) BY <1>1, <1>2, <1>3, <1>4, <1>5 DEF GroupComes
<1>9. a = ResultGood(g)' /\ b = ResultBad(g)' /\ c = PacketGood(g)' /\ d = PacketBad(g)'
    BY <1>3, <1>4, SameSets
<1>10. /\ Settled(ps, c, d) => Settled(ts, c, d) \/ (Clean(ts, d) /\ Head(ps) \in c)
       /\ Clean(ps, d) => Clean(ts, d) /\ Head(ps) \notin d
    BY <1>2, <1>7, WithoutHead
<1>11. (Head(ps) \in c => later) /\ (Head(ps) \notin d /\ now => later)
    BY <1>2, <1>4, <1>5, <1>6
<1>12. LastWord(rs, a, b, ts, c, d, later) BY <1>8, <1>10, <1>11 DEF LastWord
<1>13. rs = results' /\ ts = toClient' BY <1>1, <1>2, <1>7
<1>14. QED BY <1>6, <1>9, <1>12, <1>13 DEF GroupComes

LEMMA ReceivedSync ==
    ASSUME IInv, SyncInv, toClient # <<>>, toClient' = Tail(toClient),
           UNCHANGED <<groups, session, pendingNotifications, pendingRequests, nextId, results,
                       dbQueue, connected, routed, failures>>,
           toServer => toServer', Head(toClient).kind = "connectAck" => toServer',
           ~ListDue => \A g \in DOMAIN groups : GroupComes(g) => toServer' \/ GroupComes(g)',
           recovery' => inProgress',
           inProgress' => connected
              /\ (toServer' \/ (inProgress /\ Head(toClient).kind # "groupListAck"))
    PROVE  SyncInv'
<1>1. PICK ps \in Seq(ClientPacket) : ps = toClient BY SyncTyped
<1>2. PICK ts : ts = toClient' OBVIOUS
<1>3. /\ Head(ps) = ps[1] /\ Len(ts) = Len(ps) - 1 /\ Len(ps) \in Nat
      /\ \A i \in 1..(Len(ps) - 1) : i + 1 \in 1..Len(ps) /\ ts[i] = ps[i + 1]
      /\ \A i \in 1..Len(ps) : i = 1 \/ (i - 1 \in 1..(Len(ps) - 1) /\ ts[i - 1] = ps[i])
    BY <1>1, <1>2, Rest
<1>4. ASSUME NEW kind, NEW i \in 1..Len(ps), ps[i].kind = kind
      PROVE  Head(toClient).kind = kind \/ \E j \in 1..Len(ts) : ts[j].kind = kind
    <2>1. CASE i = 1 BY <1>1, <1>3, <1>4, <2>1
    <2>2. CASE i # 1
        <3>1. PICK k : k = i - 1 OBVIOUS
        <3>2. k \in 1..Len(ts) /\ ts[k] = ps[i] BY <1>3, <2>2, <3>1
        <3>3. QED BY <1>4, <3>2
    <2>3. QED BY <2>1, <2>2
<1>5. \A r : ListFor(r)' <=> ListFor(r) BY DEF ListFor
<1>6. (\E i \in 1..Len(dbQueue) : ListFor(dbQueue[i])) =>
         \E i \in 1..Len(dbQueue') : dbQueue'[i].op = "list" /\ dbQueue'[i].id = session'
    BY DEF ListFor
<1>7. (\E i \in 1..Len(results) : ListFor(results[i].req)) =>
         \E i \in 1..Len(results') : results'[i].req.op = "list" /\ results'[i].req.id = session'
    BY DEF ListFor
<1>8. ListDue => ListDue'
    <2>1. (\E i \in 1..Len(toClient) : toClient[i].kind = "connectAck") =>
             toServer' \/ \E i \in 1..Len(toClient') : toClient'[i].kind = "connectAck"
        BY <1>1, <1>2, <1>4
    <2>2. QED BY <1>6, <2>1 DEF ListDue, ListFor
<1>9. ListUnderWay /\ Head(toClient).kind # "groupListAck" => ListUnderWay'
    BY <1>1, <1>2, <1>4, <1>6, <1>7 DEF ListUnderWay, ListFor
<1>10. GroupsCome'
    <2>1. SUFFICES ASSUME failures = 0, connected, routed, ~ListDue', NEW g \in DOMAIN groups
                   PROVE  WillTell(g)' \/ GroupComes(g)'
        BY DEF GroupsCome
    <2>2. ~ListDue /\ ~toServer' BY <1>8, <2>1 DEF ListDue
    <2>3. WillTell(g) \/ GroupComes(g) BY <2>1, <2>2 DEF SyncInv, GroupsCome
    <2>4. WillTell(g) => WillTell(g)' BY DEF WillTell, Tells
    <2>5. QED BY <2>1, <2>2, <2>3, <2>4
<1>11. ListComes'
    <2>1. toServer' => ListUnderWay' BY DEF ListUnderWay
    <2>2. QED BY <1>9, <2>1 DEF SyncInv, ListComes
<1>12. RowsFirst' BY <1>8 DEF SyncInv, RowsFirst
<1>13. NotifyOnce' BY DEF SyncInv, NotifyOnce, Announced
<1>14. ListsLoaded'
    <2>1. SUFFICES ASSUME failures = 0
                   PROVE  /\ \A i \in 1..Len(results) : results[i].req.op = "list" => results[i].ok
                          /\ \A i \in 1..Len(ts) : ts[i].kind = "groupListAck" => ts[i].ok
        BY <1>2 DEF ListsLoaded
    <2>2. /\ \A i \in 1..Len(results) : results[i].req.op = "list" => results[i].ok
          /\ \A i \in 1..Len(ps) : ps[i].kind = "groupListAck" => ps[i].ok
        BY <1>1, <2>1 DEF SyncInv, ListsLoaded
    <2>3. ASSUME NEW i \in 1..Len(ts), ts[i].kind = "groupListAck" PROVE ts[i].ok
        <3>1. PICK k : k = i + 1 OBVIOUS
        <3>2. k \in 1..Len(ps) /\ ts[i] = ps[k] BY <1>3, <3>1
        <3>3. QED BY <2>2, <2>3, <3>2
    <2>4. QED BY <2>2, <2>3
<1>15. QED BY <1>10, <1>11, <1>12, <1>13, <1>14 DEF SyncInv

LEMMA StoredSame ==
    ASSUME groups' = groups, NEW g, NEW list, list = localGroups',
           g \in DOMAIN list <=> g \in DOMAIN localGroups,
           g \in DOMAIN localGroups => list[g] = localGroups[g],
           Agrees(localGroups, g)
    PROVE  Agrees(localGroups, g)'
BY DEF Agrees, SelfIn

LEMMA PacketSync ==
    ASSUME IInv, SyncInv, HandleIncomingPacket
    PROVE  SyncInv'
<1>1. PICK p : p = Head(toClient) OBVIOUS
<1>2. /\ connected /\ toClient # <<>> /\ toClient' = Tail(toClient)
      /\ UNCHANGED <<groups, session, pendingNotifications, pendingRequests, nextId, results,
                     dbQueue, connected, routed, failures>>
    BY DEF HandleIncomingPacket, vars, tables, queues, pending, history
<1>3. p \in ClientPacket
    <2>1. PICK ps \in Seq(ClientPacket) : ps = toClient BY SyncTyped
    <2>2. QED BY <1>1, <1>2, <2>1, Rest
<1>4. inProgress => ListUnderWay BY DEF SyncInv, ListComes
<1>5. recovery => inProgress BY DEF SyncInv, ListComes
<1>6. CASE OnAuthenticated(p)
    <2>1. toServer' /\ inProgress' BY <1>6 DEF OnAuthenticated
    <2>2. QED BY <1>1, <1>2, <2>1, ReceivedSync
<1>7. CASE OnGroupListAck(p)
    <2>1. /\ p.kind = "groupListAck" /\ ~inProgress' /\ ~recovery' /\ toServer' = toServer
          /\ localGroups' = IF p.ok THEN p.list ELSE localGroups
        BY <1>7 DEF OnGroupListAck
    <2>2. PICK list : list = localGroups' OBVIOUS
    <2>3. ASSUME NEW g, GroupComes(g) PROVE GroupComes(g)'
        <3>1. ASSUME p.ok, Agrees(p.list, g) PROVE Agrees(localGroups, g)'
            <4>1. list = p.list BY <2>1, <2>2, <3>1
            <4>2. Agrees(list, g)' BY <1>2, <3>1, <4>1 DEF Agrees, SelfIn
            <4>3. QED BY <2>2, <4>2 DEF Agrees, SelfIn
        <3>2. p \in PacketGood(g) => p.ok /\ Agrees(p.list, g) BY <2>1 DEF PacketGood
        <3>3. p \notin PacketBad(g) => p.ok /\ Agrees(p.list, g)
            BY <1>3, <2>1 DEF PacketBad
        <3>4. QED BY <1>1, <1>2, <2>3, <3>1, <3>2, <3>3, ViewFollows
    <2>4. QED BY <1>1, <1>2, <2>1, <2>3, ReceivedSync
<1>8. ASSUME SyncGroupSessions, recovery' = recovery,
             p.kind \in {"opAck", "memberChanged"}
      PROVE  SyncInv'
    <2>1. inProgress' /\ (toServer => toServer') /\ (~inProgress => toServer')
        BY <1>8 DEF SyncGroupSessions
    <2>2. p.kind # "groupListAck" /\ p.kind # "connectAck" BY <1>8
    <2>3. ASSUME ~ListDue, NEW g, GroupComes(g), ~toServer' PROVE GroupComes(g)'
        <3>1. ListUnderWay BY <1>4, <2>1, <2>3
        <3>2. QED BY <1>1, <1>2, <2>2, <2>3, <3>1, WaitingComes
    <2>4. QED BY <1>1, <1>2, <1>5, <1>8, <2>1, <2>2, <2>3, ReceivedSync
<1>9. CASE OnCreateGroupAck(p) BY <1>8, <1>9 DEF OnCreateGroupAck
<1>10. CASE OnMemberOpAck(p) BY <1>8, <1>10 DEF OnMemberOpAck
<1>11. CASE OnGroupMemberChanged(p) BY <1>8, <1>11 DEF OnGroupMemberChanged
<1>12. CASE OnRefused(p)
    <2>1. /\ p.kind = "opAck" /\ ~p.ok
          /\ UNCHANGED <<toServer, inProgress, recovery, localGroups>>
        BY <1>12 DEF OnRefused, client, localTables, flags
    <2>2. ASSUME NEW g, GroupComes(g) PROVE GroupComes(g)'
        <3>1. Agrees(localGroups, g) => Agrees(localGroups, g)'
            BY <1>2, <2>1 DEF Agrees, SelfIn
        <3>2. p \notin PacketGood(g) BY <2>1 DEF PacketGood
        <3>3. QED BY <1>1, <1>2, <2>2, <3>1, <3>2, ViewFollows
    <2>3. inProgress => connected BY DEF SyncInv, ListComes
    <2>4. QED BY <1>1, <1>2, <1>5, <2>1, <2>2, <2>3, ReceivedSync
<1>13. CASE OnIncomingMessage(p)
    <2>1. /\ p.kind = "message"
          /\ UNCHANGED <<toServer, inProgress, recovery>>
        BY <1>13 DEF OnIncomingMessage, flags
    <2>2. PICK list : list = localGroups' OBVIOUS
    <2>3. list = [g \in DOMAIN localGroups \cup {p.group} |->
                     IF g \in DOMAIN localGroups THEN localGroups[g]
                     ELSE [creator |-> NoUser, members |-> {}]]
        BY <1>13, <2>2 DEF OnIncomingMessage
    <2>4. /\ DOMAIN list = DOMAIN localGroups \cup {p.group}
          /\ \A g \in DOMAIN localGroups : list[g] = localGroups[g]
        BY <2>3
    <2>5. ASSUME NEW g, GroupComes(g) PROVE GroupComes(g)'
        <3>1. ASSUME Agrees(localGroups, g), p \notin PacketBad(g)
              PROVE  Agrees(localGroups, g)'
            <4>1. p.group = g => g \in DOMAIN localGroups
                BY <1>3, <2>1, <3>1 DEF PacketBad, Agrees
            <4>2. g \in DOMAIN list <=> g \in DOMAIN localGroups BY <2>4, <4>1
            <4>3. g \in DOMAIN localGroups => list[g] = localGroups[g] BY <2>4
            <4>4. QED BY <1>2, <2>2, <3>1, <4>2, <4>3, StoredSame
        <3>2. p \notin PacketGood(g) BY <2>1 DEF PacketGood
        <3>3. QED BY <1>1, <1>2, <2>5, <3>1, <3>2, ViewFollows
    <2>6. inProgress => connected BY DEF SyncInv, ListComes
    <2>7. QED BY <1>1, <1>2, <1>5, <2>1, <2>5, <2>6, ReceivedSync
<1>14. QED
    BY <1>1, <1>6, <1>7, <1>9, <1>10, <1>11, <1>12, <1>13 DEF HandleIncomingPacket

-----------------------------------------------------------------------------
(***************************************************************************)
(* The invariant, and what it says when nothing is under way               *)
(***************************************************************************)
LEMMA InitSync ==
    ASSUME SyncInit
    PROVE  SyncInv
<1>1. /\ dbQueue = <<>> /\ results = <<>> /\ toClient = <<>> /\ failures = 0
      /\ connected = FALSE /\ inProgress = FALSE /\ recovery = FALSE
    BY DEF SyncInit, Init
<1>2. Len(dbQueue) = 0 /\ Len(results) = 0 /\ Len(toClient) = 0 BY <1>1
<1>3. GroupsCome BY <1>1 DEF GroupsCome
<1>4. ListComes BY <1>1 DEF ListComes
<1>5. RowsFirst BY <1>2 DEF RowsFirst
<1>6. NotifyOnce BY <1>2 DEF NotifyOnce
<1>7. ListsLoaded BY <1>2 DEF ListsLoaded
<1>8. QED BY <1>1, <1>3, <1>4, <1>5, <1>6, <1>7 DEF SyncInv

LEMMA ConnectionSync ==
    ASSUME SyncInv, ConnectionLost \/ LogoutOrRestart \/ OnClientDisconnected
    PROVE  SyncInv'
<1>1. CASE ConnectionLost \/ LogoutOrRestart
    <2>1. /\ ConnectionEnds
          /\ UNCHANGED <<results, dbQueue, pendingRequests, pendingNotifications, nextId, failures>>
        BY <1>1 DEF ConnectionLost, LogoutOrRestart, vars, queues, pending, history
    <2>2. QED BY <2>1, CutSync
<1>2. CASE OnClientDisconnected
    <2>1. /\ ~routed'
          /\ UNCHANGED <<groups, session, pendingNotifications, results, toClient, localGroups,
                         dbQueue, toServer, inProgress, recovery, pendingRequests, nextId,
                         failures, connected>>
        BY <1>2
        DEF OnClientDisconnected, vars, tables, queues, pending, history, client, localTables,
            flags
    <2>2. QED BY <2>1, ViewsSync
<1>3. QED BY <1>1, <1>2

LEMMA ChosenSync ==
    ASSUME SyncInv,
           \/ \E g \in Groups : SwitchToSession(g) \/ DeleteSession(g)
           \/ OpenNewGroup
           \/ UNCHANGED syncVars
    PROVE  SyncInv'
<1>1. UNCHANGED <<vars, wire, localGroups, flags>>
    BY DEF SwitchToSession, DeleteSession, OpenNewGroup, syncVars, client, localTables
<1>2. /\ routed' = routed
      /\ UNCHANGED <<groups, session, pendingNotifications, results, toClient, localGroups,
                     dbQueue, toServer, inProgress, recovery, pendingRequests, nextId,
                     failures, connected>>
    BY <1>1 DEF vars, tables, queues, pending, history, wire, flags
<1>3. QED BY <1>2, ViewsSync

LEMMA SyncKept == IInv /\ SyncInv /\ [SyncNext]_syncVars => SyncInv'
<1> SUFFICES ASSUME IInv, SyncInv, [SyncNext]_syncVars PROVE SyncInv'
    OBVIOUS
<1>1. CASE \E by \in Users : HandleClientRequest(by) BY <1>1, RequestSync
<1>2. CASE HandleGroupList BY <1>2, ListAskedSync
<1>3. CASE QueryStep BY <1>3, QuerySync
<1>4. CASE ServerDbStep BY <1>4, DbSync
<1>5. CASE AnswerOp BY <1>5, OperationSync
<1>6. CASE PushNotification BY <1>6, NotificationSync
<1>7. CASE PushMessage BY <1>7, MessageSync
<1>8. CASE OnGroupListLoaded BY <1>8, ListAnsweredSync
<1>9. CASE OnOfflineLoaded BY <1>9, OfflineSync
<1>10. CASE Login BY <1>10, LoginSync
<1>11. CASE ConnectionLost \/ LogoutOrRestart \/ OnClientDisconnected
    BY <1>11, ConnectionSync
<1>12. CASE ServerStops BY <1>12, StopsSync
<1>13. CASE HandleIncomingPacket BY <1>13, PacketSync
<1>14. CASE \/ \E g \in Groups : SwitchToSession(g)
            \/ \E g \in Groups : DeleteSession(g)
            \/ OpenNewGroup
            \/ UNCHANGED syncVars
    BY <1>14, ChosenSync
<1> QED
    BY <1>1, <1>2, <1>3, <1>4, <1>5, <1>6, <1>7, <1>8, <1>9, <1>10, <1>11, <1>12, <1>13, <1>14
    DEF SyncNext

\* With nothing under way the last word was said: what is stored is right
LEMMA QuietAgrees ==
    ASSUME IInv, SyncInv, Quiet, connected, routed
    PROVE  /\ ~inProgress /\ ~recovery /\ shown = DOMAIN localGroups
           /\ failures = 0 => \A g \in DOMAIN groups : Agrees(localGroups, g)
<1>1. Len(dbQueue) = 0 /\ Len(results) = 0 /\ Len(toClient) = 0 /\ ~toServer BY DEF Quiet
<1>2. ~ListDue /\ ~ListUnderWay BY <1>1 DEF ListDue, ListUnderWay
<1>3. ~inProgress /\ ~recovery BY <1>2 DEF SyncInv, ListComes
<1>4. shown = DOMAIN localGroups
    <2>1. shown = localSessions BY DEF IInv, ShownRight, Quiet
    <2>2. QED BY <2>1 DEF IInv, ShownRight, SessionsConsistent
<1>5. ASSUME failures = 0, NEW g \in DOMAIN groups PROVE Agrees(localGroups, g)
    <2>1. ~WillTell(g) BY <1>1 DEF WillTell
    <2>2. GroupComes(g) BY <1>2, <1>5, <2>1 DEF SyncInv, GroupsCome
    <2>3. ~Settled(results, ResultGood(g), ResultBad(g)) BY <1>1 DEF Settled
    <2>4. ~Settled(toClient, PacketGood(g), PacketBad(g)) BY <1>1 DEF Settled
    <2>5. QED BY <2>2, <2>3, <2>4 DEF GroupComes, LastWord
<1>6. QED BY <1>3, <1>4, <1>5

LEMMA QuietFollows == IInv /\ SyncInv => QuietClientInSync
<1> SUFFICES ASSUME IInv, SyncInv, connected, routed, Quiet
             PROVE  /\ ~inProgress /\ ~recovery
                    /\ shown = DOMAIN localGroups
                    /\ DOMAIN GroupsOfSelf \subseteq DOMAIN localGroups \/ failures > 0
                    /\ \A g \in DOMAIN localGroups \cap DOMAIN groups :
                          failures = 0 => Self \in groups[g].members
                                          /\ localGroups[g] = groups[g]
    BY DEF QuietClientInSync
<1>1. /\ ~inProgress /\ ~recovery /\ shown = DOMAIN localGroups
      /\ failures = 0 => \A g \in DOMAIN groups : Agrees(localGroups, g)
    BY QuietAgrees
<1>2. failures = 0 \/ failures > 0 BY DEF SyncInv
<1>3. failures = 0 => DOMAIN GroupsOfSelf \subseteq DOMAIN localGroups
    <2>1. DOMAIN GroupsOfSelf = {g \in DOMAIN groups : SelfIn(g)} BY DEF GroupsOfSelf, SelfIn
    <2>2. QED BY <1>1, <2>1 DEF Agrees
<1>4. \A g \in DOMAIN localGroups \cap DOMAIN groups :
         failures = 0 => Self \in groups[g].members /\ localGroups[g] = groups[g]
    BY <1>1 DEF Agrees, SelfIn
<1>5. QED BY <1>1, <1>2, <1>3, <1>4

\* A connected client the server knows of, with nothing in flight, waits for no list, and
\* without a failed query it stores and shows the groups that have Self as a member, with
\* their members: in whatever order lists, acknowledgements, notifications and old packets
\* were sent and handled (applyGroupList, syncGroupSessions, onGroupMembersForNotify).
THEOREM SyncedWhenQuiet == SyncSpec => []QuietClientInSync
<1>1. SyncInit => IInv /\ SyncInv BY InitInv, InitSync
<1>2. IInv /\ SyncInv /\ [SyncNext]_syncVars => (IInv /\ SyncInv)' BY NextKeeps, SyncKept
<1>3. QED BY <1>1, <1>2, QuietFollows, PTL DEF SyncSpec
=============================================================================
