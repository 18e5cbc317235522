------------------------ MODULE GroupManagementProofs ------------------------
(***************************************************************************)
(* Proofs about GroupManagement for any users, groups and member limit.    *)
(* The requests and results under way are elements of two sets that say    *)
(* what is true of them wherever they are; these sets only ever grow, so   *)
(* nothing has to be said about positions in a queue. The exception is the *)
(* order of removals and joins among the results, which is what makes      *)
(* NoMessageAfterRemoval true (StillIn).                                   *)
(***************************************************************************)
EXTENDS GroupManagement, FiniteSetTheorems, SequenceTheorems, TLAPS

\* A request: from a registered user, of the shape its handler gives it; an announcement
\* is for those it was made for
RightRequests ==
    {r \in Request :
        /\ r.id < nextId
        /\ r.by \in users
        /\ r.op = "add" => \E u \in Users : r.who = {u}
        /\ r.op = "leave" => r.who = {r.by}
        /\ r.op = "create" \/ r.group \in Groups
        /\ r.op = "notify" =>
              /\ r.id \notin pendingRequests
              /\ r.id \in DOMAIN pendingNotifications =>
                    pendingNotifications[r.id] \subseteq wereIn[r.group]}

\* A result: about members, or those who have been
RightAnswer(res) ==
    res.ok =>
        /\ res.group \in Groups
        /\ res.members \subseteq wereIn[res.group]
        /\ res.req.op \in {"remove", "leave"} => res.req.who \subseteq wereIn[res.group]
        /\ res.req.op = "notify" => res.group = res.req.group

RightResults == {res \in Result : res.req \in RightRequests /\ RightAnswer(res)}

QueuesRight ==
    /\ dbQueue \in Seq(RightRequests)
    /\ results \in Seq(RightResults)

HistoryRight ==
    /\ \A g \in DOMAIN groups : groups[g].members \subseteq wereIn[g]
    /\ \A g \in Groups : removed[g] \subseteq wereIn[g]

Removes(res, g, u) ==
    res.ok /\ res.group = g /\ res.req.op \in {"remove", "leave"} /\ u \in res.req.who

Joins(res, g, u) ==
    res.ok /\ res.group = g /\ res.req.op \in {"create", "add"} /\ u \in res.req.who

\* Once the first n results of seq are handled, u is not among those who left g: each
\* removal, the answered ones included, is followed by a join
StillIn(seq, gone, n, g, u) ==
    \A i \in 0..n :
        (IF i = 0 THEN u \in gone[g] ELSE Removes(seq[i], g, u)) =>
            \E j \in (i + 1)..n : Joins(seq[j], g, u)

MembersAreIn(seq, gone) ==
    \A g \in DOMAIN groups : \A u \in groups[g].members : StillIn(seq, gone, Len(seq), g, u)

LoadedAreIn(seq, gone) ==
    \A k \in 1..Len(seq) :
        seq[k].ok /\ seq[k].req.op = "message" =>
            \A u \in seq[k].members : StillIn(seq, gone, k - 1, seq[k].group, u)

IInv ==
    /\ TypeOK
    /\ QueuesRight
    /\ HistoryRight
    /\ MembersAreIn(results, removed)
    /\ LoadedAreIn(results, removed)
    /\ GroupsWellFormed
    /\ OnlyMembersTold

(***************************************************************************)
(* What is under way stays right                                           *)
(***************************************************************************)

\* An announcement under way keeps its id out of the requests waited for, and the
\* users it is for
NotificationsKept ==
    \A i \in Ids :
        i < nextId /\ i \notin pendingRequests =>
            /\ i \notin pendingRequests'
            /\ i \in DOMAIN pendingNotifications' =>
                  /\ i \in DOMAIN pendingNotifications
                  /\ pendingNotifications'[i] = pendingNotifications[i]

Grows ==
    /\ users \subseteq users'
    /\ nextId \in Nat /\ nextId' \in Nat /\ nextId <= nextId'
    /\ \A g \in Groups : wereIn[g] \subseteq wereIn'[g]
    /\ NotificationsKept

LEMMA RightGrows ==
    ASSUME Grows
    PROVE  /\ RightRequests \subseteq RightRequests'
           /\ RightResults \subseteq RightResults'
<1>1. ASSUME NEW r \in RightRequests PROVE r \in RightRequests'
    <2>1. r \in Request /\ r.id \in Ids /\ r.id < nextId /\ r.by \in users
        BY <1>1 DEF RightRequests, Request
    <2>2. r.id < nextId' /\ r.by \in users'
        BY <2>1 DEF Grows, Ids
    <2>3. r.op = "notify" =>
             /\ r.id \notin pendingRequests'
             /\ r.id \in DOMAIN pendingNotifications' =>
                    pendingNotifications'[r.id] \subseteq wereIn'[r.group]
        <3>1. SUFFICES ASSUME r.op = "notify"
                       PROVE  /\ r.id \notin pendingRequests'
                              /\ r.id \in DOMAIN pendingNotifications' =>
                                    pendingNotifications'[r.id] \subseteq wereIn'[r.group]
            OBVIOUS
        <3>2. /\ r.id \notin pendingRequests
              /\ r.group \in Groups
              /\ r.id \in DOMAIN pendingNotifications =>
                    pendingNotifications[r.id] \subseteq wereIn[r.group]
            BY <1>1, <3>1 DEF RightRequests
        <3>3. QED BY <2>1, <3>2 DEF Grows, NotificationsKept
    <2>4. QED BY <1>1, <2>1, <2>2, <2>3 DEF RightRequests
<1>2. ASSUME NEW res \in RightResults PROVE res \in RightResults'
    <2>1. res \in Result /\ res.req \in RightRequests'
        BY <1>1, <1>2 DEF RightResults
    <2>2. RightAnswer(res)'
        BY <1>2 DEF RightResults, RightAnswer, Grows
    <2>3. QED BY <2>1, <2>2 DEF RightResults
<1>3. QED BY <1>1, <1>2

LEMMA WiderSeq ==
    ASSUME NEW S, NEW T, S \subseteq T, NEW s \in Seq(S)
    PROVE  s \in Seq(T)
BY SeqMonotonic

LEMMA QueuesGrow ==
    ASSUME Grows, QueuesRight
    PROVE  /\ dbQueue \in Seq(RightRequests')
           /\ results \in Seq(RightResults')
<1>1. RightRequests \subseteq RightRequests' /\ RightResults \subseteq RightResults'
    BY RightGrows
<1>2. dbQueue \in Seq(RightRequests) /\ results \in Seq(RightResults)
    BY DEF QueuesRight
<1>3. dbQueue \in Seq(RightRequests') BY <1>1, <1>2, WiderSeq
<1>4. results \in Seq(RightResults') BY <1>1, <1>2, WiderSeq
<1>5. QED BY <1>3, <1>4

(***************************************************************************)
(* Removals and joins in the order of the results                          *)
(***************************************************************************)

LEMMA StillInAppend ==
    ASSUME NEW S, NEW seq \in Seq(S), NEW res \in S, NEW gone, NEW g, NEW u,
           NEW n \in 0..Len(seq), StillIn(seq, gone, n, g, u)
    PROVE  StillIn(Append(seq, res), gone, n, g, u)
<1>1. \A i \in 1..n : Append(seq, res)[i] = seq[i]
    BY AppendProperties
<1>2. QED BY <1>1 DEF StillIn

LEMMA StillInLast ==
    ASSUME NEW S, NEW seq \in Seq(S), NEW res \in S, NEW gone, NEW g, NEW u,
           StillIn(seq, gone, Len(seq), g, u), ~Removes(res, g, u)
    PROVE  StillIn(Append(seq, res), gone, Len(Append(seq, res)), g, u)
<1> DEFINE new == Append(seq, res)
<1>1. /\ Len(new) = Len(seq) + 1 /\ Len(seq) \in Nat
      /\ new[Len(seq) + 1] = res
      /\ \A i \in 1..Len(seq) : new[i] = seq[i]
    BY AppendProperties, LenProperties
<1> HIDE DEF new
<1>2. ASSUME NEW i \in 0..Len(new), IF i = 0 THEN u \in gone[g] ELSE Removes(new[i], g, u)
      PROVE  \E j \in (i + 1)..Len(new) : Joins(new[j], g, u)
    <2>1. i \in 0..Len(seq) BY <1>1, <1>2
    <2>2. IF i = 0 THEN u \in gone[g] ELSE Removes(seq[i], g, u)
        BY <1>1, <1>2, <2>1
    <2>3. PICK j \in (i + 1)..Len(seq) : Joins(seq[j], g, u)
        BY <2>1, <2>2 DEF StillIn
    <2>4. j \in 1..Len(seq) /\ j \in (i + 1)..Len(new) BY <1>1, <2>1
    <2>5. QED BY <1>1, <2>3, <2>4
<1>3. QED BY <1>2 DEF StillIn, new

LEMMA StillInJoin ==
    ASSUME NEW S, NEW seq \in Seq(S), NEW res \in S, NEW gone, NEW g, NEW u,
           Joins(res, g, u)
    PROVE  StillIn(Append(seq, res), gone, Len(Append(seq, res)), g, u)
<1> DEFINE new == Append(seq, res)
<1>1. /\ Len(new) = Len(seq) + 1 /\ Len(seq) \in Nat
      /\ new[Len(seq) + 1] = res
    BY AppendProperties, LenProperties
<1>2. ~Removes(res, g, u) BY DEF Removes, Joins
<1> HIDE DEF new
<1>3. ASSUME NEW i \in 0..Len(new), IF i = 0 THEN u \in gone[g] ELSE Removes(new[i], g, u)
      PROVE  \E j \in (i + 1)..Len(new) : Joins(new[j], g, u)
    <2>1. i # Len(new) BY <1>1, <1>2, <1>3
    <2>2. Len(new) \in (i + 1)..Len(new) BY <1>1, <2>1
    <2>3. QED BY <1>1, <2>2
<1>4. QED BY <1>3 DEF StillIn, new

\* What a handled result may make of those who are gone
Follows(res, gone, gone2) ==
    \A g \in Groups : \A u \in gone2[g] :
        Removes(res, g, u) \/ (u \in gone[g] /\ ~Joins(res, g, u))

LEMMA StillInTail ==
    ASSUME NEW S, NEW seq \in Seq(S), seq # <<>>, NEW gone, NEW gone2,
           Follows(seq[1], gone, gone2),
           NEW g \in Groups, NEW u, NEW n \in 1..Len(seq), StillIn(seq, gone, n, g, u)
    PROVE  StillIn(Tail(seq), gone2, n - 1, g, u)
<1> DEFINE new == Tail(seq)
<1>1. /\ Len(seq) \in Nat /\ Len(new) = Len(seq) - 1
      /\ \A i \in 1..(Len(seq) - 1) : new[i] = seq[i + 1]
    BY HeadTailProperties, LenProperties
<1> HIDE DEF new
<1>2. ASSUME NEW i \in 0..(n - 1), IF i = 0 THEN u \in gone2[g] ELSE Removes(new[i], g, u)
      PROVE  \E j \in (i + 1)..(n - 1) : Joins(new[j], g, u)
    <2>1. SUFFICES \E j \in (i + 2)..n : Joins(seq[j], g, u)
        <3>1. PICK j \in (i + 2)..n : Joins(seq[j], g, u) BY <2>1
        <3>2. j - 1 \in (i + 1)..(n - 1) /\ j - 1 \in 1..(Len(seq) - 1) /\ (j - 1) + 1 = j
            BY <1>1, <1>2
        <3>3. new[j - 1] = seq[j] BY <1>1, <3>2
        <3>4. QED BY <3>1, <3>2, <3>3
    <2>2. CASE i > 0
        <3>1. Removes(seq[i + 1], g, u) /\ i + 1 \in 0..n /\ i + 1 # 0
            <4>1. i \in 1..(Len(seq) - 1) BY <1>1, <1>2, <2>2
            <4>2. QED BY <1>1, <1>2, <2>2, <4>1
        <3>2. \E j \in ((i + 1) + 1)..n : Joins(seq[j], g, u)
            BY <3>1 DEF StillIn
        <3>3. (i + 1) + 1 = i + 2 BY <1>2
        <3>4. QED BY <3>2, <3>3
    <2>3. CASE i = 0 /\ Removes(seq[1], g, u)
        <3>1. 1 \in 0..n BY <1>1
        <3>2. \E j \in (1 + 1)..n : Joins(seq[j], g, u)
            BY <2>3, <3>1 DEF StillIn
        <3>3. QED BY <2>3, <3>2
    <2>4. CASE i = 0 /\ ~Removes(seq[1], g, u)
        <3>1. u \in gone[g] /\ ~Joins(seq[1], g, u)
            BY <1>2, <2>4 DEF Follows
        <3>2. 0 \in 0..n BY <1>1
        <3>3. PICK j \in (0 + 1)..n : Joins(seq[j], g, u)
            BY <3>1, <3>2 DEF StillIn
        <3>4. j # 1 BY <3>1, <3>3
        <3>5. j \in (i + 2)..n BY <2>4, <3>4
        <3>6. QED BY <3>3, <3>5
    <2>5. QED BY <1>2, <2>2, <2>3, <2>4
<1>3. QED BY <1>2 DEF StillIn, new

\* A result posted: those loaded for a message are members still
LEMMA LoadedAppend ==
    ASSUME NEW seq \in Seq(Result), NEW res \in Result, NEW gone, LoadedAreIn(seq, gone),
           res.ok /\ res.req.op = "message" =>
               \A u \in res.members : StillIn(seq, gone, Len(seq), res.group, u)
    PROVE  LoadedAreIn(Append(seq, res), gone)
<1>1. /\ Len(Append(seq, res)) = Len(seq) + 1 /\ Len(seq) \in Nat
      /\ Append(seq, res)[Len(seq) + 1] = res
      /\ \A i \in 1..Len(seq) : Append(seq, res)[i] = seq[i]
    BY AppendProperties, LenProperties
<1>2. ASSUME NEW k \in 1..(Len(seq) + 1), Append(seq, res)[k].ok,
             Append(seq, res)[k].req.op = "message", NEW u \in Append(seq, res)[k].members
      PROVE  StillIn(Append(seq, res), gone, k - 1, Append(seq, res)[k].group, u)
    <2>1. CASE k = Len(seq) + 1
        <3>1. StillIn(seq, gone, Len(seq), res.group, u) BY <1>1, <1>2, <2>1
        <3>2. Len(seq) \in 0..Len(seq) BY <1>1
        <3>3. StillIn(Append(seq, res), gone, Len(seq), res.group, u)
            BY <3>1, <3>2, StillInAppend
        <3>4. k - 1 = Len(seq) BY <1>1, <2>1
        <3>5. QED BY <1>1, <2>1, <3>3, <3>4
    <2>2. CASE k # Len(seq) + 1
        <3>1. k \in 1..Len(seq) /\ k - 1 \in 0..Len(seq) BY <1>1, <2>2
        <3>2. StillIn(seq, gone, k - 1, seq[k].group, u)
            BY <1>1, <1>2, <3>1 DEF LoadedAreIn
        <3>3. StillIn(Append(seq, res), gone, k - 1, seq[k].group, u)
            BY <3>1, <3>2, StillInAppend
        <3>4. QED BY <1>1, <3>1, <3>3
    <2>3. QED BY <2>1, <2>2
<1>3. QED BY <1>1, <1>2 DEF LoadedAreIn

\* A result handled
LEMMA LoadedTail ==
    ASSUME NEW seq \in Seq(Result), seq # <<>>, NEW gone, NEW gone2,
           Follows(seq[1], gone, gone2), LoadedAreIn(seq, gone),
           \A k \in 1..Len(seq) : seq[k].ok => seq[k].group \in Groups
    PROVE  LoadedAreIn(Tail(seq), gone2)
<1>1. /\ Len(seq) \in Nat /\ Len(Tail(seq)) = Len(seq) - 1
      /\ \A i \in 1..(Len(seq) - 1) : Tail(seq)[i] = seq[i + 1]
    BY HeadTailProperties, LenProperties
<1>2. ASSUME NEW k \in 1..(Len(seq) - 1), Tail(seq)[k].ok,
             Tail(seq)[k].req.op = "message", NEW u \in Tail(seq)[k].members
      PROVE  StillIn(Tail(seq), gone2, k - 1, Tail(seq)[k].group, u)
    <2>1. k + 1 \in 1..Len(seq) /\ (k + 1) - 1 = k /\ k \in 1..Len(seq) BY <1>1
    <2>2. /\ seq[k + 1].group \in Groups
          /\ StillIn(seq, gone, k, seq[k + 1].group, u)
        BY <1>1, <1>2, <2>1 DEF LoadedAreIn
    <2>3. StillIn(Tail(seq), gone2, k - 1, seq[k + 1].group, u)
        BY <2>1, <2>2, StillInTail
    <2>4. QED BY <1>1, <2>3
<1>3. QED BY <1>1, <1>2 DEF LoadedAreIn

LEMMA MembersTail ==
    ASSUME NEW seq \in Seq(Result), seq # <<>>, NEW gone, NEW gone2,
           Follows(seq[1], gone, gone2), MembersAreIn(seq, gone), DOMAIN groups \subseteq Groups
    PROVE  MembersAreIn(Tail(seq), gone2)
<1>1. /\ Len(seq) \in 1..Len(seq) /\ Len(Tail(seq)) = Len(seq) - 1
    <2>1. /\ Len(seq) \in Nat /\ Len(Tail(seq)) = Len(seq) - 1 /\ Len(seq) # 0
        BY HeadTailProperties, LenProperties, EmptySeq
    <2>2. QED BY <2>1
<1>2. ASSUME NEW g \in DOMAIN groups, NEW u \in groups[g].members
      PROVE  StillIn(Tail(seq), gone2, Len(Tail(seq)), g, u)
    <2>1. g \in Groups /\ StillIn(seq, gone, Len(seq), g, u)
        BY <1>2 DEF MembersAreIn
    <2>2. StillIn(Tail(seq), gone2, Len(seq) - 1, g, u)
        BY <1>1, <2>1, StillInTail
    <2>3. QED BY <1>1, <2>2
<1>3. QED BY <1>2 DEF MembersAreIn

(***************************************************************************)
(* The initial states                                                      *)
(***************************************************************************)

LEMMA InitInv == Init => IInv
<1> SUFFICES ASSUME Init PROVE IInv
    OBVIOUS
<1> USE GroupAssumption
<1>1. TypeOK
    <2>1. DOMAIN groups \subseteq Groups /\ \A g \in DOMAIN groups : groups[g] \in GroupRow
        BY DEF Init
    <2>2. dbQueue \in Seq(Request) /\ results \in Seq(Result)
        BY EmptySeq DEF Init
    <2>3. wereIn \in [Groups -> SUBSET Users]
        BY <2>1 DEF Init, GroupRow
    <2>4. removed \in [Groups -> SUBSET Users] /\ untold \in [Groups -> SUBSET Users]
        BY DEF Init
    <2>5. users \subseteq Users /\ nextId \in 1..(MaxRequests + 1)
        BY DEF Init
    <2>6. pendingRequests \subseteq 1..(nextId - 1)
        BY DEF Init
    <2>7. /\ DOMAIN pendingNotifications \subseteq 1..(nextId - 1)
          /\ \A i \in DOMAIN pendingNotifications : pendingNotifications[i] \subseteq Users
        BY DEF Init
    <2>8. handed \in Packet \cup {NoPacket} /\ failures \in 0..MaxFailures /\ crashes \in 0..MaxCrashes
        BY DEF Init
    <2>9. QED BY <2>1, <2>2, <2>3, <2>4, <2>5, <2>6, <2>7, <2>8 DEF TypeOK
<1>2. QueuesRight
    BY EmptySeq DEF Init, QueuesRight
<1>3. HistoryRight
    BY <1>1 DEF Init, HistoryRight, TypeOK
<1>4. MembersAreIn(results, removed)
    <2>1. Len(results) = 0 BY EmptySeq DEF Init
    <2>2. QED BY <1>1, <2>1 DEF Init, MembersAreIn, StillIn, TypeOK
<1>5. LoadedAreIn(results, removed)
    <2>1. Len(results) = 0 BY EmptySeq DEF Init
    <2>2. QED BY <2>1 DEF LoadedAreIn
<1>6. GroupsWellFormed
    BY DEF Init, GroupsWellFormed, WellFormed
<1>7. OnlyMembersTold
    BY DEF Init, OnlyMembersTold, NoPacket
<1>8. QED BY <1>1, <1>2, <1>3, <1>4, <1>5, <1>6, <1>7 DEF IInv

(***************************************************************************)
(* The requests                                                            *)
(***************************************************************************)

\* What the handlers and the announcements put in the queue
LEMMA PostRight ==
    ASSUME QueuesRight, Grows, NEW r, r \in RightRequests', dbQueue' = Append(dbQueue, r),
           UNCHANGED results
    PROVE  QueuesRight'
<1>1. dbQueue \in Seq(RightRequests') /\ results \in Seq(RightResults') BY QueuesGrow
<1>2. PICK R : R = RightRequests' OBVIOUS
<1>3. Append(dbQueue, r) \in Seq(R) BY <1>1, <1>2, AppendProperties
<1>4. QED BY <1>1, <1>2, <1>3 DEF QueuesRight

LEMMA NewRequestStep ==
    ASSUME IInv, NEW op, NEW group, NEW by \in Users, NEW who, NewRequest(op, group, by, who),
           pendingRequests' \in {pendingRequests, pendingRequests \cup {nextId}},
           UNCHANGED <<tables, results, pendingNotifications, history>>,
           op \in {"create", "add", "remove", "leave", "message"},
           group \in Groups \cup {NoGroup}, who \subseteq Users,
           op = "create" \/ group \in Groups,
           op = "add" => \E u \in Users : who = {u},
           op = "leave" => who = {by}
    PROVE  IInv'
<1> USE GroupAssumption
<1> DEFINE r == [op |-> op, id |-> nextId, group |-> group, by |-> by, who |-> who]
<1>1. /\ by \in users /\ nextId \in Ids /\ nextId' = nextId + 1 /\ nextId' \in 1..(MaxRequests + 1)
      /\ dbQueue' = Append(dbQueue, r)
    BY DEF IInv, TypeOK, NewRequest, Post, Ids
<1>2. UNCHANGED <<users, groups, results, pendingNotifications, handed, wereIn, removed,
                  untold, failures, crashes>>
    BY DEF tables, history
<1>3. r \in Request /\ r.op # "notify"
    BY <1>1 DEF Request
<1>4. Grows
    <2>1. NotificationsKept
        BY <1>1, <1>2 DEF NotificationsKept, Ids
    <2>2. QED BY <1>1, <1>2, <2>1 DEF Grows, Ids
<1>5. r \in RightRequests'
    BY <1>1, <1>2, <1>3 DEF RightRequests, Ids
<1>6. QueuesRight'
    <2> HIDE DEF r
    <2>1. QueuesRight BY DEF IInv
    <2>2. QED BY <1>1, <1>2, <1>4, <1>5, <2>1, PostRight
<1>7. TypeOK'
    <2>1. dbQueue' \in Seq(Request)
        <3> HIDE DEF r
        <3>1. dbQueue \in Seq(Request) BY DEF IInv, TypeOK
        <3>2. QED BY <1>1, <1>3, <3>1, AppendProperties
    <2>2. pendingRequests' \subseteq 1..(nextId' - 1)
        <3>1. pendingRequests \subseteq 1..(nextId - 1) BY DEF IInv, TypeOK
        <3>2. nextId \in Nat \ {0} BY <1>1 DEF Ids
        <3>3. nextId \in 1..(nextId' - 1) /\ 1..(nextId - 1) \subseteq 1..(nextId' - 1)
            BY <1>1, <3>2
        <3>4. QED BY <3>1, <3>3
    <2>3. DOMAIN pendingNotifications \subseteq 1..(nextId' - 1)
        BY <1>1 DEF IInv, TypeOK, Ids
    <2>4. QED BY <1>1, <1>2, <2>1, <2>2, <2>3 DEF IInv, TypeOK
<1>8. HistoryRight'
    BY <1>2 DEF IInv, HistoryRight
<1>9. MembersAreIn(results, removed)'
    BY <1>2 DEF IInv, MembersAreIn, StillIn
<1>10. LoadedAreIn(results, removed)'
    BY <1>2 DEF IInv, LoadedAreIn, StillIn
<1>11. GroupsWellFormed' /\ OnlyMembersTold'
    BY <1>2 DEF IInv, GroupsWellFormed, WellFormed, OnlyMembersTold
<1>12. QED BY <1>6, <1>7, <1>8, <1>9, <1>10, <1>11 DEF IInv

(***************************************************************************)
(* The database thread                                                     *)
(***************************************************************************)

\* The members loaded for a message have not left since
FreshAnswer(res) ==
    res.ok /\ res.req.op = "message" =>
        \A u \in res.members : StillIn(results, removed, Len(results), res.group, u)

\* Who is a member after the request joined by it or was one and is not removed by it
Accounted(res) ==
    \A g \in DOMAIN groups' : \A u \in groups'[g].members :
        \/ Joins(res, g, u)
        \/ StillIn(results, removed, Len(results), g, u) /\ ~Removes(res, g, u)

TablesTyped ==
    /\ DOMAIN groups \subseteq Groups /\ \A g \in DOMAIN groups : groups[g] \in GroupRow
    /\ wereIn \in [Groups -> SUBSET Users]
    /\ untold \in [Groups -> SUBSET Users]

WereInGrows == \A g \in Groups : wereIn[g] \subseteq wereIn'[g]

\* The head of the queue is answered by res
Answers(res) ==
    /\ dbQueue # <<>>
    /\ res.req = Head(dbQueue)
    /\ results' = Append(results, res)
    /\ dbQueue' = Tail(dbQueue)
    /\ UNCHANGED <<users, pending, nextId, handed, removed, crashes>>

LEMMA HeadRight ==
    ASSUME IInv, dbQueue # <<>>
    PROVE  Head(dbQueue) \in RightRequests /\ Head(dbQueue) \in Request
<1>1. dbQueue \in Seq(RightRequests) BY DEF IInv, QueuesRight
<1>2. Head(dbQueue) \in RightRequests BY <1>1, HeadTailProperties
<1>3. QED BY <1>2 DEF RightRequests

LEMMA GrowsInDb ==
    ASSUME IInv, UNCHANGED <<users, pending, nextId>>, WereInGrows
    PROVE  Grows
<1> USE GroupAssumption
<1>1. UNCHANGED <<users, pendingRequests, pendingNotifications, nextId>> BY DEF pending
<1>2. nextId \in Nat BY DEF IInv, TypeOK
<1>3. NotificationsKept BY <1>1 DEF NotificationsKept
<1>4. QED BY <1>1, <1>2, <1>3 DEF Grows, WereInGrows

LEMMA AnswerStep ==
    ASSUME IInv, NEW res \in Result, Answers(res), RightAnswer(res)', FreshAnswer(res),
           Accounted(res), TablesTyped', WereInGrows, failures' \in 0..MaxFailures
    PROVE  /\ TypeOK' /\ QueuesRight' /\ OnlyMembersTold'
           /\ MembersAreIn(results, removed)' /\ LoadedAreIn(results, removed)'
<1> USE GroupAssumption
<1>1. /\ UNCHANGED <<users, pendingRequests, pendingNotifications, nextId, handed, removed, crashes>>
      /\ results' = Append(results, res) /\ dbQueue' = Tail(dbQueue)
      /\ dbQueue # <<>> /\ res.req = Head(dbQueue)
    BY DEF Answers, pending
<1>2. Grows
    BY GrowsInDb DEF Answers
<1>3. dbQueue \in Seq(RightRequests') /\ results \in Seq(RightResults')
    <2>1. QueuesRight BY DEF IInv
    <2>2. QED BY <1>2, <2>1, QueuesGrow
<1>4. results \in Seq(Result) /\ dbQueue \in Seq(Request)
    BY DEF IInv, TypeOK
<1>5. QueuesRight'
    <2>1. PICK R : R = RightRequests' OBVIOUS
    <2>2. PICK S : S = RightResults' OBVIOUS
    <2>3. res.req \in R
        BY <1>1, <1>3, <2>1, HeadTailProperties
    <2>4. res \in S BY <2>1, <2>2, <2>3 DEF RightResults
    <2>5. Tail(dbQueue) \in Seq(R) BY <1>1, <1>3, <2>1, HeadTailProperties
    <2>6. Append(results, res) \in Seq(S) BY <1>3, <2>2, <2>4, AppendProperties
    <2>7. QED BY <1>1, <2>1, <2>2, <2>5, <2>6 DEF QueuesRight
<1>6. TypeOK'
    <2>1. dbQueue' \in Seq(Request) BY <1>1, <1>4, HeadTailProperties
    <2>2. results' \in Seq(Result) BY <1>1, <1>4, AppendProperties
    <2>3. QED BY <1>1, <2>1, <2>2 DEF IInv, TypeOK, TablesTyped
<1>7. OnlyMembersTold'
    <2>1. handed.kind # "none" => handed.group \in Groups
        BY DEF IInv, TypeOK, Packet, NoPacket
    <2>2. QED BY <1>1, <2>1 DEF IInv, OnlyMembersTold, WereInGrows
<1>8. MembersAreIn(results, removed)'
    <2>1. ASSUME NEW g \in DOMAIN groups', NEW u \in groups'[g].members
          PROVE  StillIn(Append(results, res), removed, Len(Append(results, res)), g, u)
        <3>1. CASE Joins(res, g, u)
            BY <1>4, <3>1, StillInJoin
        <3>2. CASE StillIn(results, removed, Len(results), g, u) /\ ~Removes(res, g, u)
            BY <1>4, <3>2, StillInLast
        <3>3. QED BY <2>1, <3>1, <3>2 DEF Accounted
    <2>2. QED BY <1>1, <2>1 DEF MembersAreIn, StillIn
<1>9. LoadedAreIn(results, removed)'
    <2>1. LoadedAreIn(results, removed) BY DEF IInv
    <2>2. LoadedAreIn(Append(results, res), removed)
        BY <1>4, <2>1, LoadedAppend DEF FreshAnswer
    <2>3. QED BY <1>1, <2>2 DEF LoadedAreIn, StillIn
<1>10. QED BY <1>5, <1>6, <1>7, <1>8, <1>9

\* A request refused, or the members loaded: the tables stay as they are
LEMMA TablesUnchanged ==
    ASSUME IInv, NEW res \in Result, Answers(res), RightAnswer(res), FreshAnswer(res),
           res.ok => res.req.op \in {"notify", "message"},
           UNCHANGED <<groups, wereIn, untold>>, failures' \in 0..MaxFailures
    PROVE  IInv'
<1>1. RightAnswer(res)'
    BY DEF RightAnswer
<1>2. Accounted(res)
    BY DEF Accounted, Removes, IInv, MembersAreIn
<1>3. TablesTyped' /\ WereInGrows
    BY DEF TablesTyped, WereInGrows, IInv, TypeOK
<1>4. HistoryRight' /\ GroupsWellFormed'
    BY DEF IInv, HistoryRight, GroupsWellFormed, WellFormed, Answers
<1>5. QED BY <1>1, <1>2, <1>3, <1>4, AnswerStep DEF IInv

LEMMA RejectStep ==
    ASSUME IInv, NEW res \in Result, Answers(res), ~res.ok,
           UNCHANGED <<groups, wereIn, untold>>, failures' \in 0..MaxFailures
    PROVE  IInv'
<1>1. RightAnswer(res) /\ FreshAnswer(res)
    BY DEF RightAnswer, FreshAnswer
<1>2. QED BY <1>1, TablesUnchanged

LEMMA LoadStep ==
    ASSUME IInv, NEW res \in Result, Answers(res), res.req.op \in {"notify", "message"},
           Exists(res.req.group), res.group = res.req.group,
           res.members = groups[res.group].members,
           UNCHANGED <<groups, wereIn, untold>>, failures' \in 0..MaxFailures
    PROVE  IInv'
<1>1. res.group \in DOMAIN groups /\ res.group \in Groups
    BY DEF Exists, IInv, TypeOK
<1>2. RightAnswer(res)
    BY <1>1 DEF RightAnswer, IInv, HistoryRight
<1>3. FreshAnswer(res)
    BY <1>1 DEF FreshAnswer, IInv, MembersAreIn
<1>4. QED BY <1>2, <1>3, TablesUnchanged

\* What a change of one group has to keep
LEMMA TablesChanged ==
    ASSUME IInv, NEW res \in Result, Answers(res), RightAnswer(res)',
           res.req.op \notin {"notify", "message"},
           Accounted(res), TablesTyped', WereInGrows,
           \A g \in DOMAIN groups' : groups'[g].members \subseteq wereIn'[g],
           \A g \in DOMAIN groups' : WellFormed(groups'[g]),
           UNCHANGED failures
    PROVE  IInv'
<1>1. FreshAnswer(res) BY DEF FreshAnswer
<1>2. failures' \in 0..MaxFailures BY DEF IInv, TypeOK
<1>3. UNCHANGED <<users, removed>> BY DEF Answers
<1>4. HistoryRight'
    BY <1>3 DEF IInv, HistoryRight, WereInGrows
<1>5. GroupsWellFormed'
    BY <1>3 DEF GroupsWellFormed, WellFormed
<1>6. QED BY <1>1, <1>2, <1>4, <1>5, AnswerStep DEF IInv

\* Nobody has been removed from a group that has had no members
LEMMA NeverIn ==
    ASSUME IInv, NEW g \in Groups, wereIn[g] = {}, NEW u
    PROVE  StillIn(results, removed, Len(results), g, u) /\ g \notin DOMAIN groups
<1>1. u \notin removed[g]
    BY DEF IInv, HistoryRight
<1>2. \A i \in 1..Len(results) : ~Removes(results[i], g, u)
    <2>1. results \in Seq(RightResults) BY DEF IInv, QueuesRight
    <2>2. \A i \in 1..Len(results) : results[i] \in RightResults
        BY <2>1, ElementOfSeq
    <2>3. QED BY <2>2 DEF RightResults, RightAnswer, Removes
<1>3. g \notin DOMAIN groups
    BY DEF IInv, HistoryRight, GroupsWellFormed, WellFormed
<1>4. QED BY <1>1, <1>2, <1>3 DEF StillIn

LEMMA CreateStep ==
    ASSUME IInv, NEW res \in Result, Answers(res), res.req \in RightRequests,
           res.req.op = "create", MayCreate(res.req), res.ok,
           res.members = {}, NEW g \in Groups, res.group = g, wereIn[g] = {},
           groups' = [h \in DOMAIN groups \cup {g} |->
                         IF h = g THEN [creator |-> res.req.by,
                                        members |-> {res.req.by} \cup res.req.who]
                         ELSE groups[h]],
           wereIn' = [wereIn EXCEPT ![g] = {res.req.by} \cup res.req.who],
           UNCHANGED <<untold, failures>>
    PROVE  IInv'
<1>1. /\ g \notin DOMAIN groups
      /\ \A u \in Users : StillIn(results, removed, Len(results), g, u)
    BY NeverIn
<1>2. res.req.by \in Users /\ res.req.who \subseteq Users /\ res.req.by \in users
    BY DEF Result, Request, RightRequests
<1>3. DOMAIN groups' = DOMAIN groups \cup {g}
    OBVIOUS
<1>4. /\ groups'[g] = [creator |-> res.req.by, members |-> {res.req.by} \cup res.req.who]
      /\ \A h \in DOMAIN groups : groups'[h] = groups[h]
    BY <1>1
<1>5. wereIn \in [Groups -> SUBSET Users] BY DEF IInv, TypeOK
<1>6. /\ wereIn'[g] = {res.req.by} \cup res.req.who
      /\ \A h \in Groups : h # g => wereIn'[h] = wereIn[h]
    BY <1>5
<1>7. TablesTyped'
    <2>1. DOMAIN groups' \subseteq Groups BY <1>3 DEF IInv, TypeOK
    <2>2. \A h \in DOMAIN groups' : groups'[h] \in GroupRow
        BY <1>2, <1>3, <1>4 DEF IInv, TypeOK, GroupRow
    <2>3. wereIn' \in [Groups -> SUBSET Users] BY <1>2, <1>5
    <2>4. QED BY <2>1, <2>2, <2>3 DEF TablesTyped, IInv, TypeOK
<1>8. WereInGrows
    BY <1>6 DEF WereInGrows
<1>9. RightAnswer(res)'
    BY DEF RightAnswer
<1>10. Accounted(res)
    <2>1. \A h, u : ~Removes(res, h, u) BY DEF Removes
    <2>2. \A h \in DOMAIN groups : \A u \in groups'[h].members :
              StillIn(results, removed, Len(results), h, u)
        BY <1>4 DEF IInv, MembersAreIn
    <2>3. \A u \in groups'[g].members : StillIn(results, removed, Len(results), g, u)
        BY <1>1, <1>2, <1>4
    <2>4. QED BY <1>3, <2>1, <2>2, <2>3 DEF Accounted
<1>11. \A h \in DOMAIN groups' : groups'[h].members \subseteq wereIn'[h]
    BY <1>1, <1>3, <1>4, <1>6 DEF IInv, HistoryRight, TypeOK
<1>12. \A h \in DOMAIN groups' : WellFormed(groups'[h])
    <2>1. WellFormed(groups'[g])
        BY <1>2, <1>4 DEF WellFormed, MayCreate
    <2>2. \A h \in DOMAIN groups : WellFormed(groups'[h])
        BY <1>4 DEF IInv, GroupsWellFormed
    <2>3. QED BY <1>3, <2>1, <2>2
<1>13. QED BY <1>7, <1>8, <1>9, <1>10, <1>11, <1>12, TablesChanged

LEMMA FiniteMembers ==
    ASSUME IInv, NEW g \in DOMAIN groups
    PROVE  /\ IsFiniteSet(groups[g].members) /\ groups[g].members \subseteq Users
           /\ Cardinality(groups[g].members) \in Nat
           /\ groups[g] \in GroupRow /\ g \in Groups
<1>1. groups[g] \in GroupRow /\ g \in Groups BY DEF IInv, TypeOK
<1>2. groups[g].members \subseteq Users BY <1>1 DEF GroupRow
<1>3. IsFiniteSet(groups[g].members) BY <1>2, GroupAssumption, FS_Subset
<1>4. Cardinality(groups[g].members) \in Nat BY <1>3, FS_CardinalityType
<1>5. QED BY <1>1, <1>2, <1>3, <1>4

LEMMA OneMore ==
    ASSUME NEW S, IsFiniteSet(S), NEW u, u \notin S
    PROVE  Cardinality(S \cup {u}) = Cardinality(S) + 1
BY FS_AddElement

LEMMA AddStep ==
    ASSUME IInv, NEW res \in Result, Answers(res), res.req \in RightRequests,
           res.req.op = "add", MayAdd(res.req), res.ok,
           res.members = {}, res.group = res.req.group,
           groups' = [groups EXCEPT ![res.group].members = @ \cup res.req.who],
           wereIn' = [wereIn EXCEPT ![res.group] = @ \cup res.req.who],
           UNCHANGED <<untold, failures>>
    PROVE  IInv'
<1> USE GroupAssumption
<1>1. PICK g : g = res.group /\ g \in DOMAIN groups
    BY DEF MayAdd, Exists
<1>2. PICK u \in Users : res.req.who = {u}
    BY DEF RightRequests
<1>3. /\ IsFiniteSet(groups[g].members) /\ groups[g].members \subseteq Users
      /\ Cardinality(groups[g].members) \in Nat
      /\ groups[g] \in GroupRow /\ g \in Groups
    BY <1>1, FiniteMembers
<1>4. /\ DOMAIN groups' = DOMAIN groups
      /\ groups'[g] = [groups[g] EXCEPT !.members = @ \cup {u}]
      /\ \A h \in DOMAIN groups : h # g => groups'[h] = groups[h]
    BY <1>1, <1>2
<1>5. /\ groups'[g].members = groups[g].members \cup {u}
      /\ groups'[g].creator = groups[g].creator
      /\ groups'[g] \in GroupRow
    BY <1>2, <1>3, <1>4 DEF GroupRow
<1>6. wereIn \in [Groups -> SUBSET Users] BY DEF IInv, TypeOK
<1>7. /\ wereIn'[g] = wereIn[g] \cup {u}
      /\ \A h \in Groups : h # g => wereIn'[h] = wereIn[h]
    BY <1>1, <1>2, <1>3, <1>6
<1>8. TablesTyped'
    <2>1. wereIn' \in [Groups -> SUBSET Users] BY <1>2, <1>6
    <2>2. QED BY <1>4, <1>5, <2>1 DEF TablesTyped, IInv, TypeOK
<1>9. WereInGrows
    BY <1>7 DEF WereInGrows
<1>10. RightAnswer(res)'
    BY <1>1, <1>3 DEF RightAnswer
<1>11. Accounted(res)
    <2>1. \A h, v : ~Removes(res, h, v) BY DEF Removes
    <2>2. Joins(res, g, u) BY <1>1, <1>2 DEF Joins
    <2>3. \A h \in DOMAIN groups : \A v \in groups[h].members :
              StillIn(results, removed, Len(results), h, v)
        BY DEF IInv, MembersAreIn
    <2>4. \A h \in DOMAIN groups : \A v \in groups'[h].members :
              v \in groups[h].members \/ (h = g /\ v = u)
        BY <1>4, <1>5
    <2>5. QED BY <1>4, <2>1, <2>2, <2>3, <2>4 DEF Accounted
<1>12. \A h \in DOMAIN groups' : groups'[h].members \subseteq wereIn'[h]
    BY <1>4, <1>5, <1>7 DEF IInv, HistoryRight, TypeOK
<1>13. \A h \in DOMAIN groups' : WellFormed(groups'[h])
    <2>1. u \notin groups[g].members /\ u \in users
          /\ Cardinality(groups[g].members) < MaxMembers
        BY <1>1, <1>2 DEF MayAdd
    <2>2. Cardinality(groups[g].members \cup {u}) = Cardinality(groups[g].members) + 1
        BY <1>3, <2>1, OneMore
    <2>3. WellFormed(groups[g]) BY <1>1 DEF IInv, GroupsWellFormed
    <2>4. WellFormed(groups'[g])
        <3>1. Cardinality(groups'[g].members) = Cardinality(groups[g].members) + 1
            BY <1>5, <2>2
        <3>2. Cardinality(groups'[g].members) <= MaxMembers
            BY <1>3, <2>1, <3>1
        <3>3. QED BY <1>5, <2>1, <2>3, <3>2 DEF WellFormed
    <2>5. QED BY <1>4, <2>4 DEF IInv, GroupsWellFormed
<1>14. QED BY <1>8, <1>9, <1>10, <1>11, <1>12, <1>13, TablesChanged

\* A subset of the members stays, the creator among them
LEMMA FewerMembers ==
    ASSUME IInv, NEW res \in Result, Answers(res), res.req \in RightRequests,
           res.req.op \in {"remove", "leave"}, res.ok,
           res.members = {}, res.group = res.req.group, Exists(res.group),
           res.req.who \subseteq groups[res.group].members,
           groups[res.group].creator \notin res.req.who,
           groups' = [groups EXCEPT ![res.group].members = @ \ res.req.who],
           wereIn' = wereIn, untold' \in [Groups -> SUBSET Users], UNCHANGED failures
    PROVE  IInv'
<1> USE GroupAssumption
<1>1. PICK g : g = res.group /\ g \in DOMAIN groups
    BY DEF Exists
<1>2. /\ IsFiniteSet(groups[g].members) /\ groups[g].members \subseteq Users
      /\ Cardinality(groups[g].members) \in Nat
      /\ groups[g] \in GroupRow /\ g \in Groups
    BY <1>1, FiniteMembers
<1>3. /\ DOMAIN groups' = DOMAIN groups
      /\ groups'[g] = [groups[g] EXCEPT !.members = @ \ res.req.who]
      /\ \A h \in DOMAIN groups : h # g => groups'[h] = groups[h]
    BY <1>1
<1>4. /\ groups'[g].members = groups[g].members \ res.req.who
      /\ groups'[g].creator = groups[g].creator
      /\ groups'[g] \in GroupRow
    BY <1>2, <1>3 DEF GroupRow
<1>5. TablesTyped'
    BY <1>3, <1>4 DEF TablesTyped, IInv, TypeOK
<1>6. WereInGrows
    BY DEF WereInGrows
<1>7. RightAnswer(res)'
    BY <1>1, <1>2 DEF RightAnswer, IInv, HistoryRight
<1>8. Accounted(res)
    <2>1. ASSUME NEW h \in DOMAIN groups', NEW u \in groups'[h].members
          PROVE  StillIn(results, removed, Len(results), h, u) /\ ~Removes(res, h, u)
        <3>1. u \in groups[h].members BY <1>3, <1>4, <2>1
        <3>2. StillIn(results, removed, Len(results), h, u)
            BY <1>3, <2>1, <3>1 DEF IInv, MembersAreIn
        <3>3. ~Removes(res, h, u)
            BY <1>1, <1>4, <2>1 DEF Removes
        <3>4. QED BY <3>2, <3>3
    <2>2. QED BY <2>1 DEF Accounted
<1>9. \A h \in DOMAIN groups' : groups'[h].members \subseteq wereIn'[h]
    BY <1>3, <1>4 DEF IInv, HistoryRight
<1>10. \A h \in DOMAIN groups' : WellFormed(groups'[h])
    <2>1. WellFormed(groups[g]) BY <1>1 DEF IInv, GroupsWellFormed
    <2>2. /\ Cardinality(groups[g].members \ res.req.who) \in Nat
          /\ Cardinality(groups[g].members \ res.req.who) <= Cardinality(groups[g].members)
        <3>1. groups[g].members \ res.req.who \subseteq groups[g].members OBVIOUS
        <3>2. IsFiniteSet(groups[g].members \ res.req.who) BY <1>2, <3>1, FS_Subset
        <3>3. QED BY <1>2, <3>1, <3>2, FS_Subset, FS_CardinalityType
    <2>3. Cardinality(groups'[g].members) <= MaxMembers
        <3>1. Cardinality(groups'[g].members) = Cardinality(groups[g].members \ res.req.who)
            BY <1>4
        <3>2. Cardinality(groups[g].members) <= MaxMembers BY <2>1 DEF WellFormed
        <3>3. QED BY <1>2, <2>2, <3>1, <3>2
    <2>4. WellFormed(groups'[g])
        BY <1>1, <1>4, <2>1, <2>3 DEF WellFormed
    <2>5. QED BY <1>3, <2>4 DEF IInv, GroupsWellFormed
<1>11. QED BY <1>5, <1>6, <1>7, <1>8, <1>9, <1>10, TablesChanged

LEMMA RemoveStep ==
    ASSUME IInv, NEW res \in Result, Answers(res), res.req \in RightRequests,
           res.req.op = "remove", MayRemove(res.req), res.ok,
           res.members = {}, res.group = res.req.group,
           groups' = [groups EXCEPT ![res.group].members = @ \ res.req.who],
           untold' = [untold EXCEPT ![res.group] = @ \cup res.req.who],
           UNCHANGED <<wereIn, failures>>
    PROVE  IInv'
<1>1. /\ res.req.who \subseteq groups[res.group].members /\ Exists(res.group)
      /\ groups[res.group].creator \notin res.req.who
    BY DEF MayRemove
<1>2. untold' \in [Groups -> SUBSET Users]
    <2>1. res.req.who \subseteq Users BY DEF Result, Request
    <2>2. QED BY <2>1 DEF IInv, TypeOK
<1>3. QED BY <1>1, <1>2, FewerMembers

LEMMA LeaveStep ==
    ASSUME IInv, NEW res \in Result, Answers(res), res.req \in RightRequests,
           res.req.op = "leave", MayLeave(res.req), res.ok,
           res.members = {}, res.group = res.req.group,
           groups' = IF res.req.by = groups[res.group].creator
                     THEN [h \in DOMAIN groups \ {res.group} |-> groups[h]]
                     ELSE [groups EXCEPT ![res.group].members = @ \ res.req.who],
           UNCHANGED <<wereIn, untold, failures>>
    PROVE  IInv'
<1> USE GroupAssumption
<1>1. /\ res.group \in DOMAIN groups /\ Exists(res.group) /\ res.group \in Groups
      /\ res.req.who = {res.req.by} /\ res.req.by \in groups[res.group].members
    BY DEF MayLeave, Exists, RightRequests, IInv, TypeOK
<1>2. untold' \in [Groups -> SUBSET Users]
    BY DEF IInv, TypeOK
<1>3. CASE res.req.by # groups[res.group].creator
    <2>1. /\ res.req.who \subseteq groups[res.group].members
          /\ groups[res.group].creator \notin res.req.who
        BY <1>1, <1>3
    <2>2. groups' = [groups EXCEPT ![res.group].members = @ \ res.req.who]
        BY <1>3
    <2>3. QED BY <1>1, <1>2, <2>1, <2>2, FewerMembers
<1>4. CASE res.req.by = groups[res.group].creator
    <2>1. /\ DOMAIN groups' = DOMAIN groups \ {res.group}
          /\ \A h \in DOMAIN groups' : h \in DOMAIN groups /\ groups'[h] = groups[h]
        BY <1>4
    <2>2. TablesTyped'
        BY <2>1 DEF TablesTyped, IInv, TypeOK
    <2>3. WereInGrows
        BY DEF WereInGrows
    <2>4. RightAnswer(res)'
        BY <1>1 DEF RightAnswer, IInv, HistoryRight
    <2>5. Accounted(res)
        <3>1. \A h \in DOMAIN groups' : \A u \in groups'[h].members :
                  StillIn(results, removed, Len(results), h, u)
            BY <2>1 DEF IInv, MembersAreIn
        <3>2. \A h \in DOMAIN groups' : \A u : ~Removes(res, h, u)
            BY <2>1 DEF Removes
        <3>3. QED BY <3>1, <3>2 DEF Accounted
    <2>6. \A h \in DOMAIN groups' : groups'[h].members \subseteq wereIn'[h]
        BY <2>1 DEF IInv, HistoryRight
    <2>7. \A h \in DOMAIN groups' : WellFormed(groups'[h])
        BY <2>1 DEF IInv, GroupsWellFormed
    <2>8. QED BY <2>2, <2>3, <2>4, <2>5, <2>6, <2>7, TablesChanged
<1>5. QED BY <1>3, <1>4

\* The result a reply makes
Answer(req, ok, group, members) == [req |-> req, ok |-> ok, group |-> group, members |-> members]

LEMMA AnswerTyped ==
    ASSUME IInv, dbQueue # <<>>, NEW ok \in BOOLEAN, NEW group \in Groups \cup {NoGroup},
           NEW members \in SUBSET Users
    PROVE  Answer(Head(dbQueue), ok, group, members) \in Result
BY HeadRight DEF Answer, Result

LEMMA DbStepInv == IInv /\ DbStep => IInv'
<1> SUFFICES ASSUME IInv, DbStep PROVE IInv'
    OBVIOUS
<1> DEFINE req == Head(dbQueue)
<1>1. /\ dbQueue # <<>> /\ dbQueue' = Tail(dbQueue)
      /\ UNCHANGED <<users, pending, nextId, handed, removed, failures, crashes>>
      /\ \/ CreateGroup(req) \/ AddMember(req) \/ RemoveMember(req)
         \/ LeaveGroup(req) \/ LoadGroupMembers(req) \/ Rejected(req)
    BY DEF DbStep
<1>2. /\ req \in RightRequests /\ req \in Request
      /\ req.group \in Groups \cup {NoGroup} /\ req.by \in Users /\ req.who \subseteq Users
    <2>1. req \in RightRequests /\ req \in Request BY <1>1, HeadRight
    <2>2. QED BY <2>1 DEF Request
<1>3. failures' \in 0..MaxFailures BY <1>1 DEF IInv, TypeOK
<1>4. ASSUME NEW ok, NEW group, NEW members, Reply(req, ok, group, members),
             Answer(req, ok, group, members) \in Result
      PROVE  Answers(Answer(req, ok, group, members))
    <2>1. results' = Append(results, Answer(req, ok, group, members))
        BY <1>4 DEF Reply, Answer
    <2>2. QED BY <1>1, <2>1 DEF Answers, Answer
<1>5. CASE CreateGroup(req)
    <2>1. PICK g \in Groups :
             /\ wereIn[g] = {}
             /\ groups' = [h \in DOMAIN groups \cup {g} |->
                              IF h = g THEN [creator |-> req.by,
                                             members |-> {req.by} \cup req.who]
                              ELSE groups[h]]
             /\ wereIn' = [wereIn EXCEPT ![g] = {req.by} \cup req.who]
             /\ Reply(req, TRUE, g, {})
        BY <1>5 DEF CreateGroup
    <2>2. req.op = "create" /\ MayCreate(req) /\ UNCHANGED untold
        BY <1>5 DEF CreateGroup
    <2>3. PICK res : res = Answer(req, TRUE, g, {}) OBVIOUS
    <2>4. res \in Result /\ Answers(res)
        BY <1>1, <1>4, <2>1, <2>3, AnswerTyped
    <2>5. res.req = req /\ res.ok /\ res.group = g /\ res.members = {}
        BY <2>3 DEF Answer
    <2> HIDE DEF req
    <2>6. QED BY <1>1, <1>2, <2>1, <2>2, <2>4, <2>5, CreateStep
<1>6. CASE AddMember(req) \/ RemoveMember(req) \/ LeaveGroup(req)
    <2>1. PICK res : res = Answer(req, TRUE, req.group, {}) OBVIOUS
    <2>2. Reply(req, TRUE, req.group, {})
        BY <1>6 DEF AddMember, RemoveMember, LeaveGroup
    <2>3. res \in Result /\ Answers(res)
        BY <1>1, <1>2, <1>4, <2>1, <2>2, AnswerTyped
    <2>4. res.req = req /\ res.ok /\ res.group = req.group /\ res.members = {}
        BY <2>1 DEF Answer
    <2> HIDE DEF req
    <2>5. CASE AddMember(req)
        <3>1. /\ req.op = "add" /\ MayAdd(req)
              /\ groups' = [groups EXCEPT ![req.group].members = @ \cup req.who]
              /\ wereIn' = [wereIn EXCEPT ![req.group] = @ \cup req.who]
              /\ UNCHANGED <<untold, failures>>
            BY <1>1, <2>5 DEF AddMember
        <3>2. QED BY <1>2, <2>3, <2>4, <3>1, AddStep
    <2>6. CASE RemoveMember(req)
        <3>1. /\ req.op = "remove" /\ MayRemove(req)
              /\ groups' = [groups EXCEPT ![req.group].members = @ \ req.who]
              /\ untold' = [untold EXCEPT ![req.group] = @ \cup req.who]
              /\ UNCHANGED <<wereIn, failures>>
            BY <1>1, <2>6 DEF RemoveMember
        <3>2. QED BY <1>2, <2>3, <2>4, <3>1, RemoveStep
    <2>7. CASE LeaveGroup(req)
        <3>1. /\ req.op = "leave" /\ MayLeave(req)
              /\ groups' = IF req.by = groups[req.group].creator
                           THEN [h \in DOMAIN groups \ {req.group} |-> groups[h]]
                           ELSE [groups EXCEPT ![req.group].members = @ \ req.who]
              /\ UNCHANGED <<wereIn, untold, failures>>
            BY <1>1, <2>7 DEF LeaveGroup
        <3>2. QED BY <1>2, <2>3, <2>4, <3>1, LeaveStep
    <2>8. QED BY <1>6, <2>5, <2>6, <2>7
<1>7. CASE LoadGroupMembers(req)
    <2>1. PICK res : res = Answer(req, TRUE, req.group, groups[req.group].members) OBVIOUS
    <2>2. /\ Reply(req, TRUE, req.group, groups[req.group].members)
          /\ req.op \in {"notify", "message"} /\ Exists(req.group)
          /\ UNCHANGED <<groups, wereIn, untold>>
        BY <1>7 DEF LoadGroupMembers
    <2>3. groups[req.group].members \in SUBSET Users
        BY <2>2, FiniteMembers DEF Exists
    <2>4. res \in Result /\ Answers(res)
        BY <1>1, <1>2, <1>4, <2>1, <2>2, <2>3, AnswerTyped
    <2>5. /\ res.req = req /\ res.ok /\ res.group = req.group
          /\ res.members = groups[req.group].members
        BY <2>1 DEF Answer
    <2> HIDE DEF req
    <2>6. QED BY <1>3, <2>2, <2>4, <2>5, LoadStep
<1>8. CASE Rejected(req)
    <2>1. PICK res : res = Answer(req, FALSE, req.group, {}) OBVIOUS
    <2>2. Reply(req, FALSE, req.group, {}) /\ UNCHANGED <<groups, wereIn, untold>>
        BY <1>8 DEF Rejected
    <2>3. res \in Result /\ Answers(res)
        BY <1>1, <1>2, <1>4, <2>1, <2>2, AnswerTyped
    <2>4. ~res.ok BY <2>1 DEF Answer
    <2> HIDE DEF req
    <2>5. QED BY <1>3, <2>2, <2>3, <2>4, RejectStep
<1>9. QED BY <1>1, <1>5, <1>6, <1>7, <1>8

LEMMA DbFailsInv == IInv /\ DbFails => IInv'
<1> SUFFICES ASSUME IInv, DbFails PROVE IInv'
    OBVIOUS
<1> USE GroupAssumption
<1>1. /\ dbQueue # <<>> /\ dbQueue' = Tail(dbQueue)
      /\ Reply(Head(dbQueue), FALSE, Head(dbQueue).group, {})
      /\ UNCHANGED <<users, groups, pending, nextId, handed, wereIn, removed, untold, crashes>>
    BY DEF DbFails, tables
<1>2. failures' \in 0..MaxFailures BY DEF DbFails, IInv, TypeOK
<1>3. Head(dbQueue).group \in Groups \cup {NoGroup}
    BY <1>1, HeadRight DEF Request
<1>4. PICK res : res = Answer(Head(dbQueue), FALSE, Head(dbQueue).group, {}) OBVIOUS
<1>5. res \in Result BY <1>1, <1>3, <1>4, AnswerTyped
<1>6. Answers(res) /\ ~res.ok
    BY <1>1, <1>4 DEF Answers, Answer, Reply
<1>7. QED BY <1>1, <1>2, <1>5, <1>6, RejectStep

(***************************************************************************)
(* The main thread                                                         *)
(***************************************************************************)

LEMMA FirstResult ==
    ASSUME IInv, results # <<>>
    PROVE  /\ Head(results) = results[1] /\ 1 \in 1..Len(results)
           /\ Head(results) \in RightResults /\ Head(results) \in Result
           /\ Tail(results) \in Seq(Result)
<1>1. results \in Seq(RightResults) /\ results \in Seq(Result)
    BY DEF IInv, QueuesRight, TypeOK
<1>2. /\ Head(results) = results[1] /\ Head(results) \in RightResults
      /\ Head(results) \in Result /\ Tail(results) \in Seq(Result)
    BY <1>1, HeadTailProperties
<1>3. 1 \in 1..Len(results)
    <2>1. Len(results) \in Nat /\ Len(results) # 0
        BY <1>1, LenProperties, EmptySeq
    <2>2. QED BY <2>1
<1>4. QED BY <1>2, <1>3

\* Handling the first result
LEMMA HandledStep ==
    ASSUME IInv, results # <<>>, results' = Tail(results), UNCHANGED groups,
           Follows(results[1], removed, removed')
    PROVE  MembersAreIn(results, removed)' /\ LoadedAreIn(results, removed)'
<1>1. /\ results \in Seq(Result) /\ DOMAIN groups \subseteq Groups
      /\ MembersAreIn(results, removed) /\ LoadedAreIn(results, removed)
    BY DEF IInv, TypeOK
<1>2. \A k \in 1..Len(results) : results[k].ok => results[k].group \in Groups
    <2>1. results \in Seq(RightResults) BY DEF IInv, QueuesRight
    <2>2. \A k \in 1..Len(results) : results[k] \in RightResults BY <2>1, ElementOfSeq
    <2>3. QED BY <2>2 DEF RightResults, RightAnswer
<1>3. PICK gone2 : gone2 = removed' OBVIOUS
<1>4. Follows(results[1], removed, gone2) BY <1>3
<1>5. MembersAreIn(Tail(results), gone2)
    BY <1>1, <1>4, MembersTail
<1>6. LoadedAreIn(Tail(results), gone2)
    BY <1>1, <1>2, <1>4, LoadedTail
<1>7. MembersAreIn(results, removed)'
    BY <1>3, <1>5 DEF MembersAreIn, StillIn
<1>8. LoadedAreIn(results, removed)'
    BY <1>3, <1>6 DEF LoadedAreIn, StillIn
<1>9. QED BY <1>7, <1>8

LEMMA TailRight ==
    ASSUME IInv, results # <<>>, results' = Tail(results), UNCHANGED dbQueue, Grows
    PROVE  QueuesRight'
<1>1. PICK R : R = RightRequests' OBVIOUS
<1>2. PICK S : S = RightResults' OBVIOUS
<1>3. QueuesRight BY DEF IInv
<1>4. dbQueue \in Seq(R) /\ results \in Seq(S) BY <1>1, <1>2, <1>3, QueuesGrow
<1>5. Tail(results) \in Seq(S) BY <1>4, HeadTailProperties
<1>6. QED BY <1>1, <1>2, <1>4, <1>5 DEF QueuesRight

LEMMA CompletedQueues ==
    ASSUME IInv, OnCompleted
    PROVE  QueuesRight' /\ dbQueue' \in Seq(Request)
<1> USE GroupAssumption
<1> DEFINE res == Head(results)
           note == [op |-> "notify", id |-> res.req.id, group |-> res.group,
                    by |-> res.req.by, who |-> {}]
<1>1. /\ results # <<>> /\ results' = Tail(results) /\ res.req.id \in pendingRequests
      /\ pendingRequests' = pendingRequests \ {res.req.id} /\ Announce(res)
      /\ res.req.op \in {"create", "add", "remove", "leave"}
      /\ UNCHANGED <<users, groups, nextId, handed, wereIn, untold, failures, crashes>>
    BY DEF OnCompleted, tables
<1>2. res \in RightResults /\ res \in Result BY <1>1, FirstResult
<1>3. /\ res.req \in Request /\ res.req \in RightRequests /\ res.req.id \in Ids
      /\ res.req.id < nextId /\ res.req.by \in Users /\ res.req.by \in users
      /\ RightAnswer(res) /\ Also(res.req) \subseteq Users
    <2>1. res.req \in RightRequests /\ RightAnswer(res) BY <1>2 DEF RightResults
    <2>2. res.req \in Request /\ res.req.id < nextId /\ res.req.by \in users
        BY <2>1 DEF RightRequests
    <2>3. QED BY <2>1, <2>2 DEF Request, Also
<1>4. nextId \in Nat BY DEF IInv, TypeOK
<1>5. \/ res.ok /\ NotifyLater(res)
      \/ ~res.ok /\ UNCHANGED <<dbQueue, pendingNotifications>>
    BY <1>1 DEF Announce
<1>6. Grows
    <2>1. ASSUME NEW i \in Ids, i < nextId, i \notin pendingRequests,
                 i \in DOMAIN pendingNotifications'
          PROVE  /\ i \in DOMAIN pendingNotifications
                 /\ pendingNotifications'[i] = pendingNotifications[i]
        <3>1. i # res.req.id BY <1>1, <2>1
        <3>2. QED BY <1>5, <2>1, <3>1 DEF NotifyLater
    <2>2. NotificationsKept BY <1>1, <2>1 DEF NotificationsKept
    <2>3. QED BY <1>1, <1>4, <2>2 DEF Grows
<1>7. CASE res.ok
    <2>1. dbQueue' = Append(dbQueue, note)
        BY <1>5, <1>7 DEF NotifyLater, Post
    <2>2. /\ pendingNotifications'[res.req.id] = Also(res.req)
          /\ res.group \in Groups /\ Also(res.req) \subseteq wereIn[res.group]
        BY <1>3, <1>5, <1>7 DEF NotifyLater, Also, RightAnswer
    <2>3. note \in Request /\ note \in RightRequests'
        <3>1. note \in Request BY <1>3, <2>2 DEF Request
        <3>2. note.id \notin pendingRequests' BY <1>1
        <3>3. QED BY <1>1, <1>3, <2>2, <3>1, <3>2 DEF RightRequests
    <2> HIDE DEF note
    <2>4. QueuesRight'
        <3>1. PICK R : R = RightRequests' OBVIOUS
        <3>2. PICK S : S = RightResults' OBVIOUS
        <3>3. QueuesRight BY DEF IInv
        <3>4. dbQueue \in Seq(R) /\ results \in Seq(S) BY <1>6, <3>1, <3>2, <3>3, QueuesGrow
        <3>5. Append(dbQueue, note) \in Seq(R) /\ Tail(results) \in Seq(S)
            BY <1>1, <2>3, <3>1, <3>4, AppendProperties, HeadTailProperties
        <3>6. QED BY <1>1, <2>1, <3>1, <3>2, <3>5 DEF QueuesRight
    <2>5. dbQueue \in Seq(Request) BY DEF IInv, TypeOK
    <2>6. QED BY <2>1, <2>3, <2>4, <2>5, AppendProperties
<1>8. CASE ~res.ok
    <2>1. UNCHANGED dbQueue BY <1>5, <1>8
    <2>2. dbQueue \in Seq(Request) BY DEF IInv, TypeOK
    <2>3. QED BY <1>1, <1>6, <2>1, <2>2, TailRight
<1>9. QED BY <1>7, <1>8

LEMMA CompletedInv == IInv /\ OnCompleted => IInv'
<1> SUFFICES ASSUME IInv, OnCompleted PROVE IInv'
    OBVIOUS
<1> USE GroupAssumption
<1> DEFINE res == Head(results)
<1>1. /\ results # <<>> /\ results' = Tail(results) /\ res.req.id \in pendingRequests
      /\ pendingRequests' = pendingRequests \ {res.req.id} /\ Announce(res)
      /\ res.req.op \in {"create", "add", "remove", "leave"}
      /\ removed' = IF res.ok /\ res.group \in Groups
                    THEN [removed EXCEPT ![res.group] =
                             IF res.req.op \in {"remove", "leave"} THEN @ \cup res.req.who
                             ELSE @ \ res.req.who]
                    ELSE removed
      /\ UNCHANGED <<users, groups, nextId, handed, wereIn, untold, failures, crashes>>
    BY DEF OnCompleted, tables
<1>2. /\ res \in RightResults /\ res \in Result /\ res = results[1]
      /\ Tail(results) \in Seq(Result)
    BY <1>1, FirstResult
<1>3. /\ res.req.who \subseteq Users /\ res.req.id \in Ids /\ RightAnswer(res)
      /\ Also(res.req) \subseteq Users
    BY <1>2 DEF RightResults, Result, Request, Also
<1>4. \/ res.ok /\ NotifyLater(res)
      \/ ~res.ok /\ UNCHANGED <<dbQueue, pendingNotifications>>
    BY <1>1 DEF Announce
<1>5. QueuesRight' /\ dbQueue' \in Seq(Request) BY CompletedQueues
<1>6. removed \in [Groups -> SUBSET Users] /\ removed' \in [Groups -> SUBSET Users]
    <2>1. removed \in [Groups -> SUBSET Users] BY DEF IInv, TypeOK
    <2>2. QED BY <1>1, <1>3, <2>1
<1>7. TypeOK'
    <2>1. /\ pendingRequests \subseteq 1..(nextId - 1)
          /\ DOMAIN pendingNotifications \subseteq 1..(nextId - 1)
          /\ \A i \in DOMAIN pendingNotifications : pendingNotifications[i] \subseteq Users
        BY DEF IInv, TypeOK
    <2>2. /\ DOMAIN pendingNotifications' \subseteq 1..(nextId - 1)
          /\ \A i \in DOMAIN pendingNotifications' : pendingNotifications'[i] \subseteq Users
        <3>1. CASE NotifyLater(res)
            BY <1>1, <1>3, <2>1, <3>1 DEF NotifyLater
        <3>2. CASE UNCHANGED <<dbQueue, pendingNotifications>>
            BY <2>1, <3>2
        <3>3. QED BY <1>4, <3>1, <3>2
    <2>3. pendingRequests' \subseteq 1..(nextId - 1) BY <1>1, <2>1
    <2>4. QED BY <1>1, <1>2, <1>5, <1>6, <2>2, <2>3 DEF IInv, TypeOK
<1>8. HistoryRight'
    <2>1. \A g \in Groups : removed[g] \subseteq wereIn[g]
        BY DEF IInv, HistoryRight
    <2>2. \A g \in Groups : removed'[g] \subseteq wereIn[g]
        BY <1>1, <1>3, <1>6, <2>1 DEF RightAnswer
    <2>3. QED BY <1>1, <2>2 DEF IInv, HistoryRight
<1>9. Follows(results[1], removed, removed')
    <2>1. Follows(res, removed, removed')
        <3>1. CASE ~res.ok
            BY <1>1, <3>1 DEF Follows, Joins
        <3>2. CASE res.ok
            <4>1. res.group \in Groups BY <1>3, <3>2 DEF RightAnswer
            <4>2. QED BY <1>1, <1>6, <3>2, <4>1 DEF Follows, Joins, Removes
        <3>3. QED BY <3>1, <3>2
    <2>2. QED BY <1>2, <2>1
<1>10. MembersAreIn(results, removed)' /\ LoadedAreIn(results, removed)'
    BY <1>1, <1>9, HandledStep
<1>11. GroupsWellFormed' /\ OnlyMembersTold'
    BY <1>1 DEF IInv, GroupsWellFormed, WellFormed, OnlyMembersTold
<1>12. QED BY <1>5, <1>7, <1>8, <1>10, <1>11 DEF IInv

LEMMA NotifyInv == IInv /\ OnGroupMembersForNotify => IInv'
<1> SUFFICES ASSUME IInv, OnGroupMembersForNotify PROVE IInv'
    OBVIOUS
<1> USE GroupAssumption
<1> DEFINE res == Head(results)
<1>1. /\ results # <<>> /\ results' = Tail(results) /\ res.req.op = "notify"
      /\ res.req.id \in DOMAIN pendingNotifications /\ ForgetNotification(res)
      /\ \/ /\ res.ok
            /\ handed' = [kind |-> "notify", id |-> res.req.id, group |-> res.group,
                          to |-> Recipients(res)]
            /\ untold' = [untold EXCEPT ![res.group] = @ \ Recipients(res)]
         \/ ~res.ok /\ UNCHANGED <<handed, untold>>
      /\ UNCHANGED <<users, groups, dbQueue, pendingRequests, nextId, wereIn, removed,
                     failures, crashes>>
    BY DEF OnGroupMembersForNotify, tables
<1>2. /\ res \in RightResults /\ res \in Result /\ res = results[1]
      /\ Tail(results) \in Seq(Result)
    BY <1>1, FirstResult
<1>3. /\ res.req \in RightRequests /\ res.req \in Request /\ res.req.id \in Ids
      /\ res.members \subseteq Users /\ RightAnswer(res)
    <2>1. res.req \in RightRequests /\ RightAnswer(res) /\ res.members \subseteq Users
        BY <1>2 DEF RightResults, Result
    <2>2. QED BY <2>1 DEF RightRequests, Request
<1>4. DOMAIN pendingNotifications' = DOMAIN pendingNotifications \ {res.req.id}
      /\ \A i \in DOMAIN pendingNotifications' : pendingNotifications'[i] = pendingNotifications[i]
    BY <1>1 DEF ForgetNotification
<1>5. Grows
    <2>1. NotificationsKept BY <1>1, <1>4 DEF NotificationsKept
    <2>2. nextId \in Nat BY DEF IInv, TypeOK
    <2>3. QED BY <1>1, <2>1, <2>2 DEF Grows
<1>6. QueuesRight'
    BY <1>1, <1>5, TailRight
<1>7. res.ok => /\ res.group \in Groups
                /\ Recipients(res) \subseteq wereIn[res.group] /\ Recipients(res) \subseteq Users
    <2>1. SUFFICES ASSUME res.ok
                   PROVE  /\ res.group \in Groups
                          /\ Recipients(res) \subseteq wereIn[res.group]
                          /\ Recipients(res) \subseteq Users
        OBVIOUS
    <2>2. /\ res.group \in Groups /\ res.members \subseteq wereIn[res.group]
          /\ res.group = res.req.group
        BY <1>1, <1>3, <2>1 DEF RightAnswer
    <2>3. pendingNotifications[res.req.id] \subseteq wereIn[res.group]
        BY <1>1, <1>3, <2>2 DEF RightRequests
    <2>4. wereIn[res.group] \subseteq Users BY <2>2 DEF IInv, TypeOK
    <2>5. QED BY <2>2, <2>3, <2>4 DEF Recipients
<1>8. TypeOK'
    <2>1. /\ DOMAIN pendingNotifications' \subseteq 1..(nextId - 1)
          /\ \A i \in DOMAIN pendingNotifications' : pendingNotifications'[i] \subseteq Users
        BY <1>4 DEF IInv, TypeOK
    <2>2. handed' \in Packet \cup {NoPacket} /\ untold' \in [Groups -> SUBSET Users]
        <3>1. handed \in Packet \cup {NoPacket} /\ untold \in [Groups -> SUBSET Users]
            BY DEF IInv, TypeOK
        <3>2. CASE res.ok
            <4>1. handed' \in Packet BY <1>1, <1>3, <1>7, <3>2 DEF Packet
            <4>2. QED BY <1>1, <1>7, <3>1, <3>2, <4>1
        <3>3. CASE ~res.ok BY <1>1, <3>1, <3>3
        <3>4. QED BY <3>2, <3>3
    <2>3. QED BY <1>1, <1>2, <2>1, <2>2 DEF IInv, TypeOK
<1>9. HistoryRight'
    BY <1>1 DEF IInv, HistoryRight
<1>10. Follows(results[1], removed, removed')
    <2>1. Follows(res, removed, removed') BY <1>1 DEF Follows, Joins
    <2>2. QED BY <1>2, <2>1
<1>11. MembersAreIn(results, removed)' /\ LoadedAreIn(results, removed)'
    BY <1>1, <1>10, HandledStep
<1>12. GroupsWellFormed'
    BY <1>1 DEF IInv, GroupsWellFormed, WellFormed
<1>13. OnlyMembersTold'
    <2>1. CASE res.ok BY <1>1, <1>7, <2>1 DEF OnlyMembersTold
    <2>2. CASE ~res.ok BY <1>1, <2>2 DEF IInv, OnlyMembersTold
    <2>3. QED BY <2>1, <2>2
<1>14. QED BY <1>6, <1>8, <1>9, <1>11, <1>12, <1>13 DEF IInv

LEMMA MessageInv == IInv /\ OnGroupMembersForMessage => IInv'
<1> SUFFICES ASSUME IInv, OnGroupMembersForMessage PROVE IInv'
    OBVIOUS
<1> USE GroupAssumption
<1> DEFINE res == Head(results)
<1>1. /\ results # <<>> /\ results' = Tail(results) /\ res.req.op = "message"
      /\ \/ /\ res.ok
            /\ handed' = [kind |-> "message", id |-> res.req.id, group |-> res.group,
                          to |-> res.members \ {res.req.by}]
         \/ UNCHANGED handed
      /\ UNCHANGED <<users, groups, dbQueue, pendingRequests, pendingNotifications, nextId,
                     wereIn, removed, untold, failures, crashes>>
    BY DEF OnGroupMembersForMessage, tables, pending
<1>2. /\ res \in RightResults /\ res \in Result /\ res = results[1]
      /\ Tail(results) \in Seq(Result)
    BY <1>1, FirstResult
<1>3. /\ res.req \in Request /\ res.req.id \in Ids
      /\ res.members \subseteq Users /\ RightAnswer(res)
    <2>1. RightAnswer(res) /\ res.members \subseteq Users /\ res.req \in Request
        BY <1>2 DEF RightResults, Result
    <2>2. QED BY <2>1 DEF Request
<1>4. Grows
    <2>1. NotificationsKept BY <1>1 DEF NotificationsKept
    <2>2. nextId \in Nat BY DEF IInv, TypeOK
    <2>3. QED BY <1>1, <2>1, <2>2 DEF Grows
<1>5. QueuesRight'
    BY <1>1, <1>4, TailRight
<1>6. res.ok => /\ res.group \in Groups /\ res.members \subseteq wereIn[res.group]
    BY <1>3 DEF RightAnswer
<1>7. TypeOK'
    <2>1. handed' \in Packet \cup {NoPacket}
        <3>1. handed \in Packet \cup {NoPacket} BY DEF IInv, TypeOK
        <3>2. QED BY <1>1, <1>3, <1>6, <3>1 DEF Packet
    <2>2. QED BY <1>1, <1>2, <2>1 DEF IInv, TypeOK
<1>8. HistoryRight'
    BY <1>1 DEF IInv, HistoryRight
<1>9. Follows(results[1], removed, removed')
    <2>1. Follows(res, removed, removed') BY <1>1 DEF Follows, Joins
    <2>2. QED BY <1>2, <2>1
<1>10. MembersAreIn(results, removed)' /\ LoadedAreIn(results, removed)'
    BY <1>1, <1>9, HandledStep
<1>11. GroupsWellFormed'
    BY <1>1 DEF IInv, GroupsWellFormed, WellFormed
<1>12. OnlyMembersTold'
    BY <1>1, <1>6 DEF IInv, OnlyMembersTold
<1>13. QED BY <1>5, <1>7, <1>8, <1>10, <1>11, <1>12 DEF IInv

LEMMA RegisterInv == IInv /\ (\E u \in Users : Register(u)) => IInv'
<1> SUFFICES ASSUME IInv, NEW v \in Users, Register(v) PROVE IInv'
    OBVIOUS
<1>1. /\ users' = users \cup {v}
      /\ UNCHANGED <<groups, dbQueue, results, pendingRequests, pendingNotifications, nextId,
                     handed, wereIn, removed, untold, failures, crashes>>
    BY DEF Register, queues, pending, history
<1>2. Grows
    <2>1. NotificationsKept BY <1>1 DEF NotificationsKept
    <2>2. nextId \in Nat BY DEF IInv, TypeOK
    <2>3. QED BY <1>1, <2>1, <2>2 DEF Grows
<1>3. QueuesRight'
    <2>1. QueuesRight BY DEF IInv
    <2>2. QED BY <1>1, <1>2, <2>1, QueuesGrow DEF QueuesRight
<1>4. TypeOK'
    BY <1>1 DEF IInv, TypeOK
<1>5. HistoryRight' /\ OnlyMembersTold'
    BY <1>1 DEF IInv, HistoryRight, OnlyMembersTold
<1>6. MembersAreIn(results, removed)' /\ LoadedAreIn(results, removed)'
    BY <1>1 DEF IInv, MembersAreIn, LoadedAreIn, StillIn
<1>7. GroupsWellFormed'
    BY <1>1 DEF IInv, GroupsWellFormed, WellFormed
<1>8. QED BY <1>3, <1>4, <1>5, <1>6, <1>7 DEF IInv

LEMMA CrashInv == IInv /\ ServerCrash => IInv'
<1> SUFFICES ASSUME IInv, ServerCrash PROVE IInv'
    OBVIOUS
<1> USE GroupAssumption
<1>1. /\ dbQueue' = <<>> /\ results' = <<>> /\ pendingRequests' = {}
      /\ pendingNotifications' = [i \in {} |-> {}]
      /\ removed' = [g \in Groups |-> IF Exists(g) THEN removed[g] \ groups[g].members
                                       ELSE removed[g]]
      /\ UNCHANGED <<users, groups, nextId, handed, wereIn, untold, failures>>
    BY DEF ServerCrash, tables
<1>2. crashes' \in 0..MaxCrashes
    BY DEF ServerCrash, IInv, TypeOK
<1>3. QueuesRight'
    BY <1>1, EmptySeq DEF QueuesRight
<1>4. TypeOK'
    <2>1. dbQueue' \in Seq(Request) /\ results' \in Seq(Result) BY <1>1, EmptySeq
    <2>2. removed' \in [Groups -> SUBSET Users] BY <1>1 DEF IInv, TypeOK
    <2>3. /\ DOMAIN pendingNotifications' \subseteq 1..(nextId - 1)
          /\ \A i \in DOMAIN pendingNotifications' : pendingNotifications'[i] \subseteq Users
        BY <1>1
    <2>4. QED BY <1>1, <1>2, <2>1, <2>2, <2>3 DEF IInv, TypeOK
<1>5. HistoryRight'
    BY <1>1 DEF IInv, HistoryRight
<1>6. Len(results') = 0
    BY <1>1, EmptySeq
<1>7. MembersAreIn(results, removed)'
    <2>1. \A g \in DOMAIN groups : \A u \in groups[g].members : u \notin removed'[g]
        BY <1>1 DEF IInv, TypeOK, Exists
    <2>2. QED BY <1>1, <1>6, <2>1 DEF MembersAreIn, StillIn
<1>8. LoadedAreIn(results, removed)'
    BY <1>6 DEF LoadedAreIn
<1>9. GroupsWellFormed' /\ OnlyMembersTold'
    BY <1>1 DEF IInv, GroupsWellFormed, WellFormed, OnlyMembersTold
<1>10. QED BY <1>3, <1>4, <1>5, <1>7, <1>8, <1>9 DEF IInv

-----------------------------------------------------------------------------

LEMMA RequestsInv ==
    ASSUME IInv,
           \/ \E by \in Users, invited \in SUBSET Users : HandleCreateGroup(by, invited)
           \/ \E g \in Groups, by, u \in Users : HandleAddMember(g, by, u)
           \/ \E g \in Groups, by, u \in Users : HandleRemoveMember(g, by, u)
           \/ \E g \in Groups, by \in Users : HandleLeaveGroup(g, by)
           \/ \E g \in Groups, by \in Users : HandleGroupMessage(g, by)
    PROVE  IInv'
<1>1. PICK op \in {"create", "add", "remove", "leave", "message"},
           group \in Groups \cup {NoGroup}, by \in Users, who \in SUBSET Users :
         /\ HandleRequest(op, group, by, who) \/ (op = "message" /\ HandleGroupMessage(group, by)
                                                  /\ who = {})
         /\ op = "create" \/ group \in Groups
         /\ op = "add" => \E u \in Users : who = {u}
         /\ op = "leave" => who = {by}
    <2>1. CASE \E by \in Users, invited \in SUBSET Users : HandleCreateGroup(by, invited)
        BY <2>1 DEF HandleCreateGroup
    <2>2. CASE \E g \in Groups, by, u \in Users : HandleAddMember(g, by, u)
        <3>1. PICK g \in Groups, by \in Users, u \in Users : HandleRequest("add", g, by, {u})
            BY <2>2 DEF HandleAddMember
        <3>2. {u} \in SUBSET Users OBVIOUS
        <3>3. QED BY <3>1, <3>2
    <2>3. CASE \E g \in Groups, by, u \in Users : HandleRemoveMember(g, by, u)
        <3>1. PICK g \in Groups, by \in Users, u \in Users : HandleRequest("remove", g, by, {u})
            BY <2>3 DEF HandleRemoveMember
        <3>2. {u} \in SUBSET Users OBVIOUS
        <3>3. QED BY <3>1, <3>2
    <2>4. CASE \E g \in Groups, by \in Users : HandleLeaveGroup(g, by)
        <3>1. PICK g \in Groups, by \in Users : HandleRequest("leave", g, by, {by})
            BY <2>4 DEF HandleLeaveGroup
        <3>2. {by} \in SUBSET Users OBVIOUS
        <3>3. QED BY <3>1, <3>2
    <2>5. CASE \E g \in Groups, by \in Users : HandleGroupMessage(g, by)
        <3>1. PICK g \in Groups, by \in Users : HandleGroupMessage(g, by)
            BY <2>5
        <3>2. {} \in SUBSET Users OBVIOUS
        <3>3. QED BY <3>1, <3>2
    <2>6. QED BY <2>1, <2>2, <2>3, <2>4, <2>5
<1>2. /\ NewRequest(op, group, by, who)
      /\ pendingRequests' \in {pendingRequests, pendingRequests \cup {nextId}}
      /\ UNCHANGED <<tables, results, pendingNotifications, history>>
    BY <1>1 DEF HandleRequest, HandleGroupMessage, pending
<1>3. QED BY <1>1, <1>2, NewRequestStep

LEMMA StutterInv == IInv /\ UNCHANGED vars => IInv'
<1> SUFFICES ASSUME IInv, UNCHANGED vars PROVE IInv'
    OBVIOUS
<1>1. UNCHANGED <<users, groups, dbQueue, results, pendingRequests, pendingNotifications, nextId,
                  handed, wereIn, removed, untold, failures, crashes>>
    BY DEF vars, tables, queues, pending, history
<1>2. Grows
    <2>1. NotificationsKept BY <1>1 DEF NotificationsKept
    <2>2. nextId \in Nat BY DEF IInv, TypeOK
    <2>3. QED BY <1>1, <2>1, <2>2 DEF Grows
<1>3. QueuesRight'
    <2>1. QueuesRight BY DEF IInv
    <2>2. QED BY <1>1, <1>2, <2>1, QueuesGrow DEF QueuesRight
<1>4. TypeOK' /\ HistoryRight' /\ OnlyMembersTold'
    BY <1>1 DEF IInv, TypeOK, HistoryRight, OnlyMembersTold
<1>5. MembersAreIn(results, removed)' /\ LoadedAreIn(results, removed)'
    BY <1>1 DEF IInv, MembersAreIn, LoadedAreIn, StillIn
<1>6. GroupsWellFormed'
    BY <1>1 DEF IInv, GroupsWellFormed, WellFormed
<1>7. QED BY <1>3, <1>4, <1>5, <1>6 DEF IInv

LEMMA NextInv == IInv /\ [Next]_vars => IInv'
BY RequestsInv, DbStepInv, DbFailsInv, CompletedInv, NotifyInv, MessageInv, RegisterInv,
   CrashInv, StutterInv DEF Next

LEMMA Invariance == Spec => []IInv
BY InitInv, NextInv, PTL DEF Spec

\* Every variable keeps its type and the ids waited for have been given out, for any
\* number of users, groups, requests, failures and crashes (GroupManagementService).
THEOREM TypeCorrect == Spec => []TypeOK
<1>1. IInv => TypeOK BY DEF IInv
<1>2. QED BY <1>1, Invariance, PTL

\* The business rules hold of the tables after any interleaving of requests: the creator
\* is a member, the limit is kept and members are registered (GroupRepository).
THEOREM WellFormedGroups == Spec => []GroupsWellFormed
<1>1. IInv => GroupsWellFormed BY DEF IInv
<1>2. QED BY <1>1, Invariance, PTL

\* A packet about a group goes only to users who are or have been its members
\* (onGroupMembersForNotify, onGroupMembersForMessage).
THEOREM MembersTold == Spec => []OnlyMembersTold
<1>1. IInv => OnlyMembersTold BY DEF IInv
<1>2. QED BY <1>1, Invariance, PTL

LEMMA NoMessageStep ==
    ASSUME IInv, [Next]_vars, handed' # handed, handed'.kind = "message"
    PROVE  handed'.to \cap removed[handed'.group] = {}
<1> DEFINE res == Head(results)
<1>1. OnGroupMembersForMessage
    <2>1. CASE UNCHANGED vars BY <2>1 DEF vars, history
    <2>2. CASE \/ \E by \in Users, invited \in SUBSET Users : HandleCreateGroup(by, invited)
               \/ \E g \in Groups, by, u \in Users : HandleAddMember(g, by, u)
               \/ \E g \in Groups, by, u \in Users : HandleRemoveMember(g, by, u)
               \/ \E g \in Groups, by \in Users : HandleLeaveGroup(g, by)
               \/ \E g \in Groups, by \in Users : HandleGroupMessage(g, by)
               \/ \E u \in Users : Register(u)
        BY <2>2 DEF HandleCreateGroup, HandleAddMember, HandleRemoveMember, HandleLeaveGroup,
                    HandleGroupMessage, HandleRequest, Register, history
    <2>3. CASE DbStep \/ DbFails \/ OnCompleted \/ ServerCrash
        BY <2>3 DEF DbStep, DbFails, OnCompleted, ServerCrash
    <2>4. CASE OnGroupMembersForNotify
        BY <2>4 DEF OnGroupMembersForNotify
    <2>5. QED BY <2>1, <2>2, <2>3, <2>4 DEF Next
<1>2. /\ results # <<>> /\ res.req.op = "message" /\ res.ok
      /\ handed'.group = res.group /\ handed'.to \subseteq res.members
    BY <1>1 DEF OnGroupMembersForMessage
<1>3. res = results[1] /\ 1 \in 1..Len(results) BY <1>2, FirstResult
<1>4. ASSUME NEW u \in res.members, u \in removed[res.group] PROVE FALSE
    <2>1. StillIn(results, removed, 0, res.group, u)
        BY <1>2, <1>3 DEF IInv, LoadedAreIn
    <2>2. QED BY <1>4, <2>1 DEF StillIn
<1>5. QED BY <1>2, <1>4

\* Once the answer to a removal or a leave has been handled, no group message is handed
\* out to that user (onGroupMembersForMessage with members loaded by the other thread).
THEOREM NoneAfterRemoval == Spec => NoMessageAfterRemoval
<1>1. IInv /\ [Next]_vars =>
         [handed' # handed /\ handed'.kind = "message"
             => handed'.to \cap removed[handed'.group] = {}]_vars
    BY NoMessageStep
<1>2. QED BY <1>1, Invariance, PTL DEF Spec, NoMessageAfterRemoval
=============================================================================
