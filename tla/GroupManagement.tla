--------------------------- MODULE GroupManagement ---------------------------
(***************************************************************************)
(* Groups on the server: GroupHandler and GroupManagementService on the    *)
(* main thread, GroupRepository on the database thread, and the members    *)
(* query of a group message, which shares the queues with them.            *)
(*                                                                         *)
(* A request is checked and carried out in one step of the database        *)
(* thread. Its result travels back, and a successful one is announced:     *)
(* the main thread asks for the members again and hands a notification for *)
(* them to OfflineManager. The acknowledgement to the requester's session  *)
(* is left out: it changes no state of the server.                         *)
(***************************************************************************)
EXTENDS Naturals, Sequences, FiniteSets

CONSTANTS
    Users,          \* user ids
    Groups,         \* group ids, a UUID each
    NoGroup,        \* a request that names no group: create
    MaxMembers,     \* Config::Group::MAX_MEMBERS
    MaxRequests,    \* bound on the client requests
    MaxFailures,    \* bound on failing database queries
    MaxCrashes      \* bound on server crashes

ASSUME GroupAssumption ==
    /\ IsFiniteSet(Users) /\ NoGroup \notin Groups
    /\ MaxMembers \in Nat \ {0}
    /\ MaxRequests \in Nat /\ MaxFailures \in Nat /\ MaxCrashes \in Nat

VARIABLES
    users,                  \* users table
    groups,                 \* groups and group_members tables
    dbQueue,                \* requests posted to the database thread
    results,                \* results posted to the main thread
    pendingRequests,        \* m_pendingRequests: ids of the requests waited for
    pendingNotifications,   \* m_pendingNotifications: id -> users told besides the members
    nextId,                 \* next request id, UUIDs in the code
    \* what the system is observed to do
    handed,                 \* the last packet handed to OfflineManager
    wereIn,                 \* users who have been members, per group
    removed,                \* users whose removal or leave has been answered, per group
    untold,                 \* users removed and not told so far, per group
    failures,
    crashes

tables == <<users, groups>>
queues == <<dbQueue, results>>
pending == <<pendingRequests, pendingNotifications>>
history == <<handed, wereIn, removed, untold, failures, crashes>>
vars == <<tables, queues, pending, nextId, history>>

Ids == 1..MaxRequests

GroupRow == [creator : Users, members : SUBSET Users]

\* who is the target of a member operation, or the members invited to a new group
Request == [op : {"create", "add", "remove", "leave", "notify", "message"},
            id : Ids, group : Groups \cup {NoGroup}, by : Users, who : SUBSET Users]

Result == [req : Request, ok : BOOLEAN, group : Groups \cup {NoGroup}, members : SUBSET Users]

NoPacket == [kind |-> "none", id |-> 0, group |-> NoGroup, to |-> {}]
Packet == [kind : {"notify", "message"}, id : Ids, group : Groups, to : SUBSET Users]

WellFormed(row) ==
    /\ row.creator \in row.members
    /\ Cardinality(row.members) <= MaxMembers
    /\ row.members \subseteq users

\* The server starts on the tables an earlier run left
Init ==
    /\ users \in SUBSET Users
    /\ \E D \in SUBSET Groups :
          groups \in {f \in [D -> GroupRow] : \A g \in D : WellFormed(f[g])}
    /\ dbQueue = <<>>
    /\ results = <<>>
    /\ pendingRequests = {}
    /\ pendingNotifications = [i \in {} |-> {}]
    /\ nextId = 1
    /\ handed = NoPacket
    /\ wereIn = [g \in Groups |-> IF g \in DOMAIN groups THEN groups[g].members ELSE {}]
    /\ removed = [g \in Groups |-> {}]
    /\ untold = [g \in Groups |-> {}]
    /\ failures = 0
    /\ crashes = 0

-----------------------------------------------------------------------------
(***************************************************************************)
(* Requests. Only an authenticated session gets past the handlers, so the  *)
(* requester is in the users table.                                        *)
(***************************************************************************)

Post(op, id, group, by, who) ==
    dbQueue' = Append(dbQueue, [op |-> op, id |-> id, group |-> group,
                                by |-> by, who |-> who])

NewRequest(op, group, by, who) ==
    /\ by \in users
    /\ nextId <= MaxRequests
    /\ nextId' = nextId + 1
    /\ Post(op, nextId, group, by, who)

\* Fault: the request is remembered under the id of the next one
HandleRequestNextId(op, group, by, who) ==
    /\ NewRequest(op, group, by, who)
    /\ pendingRequests' = pendingRequests \cup {nextId'}
    /\ UNCHANGED <<tables, results, pendingNotifications, history>>

\* createGroup, addMember, removeMember and leaveGroup of the service
HandleRequest(op, group, by, who) ==
    /\ NewRequest(op, group, by, who)
    /\ pendingRequests' = pendingRequests \cup {nextId}
    /\ UNCHANGED <<tables, results, pendingNotifications, history>>

\* Groups bounds the ids that can be given out
HandleCreateGroup(by, invited) ==
    /\ Cardinality({i \in DOMAIN dbQueue : dbQueue[i].op = "create"})
          < Cardinality({g \in Groups : wereIn[g] = {}})
    /\ HandleRequest("create", NoGroup, by, invited)

HandleAddMember(g, by, u) == HandleRequest("add", g, by, {u})

HandleRemoveMember(g, by, u) == HandleRequest("remove", g, by, {u})

HandleLeaveGroup(g, by) == HandleRequest("leave", g, by, {by})

\* processSendMessage of a group message asks for the members
HandleGroupMessage(g, by) ==
    /\ NewRequest("message", g, by, {})
    /\ UNCHANGED <<tables, results, pending, history>>

-----------------------------------------------------------------------------
(***************************************************************************)
(* GroupRepository: the conditions under which a request is carried out,   *)
(* and what it does                                                        *)
(***************************************************************************)

Exists(g) == g \in DOMAIN groups

MayCreate(req) ==
    /\ Cardinality({req.by} \cup req.who) <= MaxMembers
    /\ req.who \subseteq users \cup {req.by}

\* Fault: the limit is off by one
MayAddOneMore(req) ==
    /\ Exists(req.group)
    /\ req.by = groups[req.group].creator
    /\ req.who \subseteq users
    /\ Cardinality(groups[req.group].members) <= MaxMembers
    /\ req.who \cap groups[req.group].members = {}

MayAdd(req) ==
    /\ Exists(req.group)
    /\ req.by = groups[req.group].creator
    /\ req.who \subseteq users
    /\ Cardinality(groups[req.group].members) < MaxMembers
    /\ req.who \cap groups[req.group].members = {}

MayRemove(req) ==
    /\ Exists(req.group)
    /\ req.by = groups[req.group].creator
    /\ groups[req.group].creator \notin req.who
    /\ req.who \subseteq groups[req.group].members

\* the creator leaves last
MayLeave(req) ==
    /\ Exists(req.group)
    /\ req.by \in groups[req.group].members
    /\ req.by = groups[req.group].creator => Cardinality(groups[req.group].members) = 1

Reply(req, ok, group, members) ==
    results' = Append(results, [req |-> req, ok |-> ok, group |-> group, members |-> members])

\* One transaction: the group, its creator and the other members
CreateGroup(req) ==
    /\ req.op = "create" /\ MayCreate(req)
    /\ \E g \in Groups :
          /\ wereIn[g] = {}
          /\ groups' = [h \in DOMAIN groups \cup {g} |->
                           IF h = g THEN [creator |-> req.by, members |-> {req.by} \cup req.who]
                           ELSE groups[h]]
          /\ wereIn' = [wereIn EXCEPT ![g] = {req.by} \cup req.who]
          /\ Reply(req, TRUE, g, {})
    /\ UNCHANGED untold

AddMember(req) ==
    /\ req.op = "add" /\ MayAdd(req)
    /\ groups' = [groups EXCEPT ![req.group].members = @ \cup req.who]
    /\ wereIn' = [wereIn EXCEPT ![req.group] = @ \cup req.who]
    /\ Reply(req, TRUE, req.group, {})
    /\ UNCHANGED untold

\* Fault: the row to delete is not found, and nobody looks
RemoveNobody(req) ==
    /\ req.op = "remove" /\ MayRemove(req)
    /\ Reply(req, TRUE, req.group, {})
    /\ UNCHANGED <<groups, wereIn, untold>>

RemoveMember(req) ==
    /\ req.op = "remove" /\ MayRemove(req)
    /\ groups' = [groups EXCEPT ![req.group].members = @ \ req.who]
    /\ untold' = [untold EXCEPT ![req.group] = @ \cup req.who]
    /\ Reply(req, TRUE, req.group, {})
    /\ UNCHANGED wereIn

\* a creator who is the last member dissolves the group
LeaveGroup(req) ==
    /\ req.op = "leave" /\ MayLeave(req)
    /\ groups' = IF req.by = groups[req.group].creator
                 THEN [g \in DOMAIN groups \ {req.group} |-> groups[g]]
                 ELSE [groups EXCEPT ![req.group].members = @ \ req.who]
    /\ Reply(req, TRUE, req.group, {})
    /\ UNCHANGED <<wereIn, untold>>

LoadGroupMembers(req) ==
    /\ req.op \in {"notify", "message"} /\ Exists(req.group)
    /\ Reply(req, TRUE, req.group, groups[req.group].members)
    /\ UNCHANGED <<groups, wereIn, untold>>

\* the request is not allowed, or names no group: nothing changes
Rejected(req) ==
    /\ \/ req.op = "create" /\ ~MayCreate(req)
       \/ req.op = "add" /\ ~MayAdd(req)
       \/ req.op = "remove" /\ ~MayRemove(req)
       \/ req.op = "leave" /\ ~MayLeave(req)
       \/ req.op \in {"notify", "message"} /\ ~Exists(req.group)
    /\ Reply(req, FALSE, req.group, {})
    /\ UNCHANGED <<groups, wereIn, untold>>

DbStep ==
    /\ dbQueue # <<>>
    /\ LET req == Head(dbQueue)
       IN  \/ CreateGroup(req)
           \/ AddMember(req)
           \/ RemoveMember(req)
           \/ LeaveGroup(req)
           \/ LoadGroupMembers(req)
           \/ Rejected(req)
    /\ dbQueue' = Tail(dbQueue)
    /\ UNCHANGED <<users, pending, nextId, handed, removed, failures, crashes>>

\* a statement fails; a transaction is rolled back
DbFails ==
    /\ dbQueue # <<>> /\ failures < MaxFailures
    /\ failures' = failures + 1
    /\ Reply(Head(dbQueue), FALSE, Head(dbQueue).group, {})
    /\ dbQueue' = Tail(dbQueue)
    /\ UNCHANGED <<tables, pending, nextId, handed, wereIn, removed, untold, crashes>>

-----------------------------------------------------------------------------
(***************************************************************************)
(* Results                                                                 *)
(***************************************************************************)

\* the users told about a change besides the members: who was removed or left
Also(req) == IF req.op \in {"remove", "leave"} THEN req.who ELSE {}

NotifyLater(res) ==
    /\ Post("notify", res.req.id, res.group, res.req.by, {})
    /\ pendingNotifications' =
          [i \in DOMAIN pendingNotifications \cup {res.req.id} |->
              IF i = res.req.id THEN Also(res.req) ELSE pendingNotifications[i]]

\* Fault: what was refused is announced too
AnnounceAlways(res) ==
    IF res.group \in Groups THEN NotifyLater(res)
    ELSE UNCHANGED <<dbQueue, pendingNotifications>>

\* A successful change is announced to the members there will be. The announcement has
\* a UUID of its own in the code; here it is known by the request's id.
Announce(res) ==
    IF res.ok THEN NotifyLater(res)
    ELSE UNCHANGED <<dbQueue, pendingNotifications>>

\* onGroupCreated, onMemberOpCompleted
OnCompleted ==
    /\ results # <<>> /\ Head(results).req.op \in {"create", "add", "remove", "leave"}
    /\ LET res == Head(results)
           u == res.req.who
       IN  /\ res.req.id \in pendingRequests
           /\ pendingRequests' = pendingRequests \ {res.req.id}
           /\ Announce(res)
           /\ removed' =
                 IF res.ok /\ res.group \in Groups
                 THEN [removed EXCEPT ![res.group] =
                          IF res.req.op \in {"remove", "leave"} THEN @ \cup u ELSE @ \ u]
                 ELSE removed
    /\ results' = Tail(results)
    /\ UNCHANGED <<tables, nextId, handed, wereIn, untold, failures, crashes>>

\* Fault: the notification is dropped from the table only once it is sent
ForgetNotificationOnceSent(res) ==
    pendingNotifications' =
        IF res.ok
        THEN [i \in DOMAIN pendingNotifications \ {res.req.id} |-> pendingNotifications[i]]
        ELSE pendingNotifications

ForgetNotification(res) ==
    pendingNotifications' =
        [i \in DOMAIN pendingNotifications \ {res.req.id} |-> pendingNotifications[i]]

\* Fault: only the members are told
RecipientsMembers(res) == res.members

\* the members, and who was removed unless a member again
Recipients(res) == res.members \cup pendingNotifications[res.req.id]

\* onGroupMembersForNotify
OnGroupMembersForNotify ==
    /\ results # <<>> /\ Head(results).req.op = "notify"
    /\ LET res == Head(results)
       IN  /\ res.req.id \in DOMAIN pendingNotifications
           /\ ForgetNotification(res)
           /\ IF res.ok
              THEN /\ handed' = [kind |-> "notify", id |-> res.req.id, group |-> res.group,
                                 to |-> Recipients(res)]
                   /\ untold' = [untold EXCEPT ![res.group] = @ \ Recipients(res)]
              ELSE UNCHANGED <<handed, untold>>
    /\ results' = Tail(results)
    /\ UNCHANGED <<tables, dbQueue, pendingRequests, nextId, wereIn, removed, failures, crashes>>

\* MessageDeliveryService::onGroupMembersForMessage
OnGroupMembersForMessage ==
    /\ results # <<>> /\ Head(results).req.op = "message"
    /\ LET res == Head(results)
       IN  handed' = IF res.ok /\ res.req.by \in res.members
                     THEN [kind |-> "message", id |-> res.req.id, group |-> res.group,
                           to |-> res.members \ {res.req.by}]
                     ELSE handed
    /\ results' = Tail(results)
    /\ UNCHANGED <<tables, dbQueue, pending, nextId, wereIn, removed, untold, failures, crashes>>

-----------------------------------------------------------------------------

\* ensureUserAndGetNickname of a first login; it runs after the requests posted before
Register(u) ==
    /\ u \notin users /\ dbQueue = <<>>
    /\ users' = users \cup {u}
    /\ UNCHANGED <<groups, queues, pending, nextId, history>>

\* The answer to one who joined again may be among what is lost: a member is not removed
ServerCrash ==
    /\ crashes < MaxCrashes
    /\ crashes' = crashes + 1
    /\ dbQueue' = <<>> /\ results' = <<>>
    /\ pendingRequests' = {}
    /\ pendingNotifications' = [i \in {} |-> {}]
    /\ removed' = [g \in Groups |-> IF Exists(g) THEN removed[g] \ groups[g].members
                                    ELSE removed[g]]
    /\ UNCHANGED <<tables, nextId, handed, wereIn, untold, failures>>

Next ==
    \/ \E by \in Users, invited \in SUBSET Users : HandleCreateGroup(by, invited)
    \/ \E g \in Groups, by, u \in Users : HandleAddMember(g, by, u)
    \/ \E g \in Groups, by, u \in Users : HandleRemoveMember(g, by, u)
    \/ \E g \in Groups, by \in Users : HandleLeaveGroup(g, by)
    \/ \E g \in Groups, by \in Users : HandleGroupMessage(g, by)
    \/ DbStep
    \/ DbFails
    \/ OnCompleted
    \/ OnGroupMembersForNotify
    \/ OnGroupMembersForMessage
    \/ \E u \in Users : Register(u)
    \/ ServerCrash

Spec == Init /\ [][Next]_vars

\* both event loops keep running
FairSpec ==
    /\ Spec
    /\ WF_vars(DbStep)
    /\ WF_vars(OnCompleted \/ OnGroupMembersForNotify \/ OnGroupMembersForMessage)

-----------------------------------------------------------------------------
(***************************************************************************)
(* Properties                                                              *)
(***************************************************************************)

\* Every variable keeps its type; the ids waited for have been given out.
TypeOK ==
    /\ users \subseteq Users
    /\ DOMAIN groups \subseteq Groups /\ \A g \in DOMAIN groups : groups[g] \in GroupRow
    /\ dbQueue \in Seq(Request)
    /\ results \in Seq(Result)
    /\ pendingRequests \subseteq 1..(nextId - 1)
    /\ DOMAIN pendingNotifications \subseteq 1..(nextId - 1)
    /\ \A i \in DOMAIN pendingNotifications : pendingNotifications[i] \subseteq Users
    /\ nextId \in 1..(MaxRequests + 1)
    /\ handed \in Packet \cup {NoPacket}
    /\ wereIn \in [Groups -> SUBSET Users]
    /\ removed \in [Groups -> SUBSET Users]
    /\ untold \in [Groups -> SUBSET Users]
    /\ failures \in 0..MaxFailures
    /\ crashes \in 0..MaxCrashes

\* The business rules hold of the tables after any interleaving of requests that were
\* admissible when they were sent: every group has its creator among its members, is
\* within the member limit and has registered users only.
GroupsWellFormed ==
    \A g \in DOMAIN groups : WellFormed(groups[g])

\* A packet about a group goes only to users who are or have been its members.
OnlyMembersTold ==
    handed.kind # "none" => handed.to \subseteq wereIn[handed.group]

\* Once the answer to a removal or a leave has been handled, no group message is handed
\* out to that user, although the members were loaded by another thread at another time;
\* joining again ends it.
NoMessageAfterRemoval ==
    [][handed' # handed /\ handed'.kind = "message"
        => handed'.to \cap removed[handed'.group] = {}]_vars

\* A removed user is told, unless the group is dissolved before the members are loaded
\* again, a query fails or the server dies.
RemovedIsTold ==
    \A g \in Groups, u \in Users :
        u \in untold[g] ~> \/ u \notin untold[g]
                           \/ ~Exists(g)
                           \/ failures > 0 \/ crashes > 0

Waiting(i) == i \in pendingRequests \/ i \in DOMAIN pendingNotifications

\* No request stays pending for ever, nor does its announcement, whatever fails on the way.
NothingStaysPending ==
    \A i \in Ids : Waiting(i) ~> ~Waiting(i)
=============================================================================
