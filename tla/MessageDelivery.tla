--------------------------- MODULE MessageDelivery ---------------------------
(***************************************************************************)
(* MessageDeliveryService: what the server does with a send_message        *)
(* request that its client may repeat. Requests are answered from an       *)
(* idempotency cache bounded in age and size; a private message is         *)
(* accepted at once, a group message after the database thread has loaded  *)
(* the members. The fan-out itself is OfflineDelivery's                    *)
(* EnqueueIfOfflineMany; here `delivered` records that it was called.      *)
(***************************************************************************)
EXTENDS Integers, Sequences, FiniteSets

CONSTANTS
    PrivateReqs,    \* request keys (sender:msgId) of private messages
    GroupReqs,      \* request keys of group messages
    InvalidReqs,    \* those whose content is too large or whose sessionId is wrong
    TTL,            \* IDEMPOTENCY_CACHE_TTL_MS
    MaxEntries,     \* IDEMPOTENCY_CACHE_MAX_ENTRIES
    MaxTime,        \* bound on the clock
    MaxServerIds,   \* bound on the server ids generated
    MaxFaults       \* bound on server crashes and setbacks of the clock

ASSUME DeliveryAssumption ==
    /\ PrivateReqs \cap GroupReqs = {}
    /\ InvalidReqs \subseteq PrivateReqs \cup GroupReqs
    /\ IsFiniteSet(PrivateReqs \cup GroupReqs)
    /\ TTL \in Nat \ {0} /\ MaxEntries \in Nat \ {0}
    /\ MaxTime \in Nat /\ MaxServerIds \in Nat /\ MaxFaults \in Nat

VARIABLES
    now,                    \* the system clock, in units of the TTL's
    idempotencyCache,       \* m_idempotencyCache: request key -> entry, NoEntry if absent
    idempotencyOrder,       \* m_idempotencyOrder
    inFlightGroupMsgIds,    \* m_inFlightGroupMsgIds
    pendingGroupMessages,   \* m_pendingGroupMessages: token -> request key
    dbQueue,                \* requests posted to the database thread
    results,                \* groupMembersLoaded signals posted to the main thread
    messages,               \* messages table: server_id of a request's row, 0 if none
    membership,             \* what loadGroupMembers would find for the sender
    nextId,                 \* next server id and token, UUIDs in the code
    \* what the system is observed to do
    setBack,                \* the clock has been set back
    delivered,              \* server ids fanned out, per request
    acked,                  \* send_message_acks emitted, per request
    forgotten,              \* how often the request's cache entry was lost
    crashes

clock == <<now, setBack>>
cacheVars == <<idempotencyCache, idempotencyOrder>>
groupVars == <<inFlightGroupMsgIds, pendingGroupMessages>>
vars == <<clock, cacheVars, groupVars, dbQueue, results, messages, membership,
          nextId, delivered, acked, forgotten, crashes>>

Requests == PrivateReqs \cup GroupReqs

Ids == 1..MaxServerIds
Entry == [code : {200, 403}, serverId : 0..MaxServerIds, at : 0..MaxTime]
NoEntry == [code |-> 0, serverId |-> 0, at |-> 0]

Ack == [code : {200, 400, 403, 404, 500}, serverId : 0..MaxServerIds, age : (-MaxTime)..MaxTime]

\* The sender is a member, is not one, or the group does not exist
MembershipState == {"member", "outsider", "noGroup"}

StoreReq == [op : {"storeMessage"}, key : Requests, serverId : Ids]
MembersReq == [op : {"loadGroupMembers"}, token : Ids]
MembersResult == [token : Ids, found : MembershipState \cup {"failed"}]

Init ==
    /\ now = 0 /\ setBack = FALSE
    /\ idempotencyCache = [k \in Requests |-> NoEntry]
    /\ idempotencyOrder = <<>>
    /\ inFlightGroupMsgIds = {}
    /\ pendingGroupMessages = [t \in {} |-> NoEntry]
    /\ dbQueue = <<>>
    /\ results = <<>>
    /\ messages = [k \in Requests |-> 0]
    /\ membership \in MembershipState
    /\ nextId = 1
    /\ delivered = [k \in Requests |-> {}]
    /\ acked = [k \in Requests |-> {}]
    /\ forgotten = [k \in Requests |-> 0]
    /\ crashes = 0

-----------------------------------------------------------------------------
(***************************************************************************)
(* pruneIdempotencyCache. The loop pops keys off the order and drops their *)
(* entries; it stops at the first key whose entry is present, not expired  *)
(* and not in excess. The operators work on a record of the cache, the     *)
(* order and the count of forgotten answers.                               *)
(***************************************************************************)
Memory == [cache |-> idempotencyCache, order |-> idempotencyOrder, lost |-> forgotten]

Cached(cache) == {k \in Requests : cache[k] # NoEntry}

\* after the first n keys of the order have been popped
Popped(mem, n) ==
    LET gone == {mem.order[i] : i \in 1..n}
    IN  [cache |-> [k \in Requests |-> IF k \in gone THEN NoEntry ELSE mem.cache[k]],
         order |-> SubSeq(mem.order, n + 1, Len(mem.order)),
         lost |-> [k \in Requests |-> IF k \in gone /\ mem.cache[k] # NoEntry
                                      THEN mem.lost[k] + 1 ELSE mem.lost[k]]]

\* Fault: entries never expire
StopsAtCapacity(mem) ==
    mem.order # <<>> =>
        /\ mem.cache[Head(mem.order)] # NoEntry
        /\ Cardinality(Cached(mem.cache)) <= MaxEntries

Stops(mem) ==
    mem.order # <<>> =>
        LET oldest == mem.cache[Head(mem.order)]
        IN  /\ oldest # NoEntry
            /\ now - oldest.at <= TTL
            /\ Cardinality(Cached(mem.cache)) <= MaxEntries

\* the number of keys the loop pops: it stops then, and not before
Prunes(mem, n) ==
    /\ n \in 0..Len(mem.order)
    /\ Stops(Popped(mem, n))
    /\ \A j \in 0..(n - 1) : ~Stops(Popped(mem, j))

Keep(mem) ==
    /\ idempotencyCache' = mem.cache
    /\ idempotencyOrder' = mem.order
    /\ forgotten' = mem.lost

\* Fault: the cache is pruned only when a request arrives
RememberUnpruned(mem, k, entry) ==
    Keep([mem EXCEPT !.cache[k] = entry, !.order = Append(@, k)])

\* insert an entry, append its key to the order, prune
Remember(mem, k, entry) ==
    LET added == [mem EXCEPT !.cache[k] = entry, !.order = Append(@, k)]
    IN  \E n \in 0..Len(added.order) : Prunes(added, n) /\ Keep(Popped(added, n))

Acknowledge(k, code, id, age) ==
    acked' = [acked EXCEPT ![k] = @ \cup {[code |-> code, serverId |-> id, age |-> age]}]

-----------------------------------------------------------------------------
(***************************************************************************)
(* processSendMessage(k): what follows the leading prune, which leaves mem *)
(***************************************************************************)

\* the request is known: repeat the answer
AnswerFromCache(k, mem) ==
    /\ mem.cache[k] # NoEntry
    /\ Acknowledge(k, mem.cache[k].code, mem.cache[k].serverId, now - mem.cache[k].at)
    /\ Keep(mem)
    /\ UNCHANGED <<groupVars, dbQueue, nextId, delivered>>

\* content too large (413), or sessionId not the hash of the two users (400): refused, and
\* not remembered
Refuse(k, mem) ==
    /\ mem.cache[k] = NoEntry /\ k \in InvalidReqs
    /\ Acknowledge(k, 400, 0, 0)
    /\ Keep(mem)
    /\ UNCHANGED <<groupVars, dbQueue, nextId, delivered>>

\* acknowledged before the message is stored or delivered
AcceptPrivate(k, mem) ==
    /\ mem.cache[k] = NoEntry /\ k \in PrivateReqs \ InvalidReqs
    /\ nextId <= MaxServerIds
    /\ nextId' = nextId + 1
    /\ Remember(mem, k, [code |-> 200, serverId |-> nextId, at |-> now])
    /\ Acknowledge(k, 200, nextId, 0)
    /\ dbQueue' = Append(dbQueue, [op |-> "storeMessage", key |-> k, serverId |-> nextId])
    /\ delivered' = [delivered EXCEPT ![k] = @ \cup {nextId}]
    /\ UNCHANGED groupVars

\* a repetition while the members are being loaded is ignored
IgnoreInFlight(k, mem) ==
    /\ mem.cache[k] = NoEntry /\ k \in inFlightGroupMsgIds
    /\ Keep(mem)
    /\ UNCHANGED <<groupVars, dbQueue, nextId, acked, delivered>>

\* the group branch: a token for the load, and the request is in flight
StartPending(k) ==
    /\ nextId <= MaxServerIds
    /\ nextId' = nextId + 1
    /\ inFlightGroupMsgIds' = inFlightGroupMsgIds \cup {k}
    /\ pendingGroupMessages' =
          [t \in DOMAIN pendingGroupMessages \cup {nextId} |->
              IF t = nextId THEN k ELSE pendingGroupMessages[t]]
    /\ dbQueue' = Append(dbQueue, [op |-> "loadGroupMembers", token |-> nextId])

\* Fault: private messages take the group branch too
LoadMembersOfAny(k, mem) ==
    /\ mem.cache[k] = NoEntry /\ k \notin inFlightGroupMsgIds
    /\ StartPending(k)
    /\ Keep(mem)
    /\ UNCHANGED <<acked, delivered>>

\* Fault: no guard against a repetition in flight
LoadMembersAgain(k, mem) ==
    /\ mem.cache[k] = NoEntry /\ k \in GroupReqs
    /\ StartPending(k)
    /\ Keep(mem)
    /\ UNCHANGED <<acked, delivered>>

\* Fault: the answer is sent before the members are known
LoadMembersOptimistic(k, mem) ==
    /\ mem.cache[k] = NoEntry /\ k \in GroupReqs \ inFlightGroupMsgIds
    /\ StartPending(k)
    /\ Acknowledge(k, 200, nextId, 0)
    /\ Keep(mem)
    /\ UNCHANGED delivered

LoadMembersOf(k, mem) ==
    /\ mem.cache[k] = NoEntry /\ k \in GroupReqs \ (InvalidReqs \cup inFlightGroupMsgIds)
    /\ StartPending(k)
    /\ Keep(mem)
    /\ UNCHANGED <<acked, delivered>>

ProcessSendMessage(k) ==
    /\ \E n \in 0..Len(idempotencyOrder) :
          /\ Prunes(Memory, n)
          /\ LET mem == Popped(Memory, n)
             IN  \/ AnswerFromCache(k, mem)
                 \/ Refuse(k, mem)
                 \/ AcceptPrivate(k, mem)
                 \/ IgnoreInFlight(k, mem)
                 \/ LoadMembersOf(k, mem)
    /\ UNCHANGED <<clock, results, messages, membership, crashes>>

\* Fault: the request stays in flight
EndPendingOnly(t) ==
    /\ pendingGroupMessages' =
          [u \in DOMAIN pendingGroupMessages \ {t} |-> pendingGroupMessages[u]]
    /\ UNCHANGED inFlightGroupMsgIds

\* the token is taken, and its request is no longer in flight
EndPending(t) ==
    /\ pendingGroupMessages' =
          [u \in DOMAIN pendingGroupMessages \ {t} |-> pendingGroupMessages[u]]
    /\ inFlightGroupMsgIds' = inFlightGroupMsgIds \ {pendingGroupMessages[t]}

(***************************************************************************)
(* onGroupMembersForMessage. A failed load is not remembered; a sender who *)
(* is not a member is refused, and that answer is.                         *)
(***************************************************************************)
OnGroupMembersForMessage ==
    /\ results # <<>>
    /\ LET t == Head(results).token
           found == Head(results).found
           k == pendingGroupMessages[t]
       IN  /\ t \in DOMAIN pendingGroupMessages
           /\ EndPending(t)
           /\ \/ /\ found \in {"noGroup", "failed"}
                 /\ Acknowledge(k, IF found = "noGroup" THEN 404 ELSE 500, 0, 0)
                 /\ UNCHANGED <<cacheVars, dbQueue, delivered, forgotten>>
              \/ /\ found = "outsider"
                 /\ Remember(Memory, k,
                             [code |-> 403, serverId |-> 0, at |-> now])
                 /\ Acknowledge(k, 403, 0, 0)
                 /\ UNCHANGED <<dbQueue, delivered>>
              \/ /\ found = "member"
                 /\ Remember(Memory, k,
                             [code |-> 200, serverId |-> t, at |-> now])
                 /\ Acknowledge(k, 200, t, 0)
                 /\ dbQueue' = Append(dbQueue, [op |-> "storeMessage", key |-> k, serverId |-> t])
                 /\ delivered' = [delivered EXCEPT ![k] = @ \cup {t}]
    /\ results' = Tail(results)
    /\ UNCHANGED <<clock, messages, membership, nextId, crashes>>

-----------------------------------------------------------------------------
(***************************************************************************)
(* The database thread: MessageRepository and GroupRepository              *)
(***************************************************************************)

\* Fault: UPDATE instead of INSERT
StoreMessageAgain(req) ==
    /\ req.op = "storeMessage"
    /\ messages' = [messages EXCEPT ![req.key] = IF @ = 0 THEN 0 ELSE req.serverId]
    /\ UNCHANGED results

\* INSERT OR IGNORE INTO messages: the first server id of a message stays
StoreMessage(req) ==
    /\ req.op = "storeMessage"
    /\ messages' = [messages EXCEPT ![req.key] = IF @ = 0 THEN req.serverId ELSE @]
    /\ UNCHANGED results

\* what the tables hold when the query runs, or a database error
LoadGroupMembers(req) ==
    /\ req.op = "loadGroupMembers"
    /\ \E found \in {membership, "failed"} :
          results' = Append(results, [token |-> req.token, found |-> found])
    /\ UNCHANGED messages

DbStep ==
    /\ dbQueue # <<>>
    /\ StoreMessage(Head(dbQueue)) \/ LoadGroupMembers(Head(dbQueue))
    /\ dbQueue' = Tail(dbQueue)
    /\ UNCHANGED <<clock, cacheVars, groupVars, membership, nextId, delivered,
                   acked, forgotten, crashes>>

-----------------------------------------------------------------------------
(***************************************************************************)
(* The environment                                                         *)
(***************************************************************************)

Tick ==
    /\ now < MaxTime
    /\ now' = now + 1
    /\ UNCHANGED <<setBack, cacheVars, groupVars, dbQueue, results, messages, membership,
                   nextId, delivered, acked, forgotten, crashes>>

MayFail == crashes + (IF setBack THEN 1 ELSE 0) < MaxFaults

\* currentMSecsSinceEpoch is not monotonic; once is enough
ClockSetBack ==
    /\ MayFail /\ ~setBack
    /\ setBack' = TRUE
    /\ now' \in 0..(now - 1)
    /\ UNCHANGED <<cacheVars, groupVars, dbQueue, results, messages, membership,
                   nextId, delivered, acked, forgotten, crashes>>

\* the sender joins or leaves the group, or the group comes or goes
MembershipChanges ==
    /\ \E s \in MembershipState \ {membership} : membership' = s
    /\ UNCHANGED <<clock, cacheVars, groupVars, dbQueue, results, messages, nextId,
                   delivered, acked, forgotten, crashes>>

ServerCrash ==
    /\ MayFail
    /\ crashes' = crashes + 1
    /\ idempotencyCache' = [k \in Requests |-> NoEntry]
    /\ idempotencyOrder' = <<>>
    /\ forgotten' = [k \in Requests |-> IF idempotencyCache[k] # NoEntry
                                        THEN forgotten[k] + 1 ELSE forgotten[k]]
    /\ inFlightGroupMsgIds' = {}
    /\ pendingGroupMessages' = [t \in {} |-> NoEntry]
    /\ dbQueue' = <<>> /\ results' = <<>>
    /\ UNCHANGED <<clock, messages, membership, nextId, delivered, acked>>

Next ==
    \/ \E k \in Requests : ProcessSendMessage(k)
    \/ OnGroupMembersForMessage
    \/ DbStep
    \/ Tick
    \/ ClockSetBack
    \/ MembershipChanges
    \/ ServerCrash

Spec == Init /\ [][Next]_vars

-----------------------------------------------------------------------------
(***************************************************************************)
(* Properties                                                              *)
(***************************************************************************)

\* Every variable keeps its type; in particular a request key waits behind every token.
TypeOK ==
    /\ now \in 0..MaxTime /\ setBack \in BOOLEAN
    /\ idempotencyCache \in [Requests -> Entry \cup {NoEntry}]
    /\ idempotencyOrder \in Seq(Requests)
    /\ inFlightGroupMsgIds \subseteq GroupReqs
    /\ DOMAIN pendingGroupMessages \subseteq Ids
    /\ \A t \in DOMAIN pendingGroupMessages : pendingGroupMessages[t] \in GroupReqs
    /\ dbQueue \in Seq(StoreReq \cup MembersReq)
    /\ results \in Seq(MembersResult)
    /\ messages \in [Requests -> 0..MaxServerIds]
    /\ membership \in MembershipState
    /\ nextId \in 1..(MaxServerIds + 1)
    /\ delivered \in [Requests -> SUBSET Ids]
    /\ acked \in [Requests -> SUBSET Ack]
    /\ forgotten \in [Requests -> Nat]
    /\ crashes \in 0..MaxFaults

\* A request is fanned out again only after the server has forgotten its answer: at most
\* once per life of its cache entry, however often it is repeated and whatever else the
\* main thread handles while the members are being loaded.
AtMostOncePerCacheLife ==
    \A k \in Requests :
        Cardinality(delivered[k]) <=
            forgotten[k] + (IF idempotencyCache[k].code = 200 THEN 1 ELSE 0)

\* The order list and the cache agree: each cached key is listed once, oldest first, and
\* no other key is, so every entry can be pruned and, with a clock that was never set back,
\* pruning stops at the right one; and the cache is within its capacity, whatever the clock.
OrderTracksCache ==
    /\ {idempotencyOrder[i] : i \in 1..Len(idempotencyOrder)} = Cached(idempotencyCache)
    /\ \A i, j \in 1..Len(idempotencyOrder) : i < j =>
          /\ idempotencyOrder[i] # idempotencyOrder[j]
          /\ \/ setBack
             \/ idempotencyCache[idempotencyOrder[i]].at <= idempotencyCache[idempotencyOrder[j]].at
    /\ Cardinality(Cached(idempotencyCache)) <= MaxEntries

\* No answer is repeated once its entry is older than the TTL, although expired entries
\* stay in the cache until the next request prunes them; the exception is a clock set back,
\* for then a younger entry may wait behind one that seems to be of the future.
NoStaleReplay ==
    setBack \/ \A k \in Requests : \A a \in acked[k] : a.age <= TTL

\* An accepted answer names a message that was fanned out for that request, a repeated
\* answer included.
AckNamesDelivery ==
    \A k \in Requests : \A a \in acked[k] : a.code = 200 => a.serverId \in delivered[k]

\* The tokens waiting in the database queue or among the results
WaitingTokens ==
    {dbQueue[i].token : i \in {j \in 1..Len(dbQueue) : dbQueue[j].op = "loadGroupMembers"}}
    \cup {results[i].token : i \in 1..Len(results)}

\* A group request is in flight exactly while one token waits for its members, and it is
\* not cached meanwhile: the guard against re-entry can neither leak nor be bypassed.
InFlightAccounted ==
    /\ DOMAIN pendingGroupMessages = WaitingTokens
    /\ inFlightGroupMsgIds = {pendingGroupMessages[t] : t \in DOMAIN pendingGroupMessages}
    /\ \A t, u \in DOMAIN pendingGroupMessages :
          pendingGroupMessages[t] = pendingGroupMessages[u] => t = u
    /\ \A k \in inFlightGroupMsgIds : idempotencyCache[k] = NoEntry

\* A message that was fanned out is stored, or waits to be, unless the server died first: its
\* sender is told before the database thread has seen it.
AcceptedIsStored ==
    \A k \in Requests : delivered[k] # {} =>
        \/ messages[k] # 0
        \/ \E i \in 1..Len(dbQueue) : dbQueue[i].op = "storeMessage" /\ dbQueue[i].key = k
        \/ crashes > 0
=============================================================================
