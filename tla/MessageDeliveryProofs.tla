------------------------ MODULE MessageDeliveryProofs ------------------------
(***************************************************************************)
(* Proofs about MessageDelivery for any requests, lifetime and capacity of *)
(* the cache. The cache, its order and the count of forgotten answers are  *)
(* related to each other, to the clock and to what was fanned out by Sound;*)
(* popping keys and adding an entry for an uncached key keep it, so each   *)
(* handler does, whatever number of keys it prunes. That a token waits     *)
(* only once (TokensOnce) is what the accounting of group requests rests   *)
(* on.                                                                     *)
(***************************************************************************)
EXTENDS MessageDelivery, FiniteSetTheorems, SequenceTheorems, TLAPS

Positions(s) == 1..Len(s)

\* A record of the cache, its order and the forgotten answers
MemoryOK(mem) ==
    /\ mem.cache \in [Requests -> Entry \cup {NoEntry}]
    /\ mem.order \in Seq(Requests)
    /\ mem.lost \in [Requests -> Nat]

IsMemory(mem) == mem = [cache |-> mem.cache, order |-> mem.order, lost |-> mem.lost]

Listed(mem) ==
    /\ \A k \in Requests :
          mem.cache[k] # NoEntry <=> \E i \in Positions(mem.order) : mem.order[i] = k
    /\ \A i, j \in Positions(mem.order) : i # j => mem.order[i] # mem.order[j]

\* The order is that of age, and no entry is of the future
Aged(mem, t) ==
    /\ \A k \in Requests : mem.cache[k] # NoEntry => mem.cache[k].at <= t
    /\ \A i, j \in Positions(mem.order) : i < j =>
          mem.cache[mem.order[i]].at <= mem.cache[mem.order[j]].at

Answering(entry) == IF entry.code = 200 THEN 1 ELSE 0

\* What has been fanned out is answered for, or the answer was forgotten
Answered(mem, fanned) ==
    \A k \in Requests :
        /\ mem.cache[k].code = 200 => mem.cache[k].serverId \in fanned[k]
        /\ Cardinality(fanned[k]) <= mem.lost[k] + Answering(mem.cache[k])

Sound(mem, fanned) ==
    /\ MemoryOK(mem)
    /\ Listed(mem)
    /\ Answered(mem, fanned)

Fits(mem) == Cardinality(Cached(mem.cache)) <= MaxEntries

(***************************************************************************)
(* A token waits once: in a load of the queue or in a result               *)
(***************************************************************************)
Request == StoreReq \cup MembersReq

Loads(req) == req.op = "loadGroupMembers"

Awaits(queue, res, t) ==
    \/ \E i \in Positions(queue) : Loads(queue[i]) /\ queue[i].token = t
    \/ \E i \in Positions(res) : res[i].token = t

OnceIn(queue, res) ==
    /\ \A i, j \in Positions(queue) :
          i # j /\ Loads(queue[i]) /\ Loads(queue[j]) => queue[i].token # queue[j].token
    /\ \A i, j \in Positions(res) : i # j => res[i].token # res[j].token
    /\ \A i \in Positions(res), j \in Positions(queue) :
          Loads(queue[j]) => res[i].token # queue[j].token

TokensOnce ==
    /\ OnceIn(dbQueue, results)
    /\ \A t \in DOMAIN pendingGroupMessages : t < nextId

IInv ==
    /\ TypeOK
    /\ Sound(Memory, delivered)
    /\ setBack \/ Aged(Memory, now)
    /\ Fits(Memory)
    /\ TokensOnce
    /\ InFlightAccounted
    /\ NoStaleReplay
    /\ AckNamesDelivery
    /\ AcceptedIsStored

-----------------------------------------------------------------------------
(***************************************************************************)
(* The cache                                                               *)
(***************************************************************************)

LEMMA FiniteIds ==
    ASSUME NEW S \in SUBSET Ids
    PROVE  IsFiniteSet(S) /\ Cardinality(S) \in Nat
<1>1. 1 \in Int /\ MaxServerIds \in Int
  BY DeliveryAssumption
<1>2. IsFiniteSet(Ids)
  BY <1>1, FS_Interval DEF Ids
<1>3. IsFiniteSet(S)
  BY <1>2, FS_Subset
<1> QED
  BY <1>3, FS_CardinalityType

\* Popping keys off the order keeps the cache sound: an answer that goes is counted
LEMMA PoppedSound ==
    ASSUME NEW mem, NEW fanned \in [Requests -> SUBSET Ids],
           Sound(mem, fanned), NEW n \in 0..Len(mem.order), NEW t \in Int
    PROVE  /\ Sound(Popped(mem, n), fanned)
           /\ Aged(mem, t) => Aged(Popped(mem, n), t)
           /\ \A k \in Requests : Popped(mem, n).cache[k] \in {mem.cache[k], NoEntry}
<1> DEFINE gone == {mem.order[i] : i \in 1..n}
           left == Popped(mem, n)
           len == Len(mem.order)
<1>1. /\ left.cache = [k \in Requests |-> IF k \in gone THEN NoEntry ELSE mem.cache[k]]
      /\ left.order = SubSeq(mem.order, n + 1, len)
      /\ left.lost = [k \in Requests |-> IF k \in gone /\ mem.cache[k] # NoEntry
                                         THEN mem.lost[k] + 1 ELSE mem.lost[k]]
  BY DEF Popped
<1>2. /\ mem.cache \in [Requests -> Entry \cup {NoEntry}]
      /\ mem.order \in Seq(Requests)
      /\ mem.lost \in [Requests -> Nat]
      /\ len \in Nat /\ n \in Nat /\ n <= len
      /\ \A i \in 1..len : mem.order[i] \in Requests
  BY DEF Sound, MemoryOK
<1>3. /\ left.order \in Seq(Requests)
      /\ Len(left.order) = len - n
      /\ \A i \in 1..(len - n) : left.order[i] = mem.order[n + i]
  <2>1. \A i \in (n + 1)..len : mem.order[i] \in Requests
    BY <1>2
  <2>2. /\ SubSeq(mem.order, n + 1, len) \in Seq(Requests)
        /\ Len(SubSeq(mem.order, n + 1, len)) = IF n + 1 <= len THEN len - (n + 1) + 1 ELSE 0
        /\ \A i \in 1..(len - (n + 1) + 1) :
              SubSeq(mem.order, n + 1, len)[i] = mem.order[(n + 1) + i - 1]
    BY <1>2, <2>1, SubSeqProperties
  <2>3. /\ len - (n + 1) + 1 = len - n
        /\ \A i \in 1..(len - n) : (n + 1) + i - 1 = n + i
        /\ (IF n + 1 <= len THEN len - (n + 1) + 1 ELSE 0) = len - n
    BY <1>2
  <2> HIDE DEF left, len
  <2> QED
    BY <1>1, <2>2, <2>3
<1> HIDE DEF left, len
<1>4. \A k \in Requests : left.cache[k] = (IF k \in gone THEN NoEntry ELSE mem.cache[k])
  BY <1>1
<1>5. \A i \in 1..len, j \in 1..len : i # j => mem.order[i] # mem.order[j]
  BY DEF Sound, Listed, Positions, len
<1>6. \A i \in 1..(len - n) : left.order[i] \in Requests \ gone
  <2> SUFFICES ASSUME NEW i \in 1..(len - n) PROVE mem.order[n + i] \in Requests \ gone
    BY <1>3
  <2>1. n + i \in 1..len
    BY <1>2
  <2>2. \A j \in 1..n : j \in 1..len /\ j # n + i
    BY <1>2
  <2> QED
    BY <1>2, <1>5, <2>1, <2>2
<1>7. MemoryOK(left)
  <2>1. \A k \in Requests : mem.lost[k] \in Nat /\ mem.lost[k] + 1 \in Nat
    BY <1>2
  <2>2. left.lost \in [Requests -> Nat]
    BY <1>1, <2>1
  <2>3. left.cache \in [Requests -> Entry \cup {NoEntry}]
    BY <1>1, <1>2
  <2> QED
    BY <1>3, <2>2, <2>3 DEF MemoryOK
<1>8. Listed(left)
  <2>1. \A i, j \in Positions(left.order) : i # j => left.order[i] # left.order[j]
    <3> SUFFICES ASSUME NEW i \in 1..(len - n), NEW j \in 1..(len - n), i # j
                 PROVE  mem.order[n + i] # mem.order[n + j]
      BY <1>3 DEF Positions
    <3> QED
      BY <1>2, <1>5
  <2>2. ASSUME NEW k \in Requests
        PROVE  left.cache[k] # NoEntry <=> \E i \in Positions(left.order) : left.order[i] = k
    <3>1. mem.cache[k] # NoEntry <=> \E i \in 1..len : mem.order[i] = k
      BY DEF Sound, Listed, Positions, len
    <3>2. ASSUME NEW i \in 1..len, mem.order[i] = k, k \notin gone
          PROVE  \E j \in 1..(len - n) : left.order[j] = k
      <4>1. i \notin 1..n
        BY <3>2
      <4>2. i - n \in 1..(len - n) /\ n + (i - n) = i
        BY <1>2, <4>1
      <4> QED
        BY <1>3, <3>2, <4>2
    <3>3. ASSUME NEW j \in 1..(len - n), left.order[j] = k
          PROVE  k \notin gone /\ mem.cache[k] # NoEntry
      <4>1. n + j \in 1..len /\ mem.order[n + j] = k
        BY <1>2, <1>3, <3>3
      <4> QED
        BY <1>6, <3>1, <3>3, <4>1
    <3> QED
      BY <1>3, <1>4, <3>1, <3>2, <3>3 DEF Positions
  <2> QED
    BY <2>1, <2>2 DEF Listed
<1>9. Aged(mem, t) => Aged(left, t)
  <2> SUFFICES ASSUME Aged(mem, t) PROVE Aged(left, t)
    OBVIOUS
  <2>1. \A k \in Requests : left.cache[k] # NoEntry => left.cache[k].at <= t
    BY <1>4 DEF Aged
  <2>2. ASSUME NEW i \in 1..(len - n), NEW j \in 1..(len - n), i < j
        PROVE  left.cache[left.order[i]].at <= left.cache[left.order[j]].at
    <3>1. n + i \in 1..len /\ n + j \in 1..len /\ n + i < n + j
      BY <1>2, <2>2
    <3>2. mem.cache[mem.order[n + i]].at <= mem.cache[mem.order[n + j]].at
      BY <3>1 DEF Aged, Positions, len
    <3>3. /\ left.cache[left.order[i]] = mem.cache[mem.order[n + i]]
          /\ left.cache[left.order[j]] = mem.cache[mem.order[n + j]]
      BY <1>3, <1>4, <1>6
    <3> QED
      BY <3>2, <3>3
  <2> QED
    BY <1>3, <2>1, <2>2 DEF Aged, Positions
<1>10. Answered(left, fanned)
  <2> SUFFICES ASSUME NEW k \in Requests
               PROVE  /\ left.cache[k].code = 200 => left.cache[k].serverId \in fanned[k]
                      /\ Cardinality(fanned[k]) <= left.lost[k] + Answering(left.cache[k])
    BY DEF Answered
  <2>1. /\ mem.cache[k].code = 200 => mem.cache[k].serverId \in fanned[k]
        /\ Cardinality(fanned[k]) <= mem.lost[k] + Answering(mem.cache[k])
        /\ mem.lost[k] \in Nat
    BY <1>2 DEF Sound, Answered
  <2>2. Cardinality(fanned[k]) \in Nat
    BY FiniteIds
  <2>3. CASE k \in gone /\ mem.cache[k] # NoEntry
    BY <1>1, <1>4, <2>1, <2>2, <2>3 DEF Answering, NoEntry
  <2>4. CASE ~(k \in gone /\ mem.cache[k] # NoEntry)
    BY <1>1, <1>4, <2>1, <2>4
  <2> QED
    BY <2>3, <2>4
<1> QED
  BY <1>4, <1>7, <1>8, <1>9, <1>10 DEF Sound, left

EntryAdded(added, mem, k, entry) ==
    /\ added.cache = [mem.cache EXCEPT ![k] = entry]
    /\ added.order = Append(mem.order, k)
    /\ added.lost = mem.lost

FannedOut(next, fanned, k, entry) ==
    /\ \A j \in Requests \ {k} : next[j] = fanned[j]
    /\ next[k] = IF entry.code = 200 THEN fanned[k] \cup {entry.serverId} ELSE fanned[k]

\* A new entry for a key that has none, of what is fanned out with it
LEMMA AddedSound ==
    ASSUME NEW mem, NEW fanned \in [Requests -> SUBSET Ids],
           NEW next \in [Requests -> SUBSET Ids], NEW t \in Int,
           Sound(mem, fanned),
           NEW k \in Requests, mem.cache[k] = NoEntry,
           NEW entry \in Entry, entry.at = t,
           FannedOut(next, fanned, k, entry), NEW added, EntryAdded(added, mem, k, entry)
    PROVE  Sound(added, next) /\ (Aged(mem, t) => Aged(added, t))
<1> USE DEF EntryAdded, FannedOut
<1> DEFINE len == Len(mem.order)
<1>1. /\ mem.cache \in [Requests -> Entry \cup {NoEntry}]
      /\ mem.order \in Seq(Requests)
      /\ mem.lost \in [Requests -> Nat]
      /\ len \in Nat
      /\ \A i \in 1..len : mem.order[i] \in Requests
  BY DEF Sound, MemoryOK
<1>2. /\ added.order \in Seq(Requests)
      /\ Len(added.order) = len + 1
      /\ \A i \in 1..len : added.order[i] = mem.order[i]
      /\ added.order[len + 1] = k
  BY <1>1, AppendProperties
<1>3. entry # NoEntry /\ (entry.code = 200 \/ entry.code = 403)
  BY DEF Entry, NoEntry
<1>4. added.cache[k] = entry /\ \A j \in Requests \ {k} : added.cache[j] = mem.cache[j]
  BY <1>1
<1>5. \A i \in 1..len : mem.order[i] \in Requests \ {k} /\ mem.cache[mem.order[i]] # NoEntry
  BY <1>1 DEF Sound, Listed, Positions
<1>6. MemoryOK(added)
  BY <1>1, <1>2 DEF MemoryOK
<1>7. Listed(added)
  <2>1. ASSUME NEW i \in 1..(len + 1), NEW j \in 1..(len + 1), i # j
        PROVE  added.order[i] # added.order[j]
    <3>1. /\ i \in 1..len \/ i = len + 1
          /\ j \in 1..len \/ j = len + 1
      BY <1>1
    <3>2. CASE i \in 1..len /\ j \in 1..len
      BY <1>2, <2>1, <3>2 DEF Sound, Listed, Positions
    <3>3. CASE i = len + 1 \/ j = len + 1
      BY <1>2, <1>5, <2>1, <3>1, <3>3
    <3> QED
      BY <3>1, <3>2, <3>3
  <2>2. ASSUME NEW j \in Requests
        PROVE  added.cache[j] # NoEntry <=> \E i \in 1..(len + 1) : added.order[i] = j
    <3>1. CASE j = k
      <4>1. len + 1 \in 1..(len + 1)
        BY <1>1
      <4> QED
        BY <1>2, <1>3, <1>4, <3>1, <4>1
    <3>2. CASE j # k
      <4>1. added.cache[j] # NoEntry <=> \E i \in 1..len : mem.order[i] = j
        BY <1>4, <3>2 DEF Sound, Listed, Positions
      <4>2. \A i \in 1..(len + 1) : i \in 1..len \/ i = len + 1
        BY <1>1
      <4>3. \A i \in 1..len : i \in 1..(len + 1)
        BY <1>1
      <4> QED
        BY <1>2, <3>2, <4>1, <4>2, <4>3
    <3> QED
      BY <3>1, <3>2
  <2> QED
    BY <1>2, <2>1, <2>2 DEF Listed, Positions
<1>8. Aged(mem, t) => Aged(added, t)
  <2> SUFFICES ASSUME Aged(mem, t) PROVE Aged(added, t)
    OBVIOUS
  <2>1. \A j \in Requests : added.cache[j] # NoEntry => added.cache[j].at <= t
    BY <1>4 DEF Aged
  <2>2. ASSUME NEW i \in 1..(len + 1), NEW j \in 1..(len + 1), i < j
        PROVE  added.cache[added.order[i]].at <= added.cache[added.order[j]].at
    <3>1. i \in 1..len /\ (j \in 1..len \/ j = len + 1)
      BY <1>1, <2>2
    <3>2. added.cache[added.order[i]] = mem.cache[mem.order[i]]
      BY <1>2, <1>4, <1>5, <3>1
    <3>3. CASE j \in 1..len
      <4>1. added.cache[added.order[j]] = mem.cache[mem.order[j]]
        BY <1>2, <1>4, <1>5, <3>3
      <4> QED
        BY <2>2, <3>1, <3>2, <3>3, <4>1 DEF Aged, Positions
    <3>4. CASE j = len + 1
      BY <1>2, <1>4, <1>5, <3>1, <3>2, <3>4 DEF Aged
    <3> QED
      BY <3>1, <3>3, <3>4
  <2> QED
    BY <1>2, <2>1, <2>2 DEF Aged, Positions
<1>9. Answered(added, next)
  <2> SUFFICES ASSUME NEW j \in Requests
               PROVE  /\ added.cache[j].code = 200 => added.cache[j].serverId \in next[j]
                      /\ Cardinality(next[j]) <= added.lost[j] + Answering(added.cache[j])
    BY DEF Answered
  <2>1. /\ mem.cache[j].code = 200 => mem.cache[j].serverId \in fanned[j]
        /\ Cardinality(fanned[j]) <= mem.lost[j] + Answering(mem.cache[j])
    BY DEF Sound, Answered
  <2>2. CASE j = k
    <3>1. /\ IsFiniteSet(fanned[k]) /\ Cardinality(fanned[k]) \in Nat
          /\ mem.lost[k] \in Nat
      BY <1>1, FiniteIds
    <3>2. Cardinality(fanned[k]) <= mem.lost[k]
      BY <2>1, <2>2, <3>1 DEF Answering, NoEntry
    <3>3. Cardinality(fanned[k] \cup {entry.serverId}) <= Cardinality(fanned[k]) + 1
      <4>1. Cardinality(fanned[k] \cup {entry.serverId}) =
               IF entry.serverId \in fanned[k] THEN Cardinality(fanned[k])
                                               ELSE Cardinality(fanned[k]) + 1
        BY <3>1, FS_AddElement, Zenon
      <4> QED
        BY <3>1, <4>1
    <3>4. CASE entry.code = 200
      <4>1. /\ Cardinality(next[k]) \in Nat
            /\ next[k] = fanned[k] \cup {entry.serverId}
            /\ Answering(added.cache[k]) = 1
        BY <1>4, <3>4, FiniteIds DEF Answering
      <4>2. entry.serverId \in next[k]
        BY <4>1
      <4>3. Cardinality(next[k]) <= mem.lost[k] + 1
        BY <3>1, <3>2, <3>3, <4>1
      <4> QED
        BY <1>4, <2>2, <4>1, <4>2, <4>3
    <3>5. CASE entry.code # 200
      BY <1>4, <2>2, <3>1, <3>2, <3>5 DEF Answering
    <3> QED
      BY <3>4, <3>5
  <2>3. CASE j # k
    BY <1>4, <2>1, <2>3
  <2> QED
    BY <2>2, <2>3
<1> QED
  BY <1>6, <1>7, <1>8, <1>9 DEF Sound

\* Where the loop stops, the cache is within its capacity, and nothing in it has expired
LEMMA StopsFits ==
    ASSUME NEW mem, NEW fanned, now \in Int, Sound(mem, fanned), Stops(mem)
    PROVE  /\ Fits(mem)
           /\ Aged(mem, now) => \A k \in Requests : mem.cache[k] # NoEntry =>
                                   now - mem.cache[k].at <= TTL
<1>1. /\ mem.cache \in [Requests -> Entry \cup {NoEntry}]
      /\ mem.order \in Seq(Requests)
      /\ Len(mem.order) \in Nat
  BY DEF Sound, MemoryOK
<1>2. CASE mem.order = <<>>
  <2>1. Positions(mem.order) = {}
    BY <1>2 DEF Positions
  <2>2. \A k \in Requests : mem.cache[k] = NoEntry
    BY <2>1 DEF Sound, Listed
  <2>3. Cardinality(Cached(mem.cache)) = 0
    BY <2>2, FS_EmptySet DEF Cached
  <2> QED
    BY <2>2, <2>3, DeliveryAssumption DEF Fits
<1>3. CASE mem.order # <<>>
  <2>1. 1 \in Positions(mem.order) /\ Head(mem.order) = mem.order[1]
        /\ mem.order[1] \in Requests
    BY <1>1, <1>3 DEF Positions
  <2>2. /\ mem.cache[mem.order[1]] # NoEntry
        /\ now - mem.cache[mem.order[1]].at <= TTL
        /\ Fits(mem)
    BY <1>3, <2>1 DEF Stops, Fits
  <2>3. ASSUME Aged(mem, now), NEW k \in Requests, mem.cache[k] # NoEntry
        PROVE  now - mem.cache[k].at <= TTL
    <3>1. PICK i \in Positions(mem.order) : mem.order[i] = k
      BY <2>3 DEF Sound, Listed
    <3>2. mem.cache[mem.order[1]].at <= mem.cache[k].at
      <4>1. i = 1 \/ 1 < i
        BY <1>1 DEF Positions
      <4>2. mem.cache[k].at \in Int
        BY <1>1, <2>3 DEF Entry
      <4> QED
        BY <2>1, <2>3, <3>1, <4>1, <4>2 DEF Aged
    <3>3. mem.cache[mem.order[1]].at \in Int /\ mem.cache[k].at \in Int
      BY <1>1, <2>1, <2>2, <2>3 DEF Entry
    <3> QED
      BY <2>2, <3>2, <3>3, DeliveryAssumption
  <2> QED
    BY <2>2, <2>3
<1> QED
  BY <1>2, <1>3

-----------------------------------------------------------------------------
(***************************************************************************)
(* The queue of the database thread and that of its results                *)
(***************************************************************************)

LEMMA WaitingAwaits ==
    ASSUME NEW t
    PROVE  t \in WaitingTokens <=> Awaits(dbQueue, results, t)
  BY DEF WaitingTokens, Awaits, Loads, Positions

\* A store request among the tokens
LEMMA PostStore ==
    ASSUME NEW queue \in Seq(Request), NEW res \in Seq(MembersResult),
           OnceIn(queue, res), NEW req \in StoreReq
    PROVE  /\ Append(queue, req) \in Seq(Request)
           /\ OnceIn(Append(queue, req), res)
           /\ \A t : Awaits(Append(queue, req), res, t) <=> Awaits(queue, res, t)
<1> DEFINE len == Len(queue)
           next == Append(queue, req)
<1>1. /\ req \in Request /\ ~Loads(req) /\ len \in Nat
  BY DEF Request, StoreReq, Loads
<1>2. /\ next \in Seq(Request) /\ Len(next) = len + 1
      /\ \A i \in 1..len : next[i] = queue[i]
      /\ next[len + 1] = req
  BY <1>1, AppendProperties
<1> HIDE DEF next
<1>3. \A i \in 1..(len + 1) : i \in 1..len \/ i = len + 1
  BY <1>1
<1>4. \A i \in 1..len : i \in 1..(len + 1)
  BY <1>1
<1>5. \A i \in 1..(len + 1) : Loads(next[i]) => i \in 1..len
  BY <1>1, <1>2, <1>3
<1>6. OnceIn(next, res)
  BY <1>2, <1>5 DEF OnceIn, Positions
<1>7. \A t : Awaits(next, res, t) <=> Awaits(queue, res, t)
  BY <1>2, <1>4, <1>5 DEF Awaits, Positions
<1> QED
  BY <1>2, <1>6, <1>7 DEF next

\* A load with a token that does not wait yet
LEMMA PostLoad ==
    ASSUME NEW queue \in Seq(Request), NEW res \in Seq(MembersResult),
           OnceIn(queue, res), NEW req \in MembersReq, ~Awaits(queue, res, req.token)
    PROVE  /\ Append(queue, req) \in Seq(Request)
           /\ OnceIn(Append(queue, req), res)
           /\ \A t : Awaits(Append(queue, req), res, t) <=>
                        Awaits(queue, res, t) \/ t = req.token
<1> DEFINE len == Len(queue)
           next == Append(queue, req)
<1>1. /\ req \in Request /\ Loads(req) /\ len \in Nat
  BY DEF Request, MembersReq, Loads
<1>2. /\ next \in Seq(Request) /\ Len(next) = len + 1
      /\ \A i \in 1..len : next[i] = queue[i]
      /\ next[len + 1] = req
  BY <1>1, AppendProperties
<1> HIDE DEF next
<1>3. \A i \in 1..(len + 1) : i \in 1..len \/ i = len + 1
  BY <1>1
<1>4. /\ \A i \in 1..len : i \in 1..(len + 1) /\ i # len + 1
      /\ len + 1 \in 1..(len + 1)
  BY <1>1
<1>5. /\ \A i \in 1..len : Loads(queue[i]) => queue[i].token # req.token
      /\ \A i \in Positions(res) : res[i].token # req.token
  BY DEF Awaits, Positions
<1>6. OnceIn(next, res)
  <2>1. ASSUME NEW i \in 1..(len + 1), NEW j \in 1..(len + 1), i # j,
               Loads(next[i]), Loads(next[j])
        PROVE  next[i].token # next[j].token
    <3>1. CASE i \in 1..len /\ j \in 1..len
      BY <1>2, <2>1, <3>1 DEF OnceIn, Positions
    <3>2. CASE i = len + 1 /\ j \in 1..len
      BY <1>2, <1>5, <2>1, <3>2
    <3>3. CASE j = len + 1 /\ i \in 1..len
      BY <1>2, <1>5, <2>1, <3>3
    <3> QED
      BY <1>3, <2>1, <3>1, <3>2, <3>3
  <2>2. ASSUME NEW i \in Positions(res), NEW j \in 1..(len + 1), Loads(next[j])
        PROVE  res[i].token # next[j].token
    BY <1>2, <1>3, <1>5, <2>2 DEF OnceIn, Positions
  <2> QED
    BY <1>2, <2>1, <2>2 DEF OnceIn, Positions
<1>7. \A t : Awaits(next, res, t) <=> Awaits(queue, res, t) \/ t = req.token
  BY <1>1, <1>2, <1>3, <1>4 DEF Awaits, Positions
<1> QED
  BY <1>2, <1>6, <1>7 DEF next

\* The first result is taken: its token waits no more
LEMMA TakeResult ==
    ASSUME NEW queue \in Seq(Request), NEW res \in Seq(MembersResult),
           OnceIn(queue, res), res # <<>>
    PROVE  /\ Head(res) \in MembersResult
           /\ Tail(res) \in Seq(MembersResult)
           /\ OnceIn(queue, Tail(res))
           /\ \A t : Awaits(queue, Tail(res), t) <=>
                        Awaits(queue, res, t) /\ t # Head(res).token
<1> DEFINE len == Len(res)
           next == Tail(res)
<1>1. /\ len \in Nat /\ len >= 1 /\ Head(res) = res[1]
      /\ Head(res) \in MembersResult
  BY HeadTailProperties
<1>2. /\ next \in Seq(MembersResult) /\ Len(next) = len - 1
      /\ \A i \in 1..(len - 1) : next[i] = res[i + 1]
  BY HeadTailProperties
<1> HIDE DEF next
<1>3. \A i \in 1..(len - 1) : i + 1 \in 1..len /\ i + 1 # 1
  BY <1>1
<1>4. 1 \in 1..len /\ \A i \in 1..len : i = 1 \/ i - 1 \in 1..(len - 1)
  BY <1>1
<1>5. \A i \in 1..(len - 1), j \in 1..(len - 1) : i # j => i + 1 # j + 1
  BY <1>1
<1>6. \A i \in 1..len : i # 1 => next[i - 1] = res[i]
  BY <1>1, <1>2, <1>4
<1>7. OnceIn(queue, next)
  <2>1. ASSUME NEW i \in 1..(len - 1), NEW j \in 1..(len - 1), i # j
        PROVE  next[i].token # next[j].token
    <3>1. i + 1 \in 1..len /\ j + 1 \in 1..len /\ i + 1 # j + 1
      BY <1>3, <1>5, <2>1
    <3> QED
      BY <1>2, <3>1 DEF OnceIn, Positions
  <2>2. ASSUME NEW i \in 1..(len - 1), NEW j \in Positions(queue), Loads(queue[j])
        PROVE  next[i].token # queue[j].token
    BY <1>2, <1>3, <2>2 DEF OnceIn, Positions
  <2> QED
    BY <1>2, <2>1, <2>2 DEF OnceIn, Positions
<1>8. ASSUME NEW t
      PROVE  Awaits(queue, next, t) <=> Awaits(queue, res, t) /\ t # res[1].token
  <2>1. ASSUME Awaits(queue, next, t) PROVE Awaits(queue, res, t) /\ t # res[1].token
    <3>1. ASSUME NEW i \in 1..(len - 1), next[i].token = t
          PROVE  Awaits(queue, res, t) /\ t # res[1].token
      <4>1. i + 1 \in 1..len /\ i + 1 # 1 /\ 1 \in 1..len /\ res[i + 1].token = t
        BY <1>2, <1>3, <1>4, <3>1
      <4> QED
        BY <4>1 DEF Awaits, OnceIn, Positions
    <3>2. ASSUME NEW i \in Positions(queue), Loads(queue[i]), queue[i].token = t
          PROVE  Awaits(queue, res, t) /\ t # res[1].token
      BY <1>4, <3>2 DEF Awaits, OnceIn, Positions
    <3> QED
      BY <1>2, <2>1, <3>1, <3>2 DEF Awaits, Positions
  <2>2. ASSUME Awaits(queue, res, t), t # res[1].token PROVE Awaits(queue, next, t)
    BY <1>2, <1>4, <1>6, <2>2 DEF Awaits, Positions
  <2> QED
    BY <2>1, <2>2
<1> QED
  BY <1>1, <1>2, <1>7, <1>8 DEF next

\* The database thread takes its first request, and posts the result of a load
LEMMA TakeRequest ==
    ASSUME NEW queue \in Seq(Request), NEW res \in Seq(MembersResult),
           OnceIn(queue, res), queue # <<>>,
           NEW next \in Seq(MembersResult),
           \/ Head(queue).op = "storeMessage" /\ next = res
           \/ /\ Head(queue).op = "loadGroupMembers"
              /\ \E result \in MembersResult :
                    result.token = Head(queue).token /\ next = Append(res, result)
    PROVE  /\ Head(queue) \in Request
           /\ Tail(queue) \in Seq(Request)
           /\ OnceIn(Tail(queue), next)
           /\ \A t : Awaits(Tail(queue), next, t) <=> Awaits(queue, res, t)
<1> DEFINE len == Len(queue)
           rest == Tail(queue)
<1>1. /\ len \in Nat /\ len >= 1 /\ Head(queue) = queue[1]
      /\ Head(queue) \in Request
  BY HeadTailProperties
<1>2. /\ rest \in Seq(Request) /\ Len(rest) = len - 1
      /\ \A i \in 1..(len - 1) : rest[i] = queue[i + 1]
  BY HeadTailProperties
<1> HIDE DEF rest
<1>3. \A i \in 1..(len - 1) : i + 1 \in 1..len /\ i + 1 # 1
  BY <1>1
<1>4. 1 \in 1..len /\ \A i \in 1..len : i = 1 \/ i - 1 \in 1..(len - 1)
  BY <1>1
<1>5. \A i \in 1..(len - 1), j \in 1..(len - 1) : i # j => i + 1 # j + 1
  BY <1>1
<1>6. \A i \in 1..len : i # 1 => rest[i - 1] = queue[i]
  BY <1>1, <1>2, <1>4
<1>7. ASSUME NEW i \in Positions(rest), NEW j \in Positions(rest), i # j,
             Loads(rest[i]), Loads(rest[j])
      PROVE  rest[i].token # rest[j].token
  <2>1. i + 1 \in 1..len /\ j + 1 \in 1..len /\ i + 1 # j + 1
    BY <1>2, <1>3, <1>5, <1>7 DEF Positions
  <2>2. rest[i] = queue[i + 1] /\ rest[j] = queue[j + 1]
    BY <1>2 DEF Positions
  <2> QED
    BY <1>7, <2>1, <2>2 DEF OnceIn, Positions
<1>8. ASSUME NEW i \in Positions(res), NEW j \in Positions(rest), Loads(rest[j])
      PROVE  res[i].token # rest[j].token
  <2>1. j + 1 \in 1..len /\ rest[j] = queue[j + 1]
    BY <1>2, <1>3 DEF Positions
  <2> QED
    BY <1>8, <2>1 DEF OnceIn, Positions
<1>9. CASE Head(queue).op = "storeMessage" /\ next = res
  <2>1. ~Loads(queue[1])
    BY <1>1, <1>9 DEF Loads
  <2>2. OnceIn(rest, res)
    BY <1>7, <1>8 DEF OnceIn
  <2>3. ASSUME NEW t PROVE Awaits(rest, res, t) <=> Awaits(queue, res, t)
    <3>1. ASSUME NEW i \in 1..len, Loads(queue[i]), queue[i].token = t
          PROVE  \E j \in 1..(len - 1) : Loads(rest[j]) /\ rest[j].token = t
      <4>1. i # 1 /\ i - 1 \in 1..(len - 1) /\ rest[i - 1] = queue[i]
        BY <1>4, <1>6, <2>1, <3>1
      <4> QED
        BY <3>1, <4>1
    <3>2. ASSUME NEW j \in 1..(len - 1), Loads(rest[j]), rest[j].token = t
          PROVE  \E i \in 1..len : Loads(queue[i]) /\ queue[i].token = t
      BY <1>2, <1>3, <3>2
    <3> QED
      BY <1>2, <3>1, <3>2 DEF Awaits, Positions
  <2> QED
    BY <1>1, <1>2, <1>9, <2>2, <2>3 DEF rest
<1>10. CASE \E result \in MembersResult :
              /\ Head(queue).op = "loadGroupMembers"
              /\ result.token = Head(queue).token /\ next = Append(res, result)
  <2>1. PICK result \in MembersResult :
                result.token = queue[1].token /\ next = Append(res, result)
    BY <1>1, <1>10
  <2>2. Loads(queue[1])
    BY <1>1, <1>10 DEF Loads
  <2> DEFINE n == Len(res)
  <2>3. /\ n \in Nat /\ Len(next) = n + 1
        /\ \A i \in 1..n : next[i] = res[i]
        /\ next[n + 1] = result
    BY <2>1, AppendProperties
  <2>4. /\ \A i \in 1..(n + 1) : i \in 1..n \/ i = n + 1
        /\ \A i \in 1..n : i \in 1..(n + 1)
        /\ n + 1 \in 1..(n + 1)
    BY <2>3
  <2>5. \A i \in 1..n : res[i].token # queue[1].token
    BY <1>4, <2>2 DEF OnceIn, Positions
  <2>6. \A i \in 1..(len - 1) : Loads(rest[i]) => rest[i].token # queue[1].token
    BY <1>2, <1>3, <1>4, <2>2 DEF OnceIn, Positions
  <2>7. OnceIn(rest, next)
    <3>1. \A i, j \in Positions(next) : i # j => next[i].token # next[j].token
      BY <2>1, <2>3, <2>4, <2>5 DEF OnceIn, Positions
    <3>2. ASSUME NEW i \in Positions(next), NEW j \in Positions(rest), Loads(rest[j])
          PROVE  next[i].token # rest[j].token
      <4>1. CASE i = n + 1
        BY <1>2, <2>1, <2>3, <2>6, <3>2, <4>1 DEF Positions
      <4>2. CASE i \in 1..n
        BY <1>8, <2>3, <3>2, <4>2 DEF Positions
      <4> QED
        BY <2>3, <2>4, <4>1, <4>2 DEF Positions
    <3> QED
      BY <1>7, <3>1, <3>2 DEF OnceIn
  <2>8. ASSUME NEW t PROVE Awaits(rest, next, t) <=> Awaits(queue, res, t)
    <3>1. ASSUME Awaits(rest, next, t) PROVE Awaits(queue, res, t)
      BY <1>2, <1>3, <1>4, <2>1, <2>2, <2>3, <2>4, <3>1, SMTT(30) DEF Awaits, Positions
    <3>2. ASSUME Awaits(queue, res, t) PROVE Awaits(rest, next, t)
      <4>1. ASSUME NEW i \in 1..len, Loads(queue[i]), queue[i].token = t
            PROVE  Awaits(rest, next, t)
        <5>1. CASE i = 1
          BY <2>1, <2>3, <2>4, <4>1, <5>1 DEF Awaits, Positions
        <5>2. CASE i # 1
          <6>1. i - 1 \in 1..(len - 1) /\ rest[i - 1] = queue[i]
            BY <1>4, <1>6, <5>2
          <6> QED
            BY <1>2, <4>1, <6>1 DEF Awaits, Positions
        <5> QED
          BY <5>1, <5>2
      <4>2. ASSUME NEW i \in 1..n, res[i].token = t PROVE Awaits(rest, next, t)
        BY <2>3, <2>4, <4>2 DEF Awaits, Positions
      <4> QED
        BY <3>2, <4>1, <4>2 DEF Awaits, Positions
    <3> QED
      BY <3>1, <3>2
  <2> QED
    BY <1>1, <1>2, <2>7, <2>8 DEF rest
<1> QED
  BY <1>9, <1>10

-----------------------------------------------------------------------------
(***************************************************************************)
(* What the handlers have in common                                        *)
(***************************************************************************)

\* The cache after the prune with which every request begins
LEMMA Pruned ==
    ASSUME IInv, NEW n \in 0..Len(idempotencyOrder), Prunes(Memory, n),
           NEW mem, mem = Popped(Memory, n)
    PROVE  /\ Sound(mem, delivered)
           /\ setBack \/ Aged(mem, now)
           /\ Fits(mem)
           /\ setBack \/ \A k \in Requests : mem.cache[k] # NoEntry =>
                            now - mem.cache[k].at <= TTL
           /\ \A k \in Requests : mem.cache[k] \in {idempotencyCache[k], NoEntry}
           /\ IsMemory(mem)
<1>1. /\ Memory.order = idempotencyOrder /\ Memory.cache = idempotencyCache
      /\ now \in Int /\ delivered \in [Requests -> SUBSET Ids]
      /\ Sound(Memory, delivered) /\ (setBack \/ Aged(Memory, now))
  BY DeliveryAssumption DEF IInv, TypeOK, Memory
<1>2. n \in 0..Len(Memory.order)
  BY <1>1
<1>3. /\ Sound(mem, delivered)
      /\ Aged(Memory, now) => Aged(mem, now)
      /\ \A k \in Requests : mem.cache[k] \in {Memory.cache[k], NoEntry}
  BY <1>1, <1>2, PoppedSound
<1>4. Stops(mem)
  BY DEF Prunes
<1>5. /\ Fits(mem)
      /\ Aged(mem, now) => \A k \in Requests : mem.cache[k] # NoEntry =>
                              now - mem.cache[k].at <= TTL
  BY <1>1, <1>3, <1>4, StopsFits
<1>6. IsMemory(mem)
  BY DEF Popped, IsMemory
<1> QED
  BY <1>1, <1>3, <1>5, <1>6

\* A new entry, after which any number of keys is popped
LEMMA AddedThenPopped ==
    ASSUME NEW mem, NEW fanned \in [Requests -> SUBSET Ids],
           NEW next \in [Requests -> SUBSET Ids], NEW t \in Int,
           Sound(mem, fanned),
           NEW k \in Requests, mem.cache[k] = NoEntry,
           NEW entry \in Entry, entry.at = t,
           FannedOut(next, fanned, k, entry), NEW added, EntryAdded(added, mem, k, entry),
           NEW n \in 0..Len(added.order)
    PROVE  /\ Sound(Popped(added, n), next)
           /\ Aged(mem, t) => Aged(Popped(added, n), t)
           /\ \A j \in Requests \ {k} : Popped(added, n).cache[j] \in {mem.cache[j], NoEntry}
<1>1. Sound(added, next) /\ (Aged(mem, t) => Aged(added, t))
  BY AddedSound
<1>2. /\ Sound(Popped(added, n), next)
      /\ Aged(added, t) => Aged(Popped(added, n), t)
      /\ \A j \in Requests : Popped(added, n).cache[j] \in {added.cache[j], NoEntry}
  BY <1>1, PoppedSound
<1>3. \A j \in Requests \ {k} : added.cache[j] = mem.cache[j]
  BY DEF Sound, MemoryOK, EntryAdded
<1> QED
  BY <1>1, <1>2, <1>3

\* An answer is remembered together with what it fans out
LEMMA Remembered ==
    ASSUME IInv, NEW mem, Sound(mem, delivered), setBack \/ Aged(mem, now), IsMemory(mem),
           NEW k \in Requests, mem.cache[k] = NoEntry,
           NEW entry \in Entry, entry.at = now,
           Remember(mem, k, entry),
           delivered' = [delivered EXCEPT
              ![k] = IF entry.code = 200 THEN @ \cup {entry.serverId} ELSE @],
           entry.code = 200 => entry.serverId \in Ids,
           UNCHANGED clock
    PROVE  /\ Sound(Memory, delivered)'
           /\ (setBack \/ Aged(Memory, now))'
           /\ Fits(Memory)'
           /\ \A j \in Requests \ {k} : idempotencyCache'[j] \in {mem.cache[j], NoEntry}
           /\ delivered' \in [Requests -> SUBSET Ids]
<1> DEFINE added == [mem EXCEPT !.cache[k] = entry, !.order = Append(@, k)]
<1>1. /\ now \in Int /\ delivered \in [Requests -> SUBSET Ids]
      /\ now' = now /\ setBack' = setBack
  BY DeliveryAssumption DEF IInv, TypeOK, clock
<1>2. delivered' \in [Requests -> SUBSET Ids]
  BY <1>1
<1>3. FannedOut(delivered', delivered, k, entry)
  BY <1>1 DEF FannedOut
<1>4. EntryAdded(added, mem, k, entry)
  BY DEF IsMemory, EntryAdded
<1>5. PICK n \in 0..Len(added.order) : Prunes(added, n) /\ Keep(Popped(added, n))
  BY DEF Remember
<1> HIDE DEF added
<1> DEFINE left == Popped(added, n)
<1>6. /\ Sound(left, delivered')
      /\ Aged(mem, now) => Aged(left, now)
      /\ \A j \in Requests \ {k} : left.cache[j] \in {mem.cache[j], NoEntry}
  <2>1. PICK next \in [Requests -> SUBSET Ids] : next = delivered'
    BY <1>2
  <2>2. FannedOut(next, delivered, k, entry)
    BY <1>3, <2>1
  <2>3. now \in Int /\ entry.at = now
    BY <1>1
  <2>4. delivered \in [Requests -> SUBSET Ids] 
    BY <1>1
  <2>5. /\ Sound(left, next)
        /\ Aged(mem, now) => Aged(left, now)
        /\ \A j \in Requests \ {k} : left.cache[j] \in {mem.cache[j], NoEntry}
    BY <1>4, <2>2, <2>3, <2>4, AddedThenPopped
  <2> QED
    BY <2>1, <2>5
<1>7. Fits(left)
  <2>1. Stops(left)
    BY <1>5 DEF Prunes
  <2> HIDE DEF left
  <2> QED
    BY <1>1, <1>6, <2>1, StopsFits
<1>8. Memory' = left
  BY <1>5 DEF Memory, Keep, Popped
<1>9. idempotencyCache' = left.cache
  BY <1>5 DEF Keep
<1> HIDE DEF left
<1>10. Sound(Memory', delivered') /\ (setBack' \/ Aged(Memory', now')) /\ Fits(Memory')
  BY <1>1, <1>6, <1>7, <1>8
<1> QED
  BY <1>2, <1>6, <1>9, <1>10 DEF Fits

\* The cache is only pruned
LEMMA KeptSound ==
    ASSUME IInv, NEW mem, Sound(mem, delivered), setBack \/ Aged(mem, now), Fits(mem),
           IsMemory(mem),
           Keep(mem), UNCHANGED <<clock, delivered>>
    PROVE  /\ Sound(Memory, delivered)'
           /\ (setBack \/ Aged(Memory, now))'
           /\ Fits(Memory)'
<1>1. Memory' = mem /\ now' = now /\ setBack' = setBack /\ delivered' = delivered
  BY DEF Memory, Keep, clock, IsMemory
<1>2. Sound(Memory', delivered') /\ (setBack' \/ Aged(Memory', now')) /\ Fits(Memory')
  BY <1>1
<1> QED
  BY <1>2 DEF Fits

\* An answer that is true and not too old
LEMMA AnswerTrue ==
    ASSUME IInv, NEW k \in Requests, NEW a \in Ack,
           acked' = [acked EXCEPT ![k] = @ \cup {a}],
           \A j \in Requests : delivered[j] \subseteq delivered'[j],
           a.code = 200 => a.serverId \in delivered'[k],
           setBack \/ a.age <= TTL, setBack' = setBack
    PROVE  /\ acked' \in [Requests -> SUBSET Ack]
           /\ NoStaleReplay'
           /\ AckNamesDelivery'
<1>1. acked \in [Requests -> SUBSET Ack]
  BY DEF IInv, TypeOK
<1>2. \A j \in Requests : acked'[j] = IF j = k THEN acked[k] \cup {a} ELSE acked[j]
  BY <1>1
<1>3. acked' \in [Requests -> SUBSET Ack]
  BY <1>1
<1>4. NoStaleReplay'
  BY <1>2 DEF IInv, NoStaleReplay
<1>5. AckNamesDelivery'
  BY <1>2 DEF IInv, AckNamesDelivery
<1> QED
  BY <1>3, <1>4, <1>5

LEMMA AcksKept ==
    ASSUME IInv, acked' = acked, setBack => setBack',
           \A j \in Requests : delivered[j] \subseteq delivered'[j]
    PROVE  NoStaleReplay' /\ AckNamesDelivery'
<1>1. NoStaleReplay'
  BY DEF IInv, NoStaleReplay
<1>2. AckNamesDelivery'
  BY DEF IInv, AckNamesDelivery
<1> QED
  BY <1>1, <1>2

\* Another request at the end of the queue
LEMMA StoredLater ==
    ASSUME IInv, NEW req \in Request, dbQueue' = Append(dbQueue, req),
           UNCHANGED <<messages, crashes>>,
           \A j \in Requests : delivered'[j] # {} =>
              delivered[j] # {} \/ (req.op = "storeMessage" /\ req.key = j)
    PROVE  AcceptedIsStored'
<1> DEFINE len == Len(dbQueue)
<1>1. /\ len \in Nat /\ Len(dbQueue') = len + 1
      /\ \A i \in 1..len : dbQueue'[i] = dbQueue[i]
      /\ dbQueue'[len + 1] = req
  <2>1. dbQueue \in Seq(Request)
    BY DEF IInv, TypeOK, Request
  <2> QED
    BY <2>1, AppendProperties
<1>2. len + 1 \in 1..(len + 1) /\ \A i \in 1..len : i \in 1..(len + 1)
  BY <1>1
<1> SUFFICES ASSUME NEW k \in Requests, delivered'[k] # {}, messages'[k] = 0, crashes' <= 0
             PROVE  \E i \in 1..Len(dbQueue') :
                       dbQueue'[i].op = "storeMessage" /\ dbQueue'[i].key = k
  <2>1. crashes' \in Nat
    BY DEF IInv, TypeOK
  <2> QED
    BY <2>1 DEF AcceptedIsStored
<1>3. CASE delivered[k] # {}
  <2>1. crashes \in Nat
    BY DEF IInv, TypeOK
  <2>2. PICK i \in 1..len : dbQueue[i].op = "storeMessage" /\ dbQueue[i].key = k
    BY <1>3, <2>1 DEF IInv, AcceptedIsStored
  <2> QED
    BY <1>1, <1>2, <2>2
<1>4. CASE req.op = "storeMessage" /\ req.key = k
  BY <1>1, <1>2, <1>4
<1> QED
  BY <1>3, <1>4

LEMMA StoredKept ==
    ASSUME IInv, UNCHANGED <<dbQueue, messages, crashes, delivered>>
    PROVE  AcceptedIsStored'
  BY DEF IInv, AcceptedIsStored

\* The group requests under way stay what they are
LEMMA AccountsKept ==
    ASSUME IInv, UNCHANGED groupVars, OnceIn(dbQueue', results'),
           \A t : Awaits(dbQueue', results', t) <=> Awaits(dbQueue, results, t),
           \A k \in inFlightGroupMsgIds : idempotencyCache'[k] \in {idempotencyCache[k], NoEntry},
           nextId' \in Int, nextId <= nextId'
    PROVE  TokensOnce' /\ InFlightAccounted'
<1>1. nextId \in Int /\ DOMAIN pendingGroupMessages \subseteq Int
  BY DEF IInv, TypeOK, Ids
<1>2. TokensOnce'
  BY <1>1 DEF IInv, TokensOnce, groupVars
<1>3. \A t : t \in WaitingTokens' <=> Awaits(dbQueue', results', t)
  BY DEF WaitingTokens, Awaits, Loads, Positions
<1>4. WaitingTokens' = WaitingTokens
  BY <1>3, WaitingAwaits
<1>5. InFlightAccounted'
  BY <1>4 DEF IInv, InFlightAccounted, groupVars
<1> QED
  BY <1>2, <1>5

\* The members of a request's group are loaded, or could not be
LEMMA AccountEnds ==
    ASSUME IInv, NEW t \in DOMAIN pendingGroupMessages, EndPending(t),
           OnceIn(dbQueue', results'),
           \A u : Awaits(dbQueue', results', u) <=> Awaits(dbQueue, results, u) /\ u # t,
           \A k \in Requests \ {pendingGroupMessages[t]} :
              idempotencyCache'[k] \in {idempotencyCache[k], NoEntry},
           nextId' = nextId
    PROVE  TokensOnce' /\ InFlightAccounted'
<1>1. /\ DOMAIN pendingGroupMessages' = DOMAIN pendingGroupMessages \ {t}
      /\ \A u \in DOMAIN pendingGroupMessages' :
            pendingGroupMessages'[u] = pendingGroupMessages[u]
      /\ inFlightGroupMsgIds' = inFlightGroupMsgIds \ {pendingGroupMessages[t]}
  BY DEF EndPending
<1>2. TokensOnce'
  BY <1>1 DEF IInv, TokensOnce
<1>3. \A u : u \in WaitingTokens' <=> Awaits(dbQueue', results', u)
  BY DEF WaitingTokens, Awaits, Loads, Positions
<1>4. DOMAIN pendingGroupMessages' = WaitingTokens'
  BY <1>1, <1>3, WaitingAwaits DEF IInv, InFlightAccounted
<1>5. \A u, v \in DOMAIN pendingGroupMessages :
         pendingGroupMessages[u] = pendingGroupMessages[v] => u = v
  BY DEF IInv, InFlightAccounted
<1>6. inFlightGroupMsgIds' =
         {pendingGroupMessages'[u] : u \in DOMAIN pendingGroupMessages'}
  BY <1>1, <1>5 DEF IInv, InFlightAccounted
<1>7. \A k \in inFlightGroupMsgIds' : idempotencyCache'[k] = NoEntry
  <2>1. inFlightGroupMsgIds \subseteq Requests
    BY DEF IInv, TypeOK, Requests
  <2> QED
    BY <1>1, <2>1 DEF IInv, InFlightAccounted
<1>8. InFlightAccounted'
  BY <1>1, <1>4, <1>5, <1>6, <1>7 DEF InFlightAccounted
<1> QED
  BY <1>2, <1>8

-----------------------------------------------------------------------------
(***************************************************************************)
(* A request: what follows the prune, which leaves mem                     *)
(***************************************************************************)

\* What every handler of a request leaves to be shown
LEMMA Reassembled ==
    ASSUME IInv, Sound(Memory, delivered)', (setBack \/ Aged(Memory, now))', Fits(Memory)',
           TokensOnce', InFlightAccounted', NoStaleReplay', AckNamesDelivery',
           AcceptedIsStored',
           UNCHANGED <<clock, messages, membership, crashes>>,
           inFlightGroupMsgIds' \subseteq GroupReqs,
           DOMAIN pendingGroupMessages' \subseteq Ids,
           \A t \in DOMAIN pendingGroupMessages' : pendingGroupMessages'[t] \in GroupReqs,
           dbQueue' \in Seq(Request), results' \in Seq(MembersResult),
           nextId' \in 1..(MaxServerIds + 1),
           delivered' \in [Requests -> SUBSET Ids], acked' \in [Requests -> SUBSET Ack]
    PROVE  IInv'
<1>1. /\ idempotencyCache' \in [Requests -> Entry \cup {NoEntry}]
      /\ idempotencyOrder' \in Seq(Requests)
      /\ forgotten' \in [Requests -> Nat]
  BY DEF Sound, MemoryOK, Memory
<1>2. TypeOK'
  BY <1>1 DEF IInv, TypeOK, clock, Request
<1> QED
  BY <1>2 DEF IInv

LEMMA AnswerStep ==
    ASSUME IInv, NEW k \in Requests, NEW mem, Sound(mem, delivered), setBack \/ Aged(mem, now),
           Fits(mem), IsMemory(mem),
           \A j \in Requests : mem.cache[j] \in {idempotencyCache[j], NoEntry},
           setBack \/ \A j \in Requests : mem.cache[j] # NoEntry => now - mem.cache[j].at <= TTL,
           UNCHANGED <<clock, results, messages, membership, crashes>>,
           \/ AnswerFromCache(k, mem)
           \/ Refuse(k, mem)
           \/ IgnoreInFlight(k, mem)
    PROVE  IInv'
<1>1. Keep(mem) /\ UNCHANGED <<groupVars, dbQueue, nextId, delivered>>
  BY DEF AnswerFromCache, Refuse, IgnoreInFlight
<1>2. Sound(Memory, delivered)' /\ (setBack \/ Aged(Memory, now))' /\ Fits(Memory)'
  BY <1>1, KeptSound
<1>3. \A j \in Requests : idempotencyCache'[j] \in {idempotencyCache[j], NoEntry}
  BY <1>1 DEF Keep
<1>4. TokensOnce' /\ InFlightAccounted'
  <2>1. inFlightGroupMsgIds \subseteq Requests /\ nextId \in Int
    BY DEF IInv, TypeOK, Requests
  <2>2. /\ OnceIn(dbQueue', results')
        /\ \A t : Awaits(dbQueue', results', t) <=> Awaits(dbQueue, results, t)
    BY <1>1 DEF IInv, TokensOnce
  <2> QED
    BY <1>1, <1>3, <2>1, <2>2, AccountsKept
<1>5. AcceptedIsStored'
  BY <1>1, StoredKept
<1>6. acked' \in [Requests -> SUBSET Ack] /\ NoStaleReplay' /\ AckNamesDelivery'
  <2>1. /\ now \in 0..MaxTime /\ MaxTime \in Nat /\ setBack' = setBack
        /\ mem.cache[k] \in Entry \cup {NoEntry}
        /\ mem.cache[k].code = 200 => mem.cache[k].serverId \in delivered[k]
    BY DeliveryAssumption DEF IInv, TypeOK, clock, Sound, MemoryOK, Answered
  <2>2. CASE AnswerFromCache(k, mem)
    <3> DEFINE a == [code |-> mem.cache[k].code, serverId |-> mem.cache[k].serverId,
                     age |-> now - mem.cache[k].at]
    <3>1. mem.cache[k] \in Entry /\ acked' = [acked EXCEPT ![k] = @ \cup {a}]
      BY <2>1, <2>2 DEF AnswerFromCache, Acknowledge
    <3>2. now - mem.cache[k].at \in (-MaxTime)..MaxTime
      BY <2>1, <3>1 DEF Entry
    <3>3. a \in Ack
      BY <3>1, <3>2 DEF Entry, Ack
    <3>4. setBack \/ a.age <= TTL
      BY <2>2 DEF AnswerFromCache
    <3>5. a.code = 200 => a.serverId \in delivered'[k]
      BY <1>1, <2>1
    <3>6. \A j \in Requests : delivered[j] \subseteq delivered'[j]
      BY <1>1
    <3> HIDE DEF a
    <3> QED
      BY <2>1, <3>1, <3>3, <3>4, <3>5, <3>6, AnswerTrue
  <2>3. CASE Refuse(k, mem)
    <3> DEFINE a == [code |-> 400, serverId |-> 0, age |-> 0]
    <3>1. acked' = [acked EXCEPT ![k] = @ \cup {a}]
      BY <2>3 DEF Refuse, Acknowledge
    <3>2. a \in Ack /\ a.age <= TTL /\ a.code # 200
      BY DeliveryAssumption DEF Ack
    <3>3. \A j \in Requests : delivered[j] \subseteq delivered'[j]
      BY <1>1
    <3> HIDE DEF a
    <3> QED
      BY <2>1, <3>1, <3>2, <3>3, AnswerTrue
  <2>4. CASE IgnoreInFlight(k, mem)
    <3>1. acked' = acked
      BY <2>4 DEF IgnoreInFlight
    <3> QED
      BY <1>1, <2>1, <3>1, AcksKept DEF IInv, TypeOK
  <2> QED
    BY <2>2, <2>3, <2>4
<1> QED
  BY <1>1, <1>2, <1>4, <1>5, <1>6, Reassembled DEF IInv, TypeOK, groupVars, Request

LEMMA AcceptPrivateStep ==
    ASSUME IInv, NEW k \in Requests, NEW mem, Sound(mem, delivered), setBack \/ Aged(mem, now),
           IsMemory(mem),
           \A j \in Requests : mem.cache[j] \in {idempotencyCache[j], NoEntry},
           UNCHANGED <<clock, results, messages, membership, crashes>>,
           AcceptPrivate(k, mem)
    PROVE  IInv'
<1> DEFINE entry == [code |-> 200, serverId |-> nextId, at |-> now]
           req == [op |-> "storeMessage", key |-> k, serverId |-> nextId]
           a == [code |-> 200, serverId |-> nextId, age |-> 0]
<1>1. /\ mem.cache[k] = NoEntry /\ k \in PrivateReqs
      /\ nextId' = nextId + 1
      /\ Remember(mem, k, entry)
      /\ acked' = [acked EXCEPT ![k] = @ \cup {a}]
      /\ dbQueue' = Append(dbQueue, req)
      /\ delivered' = [delivered EXCEPT ![k] = @ \cup {nextId}]
      /\ UNCHANGED groupVars
  BY DEF AcceptPrivate, Acknowledge
<1>2. /\ nextId \in Ids /\ nextId \in 0..MaxServerIds /\ nextId' \in 1..(MaxServerIds + 1)
      /\ nextId \in Int /\ now \in 0..MaxTime /\ 0 \in (-MaxTime)..MaxTime
  BY DeliveryAssumption DEF AcceptPrivate, IInv, TypeOK, Ids
<1>3. entry \in Entry /\ req \in StoreReq /\ a \in Ack
  BY <1>2 DEF Entry, StoreReq, Ack
<1>4. /\ entry.at = now /\ entry.code = 200 /\ entry.serverId = nextId
      /\ req.op = "storeMessage" /\ req.key = k
      /\ a.code = 200 /\ a.serverId = nextId /\ a.age = 0
  OBVIOUS
<1> HIDE DEF entry, req, a
<1>5. delivered' = [delivered EXCEPT
                       ![k] = IF entry.code = 200 THEN @ \cup {entry.serverId} ELSE @]
  BY <1>1, <1>4
<1>6. /\ Sound(Memory, delivered)' /\ (setBack \/ Aged(Memory, now))' /\ Fits(Memory)'
      /\ \A j \in Requests \ {k} : idempotencyCache'[j] \in {mem.cache[j], NoEntry}
      /\ delivered' \in [Requests -> SUBSET Ids]
  <2>1. entry \in Entry /\ entry.at = now /\ (entry.code = 200 => entry.serverId \in Ids)
    BY <1>2, <1>3, <1>4
  <2>2. mem.cache[k] = NoEntry /\ Remember(mem, k, entry) /\ UNCHANGED clock
    BY <1>1
  <2> QED
    BY <1>5, <2>1, <2>2, Remembered, ZenonT(60)
<1>7. /\ \A j \in Requests : delivered[j] \subseteq delivered'[j]
      /\ nextId \in delivered'[k]
      /\ \A j \in Requests \ {k} : delivered'[j] = delivered[j]
  BY <1>1 DEF IInv, TypeOK
<1>8. acked' \in [Requests -> SUBSET Ack] /\ NoStaleReplay' /\ AckNamesDelivery'
  <2>1. (setBack \/ a.age <= TTL) /\ setBack' = setBack
    BY <1>4, DeliveryAssumption DEF clock
  <2>2. a.code = 200 => a.serverId \in delivered'[k]
    BY <1>4, <1>7
  <2> QED
    BY <1>1, <1>3, <1>7, <2>1, <2>2, AnswerTrue
<1>9. /\ dbQueue \in Seq(Request) /\ results \in Seq(MembersResult)
      /\ OnceIn(dbQueue, results)
  BY DEF IInv, TypeOK, TokensOnce, Request
<1>10. /\ dbQueue' \in Seq(Request)
       /\ OnceIn(dbQueue', results')
       /\ \A t : Awaits(dbQueue', results', t) <=> Awaits(dbQueue, results, t)
  BY <1>1, <1>3, <1>9, PostStore
<1>11. TokensOnce' /\ InFlightAccounted'
  <2>1. inFlightGroupMsgIds \subseteq Requests \ {k}
    BY <1>1, DeliveryAssumption DEF IInv, TypeOK, Requests
  <2>2. \A j \in inFlightGroupMsgIds : idempotencyCache'[j] \in {idempotencyCache[j], NoEntry}
    BY <1>6, <2>1
  <2>3. nextId' \in Int /\ nextId <= nextId'
    BY <1>1, <1>2
  <2> QED
    BY <1>1, <1>10, <2>2, <2>3, AccountsKept
<1>12. AcceptedIsStored'
  <2>1. req \in Request
    BY <1>3 DEF Request
  <2> QED
    BY <1>1, <1>4, <1>7, <2>1, StoredLater
<1> QED
  BY <1>1, <1>2, <1>6, <1>8, <1>9, <1>10, <1>11, <1>12, Reassembled DEF IInv, TypeOK, groupVars

LEMMA LoadMembersStep ==
    ASSUME IInv, NEW k \in Requests, NEW mem, Sound(mem, delivered), setBack \/ Aged(mem, now),
           Fits(mem), IsMemory(mem),
           \A j \in Requests : mem.cache[j] \in {idempotencyCache[j], NoEntry},
           UNCHANGED <<clock, results, messages, membership, crashes>>,
           LoadMembersOf(k, mem)
    PROVE  IInv'
<1> DEFINE req == [op |-> "loadGroupMembers", token |-> nextId]
<1>1. /\ mem.cache[k] = NoEntry /\ k \in GroupReqs /\ k \notin inFlightGroupMsgIds
      /\ nextId <= MaxServerIds /\ nextId' = nextId + 1
      /\ inFlightGroupMsgIds' = inFlightGroupMsgIds \cup {k}
      /\ pendingGroupMessages' =
            [t \in DOMAIN pendingGroupMessages \cup {nextId} |->
                IF t = nextId THEN k ELSE pendingGroupMessages[t]]
      /\ dbQueue' = Append(dbQueue, req)
      /\ Keep(mem) /\ UNCHANGED <<acked, delivered>>
  BY DEF LoadMembersOf, StartPending
<1>2. /\ nextId \in Ids /\ nextId' \in 1..(MaxServerIds + 1) /\ nextId \in Int
      /\ DOMAIN pendingGroupMessages \subseteq Int
  BY <1>1, DeliveryAssumption DEF IInv, TypeOK, Ids
<1>3. req \in MembersReq /\ req.token = nextId /\ req.op # "storeMessage"
  BY <1>2 DEF MembersReq
<1> HIDE DEF req
<1>4. Sound(Memory, delivered)' /\ (setBack \/ Aged(Memory, now))' /\ Fits(Memory)'
  BY <1>1, KeptSound
<1>5. nextId \notin DOMAIN pendingGroupMessages
  BY <1>2 DEF IInv, TokensOnce
<1>6. /\ dbQueue \in Seq(Request) /\ results \in Seq(MembersResult)
      /\ OnceIn(dbQueue, results) /\ ~Awaits(dbQueue, results, nextId)
  <2>1. ~Awaits(dbQueue, results, nextId)
    BY <1>5, WaitingAwaits DEF IInv, InFlightAccounted
  <2> QED
    BY <2>1 DEF IInv, TypeOK, TokensOnce, Request
<1>7. /\ dbQueue' \in Seq(Request)
      /\ OnceIn(dbQueue', results')
      /\ \A t : Awaits(dbQueue', results', t) <=> Awaits(dbQueue, results, t) \/ t = nextId
  BY <1>1, <1>3, <1>6, PostLoad
<1>8. TokensOnce'
  <2>1. \A t \in DOMAIN pendingGroupMessages' : t < nextId'
    BY <1>1, <1>2 DEF IInv, TokensOnce
  <2> QED
    BY <1>7, <2>1 DEF TokensOnce
<1>9. InFlightAccounted'
  <2>1. \A t : t \in WaitingTokens' <=> Awaits(dbQueue', results', t)
    BY DEF WaitingTokens, Awaits, Loads, Positions
  <2>2. DOMAIN pendingGroupMessages' = WaitingTokens'
    BY <1>1, <1>7, <2>1, WaitingAwaits DEF IInv, InFlightAccounted
  <2>3. /\ pendingGroupMessages'[nextId] = k
        /\ \A t \in DOMAIN pendingGroupMessages :
              pendingGroupMessages'[t] = pendingGroupMessages[t]
    BY <1>1, <1>5
  <2>4. inFlightGroupMsgIds' =
           {pendingGroupMessages'[t] : t \in DOMAIN pendingGroupMessages'}
    <3>1. inFlightGroupMsgIds =
             {pendingGroupMessages[t] : t \in DOMAIN pendingGroupMessages}
      BY DEF IInv, InFlightAccounted
    <3>2. DOMAIN pendingGroupMessages' = DOMAIN pendingGroupMessages \cup {nextId}
      BY <1>1
    <3>3. ASSUME NEW j \in inFlightGroupMsgIds'
          PROVE  \E t \in DOMAIN pendingGroupMessages' : pendingGroupMessages'[t] = j
      BY <1>1, <2>3, <3>1, <3>2
    <3>4. ASSUME NEW t \in DOMAIN pendingGroupMessages'
          PROVE  pendingGroupMessages'[t] \in inFlightGroupMsgIds'
      BY <1>1, <2>3, <3>1, <3>2
    <3> QED
      BY <3>3, <3>4
  <2>5. \A t \in DOMAIN pendingGroupMessages : pendingGroupMessages[t] # k
    BY <1>1 DEF IInv, InFlightAccounted
  <2>6. \A t, u \in DOMAIN pendingGroupMessages' :
           pendingGroupMessages'[t] = pendingGroupMessages'[u] => t = u
    BY <1>1, <2>3, <2>5 DEF IInv, InFlightAccounted
  <2>7. \A j \in inFlightGroupMsgIds' : idempotencyCache'[j] = NoEntry
    <3>1. inFlightGroupMsgIds \subseteq Requests
      BY DEF IInv, TypeOK, Requests
    <3> QED
      BY <1>1, <3>1 DEF IInv, InFlightAccounted, Keep
  <2> QED
    BY <2>2, <2>4, <2>6, <2>7 DEF InFlightAccounted
<1>10. NoStaleReplay' /\ AckNamesDelivery'
  BY <1>1, AcksKept DEF clock
<1>11. AcceptedIsStored'
  <2>1. req \in Request
    BY <1>3 DEF Request
  <2> QED
    BY <1>1, <1>3, <2>1, StoredLater
<1>12. /\ inFlightGroupMsgIds' \subseteq GroupReqs
       /\ DOMAIN pendingGroupMessages' \subseteq Ids
       /\ \A t \in DOMAIN pendingGroupMessages' : pendingGroupMessages'[t] \in GroupReqs
  BY <1>1, <1>2 DEF IInv, TypeOK
<1> QED
  BY <1>1, <1>2, <1>4, <1>6, <1>7, <1>8, <1>9, <1>10, <1>11, <1>12, Reassembled
  DEF IInv, TypeOK

LEMMA ProcessStep ==
    ASSUME IInv, NEW k \in Requests, ProcessSendMessage(k)
    PROVE  IInv'
<1>1. PICK n \in 0..Len(idempotencyOrder) :
         /\ Prunes(Memory, n)
         /\ \/ AnswerFromCache(k, Popped(Memory, n))
            \/ Refuse(k, Popped(Memory, n))
            \/ AcceptPrivate(k, Popped(Memory, n))
            \/ IgnoreInFlight(k, Popped(Memory, n))
            \/ LoadMembersOf(k, Popped(Memory, n))
  BY DEF ProcessSendMessage
<1>2. UNCHANGED <<clock, results, messages, membership, crashes>>
  BY DEF ProcessSendMessage
<1> DEFINE mem == Popped(Memory, n)
<1> HIDE DEF mem
<1>3. /\ Sound(mem, delivered) /\ (setBack \/ Aged(mem, now)) /\ Fits(mem)
      /\ setBack \/ \A j \in Requests : mem.cache[j] # NoEntry => now - mem.cache[j].at <= TTL
      /\ \A j \in Requests : mem.cache[j] \in {idempotencyCache[j], NoEntry}
      /\ IsMemory(mem)
  BY <1>1, Pruned DEF mem
<1>4. CASE AnswerFromCache(k, mem) \/ Refuse(k, mem) \/ IgnoreInFlight(k, mem)
  BY <1>2, <1>3, <1>4, AnswerStep
<1>5. CASE AcceptPrivate(k, mem)
  BY <1>2, <1>3, <1>5, AcceptPrivateStep
<1>6. CASE LoadMembersOf(k, mem)
  BY <1>2, <1>3, <1>6, LoadMembersStep
<1> QED
  BY <1>1, <1>4, <1>5, <1>6 DEF mem

-----------------------------------------------------------------------------
(***************************************************************************)
(* The members of a group, and the database thread                         *)
(***************************************************************************)

LEMMA MembersStep ==
    ASSUME IInv, OnGroupMembersForMessage
    PROVE  IInv'
<1> DEFINE t == Head(results).token
           found == Head(results).found
           k == pendingGroupMessages[t]
<1>1. /\ results # <<>> /\ results' = Tail(results)
      /\ t \in DOMAIN pendingGroupMessages
      /\ EndPending(t)
      /\ UNCHANGED <<clock, messages, membership, crashes>> /\ nextId' = nextId
  BY DEF OnGroupMembersForMessage
<1>2. /\ dbQueue \in Seq(Request) /\ results \in Seq(MembersResult)
      /\ OnceIn(dbQueue, results)
      /\ k \in GroupReqs /\ k \in Requests /\ t \in Ids
  BY <1>1 DEF IInv, TypeOK, TokensOnce, Request, Requests
<1>3. /\ results' \in Seq(MembersResult)
      /\ OnceIn(dbQueue, results')
      /\ \A u : Awaits(dbQueue, results', u) <=> Awaits(dbQueue, results, u) /\ u # t
  BY <1>1, <1>2, TakeResult
<1>4. idempotencyCache[k] = NoEntry
  BY <1>1 DEF IInv, InFlightAccounted
<1>5. /\ Sound(Memory, delivered) /\ (setBack \/ Aged(Memory, now)) /\ Fits(Memory)
      /\ IsMemory(Memory) /\ Memory.cache = idempotencyCache
  BY DEF IInv, IsMemory, Memory
<1>6. /\ inFlightGroupMsgIds' \subseteq GroupReqs
      /\ DOMAIN pendingGroupMessages' \subseteq Ids
      /\ \A u \in DOMAIN pendingGroupMessages' : pendingGroupMessages'[u] \in GroupReqs
      /\ nextId' \in 1..(MaxServerIds + 1)
  BY <1>1 DEF IInv, TypeOK, EndPending
<1>7. /\ t \in 0..MaxServerIds /\ 0 \in 0..MaxServerIds /\ 0 \in (-MaxTime)..MaxTime
      /\ now \in 0..MaxTime /\ 0 <= TTL /\ setBack' = setBack
  BY <1>1, <1>2, DeliveryAssumption DEF IInv, TypeOK, Ids, clock
<1>8. \/ /\ Acknowledge(k, IF found = "noGroup" THEN 404 ELSE 500, 0, 0)
         /\ UNCHANGED <<cacheVars, dbQueue, delivered, forgotten>>
      \/ /\ Remember(Memory, k, [code |-> 403, serverId |-> 0, at |-> now])
         /\ Acknowledge(k, 403, 0, 0)
         /\ UNCHANGED <<dbQueue, delivered>>
      \/ /\ Remember(Memory, k, [code |-> 200, serverId |-> t, at |-> now])
         /\ Acknowledge(k, 200, t, 0)
         /\ dbQueue' = Append(dbQueue, [op |-> "storeMessage", key |-> k, serverId |-> t])
         /\ delivered' = [delivered EXCEPT ![k] = @ \cup {t}]
  BY DEF OnGroupMembersForMessage
<1> HIDE DEF t, found, k
<1>9. CASE /\ Acknowledge(k, IF found = "noGroup" THEN 404 ELSE 500, 0, 0)
           /\ UNCHANGED <<cacheVars, dbQueue, delivered, forgotten>>
  <2> DEFINE a == [code |-> IF found = "noGroup" THEN 404 ELSE 500, serverId |-> 0, age |-> 0]
  <2>1. acked' = [acked EXCEPT ![k] = @ \cup {a}]
    BY <1>9 DEF Acknowledge
  <2>2. a \in Ack /\ a.code # 200 /\ a.age = 0
    BY <1>7 DEF Ack
  <2> HIDE DEF a
  <2>3. acked' \in [Requests -> SUBSET Ack] /\ NoStaleReplay' /\ AckNamesDelivery'
    <3>1. \A j \in Requests : delivered[j] \subseteq delivered'[j]
      BY <1>9
    <3>2. (setBack \/ a.age <= TTL) /\ (a.code = 200 => a.serverId \in delivered'[k])
      BY <1>7, <2>2
    <3> QED
      BY <1>2, <1>7, <2>1, <2>2, <3>1, <3>2, AnswerTrue
  <2>4. Sound(Memory, delivered)' /\ (setBack \/ Aged(Memory, now))' /\ Fits(Memory)'
    <3>1. Memory' = Memory /\ delivered' = delivered /\ now' = now
      BY <1>1, <1>9 DEF Memory, cacheVars, clock
    <3>2. Sound(Memory', delivered') /\ (setBack' \/ Aged(Memory', now')) /\ Fits(Memory')
      BY <1>5, <1>7, <3>1
    <3> QED
      BY <3>2 DEF Fits
  <2>5. TokensOnce' /\ InFlightAccounted'
    <3>1. \A j \in Requests \ {k} : idempotencyCache'[j] \in {idempotencyCache[j], NoEntry}
      BY <1>9 DEF cacheVars
    <3> QED
      BY <1>1, <1>3, <1>9, <3>1, AccountEnds DEF k
  <2>6. AcceptedIsStored'
    BY <1>1, <1>9, StoredKept
  <2> QED
    BY <1>1, <1>2, <1>3, <1>6, <1>9, <2>3, <2>4, <2>5, <2>6, Reassembled DEF IInv, TypeOK
<1>10. CASE /\ Remember(Memory, k, [code |-> 403, serverId |-> 0, at |-> now])
            /\ Acknowledge(k, 403, 0, 0)
            /\ UNCHANGED <<dbQueue, delivered>>
  <2> DEFINE a == [code |-> 403, serverId |-> 0, age |-> 0]
             entry == [code |-> 403, serverId |-> 0, at |-> now]
  <2>1. acked' = [acked EXCEPT ![k] = @ \cup {a}] /\ Remember(Memory, k, entry)
    BY <1>10 DEF Acknowledge
  <2>2. /\ a \in Ack /\ a.code # 200 /\ a.age = 0
        /\ entry \in Entry /\ entry.at = now /\ entry.code = 403
    BY <1>7 DEF Ack, Entry
  <2> HIDE DEF a, entry
  <2>3. acked' \in [Requests -> SUBSET Ack] /\ NoStaleReplay' /\ AckNamesDelivery'
    <3>1. \A j \in Requests : delivered[j] \subseteq delivered'[j]
      BY <1>10
    <3>2. (setBack \/ a.age <= TTL) /\ (a.code = 200 => a.serverId \in delivered'[k])
      BY <1>7, <2>2
    <3>3. acked' = [acked EXCEPT ![k] = @ \cup {a}] /\ a \in Ack
      BY <2>1, <2>2
    <3> QED
      BY <1>2, <1>7, <3>1, <3>2, <3>3, AnswerTrue
  <2>4. /\ Sound(Memory, delivered)' /\ (setBack \/ Aged(Memory, now))' /\ Fits(Memory)'
        /\ \A j \in Requests \ {k} : idempotencyCache'[j] \in {Memory.cache[j], NoEntry}
        /\ delivered' \in [Requests -> SUBSET Ids]
    <3>1. /\ Memory.cache[k] = NoEntry /\ (entry.code = 200 => entry.serverId \in Ids)
          /\ UNCHANGED clock
      BY <1>1, <1>4, <1>5, <2>2
    <3>2. delivered' = [delivered EXCEPT
                           ![k] = IF entry.code = 200 THEN @ \cup {entry.serverId} ELSE @]
      BY <1>10, <2>2 DEF IInv, TypeOK
    <3>3. Remember(Memory, k, entry) /\ entry \in Entry /\ entry.at = now
      BY <2>1, <2>2
    <3> QED
      BY <1>2, <1>5, <3>1, <3>2, <3>3, Remembered
  <2>5. TokensOnce' /\ InFlightAccounted'
    BY <1>1, <1>3, <1>5, <1>10, <2>4, AccountEnds DEF k
  <2>6. AcceptedIsStored'
    BY <1>1, <1>10, StoredKept
  <2> QED
    BY <1>1, <1>2, <1>3, <1>6, <1>10, <2>3, <2>4, <2>5, <2>6, Reassembled DEF IInv, TypeOK
<1>11. CASE /\ Remember(Memory, k, [code |-> 200, serverId |-> t, at |-> now])
            /\ Acknowledge(k, 200, t, 0)
            /\ dbQueue' = Append(dbQueue, [op |-> "storeMessage", key |-> k, serverId |-> t])
            /\ delivered' = [delivered EXCEPT ![k] = @ \cup {t}]
  <2> DEFINE a == [code |-> 200, serverId |-> t, age |-> 0]
             entry == [code |-> 200, serverId |-> t, at |-> now]
             req == [op |-> "storeMessage", key |-> k, serverId |-> t]
  <2>1. /\ acked' = [acked EXCEPT ![k] = @ \cup {a}] /\ Remember(Memory, k, entry)
        /\ dbQueue' = Append(dbQueue, req)
    BY <1>11 DEF Acknowledge
  <2>2. /\ a \in Ack /\ a.code = 200 /\ a.serverId = t /\ a.age = 0
        /\ entry \in Entry /\ entry.at = now /\ entry.code = 200 /\ entry.serverId = t
        /\ req \in StoreReq /\ req \in Request /\ req.op = "storeMessage" /\ req.key = k
    BY <1>2, <1>7 DEF Ack, Entry, StoreReq, Request
  <2> HIDE DEF a, entry, req
  <2>3. /\ \A j \in Requests : delivered[j] \subseteq delivered'[j]
        /\ t \in delivered'[k]
        /\ \A j \in Requests \ {k} : delivered'[j] = delivered[j]
    BY <1>2, <1>11 DEF IInv, TypeOK
  <2>4. acked' \in [Requests -> SUBSET Ack] /\ NoStaleReplay' /\ AckNamesDelivery'
    <3>1. (setBack \/ a.age <= TTL) /\ (a.code = 200 => a.serverId \in delivered'[k])
      BY <1>7, <2>2, <2>3
    <3>2. acked' = [acked EXCEPT ![k] = @ \cup {a}] /\ a \in Ack
      BY <2>1, <2>2
    <3> QED
      BY <1>2, <1>7, <2>3, <3>1, <3>2, AnswerTrue
  <2>5. /\ Sound(Memory, delivered)' /\ (setBack \/ Aged(Memory, now))' /\ Fits(Memory)'
        /\ \A j \in Requests \ {k} : idempotencyCache'[j] \in {Memory.cache[j], NoEntry}
        /\ delivered' \in [Requests -> SUBSET Ids]
    <3>1. /\ Memory.cache[k] = NoEntry /\ (entry.code = 200 => entry.serverId \in Ids)
          /\ UNCHANGED clock
      BY <1>1, <1>2, <1>4, <1>5, <2>2
    <3>2. delivered' = [delivered EXCEPT
                           ![k] = IF entry.code = 200 THEN @ \cup {entry.serverId} ELSE @]
      BY <1>11, <2>2
    <3>3. Remember(Memory, k, entry) /\ entry \in Entry /\ entry.at = now
      BY <2>1, <2>2
    <3> QED
      BY <1>2, <1>5, <3>1, <3>2, <3>3, Remembered
  <2>6. /\ dbQueue' \in Seq(Request)
        /\ OnceIn(dbQueue', results')
        /\ \A u : Awaits(dbQueue', results', u) <=> Awaits(dbQueue, results', u)
    BY <1>2, <1>3, <2>1, <2>2, PostStore
  <2>7. TokensOnce' /\ InFlightAccounted'
    BY <1>1, <1>3, <1>5, <2>5, <2>6, AccountEnds DEF k
  <2>8. AcceptedIsStored'
    BY <1>1, <2>1, <2>2, <2>3, StoredLater
  <2> QED
    BY <1>1, <1>3, <1>6, <2>4, <2>5, <2>6, <2>7, <2>8, Reassembled
<1> QED
  BY <1>8, <1>9, <1>10, <1>11

LEMMA DatabaseStep ==
    ASSUME IInv, DbStep
    PROVE  IInv'
<1> DEFINE req == Head(dbQueue)
<1>1. /\ dbQueue # <<>> /\ dbQueue' = Tail(dbQueue)
      /\ StoreMessage(req) \/ LoadGroupMembers(req)
      /\ UNCHANGED <<clock, cacheVars, groupVars, membership, nextId, delivered,
                     acked, forgotten, crashes>>
  BY DEF DbStep
<1>2. /\ dbQueue \in Seq(Request) /\ results \in Seq(MembersResult)
      /\ OnceIn(dbQueue, results)
  BY DEF IInv, TypeOK, TokensOnce, Request
<1>3. req \in Request /\ req = dbQueue[1] /\ Len(dbQueue) \in Nat
  BY <1>1, <1>2, HeadTailProperties
<1>4. /\ results' \in Seq(MembersResult)
      /\ \/ req.op = "storeMessage" /\ results' = results
         \/ /\ req.op = "loadGroupMembers"
            /\ \E result \in MembersResult :
                  result.token = req.token /\ results' = Append(results, result)
  <2>1. CASE StoreMessage(req)
    BY <1>2, <2>1 DEF StoreMessage
  <2>2. CASE LoadGroupMembers(req)
    <3>1. PICK found \in {membership, "failed"} :
             results' = Append(results, [token |-> req.token, found |-> found])
      BY <2>2 DEF LoadGroupMembers
    <3>2. req.op = "loadGroupMembers" /\ req.token \in Ids
      BY <1>3, <2>2 DEF LoadGroupMembers, Request, StoreReq, MembersReq
    <3>3. [token |-> req.token, found |-> found] \in MembersResult
      BY <3>2 DEF MembersResult, IInv, TypeOK
    <3> HIDE DEF req
    <3>4. results' \in Seq(MembersResult)
      BY <1>2, <3>1, <3>3, AppendProperties
    <3> QED
      BY <3>1, <3>2, <3>3, <3>4
  <2> QED
    BY <1>1, <2>1, <2>2
<1>5. /\ dbQueue' \in Seq(Request)
      /\ OnceIn(dbQueue', results')
      /\ \A t : Awaits(dbQueue', results', t) <=> Awaits(dbQueue, results, t)
  BY <1>1, <1>2, <1>4, TakeRequest
<1>6. /\ messages' \in [Requests -> 0..MaxServerIds]
      /\ \A j \in Requests : messages[j] # 0 => messages'[j] # 0
      /\ req.op = "storeMessage" => messages'[req.key] # 0
  <2>1. CASE StoreMessage(req)
    <3>1. req.op = "storeMessage" /\ req.key \in Requests /\ req.serverId \in Ids
      BY <1>3, <2>1 DEF StoreMessage, Request, StoreReq, MembersReq
    <3>2. messages' = [messages EXCEPT ![req.key] = IF @ = 0 THEN req.serverId ELSE @]
      BY <2>1 DEF StoreMessage
    <3>3. req.serverId \in 0..MaxServerIds /\ req.serverId # 0
      BY <3>1, DeliveryAssumption DEF Ids
    <3> HIDE DEF req
    <3> QED
      BY <3>1, <3>2, <3>3 DEF IInv, TypeOK
  <2>2. CASE LoadGroupMembers(req)
    BY <2>2 DEF LoadGroupMembers, IInv, TypeOK
  <2> QED
    BY <1>1, <2>1, <2>2
<1> HIDE DEF req
<1>7. AcceptedIsStored'
  <2> SUFFICES ASSUME NEW k \in Requests, delivered'[k] # {},
                      messages'[k] = 0, ~(crashes' > 0)
               PROVE  \E i \in 1..Len(dbQueue') :
                         dbQueue'[i].op = "storeMessage" /\ dbQueue'[i].key = k
    BY DEF AcceptedIsStored
  <2>1. PICK i \in 1..Len(dbQueue) : dbQueue[i].op = "storeMessage" /\ dbQueue[i].key = k
    <3>1. delivered[k] # {} /\ ~(crashes > 0)
      BY <1>1
    <3>2. messages[k] = 0
      BY <1>6
    <3> QED
      BY <3>1, <3>2 DEF IInv, AcceptedIsStored
  <2>2. i # 1
    BY <1>3, <1>6, <2>1
  <2>3. /\ Len(dbQueue') = Len(dbQueue) - 1
        /\ \A j \in 1..Len(dbQueue') : dbQueue'[j] = dbQueue[j + 1]
    BY <1>1, <1>2, HeadTailProperties
  <2>4. i - 1 \in 1..Len(dbQueue') /\ (i - 1) + 1 = i
    BY <1>3, <2>1, <2>2, <2>3
  <2> QED
    BY <2>1, <2>3, <2>4
<1>8. TokensOnce' /\ InFlightAccounted'
  <2>1. \A k \in inFlightGroupMsgIds : idempotencyCache'[k] \in {idempotencyCache[k], NoEntry}
    BY <1>1 DEF cacheVars
  <2>2. nextId' \in Int /\ nextId <= nextId'
    BY <1>1 DEF IInv, TypeOK
  <2> QED
    BY <1>1, <1>5, <2>1, <2>2, AccountsKept
<1>9. NoStaleReplay' /\ AckNamesDelivery'
  BY <1>1, AcksKept DEF clock
<1>10. Sound(Memory, delivered)' /\ (setBack \/ Aged(Memory, now))' /\ Fits(Memory)'
  <2>1. Memory' = Memory /\ delivered' = delivered /\ now' = now /\ setBack' = setBack
    BY <1>1 DEF Memory, cacheVars, clock
  <2>2. Sound(Memory', delivered') /\ (setBack' \/ Aged(Memory', now')) /\ Fits(Memory')
    BY <2>1 DEF IInv
  <2> QED
    BY <2>2 DEF Fits
<1>11. TypeOK'
  BY <1>1, <1>4, <1>5, <1>6 DEF IInv, TypeOK, clock, cacheVars, groupVars, Request
<1> QED
  BY <1>7, <1>8, <1>9, <1>10, <1>11 DEF IInv

-----------------------------------------------------------------------------
(***************************************************************************)
(* The environment                                                         *)
(***************************************************************************)

\* Only the clock or the membership changes
LEMMA QuietStep ==
    ASSUME IInv,
           UNCHANGED <<cacheVars, groupVars, dbQueue, results, messages, nextId, delivered,
                       acked, forgotten, crashes>>,
           membership' \in MembershipState,
           now' \in 0..MaxTime, setBack' \in BOOLEAN, setBack => setBack',
           setBack' \/ now <= now'
    PROVE  IInv'
<1>1. TypeOK'
  BY DEF IInv, TypeOK, cacheVars, groupVars
<1>2. Sound(Memory, delivered)' /\ (setBack \/ Aged(Memory, now))' /\ Fits(Memory)'
  <2>1. Memory' = Memory /\ delivered' = delivered
    BY DEF Memory, cacheVars
  <2>2. ASSUME Aged(Memory, now), now <= now' PROVE Aged(Memory, now')
    <3>1. now \in Int /\ now' \in Int
      BY DeliveryAssumption DEF IInv, TypeOK
    <3>2. \A k \in Requests : Memory.cache[k] # NoEntry => Memory.cache[k].at \in Int
      BY DEF IInv, Sound, MemoryOK, Entry
    <3> QED
      BY <2>2, <3>1, <3>2 DEF Aged
  <2>3. Sound(Memory', delivered') /\ (setBack' \/ Aged(Memory', now')) /\ Fits(Memory')
    BY <2>1, <2>2 DEF IInv
  <2> QED
    BY <2>3 DEF Fits
<1>3. TokensOnce' /\ InFlightAccounted'
  <2>1. \A k \in inFlightGroupMsgIds : idempotencyCache'[k] \in {idempotencyCache[k], NoEntry}
    BY DEF cacheVars
  <2>2. nextId' \in Int /\ nextId <= nextId'
    BY DEF IInv, TypeOK
  <2>3. /\ OnceIn(dbQueue', results')
        /\ \A t : Awaits(dbQueue', results', t) <=> Awaits(dbQueue, results, t)
    BY DEF IInv, TokensOnce
  <2> QED
    BY <2>1, <2>2, <2>3, AccountsKept
<1>4. NoStaleReplay' /\ AckNamesDelivery'
  BY AcksKept
<1>5. AcceptedIsStored'
  BY StoredKept
<1> QED
  BY <1>1, <1>2, <1>3, <1>4, <1>5 DEF IInv

\* Every answer in the cache is forgotten, and with it goes what was under way
LEMMA CrashStep ==
    ASSUME IInv, ServerCrash
    PROVE  IInv'
<1> USE DEF ServerCrash
<1>1. /\ crashes \in Nat /\ crashes' = crashes + 1 /\ crashes' \in 0..MaxFaults
  BY DeliveryAssumption DEF IInv, TypeOK, MayFail
<1>2. forgotten' \in [Requests -> Nat]
  <2>1. \A k \in Requests : forgotten[k] \in Nat /\ forgotten[k] + 1 \in Nat
    BY DEF IInv, TypeOK
  <2> QED
    BY <2>1
<1>3. idempotencyOrder' = <<>> /\ Len(<<>>) = 0 /\ <<>> \in Seq(Requests)
      /\ <<>> \in Seq(Request) /\ <<>> \in Seq(MembersResult)
  BY EmptySeq
<1>4. TypeOK'
  BY <1>1, <1>2, <1>3 DEF IInv, TypeOK, clock, Request
<1>5. Sound(Memory, delivered)'
  <2>1. MemoryOK(Memory')
    BY <1>2, <1>3 DEF MemoryOK, Memory
  <2>2. Listed(Memory')
    BY <1>3 DEF Listed, Memory, Positions
  <2>3. Answered(Memory', delivered')
    <3> SUFFICES ASSUME NEW k \in Requests
                 PROVE  Cardinality(delivered[k]) <= forgotten'[k]
      <4>1. \A k \in Requests : forgotten'[k] \in Nat /\ idempotencyCache'[k] = NoEntry
        BY <1>2
      <4> QED
        BY <4>1 DEF Answered, Memory, Answering, NoEntry
    <3>1. /\ Cardinality(delivered[k]) <= forgotten[k] + Answering(idempotencyCache[k])
          /\ forgotten[k] \in Nat
      BY DEF IInv, Sound, Answered, Memory, TypeOK
    <3>2. Cardinality(delivered[k]) \in Nat
      BY FiniteIds DEF IInv, TypeOK
    <3> QED
      BY <3>1, <3>2 DEF Answering, NoEntry
  <2>4. Sound(Memory', delivered')
    BY <2>1, <2>2, <2>3 DEF Sound
  <2> QED
    BY <2>4
<1>6. (setBack \/ Aged(Memory, now))'
  <2>1. Aged(Memory', now')
    BY <1>3 DEF Aged, Memory, Positions
  <2> QED
    BY <2>1
<1>7. Fits(Memory)'
  <2>1. Cached(Memory'.cache) = {}
    BY DEF Cached, Memory
  <2>2. Cardinality(Cached(Memory'.cache)) = 0
    BY <2>1, FS_EmptySet
  <2>3. Fits(Memory')
    BY <2>2, DeliveryAssumption DEF Fits
  <2> QED
    BY <2>3 DEF Fits
<1>8. TokensOnce'
  BY <1>3 DEF TokensOnce, OnceIn, Positions
<1>9. InFlightAccounted'
  BY <1>3 DEF InFlightAccounted, WaitingTokens
<1>10. NoStaleReplay' /\ AckNamesDelivery'
  BY AcksKept DEF clock
<1>11. AcceptedIsStored'
  BY <1>1 DEF AcceptedIsStored
<1> QED
  BY <1>4, <1>5, <1>6, <1>7, <1>8, <1>9, <1>10, <1>11 DEF IInv

LEMMA InitIInv == Init => IInv
<1> SUFFICES ASSUME Init PROVE IInv
  OBVIOUS
<1> USE DEF Init
<1>1. Len(<<>>) = 0 /\ <<>> \in Seq(Requests)
      /\ <<>> \in Seq(Request) /\ <<>> \in Seq(MembersResult)
  BY EmptySeq
<1>2. TypeOK
  <2>1. /\ now \in 0..MaxTime /\ nextId \in 1..(MaxServerIds + 1) /\ crashes \in 0..MaxFaults
        /\ 0 \in 0..MaxServerIds
    BY DeliveryAssumption
  <2>2. messages \in [Requests -> 0..MaxServerIds] /\ forgotten \in [Requests -> Nat]
    BY <2>1
  <2>3. DOMAIN pendingGroupMessages = {}
    OBVIOUS
  <2>4. dbQueue \in Seq(StoreReq \cup MembersReq) /\ results \in Seq(MembersResult)
        /\ idempotencyOrder \in Seq(Requests)
    BY <1>1 DEF Request
  <2>5. /\ idempotencyCache \in [Requests -> Entry \cup {NoEntry}]
        /\ delivered \in [Requests -> SUBSET Ids] /\ acked \in [Requests -> SUBSET Ack]
    OBVIOUS
  <2> QED
    BY <2>1, <2>2, <2>3, <2>4, <2>5 DEF TypeOK
<1>3. Sound(Memory, delivered)
  <2>1. MemoryOK(Memory)
    BY <1>1 DEF MemoryOK, Memory
  <2>2. Listed(Memory)
    BY <1>1 DEF Listed, Memory, Positions
  <2>3. Answered(Memory, delivered)
    BY FS_EmptySet DEF Answered, Memory, Answering, NoEntry
  <2> QED
    BY <2>1, <2>2, <2>3 DEF Sound
<1>4. Aged(Memory, now)
  BY <1>1 DEF Aged, Memory, Positions
<1>5. Fits(Memory)
  <2>1. Cached(Memory.cache) = {}
    BY DEF Cached, Memory
  <2>2. Cardinality(Cached(Memory.cache)) = 0
    BY <2>1, FS_EmptySet
  <2> QED
    BY <2>2, DeliveryAssumption DEF Fits
<1>6. TokensOnce
  BY <1>1 DEF TokensOnce, OnceIn, Positions
<1>7. InFlightAccounted
  BY <1>1 DEF InFlightAccounted, WaitingTokens
<1>8. NoStaleReplay /\ AckNamesDelivery /\ AcceptedIsStored
  BY DEF NoStaleReplay, AckNamesDelivery, AcceptedIsStored
<1> QED
  BY <1>2, <1>3, <1>4, <1>5, <1>6, <1>7, <1>8 DEF IInv

LEMMA NextIInv == IInv /\ [Next]_vars => IInv'
<1> SUFFICES ASSUME IInv, [Next]_vars PROVE IInv'
  OBVIOUS
<1>1. CASE \E k \in Requests : ProcessSendMessage(k)
  BY <1>1, ProcessStep
<1>2. CASE OnGroupMembersForMessage
  BY <1>2, MembersStep
<1>3. CASE DbStep
  BY <1>3, DatabaseStep
<1>4. now \in Nat /\ now \in 0..MaxTime /\ setBack \in BOOLEAN /\ membership \in MembershipState
  BY DEF IInv, TypeOK
<1>5. CASE Tick
  BY <1>4, <1>5, QuietStep, DeliveryAssumption DEF Tick
<1>6. CASE ClockSetBack
  BY <1>4, <1>6, QuietStep, DeliveryAssumption DEF ClockSetBack
<1>7. CASE MembershipChanges
  BY <1>4, <1>7, QuietStep DEF MembershipChanges, clock
<1>8. CASE ServerCrash
  BY <1>8, CrashStep
<1>9. CASE UNCHANGED vars
  BY <1>4, <1>9, QuietStep DEF vars, clock
<1> QED
  BY <1>1, <1>2, <1>3, <1>5, <1>6, <1>7, <1>8, <1>9 DEF Next

LEMMA Invariance == Spec => []IInv
  BY InitIInv, NextIInv, PTL DEF Spec

-----------------------------------------------------------------------------

\* Every variable keeps its type; in particular each token's request is a group message
\* (m_pendingGroupMessages).
THEOREM TypeCorrect == Spec => []TypeOK
<1>1. IInv => TypeOK
  BY DEF IInv
<1> QED
  BY <1>1, Invariance, PTL

\* A request is fanned out once per life of its cache entry, for any lifetime and capacity
\* of the cache and any repetitions (processSendMessage, onGroupMembersForMessage).
THEOREM FannedOutOnce == Spec => []AtMostOncePerCacheLife
<1>1. IInv => AtMostOncePerCacheLife
  BY DEF IInv, Sound, Answered, Answering, Memory, AtMostOncePerCacheLife
<1> QED
  BY <1>1, Invariance, PTL

\* The order list is that of the cached keys and of their ages, and the cache within its
\* capacity, after any sequence of insertions and prunes (pruneIdempotencyCache).
THEOREM OrderRight == Spec => []OrderTracksCache
<1>1. ASSUME IInv PROVE OrderTracksCache
  <2>1. /\ Listed(Memory) /\ (setBack \/ Aged(Memory, now)) /\ Fits(Memory)
        /\ idempotencyOrder \in Seq(Requests)
        /\ Memory.order = idempotencyOrder /\ Memory.cache = idempotencyCache
    BY <1>1 DEF IInv, Sound, TypeOK, Memory
  <2>2. \A i \in 1..Len(idempotencyOrder) : idempotencyOrder[i] \in Requests
    BY <2>1
  <2>3. {idempotencyOrder[i] : i \in 1..Len(idempotencyOrder)} = Cached(idempotencyCache)
    BY <2>1, <2>2 DEF Listed, Cached, Positions
  <2>4. \A i, j \in 1..Len(idempotencyOrder) : i < j =>
           /\ idempotencyOrder[i] # idempotencyOrder[j]
           /\ \/ setBack
              \/ idempotencyCache[idempotencyOrder[i]].at
                    <= idempotencyCache[idempotencyOrder[j]].at
    BY <2>1 DEF Listed, Aged, Positions
  <2> QED
    BY <2>1, <2>3, <2>4 DEF OrderTracksCache, Fits
<1> QED
  BY <1>1, Invariance, PTL

\* No answer older than the lifetime is repeated while the clock has not been set back
\* (pruneIdempotencyCache runs first in processSendMessage).
THEOREM AnswersFresh == Spec => []NoStaleReplay
<1>1. IInv => NoStaleReplay
  BY DEF IInv
<1> QED
  BY <1>1, Invariance, PTL

\* A 200 names a message that was fanned out for its request (emitAck).
THEOREM AcksHonest == Spec => []AckNamesDelivery
<1>1. IInv => AckNamesDelivery
  BY DEF IInv
<1> QED
  BY <1>1, Invariance, PTL

\* A group request is in flight exactly while one token waits for its members
\* (m_inFlightGroupMsgIds, m_pendingGroupMessages).
THEOREM InFlightRight == Spec => []InFlightAccounted
<1>1. IInv => InFlightAccounted
  BY DEF IInv
<1> QED
  BY <1>1, Invariance, PTL

\* What was fanned out is stored or waits to be, unless the server has died
\* (requestStoreMessage).
THEOREM FannedOutStored == Spec => []AcceptedIsStored
<1>1. IInv => AcceptedIsStored
  BY DEF IInv
<1> QED
  BY <1>1, Invariance, PTL
=============================================================================
