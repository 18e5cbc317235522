---------------------------- MODULE InboxProofs ----------------------------
(***************************************************************************)
(* Proofs about Inbox for any finite set of messages, any sessions and any *)
(* limit. The unread counts are compared with sums over the messages table, *)
(* so the first part proves what a sum does when a row is added, taken     *)
(* away or left out: by induction on the sets summed over, which needs no  *)
(* more than the least element of a set of numbers (WFMin).                *)
(***************************************************************************)
EXTENDS Inbox, FiniteSetTheorems, WellFoundedInduction, TLAPS

(***************************************************************************)
(* Induction                                                               *)
(***************************************************************************)

LEMMA LeastNumber ==
    ASSUME NEW T \in SUBSET Nat, T # {}
    PROVE  \E m \in T : \A k \in T : m <= k
<1> DEFINE R == OpToRel(<, Nat)
<1>1. IsWellFoundedOn(R, Nat) BY NatLessThanWellFounded
<1>2. \A x, y \in Nat : x < y => <<x, y>> \in R BY DEF OpToRel
<1> HIDE DEF R
<1>3. PICK m \in T : \A k \in T : ~(<<k, m>> \in R) BY <1>1, WFMin
<1>4. \A k \in T : k \in Nat /\ m \in Nat /\ ~(k < m) BY <1>2, <1>3
<1>5. \A k \in T : m <= k BY <1>4
<1>6. QED BY <1>5

\* Induction on natural numbers, for the set of those that have a property
LEMMA NumberInduction ==
    ASSUME NEW G \in SUBSET Nat, 0 \in G, \A n \in G : n + 1 \in G
    PROVE  \A n \in Nat : n \in G
<1> SUFFICES ASSUME Nat \ G # {} PROVE FALSE
    OBVIOUS
<1>1. PICK m \in Nat \ G : \A k \in Nat \ G : m <= k
    <2>1. Nat \ G \in SUBSET Nat OBVIOUS
    <2>2. QED BY <2>1, LeastNumber
<1>2. m # 0 BY <1>1
<1>3. m - 1 \in Nat /\ ~(m <= m - 1) BY <1>2
<1>4. m - 1 \in G BY <1>1, <1>3
<1>5. (m - 1) + 1 = m OBVIOUS
<1>6. m \in G BY <1>4, <1>5
<1>7. QED BY <1>1, <1>6

\* Induction on the subsets of a finite set
LEMMA SubsetInduction ==
    ASSUME NEW D, IsFiniteSet(D), NEW G \in SUBSET SUBSET D,
           \A s \in SUBSET D : (\A x \in s : s \ {x} \in G) => s \in G
    PROVE  \A s \in SUBSET D : s \in G
<1> DEFINE N == {n \in Nat : \E s \in SUBSET D : s \notin G /\ Cardinality(s) = n}
<1> SUFFICES ASSUME NEW t \in SUBSET D, t \notin G PROVE FALSE
    OBVIOUS
<1>1. \A s \in SUBSET D : IsFiniteSet(s) /\ Cardinality(s) \in Nat
    BY FS_Subset, FS_CardinalityType
<1>2. Cardinality(t) \in N BY <1>1
<1>3. PICK m \in N : \A k \in N : m <= k
    <2>1. N \in SUBSET Nat /\ N # {} BY <1>2
    <2> HIDE DEF N
    <2>2. QED BY <2>1, LeastNumber
<1>4. PICK s \in SUBSET D : s \notin G /\ Cardinality(s) = m BY <1>3
<1>5. ASSUME NEW x \in s PROVE s \ {x} \in G
    <2>1. s \ {x} \in SUBSET D OBVIOUS
    <2>2. Cardinality(s \ {x}) = m - 1
        BY <1>1, <1>4, FS_RemoveElement
    <2>3. Cardinality(s \ {x}) \in Nat BY <1>1, <2>1
    <2>4. Cardinality(s \ {x}) \notin N BY <1>3, <2>2, <2>3
    <2>5. QED BY <2>1, <2>3, <2>4
<1>6. s \in G BY <1>5
<1>7. QED BY <1>4, <1>6

(***************************************************************************)
(* Sums                                                                    *)
(***************************************************************************)

First(s) == CHOOSE x \in s : TRUE

\* The value of a sum over s, from that over s without its first element
Step(f, it, s) == IF s = {} THEN 0 ELSE f[First(s)] + it[s \ {First(s)}]

Iter(f, S) == CHOOSE it : it = [s \in SUBSET S |-> Step(f, it, s)]

Small(S, n) == {s \in SUBSET S : Cardinality(s) <= n}

\* There is a function that sums over the subsets of at most n elements
Summable(f, S, n) ==
    \E g \in [Small(S, n) -> Nat] : \A s \in Small(S, n) : g[s] = Step(f, g, s)

LEMMA SumIsIter ==
    ASSUME NEW f, NEW S
    PROVE  SumFunctionOnSet(f, S) = Iter(f, S)[S]
BY DEF SumFunctionOnSet, FoldFunctionOnSet, MapThenFoldSet, Iter, Step, First

LEMMA FirstIn == \A s : s # {} => First(s) \in s
BY DEF First

LEMMA AllSummable ==
    ASSUME NEW D, NEW f \in [D -> Nat], NEW S \in SUBSET D, IsFiniteSet(S)
    PROVE  \A n \in Nat : Summable(f, S, n)
<1>1. \A s \in SUBSET S : IsFiniteSet(s) /\ Cardinality(s) \in Nat
    BY FS_Subset, FS_CardinalityType
<1>2. Summable(f, S, 0)
    <2>1. \A s \in Small(S, 0) : s = {}
        BY <1>1, FS_EmptySet DEF Small
    <2>2. PICK g : g = [s \in Small(S, 0) |-> 0] OBVIOUS
    <2>3. g \in [Small(S, 0) -> Nat] BY <2>2
    <2>4. \A s \in Small(S, 0) : g[s] = Step(f, g, s) BY <2>1, <2>2 DEF Step
    <2>5. QED BY <2>3, <2>4 DEF Summable
<1>3. ASSUME NEW n \in Nat, Summable(f, S, n) PROVE Summable(f, S, n + 1)
    <2>1. PICK g \in [Small(S, n) -> Nat] : \A s \in Small(S, n) : g[s] = Step(f, g, s)
        BY <1>3 DEF Summable
    <2>2. PICK h : h = [s \in Small(S, n + 1) |-> Step(f, g, s)] OBVIOUS
    <2>3. ASSUME NEW s \in Small(S, n + 1), s # {}
          PROVE  s \ {First(s)} \in Small(S, n) /\ f[First(s)] \in Nat
        <3>1. First(s) \in s /\ s \in SUBSET S BY <2>3, FirstIn DEF Small
        <3>2. Cardinality(s \ {First(s)}) = Cardinality(s) - 1
            BY <1>1, <3>1, FS_RemoveElement
        <3>3. Cardinality(s) <= n + 1 /\ Cardinality(s) \in Nat BY <1>1 DEF Small
        <3>4. Cardinality(s \ {First(s)}) <= n BY <3>2, <3>3
        <3>5. QED BY <3>1, <3>4 DEF Small
    <2>4. h \in [Small(S, n + 1) -> Nat]
        <3>1. \A s \in Small(S, n + 1) : Step(f, g, s) \in Nat BY <2>3 DEF Step
        <3>2. QED BY <2>2, <3>1
    <2>5. \A s \in Small(S, n) : s \in Small(S, n + 1) BY <1>1 DEF Small
    <2>6. \A s \in Small(S, n) : h[s] = g[s] BY <2>1, <2>2, <2>5
    <2>7. ASSUME NEW s \in Small(S, n + 1) PROVE h[s] = Step(f, h, s)
        <3>1. h[s] = Step(f, g, s) BY <2>2
        <3>2. s # {} => h[s \ {First(s)}] = g[s \ {First(s)}] BY <2>3, <2>6
        <3>3. QED BY <3>1, <3>2 DEF Step
    <2>8. QED BY <2>4, <2>7 DEF Summable
<1>4. QED
    <2> DEFINE G == {n \in Nat : Summable(f, S, n)}
    <2>1. G \in SUBSET Nat /\ 0 \in G /\ \A n \in G : n + 1 \in G BY <1>2, <1>3
    <2> HIDE DEF G
    <2>2. \A n \in Nat : n \in G BY <2>1, NumberInduction
    <2>3. QED BY <2>2 DEF G

LEMMA IterDefined ==
    ASSUME NEW D, NEW f \in [D -> Nat], NEW S \in SUBSET D, IsFiniteSet(S)
    PROVE  \A s \in SUBSET S : Iter(f, S)[s] = Step(f, Iter(f, S), s)
<1>1. PICK n \in Nat : n = Cardinality(S) BY FS_CardinalityType
<1>2. \A s \in SUBSET S : Cardinality(s) <= Cardinality(S) BY FS_Subset
<1>3. Small(S, n) = SUBSET S BY <1>1, <1>2 DEF Small
<1>4. Summable(f, S, n) BY <1>1, AllSummable
<1>5. PICK g \in [SUBSET S -> Nat] : \A s \in SUBSET S : g[s] = Step(f, g, s)
    BY <1>3, <1>4 DEF Summable
<1>6. g = [s \in SUBSET S |-> Step(f, g, s)] BY <1>5
<1>7. Iter(f, S) = [s \in SUBSET S |-> Step(f, Iter(f, S), s)] BY <1>6 DEF Iter
<1>8. PICK it : it = Iter(f, S) OBVIOUS
<1>9. it = [s \in SUBSET S |-> Step(f, it, s)] BY <1>7, <1>8
<1>10. \A s \in SUBSET S : it[s] = Step(f, it, s) BY <1>9
<1>11. QED BY <1>8, <1>10

\* Whatever set it was defined for, the iteration finds the same sum
LEMMA SameIter ==
    ASSUME NEW D, NEW f \in [D -> Nat], NEW S \in SUBSET D, IsFiniteSet(S), NEW T \in SUBSET S
    PROVE  \A s \in SUBSET T : Iter(f, S)[s] = Iter(f, T)[s]
<1> DEFINE G == {s \in SUBSET T : Iter(f, S)[s] = Iter(f, T)[s]}
<1>1. IsFiniteSet(T) BY FS_Subset
<1>2. T \in SUBSET D OBVIOUS
<1>3. \A s \in SUBSET S : Iter(f, S)[s] = Step(f, Iter(f, S), s) BY IterDefined
<1>4. \A s \in SUBSET T : Iter(f, T)[s] = Step(f, Iter(f, T), s) BY <1>1, <1>2, IterDefined
<1>5. ASSUME NEW s \in SUBSET T, \A x \in s : s \ {x} \in G PROVE s \in G
    <2>1. Iter(f, S)[s] = Step(f, Iter(f, S), s) /\ Iter(f, T)[s] = Step(f, Iter(f, T), s)
        BY <1>3, <1>4
    <2>2. s # {} => Iter(f, S)[s \ {First(s)}] = Iter(f, T)[s \ {First(s)}]
        BY <1>5, FirstIn
    <2>3. Iter(f, S)[s] = Iter(f, T)[s] BY <2>1, <2>2 DEF Step
    <2>4. QED BY <2>3
<1>6. G \in SUBSET SUBSET T OBVIOUS
<1> HIDE DEF G
<1>7. \A s \in SUBSET T : s \in G BY <1>1, <1>5, <1>6, SubsetInduction
<1>8. QED BY <1>7 DEF G

LEMMA SumByFirst ==
    ASSUME NEW D, NEW f \in [D -> Nat], NEW S \in SUBSET D, IsFiniteSet(S)
    PROVE  SumFunctionOnSet(f, S)
               = IF S = {} THEN 0 ELSE f[First(S)] + SumFunctionOnSet(f, S \ {First(S)})
<1>1. SumFunctionOnSet(f, S) = Step(f, Iter(f, S), S)
    <2>1. Iter(f, S)[S] = Step(f, Iter(f, S), S) BY IterDefined
    <2>2. QED BY <2>1, SumIsIter
<1>2. S # {} => Iter(f, S)[S \ {First(S)}] = SumFunctionOnSet(f, S \ {First(S)})
    <2>1. PICK T : T = S \ {First(S)} OBVIOUS
    <2>2. T \in SUBSET S BY <2>1
    <2>3. Iter(f, S)[T] = Iter(f, T)[T] BY <2>2, SameIter
    <2>4. QED BY <2>1, <2>3, SumIsIter
<1>3. QED BY <1>1, <1>2 DEF Step

LEMMA SumType ==
    ASSUME NEW D, NEW f \in [D -> Nat], NEW S \in SUBSET D, IsFiniteSet(S)
    PROVE  SumFunctionOnSet(f, S) \in Nat
<1> DEFINE G == {s \in SUBSET S : SumFunctionOnSet(f, s) \in Nat}
<1>1. ASSUME NEW s \in SUBSET S, \A x \in s : s \ {x} \in G PROVE s \in G
    <2>1. IsFiniteSet(s) /\ s \in SUBSET D BY FS_Subset
    <2>2. SumFunctionOnSet(f, s)
             = IF s = {} THEN 0 ELSE f[First(s)] + SumFunctionOnSet(f, s \ {First(s)})
        BY <2>1, SumByFirst
    <2>3. s # {} => /\ f[First(s)] \in Nat
                    /\ SumFunctionOnSet(f, s \ {First(s)}) \in Nat
        BY <1>1, FirstIn
    <2>4. SumFunctionOnSet(f, s) \in Nat BY <2>2, <2>3
    <2>5. QED BY <2>4
<1>2. G \in SUBSET SUBSET S OBVIOUS
<1> HIDE DEF G
<1>3. \A s \in SUBSET S : s \in G BY <1>1, <1>2, SubsetInduction
<1>4. QED BY <1>3 DEF G

\* Any element may be taken out of a sum
LEMMA SumWithout ==
    ASSUME NEW D, NEW f \in [D -> Nat], NEW S \in SUBSET D, IsFiniteSet(S)
    PROVE  \A x \in S : SumFunctionOnSet(f, S) = f[x] + SumFunctionOnSet(f, S \ {x})
<1> DEFINE G == {s \in SUBSET S :
                    \A x \in s : SumFunctionOnSet(f, s) = f[x] + SumFunctionOnSet(f, s \ {x})}
<1>1. ASSUME NEW s \in SUBSET S, \A x \in s : s \ {x} \in G, NEW x \in s
      PROVE  SumFunctionOnSet(f, s) = f[x] + SumFunctionOnSet(f, s \ {x})
    <2>1. IsFiniteSet(s) /\ s \in SUBSET D BY FS_Subset
    <2>2. PICK y : y = First(s) OBVIOUS
    <2>3. y \in s BY <2>2, FirstIn
    <2>4. SumFunctionOnSet(f, s) = f[y] + SumFunctionOnSet(f, s \ {y})
        BY <2>1, <2>2, SumByFirst
    <2>5. CASE x = y BY <2>4, <2>5
    <2>6. CASE x # y
        <3>1. SumFunctionOnSet(f, s \ {y}) = f[x] + SumFunctionOnSet(f, (s \ {y}) \ {x})
            BY <1>1, <2>3, <2>6
        <3>2. SumFunctionOnSet(f, s \ {x}) = f[y] + SumFunctionOnSet(f, (s \ {x}) \ {y})
            BY <1>1, <2>3, <2>6
        <3>3. (s \ {y}) \ {x} = (s \ {x}) \ {y} OBVIOUS
        <3>4. PICK r : r = (s \ {x}) \ {y} OBVIOUS
        <3>5. r \in SUBSET D /\ IsFiniteSet(r) BY <2>1, <3>4, FS_Subset
        <3>6. SumFunctionOnSet(f, r) \in Nat BY <3>5, SumType
        <3>7. f[x] \in Nat /\ f[y] \in Nat BY <2>1, <2>3
        <3>8. QED BY <2>4, <3>1, <3>2, <3>3, <3>4, <3>6, <3>7
    <2>7. QED BY <2>5, <2>6
<1>2. G \in SUBSET SUBSET S OBVIOUS
<1>3. \A s \in SUBSET S : (\A x \in s : s \ {x} \in G) => s \in G BY <1>1
<1> HIDE DEF G
<1>4. \A s \in SUBSET S : s \in G BY <1>2, <1>3, SubsetInduction
<1>5. QED BY <1>4 DEF G

\* A sum of less, over less, is not more
LEMMA SumMonotonic ==
    ASSUME NEW D, NEW f \in [D -> Nat], NEW g \in [D -> Nat],
           NEW T \in SUBSET D, IsFiniteSet(T), NEW S \in SUBSET T, \A x \in S : f[x] <= g[x]
    PROVE  SumFunctionOnSet(f, S) <= SumFunctionOnSet(g, T)
<1> DEFINE F(s) == SumFunctionOnSet(f, s)
           H(s) == SumFunctionOnSet(g, s)
           G == {t \in SUBSET T : F(S \cap t) <= H(t)}
<1>1. \A t \in SUBSET T : /\ IsFiniteSet(t) /\ F(t) \in Nat /\ H(t) \in Nat
                         /\ IsFiniteSet(S \cap t) /\ F(S \cap t) \in Nat
    <2>1. \A t \in SUBSET T : IsFiniteSet(t) /\ t \in SUBSET D BY FS_Subset
    <2>2. \A t \in SUBSET T : F(t) \in Nat /\ H(t) \in Nat BY <2>1, SumType
    <2>3. QED BY <2>1, <2>2
<1>2. ASSUME NEW t \in SUBSET T, \A x \in t : t \ {x} \in G PROVE t \in G
    <2>1. CASE t = {}
        <3>1. F({}) = 0 /\ H({}) = 0
            <4>1. {} \in SUBSET D /\ IsFiniteSet({}) BY FS_EmptySet
            <4>2. QED BY <4>1, SumByFirst
        <3>2. S \cap t = {} BY <2>1
        <3>3. QED BY <2>1, <3>1, <3>2
    <2>2. CASE t # {}
        <3>1. PICK x \in t : TRUE BY <2>2
        <3>2. H(t) = g[x] + H(t \ {x})
            <4>1. t \in SUBSET D /\ IsFiniteSet(t) BY <1>1
            <4>2. QED BY <3>1, <4>1, SumWithout
        <3>3. F(S \cap (t \ {x})) <= H(t \ {x}) BY <1>2, <3>1
        <3>4. /\ F(S \cap (t \ {x})) \in Nat /\ H(t \ {x}) \in Nat
              /\ g[x] \in Nat /\ f[x] \in Nat
            BY <1>1, <3>1
        <3>5. F(S \cap t) <= H(t)
            <4>1. CASE x \in S
                <5>1. PICK r : r = S \cap t OBVIOUS
                <5>2. r \in SUBSET D /\ IsFiniteSet(r) /\ x \in r BY <1>1, <3>1, <4>1, <5>1
                <5>3. F(r) = f[x] + F(r \ {x}) BY <5>2, SumWithout
                <5>4. r \ {x} = S \cap (t \ {x}) BY <5>1
                <5>5. f[x] <= g[x] BY <4>1
                <5> HIDE DEF F, H, G
                <5>6. QED BY <3>2, <3>3, <3>4, <5>1, <5>3, <5>4, <5>5
            <4>2. CASE x \notin S
                <5>1. S \cap t = S \cap (t \ {x}) BY <4>2
                <5> HIDE DEF F, H, G
                <5>2. QED BY <3>2, <3>3, <3>4, <5>1
            <4>3. QED BY <4>1, <4>2
        <3>6. QED BY <3>5
    <2>3. QED BY <2>1, <2>2
<1>3. G \in SUBSET SUBSET T OBVIOUS
<1>4. T \in G
    <2> HIDE DEF G
    <2>1. \A t \in SUBSET T : t \in G BY <1>2, <1>3, SubsetInduction
    <2>2. QED BY <2>1
<1>5. S \cap T = S OBVIOUS
<1>6. F(S \cap T) <= H(T) BY <1>4
<1>7. QED BY <1>5, <1>6

-----------------------------------------------------------------------------
(***************************************************************************)
(* The inductive invariant                                                 *)
(***************************************************************************)

\* The open session has no unread messages and is in the table, logged in or not, unless
\* its last save failed
CurrentIsRead ==
    current \in Sessions \ unsaved => current \in DOMAIN sessions /\ sessions[current] = 0

\* A new group waits for its timer only while it has its session
OpeningIsStored == opening = NoSession \/ opening \in DOMAIN sessions

\* What was not shown is counted by a session: rows without a session have been shown
UnseenHasSession ==
    \A m \in Messages \ displayed : SessionOf[m] \in DOMAIN sessions \/ rows[m] = 0

\* What is still to be delivered has come already only after a fault
RowsWithinFaults ==
    \A m \in Incoming : rows[m] <= (IF m \in toDeliver THEN faults ELSE 1 + faults)

\* A list that is shown has every session of the table
ListRight == loggedIn => ListMirrorsTable /\ DOMAIN sessions \subseteq DOMAIN listed

IInv ==
    /\ TypeOK
    /\ DeliveredIsStored
    /\ RowsWithinFaults
    /\ CurrentIsRead
    /\ OpeningIsStored
    /\ UnseenHasSession
    /\ ListRight
    /\ ChatMirrorsTable
    /\ ReadWasShown

-----------------------------------------------------------------------------
(***************************************************************************)
(* The operators on the tables                                             *)
(***************************************************************************)

Counts == [Messages -> Nat]

Table(t) == DOMAIN t \subseteq Sessions /\ t \in [DOMAIN t -> Nat]

\* The unread count of a session, none if it is not there
CountOf(table, s) == IF s \in DOMAIN table THEN table[s] ELSE 0

Unseen(table, seen, s) ==
    SumFunctionOnSet(table, {m \in Of(s) \ seen : Before(table, m) < Limit})

LEMMA MessagesFinite == \A S \in SUBSET Messages : IsFiniteSet(S)
BY InboxAssumption, FS_Subset

LEMMA RowsWithout ==
    ASSUME NEW t \in Counts, NEW A \in SUBSET Messages, NEW m \in A
    PROVE  SumFunctionOnSet(t, A) = t[m] + SumFunctionOnSet(t, A \ {m})
<1>1. IsFiniteSet(A) BY MessagesFinite
<1>2. t \in [Messages -> Nat] BY DEF Counts
<1>3. \A x \in A : SumFunctionOnSet(t, A) = t[x] + SumFunctionOnSet(t, A \ {x})
    BY <1>1, <1>2, SumWithout
<1>4. QED BY <1>3

LEMMA BeforeType ==
    ASSUME NEW t \in Counts, NEW m \in Messages
    PROVE  Before(t, m) \in Nat
<1>1. PICK S : S = {n \in Of(SessionOf[m]) : n < m} OBVIOUS
<1>2. S \in SUBSET Messages BY <1>1 DEF Of
<1>3. IsFiniteSet(S) BY <1>2, MessagesFinite
<1>4. QED BY <1>1, <1>2, <1>3, SumType DEF Before, Counts

LEMMA BeforeGrows ==
    ASSUME NEW t \in Counts, NEW u \in Counts, NEW m \in Messages,
           \A n \in Of(SessionOf[m]) : t[n] <= u[n]
    PROVE  Before(t, m) <= Before(u, m)
<1>1. PICK S : S = {n \in Of(SessionOf[m]) : n < m} OBVIOUS
<1>2. S \in SUBSET Messages /\ \A n \in S : t[n] <= u[n] BY <1>1 DEF Of
<1>3. IsFiniteSet(S) BY <1>2, MessagesFinite
<1>4. QED BY <1>1, <1>2, <1>3, SumMonotonic DEF Before, Counts

LEMMA BeforeSame ==
    ASSUME NEW t \in Counts, NEW u \in Counts, NEW m \in Messages,
           \A n \in Of(SessionOf[m]) : t[n] = u[n]
    PROVE  Before(t, m) = Before(u, m)
<1>1. \A n \in Of(SessionOf[m]) : t[n] <= u[n] /\ u[n] <= t[n] BY DEF Of, Counts
<1>2. Before(t, m) <= Before(u, m) /\ Before(u, m) <= Before(t, m) BY <1>1, BeforeGrows
<1>3. Before(t, m) \in Nat /\ Before(u, m) \in Nat BY BeforeType
<1>4. QED BY <1>2, <1>3

LEMMA MinOfTwo ==
    ASSUME NEW a \in Int, NEW b \in Int
    PROVE  Min({a, b}) = IF a <= b THEN a ELSE b
<1>1. PICK c : c = IF a <= b THEN a ELSE b OBVIOUS
<1>2. c \in {a, b} /\ \A y \in {a, b} : c <= y BY <1>1
<1>3. \A x \in {a, b} : (\A y \in {a, b} : x <= y) => x = c BY <1>1
<1>4. QED BY <1>1, <1>2, <1>3 DEF Min

LEMMA FetchIs ==
    ASSUME NEW t \in Counts, NEW s, NEW m \in Messages
    PROVE  Fetch(t, s)[m] = IF SessionOf[m] # s \/ Before(t, m) >= Limit THEN 0
                            ELSE IF t[m] <= Limit - Before(t, m) THEN t[m]
                            ELSE Limit - Before(t, m)
<1> USE InboxAssumption
<1>1. PICK b \in Nat : b = Before(t, m) BY BeforeType
<1>2. t[m] \in Nat /\ Limit \in Nat BY DEF Counts
<1>3. PICK c : c = Min({Limit, b}) OBVIOUS
<1>4. c = IF Limit <= b THEN Limit ELSE b BY <1>2, <1>3, MinOfTwo
<1>5. t[m] \in Int /\ Limit - c \in Int BY <1>2, <1>4
<1>6. Min({t[m], Limit - c}) = IF t[m] <= Limit - c THEN t[m] ELSE Limit - c
    BY <1>5, MinOfTwo
<1>7. Fetch(t, s)[m] = IF SessionOf[m] = s THEN Min({t[m], Limit - c}) ELSE 0
    BY <1>1, <1>3 DEF Fetch
<1>8. QED BY <1>1, <1>2, <1>4, <1>6, <1>7

LEMMA FetchFacts ==
    ASSUME NEW t \in Counts, NEW s
    PROVE  /\ Fetch(t, s) \in Counts
           /\ \A m \in Messages :
                 /\ Fetch(t, s)[m] <= t[m]
                 /\ SessionOf[m] # s => Fetch(t, s)[m] = 0
                 /\ SessionOf[m] = s /\ Before(t, m) < Limit /\ ~(Fetch(t, s)[m] > 0)
                       => t[m] = 0
<1> USE InboxAssumption
<1>1. ASSUME NEW m \in Messages
      PROVE  /\ Fetch(t, s)[m] \in Nat
             /\ Fetch(t, s)[m] <= t[m]
             /\ SessionOf[m] # s => Fetch(t, s)[m] = 0
             /\ SessionOf[m] = s /\ Before(t, m) < Limit /\ ~(Fetch(t, s)[m] > 0) => t[m] = 0
    <2>1. PICK b \in Nat : b = Before(t, m) BY BeforeType
    <2>2. PICK f : f = Fetch(t, s)[m] OBVIOUS
    <2>3. t[m] \in Nat /\ Limit \in Nat BY DEF Counts
    <2>4. f = IF SessionOf[m] # s \/ b >= Limit THEN 0
              ELSE IF t[m] <= Limit - b THEN t[m] ELSE Limit - b
        BY <2>1, <2>2, FetchIs
    <2>5. /\ f \in Nat /\ f <= t[m]
          /\ SessionOf[m] # s => f = 0
          /\ SessionOf[m] = s /\ b < Limit /\ ~(f > 0) => t[m] = 0
        BY <2>3, <2>4
    <2>6. QED BY <2>1, <2>2, <2>5
<1>2. Fetch(t, s) \in Counts
    <2>1. PICK f : f = Fetch(t, s) OBVIOUS
    <2>2. f = [m \in Messages |-> f[m]] BY <2>1 DEF Fetch
    <2>3. \A m \in Messages : f[m] \in Nat BY <1>1, <2>1
    <2>4. f \in Counts BY <2>2, <2>3 DEF Counts
    <2>5. QED BY <2>1, <2>4
<1>3. QED BY <1>1, <1>2

\* With more rows a chat loads no more of the other messages
LEMMA FetchGrows ==
    ASSUME NEW t \in Counts, NEW u \in Counts, NEW s, NEW m \in Messages,
           \A n \in Of(s) : t[n] <= u[n]
    PROVE  /\ u[m] = t[m] => Fetch(u, s)[m] <= Fetch(t, s)[m]
           /\ u[m] = t[m] + 1 => Fetch(u, s)[m] <= Fetch(t, s)[m] + 1
<1> USE InboxAssumption
<1>1. CASE SessionOf[m] # s BY <1>1, FetchFacts
<1>2. CASE SessionOf[m] = s
    <2>1. PICK b \in Nat : b = Before(t, m) BY BeforeType
    <2>2. PICK c \in Nat : c = Before(u, m) BY BeforeType
    <2>3. b <= c BY <1>2, <2>1, <2>2, BeforeGrows
    <2>4. t[m] \in Nat /\ u[m] \in Nat /\ Limit \in Nat BY DEF Counts
    <2>5. Fetch(t, s)[m] = IF b >= Limit THEN 0
                           ELSE IF t[m] <= Limit - b THEN t[m] ELSE Limit - b
        BY <1>2, <2>1, FetchIs
    <2>6. Fetch(u, s)[m] = IF c >= Limit THEN 0
                           ELSE IF u[m] <= Limit - c THEN u[m] ELSE Limit - c
        BY <1>2, <2>2, FetchIs
    <2>7. QED BY <2>3, <2>4, <2>5, <2>6
<1>3. QED BY <1>1, <1>2

LEMMA FetchSame ==
    ASSUME NEW t \in Counts, NEW u \in Counts, NEW s, \A n \in Of(s) : t[n] = u[n]
    PROVE  \A m \in Messages : Fetch(u, s)[m] = Fetch(t, s)[m]
<1> SUFFICES ASSUME NEW m \in Messages PROVE Fetch(u, s)[m] = Fetch(t, s)[m]
    OBVIOUS
<1>1. CASE SessionOf[m] # s BY <1>1, FetchIs
<1>2. CASE SessionOf[m] = s
    <2>1. Before(t, m) = Before(u, m) BY <1>2, BeforeSame
    <2>2. t[m] = u[m] BY <1>2 DEF Of
    <2>3. QED BY <2>1, <2>2, FetchIs
<1>3. QED BY <1>1, <1>2

LEMMA WithFacts ==
    ASSUME NEW t, Table(t), NEW S \in SUBSET Sessions
    PROVE  /\ Table(With(t, S)) /\ DOMAIN With(t, S) = DOMAIN t \cup S
           /\ \A x \in DOMAIN t \cup S : With(t, S)[x] = CountOf(t, x)
BY DEF Table, With, CountOf

LEMMA MarkReadFacts ==
    ASSUME NEW t, Table(t), NEW s
    PROVE  /\ Table(MarkRead(t, s)) /\ DOMAIN MarkRead(t, s) = DOMAIN t
           /\ \A x \in DOMAIN t : MarkRead(t, s)[x] = IF x = s THEN 0 ELSE t[x]
BY DEF Table, MarkRead

LEMMA WithoutFacts ==
    ASSUME NEW t, Table(t), NEW S
    PROVE  /\ Table(Without(t, S)) /\ DOMAIN Without(t, S) = DOMAIN t \ S
           /\ \A x \in DOMAIN t \ S : Without(t, S)[x] = t[x]
BY DEF Table, Without

LEMMA CountType == \A t : Table(t) => \A s : CountOf(t, s) \in Nat
BY DEF Table, CountOf

LEMMA CountUnreadFacts ==
    ASSUME NEW t, Table(t), NEW s \in Sessions
    PROVE  /\ Table(CountUnread(t, s)) /\ DOMAIN CountUnread(t, s) = DOMAIN t \cup {s}
           /\ CountUnread(t, s)[s] = CountOf(t, s) + 1
           /\ \A x \in DOMAIN t : x # s => CountUnread(t, s)[x] = t[x]
<1>1. PICK w : w = With(t, {s}) OBVIOUS
<1>2. /\ Table(w) /\ DOMAIN w = DOMAIN t \cup {s}
      /\ \A x \in DOMAIN t \cup {s} : w[x] = CountOf(t, x)
      /\ CountOf(t, s) \in Nat
    <2>1. PICK S \in SUBSET Sessions : S = {s} OBVIOUS
    <2>2. QED BY <1>1, <2>1, WithFacts, CountType
<1>3. CountUnread(t, s) = [w EXCEPT ![s] = @ + 1] BY <1>1 DEF CountUnread
<1>4. w[s] + 1 \in Nat /\ s \in DOMAIN w BY <1>2
<1>5. QED BY <1>2, <1>3, <1>4 DEF Table, CountOf

(***************************************************************************)
(* The messages of a session that were not shown                           *)
(***************************************************************************)

\* Messages shown, and rows added that are shown, leave fewer unseen
LEMMA UnseenFalls ==
    ASSUME NEW t \in Counts, NEW u \in Counts, NEW s, NEW seen, NEW now, seen \subseteq now,
           \A m \in Of(s) : t[m] <= u[m], \A m \in Of(s) \ now : u[m] = t[m]
    PROVE  Unseen(u, now, s) <= Unseen(t, seen, s)
<1>1. PICK A : A = {m \in Of(s) \ now : Before(u, m) < Limit} OBVIOUS
<1>2. PICK B : B = {m \in Of(s) \ seen : Before(t, m) < Limit} OBVIOUS
<1>3. ASSUME NEW m \in A PROVE m \in B /\ u[m] <= t[m]
    <2>1. m \in Messages /\ SessionOf[m] = s /\ m \notin seen /\ m \notin now
        BY <1>1 DEF Of
    <2>2. Before(t, m) <= Before(u, m) BY <2>1, BeforeGrows
    <2>3. Before(t, m) \in Nat /\ Before(u, m) \in Nat BY <2>1, BeforeType
    <2>4. Before(t, m) < Limit BY <1>1, <2>2, <2>3, InboxAssumption
    <2>5. u[m] = t[m] /\ t[m] \in Nat BY <1>1, <2>1 DEF Counts
    <2>6. QED BY <1>1, <1>2, <2>1, <2>4, <2>5
<1>4. B \in SUBSET Messages BY <1>2 DEF Of
<1>5. IsFiniteSet(B) BY <1>4, MessagesFinite
<1>6. A \in SUBSET B BY <1>3
<1>7. SumFunctionOnSet(u, A) <= SumFunctionOnSet(t, B)
    BY <1>3, <1>4, <1>5, <1>6, SumMonotonic DEF Counts
<1>8. QED BY <1>1, <1>2, <1>7 DEF Unseen

LEMMA UnseenType ==
    ASSUME NEW t \in Counts, NEW seen, NEW s
    PROVE  Unseen(t, seen, s) \in Nat
<1>1. PICK A : A = {m \in Of(s) \ seen : Before(t, m) < Limit} OBVIOUS
<1>2. A \in SUBSET Messages BY <1>1 DEF Of
<1>3. IsFiniteSet(A) BY <1>2, MessagesFinite
<1>4. QED BY <1>1, <1>2, <1>3, SumType DEF Unseen, Counts

LEMMA UnseenNone ==
    ASSUME NEW t \in Counts, NEW seen, NEW s,
           \A m \in Of(s) \ seen : Before(t, m) < Limit => t[m] = 0
    PROVE  Unseen(t, seen, s) = 0
<1>1. PICK A : A = {m \in Of(s) \ seen : Before(t, m) < Limit} OBVIOUS
<1>2. A \in SUBSET Messages /\ \A m \in A : t[m] = 0 BY <1>1 DEF Of
<1>3. IsFiniteSet(A) BY <1>2, MessagesFinite
<1>4. \A a \in SUBSET A : SumFunctionOnSet(t, a) = 0
    <2> DEFINE G == {a \in SUBSET A : SumFunctionOnSet(t, a) = 0}
    <2>1. ASSUME NEW a \in SUBSET A, \A x \in a : a \ {x} \in G PROVE a \in G
        <3>1. IsFiniteSet(a) /\ a \in SUBSET Messages BY <1>2, <1>3, FS_Subset
        <3>2. SumFunctionOnSet(t, a)
                 = IF a = {} THEN 0 ELSE t[First(a)] + SumFunctionOnSet(t, a \ {First(a)})
            BY <3>1, SumByFirst DEF Counts
        <3>3. a # {} => t[First(a)] = 0 /\ SumFunctionOnSet(t, a \ {First(a)}) = 0
            BY <1>2, <2>1, FirstIn
        <3>4. SumFunctionOnSet(t, a) = 0 BY <3>2, <3>3
        <3>5. QED BY <3>4
    <2>2. G \in SUBSET SUBSET A OBVIOUS
    <2> HIDE DEF G
    <2>3. \A a \in SUBSET A : a \in G BY <1>3, <2>1, <2>2, SubsetInduction
    <2>4. QED BY <2>3 DEF G
<1>5. QED BY <1>1, <1>4 DEF Unseen

\* A row more is at most one unseen message more
LEMMA UnseenByOne ==
    ASSUME NEW t \in Counts, NEW u \in Counts, NEW seen, NEW k \in Messages,
           u = [t EXCEPT ![k] = @ + 1]
    PROVE  Unseen(u, seen, SessionOf[k]) <= Unseen(t, seen, SessionOf[k]) + 1
<1>1. PICK s : s = SessionOf[k] OBVIOUS
<1>2. PICK A : A = {m \in Of(s) \ seen : Before(u, m) < Limit} OBVIOUS
<1>3. PICK B : B = {m \in Of(s) \ seen : Before(t, m) < Limit} OBVIOUS
<1>4. /\ \A m \in Messages : t[m] \in Nat /\ u[m] \in Nat /\ t[m] <= u[m]
      /\ \A m \in Messages : m # k => u[m] = t[m]
      /\ u[k] = t[k] + 1
    BY DEF Counts
<1>5. ASSUME NEW m \in A PROVE m \in B
    <2>1. m \in Messages /\ SessionOf[m] = s BY <1>2 DEF Of
    <2>2. Before(t, m) <= Before(u, m) BY <1>4, <2>1, BeforeGrows DEF Of
    <2>3. Before(t, m) \in Nat /\ Before(u, m) \in Nat BY <2>1, BeforeType
    <2>4. Before(t, m) < Limit BY <1>2, <2>2, <2>3, InboxAssumption
    <2>5. QED BY <1>2, <1>3, <2>4
<1>6. A \in SUBSET B /\ B \in SUBSET Messages BY <1>3, <1>5 DEF Of
<1>7. IsFiniteSet(A) /\ IsFiniteSet(B) /\ A \in SUBSET Messages BY <1>6, MessagesFinite
<1>8. SumFunctionOnSet(u, A) \in Nat /\ SumFunctionOnSet(t, B) \in Nat
    BY <1>6, <1>7, SumType DEF Counts
<1>9. SumFunctionOnSet(u, A) <= SumFunctionOnSet(t, B) + 1
    <2>1. CASE k \notin A
        <3>1. \A m \in A : u[m] <= t[m] BY <1>4, <1>7, <2>1
        <3>2. SumFunctionOnSet(u, A) <= SumFunctionOnSet(t, B)
            BY <1>6, <1>7, <3>1, SumMonotonic DEF Counts
        <3>3. QED BY <1>8, <3>2
    <2>2. CASE k \in A
        <3>1. PICK a : a = A \ {k} OBVIOUS
        <3>2. PICK b : b = B \ {k} OBVIOUS
        <3>3. SumFunctionOnSet(u, A) = u[k] + SumFunctionOnSet(u, a)
            <4>1. SumFunctionOnSet(u, A) = u[k] + SumFunctionOnSet(u, A \ {k})
                BY ONLY <1>7, <2>2, u \in Counts, RowsWithout
            <4>2. QED BY <3>1, <4>1
        <3>4. SumFunctionOnSet(t, B) = t[k] + SumFunctionOnSet(t, b)
            BY <1>6, <1>7, <2>2, <3>2, RowsWithout
        <3>5. a \in SUBSET b /\ b \in SUBSET Messages /\ a \in SUBSET Messages
            BY <1>6, <3>1, <3>2
        <3>6. IsFiniteSet(a) /\ IsFiniteSet(b) BY <3>5, MessagesFinite
        <3>7. \A m \in a : u[m] <= t[m] BY <1>4, <3>1, <3>5
        <3>8. SumFunctionOnSet(u, a) <= SumFunctionOnSet(t, b)
            BY <3>5, <3>6, <3>7, SumMonotonic DEF Counts
        <3>9. SumFunctionOnSet(u, a) \in Nat /\ SumFunctionOnSet(t, b) \in Nat
            BY <3>5, <3>6, SumType DEF Counts
        <3>10. QED BY <1>4, <3>3, <3>4, <3>8, <3>9
    <2>3. QED BY <2>1, <2>2
<1>10. QED BY <1>1, <1>2, <1>3, <1>9 DEF Unseen

-----------------------------------------------------------------------------
(***************************************************************************)
(* What the actions have in common                                         *)
(***************************************************************************)

LEMMA Typed ==
    ASSUME IInv
    PROVE  /\ rows \in Counts /\ chat \in Counts /\ Table(sessions) /\ Table(listed)
           /\ displayed \subseteq Messages /\ unsaved \subseteq Sessions
           /\ removed \subseteq Messages /\ notStored \subseteq Incoming
           /\ faults \in 0..MaxFaults /\ faults \in Nat
           /\ current \in Sessions \cup {NoSession} /\ opening \in Groups \cup {NoSession}
BY InboxAssumption DEF IInv, TypeOK, Counts, Table

\* The rows, what was delivered and what was not stored stay
LEMMA DeliveryKept ==
    ASSUME IInv, UNCHANGED <<rows, toDeliver, notStored, removed>>,
           faults' \in Nat, faults <= faults'
    PROVE  DeliveredIsStored' /\ RowsWithinFaults'
<1>1. \A m \in Incoming : rows[m] \in Nat BY Typed DEF Counts, Incoming
<1>2. faults \in Nat BY Typed
<1>3. DeliveredIsStored /\ RowsWithinFaults BY DEF IInv
<1>4. DeliveredIsStored' BY <1>1, <1>2, <1>3 DEF DeliveredIsStored
<1>5. RowsWithinFaults' BY <1>1, <1>2, <1>3 DEF RowsWithinFaults
<1>6. QED BY <1>4, <1>5

\* A session that only loses unseen messages counts no fewer than it did
LEMMA StillCounted ==
    ASSUME IInv, rows' \in Counts, displayed \subseteq displayed', NEW s \in Sessions,
           \A m \in Of(s) : rows[m] <= rows'[m], \A m \in Of(s) \ displayed' : rows'[m] = rows[m]
    PROVE  Unseen(rows', displayed', s) <= CountOf(sessions, s)
<1>1. rows \in Counts /\ Table(sessions) BY Typed
<1>2. Unseen(rows', displayed', s) <= Unseen(rows, displayed, s)
    <2>1. PICK u \in Counts : u = rows' OBVIOUS
    <2>2. PICK now : now = displayed' OBVIOUS
    <2>3. Unseen(u, now, s) <= Unseen(rows, displayed, s)
        BY <1>1, <2>1, <2>2, UnseenFalls
    <2>4. QED BY <2>1, <2>2, <2>3
<1>3. Unseen(rows', displayed', s) \in Nat
    <2>1. PICK u \in Counts : u = rows' OBVIOUS
    <2>2. PICK now : now = displayed' OBVIOUS
    <2>3. Unseen(u, now, s) \in Nat BY UnseenType
    <2>4. QED BY <2>1, <2>2, <2>3
<1>4. Unseen(rows, displayed, s) \in Nat BY <1>1, UnseenType
<1>5. Unseen(rows, displayed, s) <= CountOf(sessions, s)
    <2>1. CASE s \in DOMAIN sessions
        BY <2>1 DEF IInv, ReadWasShown, Unseen, CountOf
    <2>2. CASE s \notin DOMAIN sessions
        <3>1. \A m \in Of(s) \ displayed : rows[m] = 0
            BY <2>2 DEF IInv, UnseenHasSession, Of
        <3>2. Unseen(rows, displayed, s) = 0 BY <1>1, <3>1, UnseenNone
        <3>3. QED BY <2>2, <3>2 DEF CountOf
    <2>3. QED BY <2>1, <2>2
<1>6. CountOf(sessions, s) \in Nat BY <1>1, CountType
<1>7. QED BY <1>2, <1>3, <1>4, <1>5, <1>6

\* A chat that is loaded mirrors the table, and leaves nothing unseen within the limit
LEMMA LoadedRight ==
    ASSUME rows' \in Counts, chat' = Fetch(rows', current'), displayed \subseteq Messages,
           displayed' = displayed \cup {m \in Messages : chat'[m] > 0}
    PROVE  /\ ChatMirrorsTable' /\ chat' \in Counts /\ displayed' \subseteq Messages
           /\ Unseen(rows', displayed', current') = 0
<1>1. PICK u \in Counts : u = rows' OBVIOUS
<1>2. PICK s : s = current' OBVIOUS
<1>3. PICK now : now = displayed' OBVIOUS
<1>4. PICK f : f = chat' OBVIOUS
<1>5. f = Fetch(u, s) /\ now = displayed \cup {m \in Messages : f[m] > 0}
    BY <1>1, <1>2, <1>3, <1>4
<1>6. /\ f \in Counts
      /\ \A m \in Messages :
            /\ f[m] <= u[m]
            /\ SessionOf[m] # s => f[m] = 0
            /\ SessionOf[m] = s /\ Before(u, m) < Limit /\ ~(f[m] > 0) => u[m] = 0
    BY <1>5, FetchFacts
<1>7. \A m \in Messages : /\ f[m] <= (IF SessionOf[m] = s THEN u[m] ELSE 0)
                           /\ Fetch(u, s)[m] <= f[m]
    BY <1>5, <1>6 DEF Counts
<1>8. ChatMirrorsTable' BY <1>1, <1>2, <1>4, <1>7 DEF ChatMirrorsTable
<1>9. Unseen(u, now, s) = 0
    <2>1. \A m \in Of(s) \ now : Before(u, m) < Limit => u[m] = 0
        BY <1>5, <1>6 DEF Of
    <2>2. QED BY <2>1, UnseenNone
<1>10. QED BY <1>1, <1>2, <1>3, <1>4, <1>5, <1>6, <1>8, <1>9

\* The chat stays, and the rows of its session
LEMMA ChatKept ==
    ASSUME IInv, UNCHANGED <<current, chat>>, rows' \in Counts,
           \A m \in Of(current) : rows'[m] = rows[m]
    PROVE  ChatMirrorsTable'
<1>1. PICK u \in Counts : u = rows' OBVIOUS
<1>2. rows \in Counts BY Typed
<1>3. \A m \in Of(current) : rows[m] = u[m] BY <1>1
<1>4. \A m \in Messages : Fetch(u, current)[m] = Fetch(rows, current)[m]
    BY <1>2, <1>3, FetchSame
<1>5. \A m \in Messages : /\ chat[m] <= (IF SessionOf[m] = current THEN u[m] ELSE 0)
                           /\ Fetch(u, current)[m] <= chat[m]
    BY <1>3, <1>4 DEF IInv, ChatMirrorsTable, Of
<1>6. QED BY <1>1, <1>5 DEF ChatMirrorsTable

LEMMA ChatClosed ==
    ASSUME IInv, current' = NoSession, chat' = NoneStored, rows' \in Counts
    PROVE  ChatMirrorsTable' /\ chat' \in Counts
<1>1. PICK u \in Counts : u = rows' OBVIOUS
<1>2. \A m \in Messages : SessionOf[m] # NoSession BY InboxAssumption
<1>3. \A m \in Messages : Fetch(u, NoSession)[m] = 0 BY <1>2, FetchFacts
<1>4. QED BY <1>1, <1>2, <1>3 DEF ChatMirrorsTable, NoneStored, Counts

\* ReadWasShown and UnseenHasSession, from what there is of each session
LEMMA AllCounted ==
    ASSUME \A s \in DOMAIN sessions' : Unseen(rows', displayed', s) <= sessions'[s]
    PROVE  ReadWasShown'
BY DEF ReadWasShown, Unseen

LEMMA SavedFacts ==
    ASSUME IInv, NEW s \in Sessions, NEW wanted, Table(wanted), Save(s, wanted),
           DOMAIN sessions \subseteq DOMAIN wanted, DOMAIN wanted \subseteq DOMAIN sessions \cup {s},
           \A t \in DOMAIN sessions : t # s => wanted[t] = sessions[t]
    PROVE  /\ Table(sessions') /\ DOMAIN sessions \subseteq DOMAIN sessions'
           /\ DOMAIN sessions' \subseteq DOMAIN sessions \cup {s}
           /\ \A t \in DOMAIN sessions : t # s => sessions'[t] = sessions[t]
           /\ s \notin unsaved' => sessions' = wanted
           /\ s \in unsaved /\ s \notin DOMAIN wanted => s \in unsaved'
           /\ \A t \in Sessions : t # s => (t \in unsaved' <=> t \in unsaved)
           /\ unsaved' \subseteq Sessions
           /\ faults' \in 0..MaxFaults /\ faults' \in Nat /\ faults <= faults'
           /\ sessions' \in {sessions, wanted}
<1>1. Table(sessions) /\ unsaved \subseteq Sessions /\ faults \in 0..MaxFaults BY Typed
<1>2. CASE /\ sessions' = wanted
           /\ unsaved' = IF s \in DOMAIN wanted /\ wanted[s] = 0 THEN unsaved \ {s} ELSE unsaved
           /\ UNCHANGED faults
    BY <1>1, <1>2, InboxAssumption
<1>3. CASE /\ TransactionFails /\ unsaved' = unsaved \cup {s} /\ UNCHANGED sessions
    BY <1>1, <1>3, InboxAssumption DEF TransactionFails
<1>4. QED BY <1>2, <1>3 DEF Save

-----------------------------------------------------------------------------
(***************************************************************************)
(* Sessions opened and saved                                               *)
(***************************************************************************)

\* What a save of s may make of the table
Wanted(s, wanted) ==
    /\ Table(wanted) /\ Save(s, wanted)
    /\ DOMAIN sessions \subseteq DOMAIN wanted
    /\ DOMAIN wanted \subseteq DOMAIN sessions \cup {s}
    /\ \A t \in DOMAIN sessions : t # s => wanted[t] = sessions[t]

\* The session s is opened, and saved as read
LEMMA OpenInv ==
    ASSUME IInv, NEW s \in Sessions, NEW wanted, Wanted(s, wanted),
           s \in DOMAIN wanted => wanted[s] = 0, s \in DOMAIN wanted \/ s \in unsaved,
           Show(s), UNCHANGED <<rows, connection, notStored, removed>>,
           opening' \in {opening, NoSession},
           Table(listed'), loggedIn \/ listed' = NoSessions, ListRight'
    PROVE  IInv'
<1> USE InboxAssumption
<1>1. /\ rows \in Counts /\ Table(sessions) /\ displayed \subseteq Messages
      /\ opening \in Groups \cup {NoSession}
    BY Typed
<1>2. /\ Table(sessions') /\ DOMAIN sessions \subseteq DOMAIN sessions'
      /\ DOMAIN sessions' \subseteq DOMAIN sessions \cup {s}
      /\ \A t \in DOMAIN sessions : t # s => sessions'[t] = sessions[t]
      /\ s \notin unsaved' => sessions' = wanted
      /\ s \in unsaved /\ s \notin DOMAIN wanted => s \in unsaved'
      /\ unsaved' \subseteq Sessions
      /\ faults' \in 0..MaxFaults /\ faults' \in Nat /\ faults <= faults'
    BY SavedFacts DEF Wanted
<1>3. /\ current' = s /\ rows' \in Counts /\ chat' = Fetch(rows', current')
      /\ displayed' = displayed \cup {m \in Messages : chat'[m] > 0}
    BY <1>1 DEF Show, LoadMessages
<1>4. /\ ChatMirrorsTable' /\ chat' \in Counts /\ displayed' \subseteq Messages
      /\ Unseen(rows', displayed', s) = 0
    BY <1>1, <1>3, LoadedRight
<1>5. DeliveredIsStored' /\ RowsWithinFaults'
    BY <1>2, DeliveryKept DEF connection
<1>6. CurrentIsRead'
    BY <1>2, <1>3 DEF CurrentIsRead
<1>7. OpeningIsStored' /\ opening' \in Groups \cup {NoSession}
    BY <1>1, <1>2 DEF IInv, OpeningIsStored
<1>8. UnseenHasSession'
    BY <1>2, <1>3 DEF IInv, UnseenHasSession
<1>9. ReadWasShown'
    <2>1. ASSUME NEW t \in DOMAIN sessions'
          PROVE  Unseen(rows', displayed', t) <= sessions'[t]
        <3>1. t \in Sessions /\ sessions'[t] \in Nat BY <1>2 DEF Table
        <3>2. CASE t = s BY <1>4, <3>1, <3>2
        <3>3. CASE t # s
            <4>1. t \in DOMAIN sessions /\ sessions'[t] = sessions[t] BY <1>2, <3>3
            <4>2. \A m \in Of(t) : rows[m] <= rows'[m] /\ rows'[m] = rows[m]
                BY <1>1 DEF Of, Counts
            <4>3. Unseen(rows', displayed', t) <= CountOf(sessions, t)
                BY <1>3, <3>1, <4>2, StillCounted
            <4>4. QED BY <4>1, <4>3 DEF CountOf
        <3>4. QED BY <3>2, <3>3
    <2>2. QED BY <2>1, AllCounted
<1>10. TypeOK'
    BY <1>1, <1>2, <1>3, <1>4, <1>7 DEF IInv, TypeOK, Counts, Table, connection
<1>11. QED BY <1>4, <1>5, <1>6, <1>7, <1>8, <1>9, <1>10 DEF IInv

\* The session s is saved if it was not there, and the list loaded; nothing is opened
LEMMA SaveInv ==
    ASSUME IInv, NEW s \in Sessions, Save(s, With(sessions, {s})),
           UNCHANGED <<current, chat, displayed>>, listed' = sessions', loggedIn,
           UNCHANGED <<rows, opening, connection, notStored, removed>>
    PROVE  IInv'
<1> USE InboxAssumption
<1>1. /\ rows \in Counts /\ Table(sessions) /\ current \in Sessions \cup {NoSession}
    BY Typed
<1>2. PICK wanted : wanted = With(sessions, {s}) OBVIOUS
<1>3. /\ Table(wanted) /\ DOMAIN wanted = DOMAIN sessions \cup {s}
      /\ \A x \in DOMAIN sessions \cup {s} : wanted[x] = CountOf(sessions, x)
    <2>1. PICK S \in SUBSET Sessions : S = {s} OBVIOUS
    <2>2. QED BY <1>1, <1>2, <2>1, WithFacts
<1>4. \A t \in DOMAIN sessions : wanted[t] = sessions[t] BY <1>3 DEF CountOf
<1>5. /\ Table(sessions') /\ DOMAIN sessions \subseteq DOMAIN sessions'
      /\ s \notin unsaved' => sessions' = wanted
      /\ \A t \in Sessions : t # s => (t \in unsaved' <=> t \in unsaved)
      /\ unsaved' \subseteq Sessions
      /\ faults' \in 0..MaxFaults /\ faults' \in Nat /\ faults <= faults'
      /\ sessions' \in {sessions, wanted}
    BY <1>2, <1>3, <1>4, SavedFacts
<1>6. \A t \in DOMAIN sessions : sessions'[t] = sessions[t] BY <1>4, <1>5
<1>7. DeliveredIsStored' /\ RowsWithinFaults'
    BY <1>5, DeliveryKept DEF connection
<1>8. CurrentIsRead'
    <2>1. ASSUME current \in Sessions \ unsaved'
          PROVE  current \in DOMAIN sessions' /\ sessions'[current] = 0
        <3>1. CASE current # s
            BY <1>5, <1>6, <2>1, <3>1 DEF IInv, CurrentIsRead
        <3>2. CASE current = s
            <4>1. sessions' = wanted /\ current \in DOMAIN wanted BY <1>3, <1>5, <2>1, <3>2
            <4>2. wanted[current] = 0
                <5>1. CASE current \in DOMAIN sessions /\ current \notin unsaved
                    BY <1>4, <2>1, <5>1 DEF IInv, CurrentIsRead
                <5>2. CASE current \notin DOMAIN sessions
                    BY <1>3, <3>2, <5>2 DEF CountOf
                <5>3. CASE current \in DOMAIN sessions /\ current \in unsaved
                    BY <1>2, <2>1, <3>2, <4>1, <5>3 DEF Save
                <5>4. QED BY <5>1, <5>2, <5>3
            <4>3. QED BY <4>1, <4>2
        <3>3. QED BY <3>1, <3>2
    <2>2. QED BY <2>1 DEF CurrentIsRead
<1>9. OpeningIsStored' BY <1>5 DEF IInv, OpeningIsStored
<1>10. UnseenHasSession' BY <1>5 DEF IInv, UnseenHasSession
<1>11. ListRight'
    <2>1. \A t \in DOMAIN sessions' \ unsaved' : t = current' => sessions'[t] = 0
        BY <1>1, <1>5, <1>8 DEF CurrentIsRead, Table
    <2>2. QED BY <2>1 DEF ListRight, ListMirrorsTable
<1>12. ChatMirrorsTable'
    BY <1>1, ChatKept
<1>13. ReadWasShown'
    <2>1. ASSUME NEW t \in DOMAIN sessions'
          PROVE  Unseen(rows', displayed', t) <= sessions'[t]
        <3>1. t \in Sessions BY <1>5 DEF Table
        <3>2. sessions'[t] = CountOf(sessions, t) BY <1>3, <1>5, <1>6 DEF CountOf
        <3>3. \A m \in Of(t) : rows[m] <= rows'[m] /\ rows'[m] = rows[m]
            BY <1>1 DEF Of, Counts
        <3>4. QED BY <1>1, <3>1, <3>2, <3>3, StillCounted
    <2>2. QED BY <2>1, AllCounted
<1>14. TypeOK'
    BY <1>1, <1>5 DEF IInv, TypeOK, Counts, Table, connection
<1>15. QED BY <1>7, <1>8, <1>9, <1>10, <1>11, <1>12, <1>13, <1>14 DEF IInv

LEMMA SwitchInv ==
    ASSUME IInv, NEW s \in Sessions, SwitchToSession(s)
    PROVE  IInv'
<1>1. Table(sessions) /\ Table(listed) BY Typed
<1>2. loggedIn
    <2>1. listed # NoSessions BY DEF SwitchToSession, NoSessions
    <2>2. QED BY <2>1 DEF IInv, TypeOK
<1>3. PICK wanted : wanted = MarkRead(sessions, s) OBVIOUS
<1>4. /\ Table(wanted) /\ DOMAIN wanted = DOMAIN sessions
      /\ \A x \in DOMAIN sessions : wanted[x] = IF x = s THEN 0 ELSE sessions[x]
    BY <1>1, <1>3, MarkReadFacts
<1>5. Save(s, wanted) /\ Show(s) /\ s \in DOMAIN listed BY <1>3 DEF SwitchToSession
<1>6. Wanted(s, wanted) BY <1>4, <1>5 DEF Wanted
<1>7. s \in DOMAIN wanted \/ s \in unsaved
    BY <1>2, <1>4, <1>5 DEF IInv, ListRight, ListMirrorsTable
<1>8. PICK list : list = MarkRead(listed, s) OBVIOUS
<1>9. /\ Table(list) /\ DOMAIN list = DOMAIN listed /\ listed' = list
      /\ \A x \in DOMAIN listed : list[x] = IF x = s THEN 0 ELSE listed[x]
    BY <1>1, <1>8, MarkReadFacts DEF SwitchToSession
<1>10. ListRight'
    <2>1. /\ DOMAIN sessions' \subseteq DOMAIN sessions \cup {s}
          /\ DOMAIN sessions \subseteq DOMAIN sessions'
          /\ \A t \in DOMAIN sessions : t # s => sessions'[t] = sessions[t]
          /\ s \notin unsaved' => sessions' = wanted
          /\ s \in unsaved /\ s \notin DOMAIN wanted => s \in unsaved'
          /\ \A t \in Sessions : t # s => (t \in unsaved' <=> t \in unsaved)
        BY <1>6, SavedFacts DEF Wanted
    <2>2. current' = s BY <1>5 DEF Show
    <2>3. ListMirrorsTable /\ DOMAIN sessions \subseteq DOMAIN listed
        BY <1>2 DEF IInv, ListRight
    <2>4. ASSUME NEW t \in Sessions \ unsaved'
          PROVE  /\ t \in DOMAIN listed' <=> t \in DOMAIN sessions'
                 /\ t \in DOMAIN sessions' =>
                       listed'[t] = sessions'[t] /\ (t = current' => sessions'[t] = 0)
        <3>1. CASE t = s BY <1>4, <1>5, <1>7, <1>9, <2>1, <2>4, <3>1
        <3>2. CASE t # s BY <1>9, <2>1, <2>2, <2>3, <2>4, <3>2 DEF ListMirrorsTable
        <3>3. QED BY <3>1, <3>2
    <2>5. DOMAIN sessions' \subseteq DOMAIN listed' BY <1>5, <1>9, <2>1, <2>3
    <2>6. ListMirrorsTable' BY <2>4 DEF ListMirrorsTable
    <2>7. QED BY <2>5, <2>6 DEF ListRight
<1>11. QED
    <2>1. /\ UNCHANGED <<rows, connection, notStored, removed>> /\ opening' = opening
        BY DEF SwitchToSession
    <2>2. s \in DOMAIN wanted => wanted[s] = 0 BY <1>4
    <2>3. QED BY <1>2, <1>5, <1>6, <1>7, <1>9, <1>10, <2>1, <2>2, OpenInv

\* A session that is opened and saved as read, from the list that is then loaded
LEMMA OpenSaved ==
    ASSUME IInv, NEW s \in Sessions, loggedIn,
           Save(s, MarkRead(With(sessions, {s}), s)), Show(s),
           listed' \in {sessions', MarkRead(sessions', s)},
           UNCHANGED <<rows, opening, connection, notStored, removed>>
    PROVE  IInv'
<1>1. Table(sessions) BY Typed
<1>2. PICK with : with = With(sessions, {s}) OBVIOUS
<1>3. /\ Table(with) /\ DOMAIN with = DOMAIN sessions \cup {s}
      /\ \A x \in DOMAIN sessions \cup {s} : with[x] = CountOf(sessions, x)
    <2>1. PICK S \in SUBSET Sessions : S = {s} OBVIOUS
    <2>2. QED BY <1>1, <1>2, <2>1, WithFacts
<1>4. PICK wanted : wanted = MarkRead(with, s) OBVIOUS
<1>5. /\ Table(wanted) /\ DOMAIN wanted = DOMAIN with
      /\ \A x \in DOMAIN with : wanted[x] = IF x = s THEN 0 ELSE with[x]
    BY <1>3, <1>4, MarkReadFacts
<1>6. Wanted(s, wanted) BY <1>2, <1>3, <1>4, <1>5 DEF Wanted, CountOf
<1>7. /\ Table(sessions')
      /\ s \notin unsaved' => sessions' = wanted
    BY <1>6, SavedFacts DEF Wanted
<1>8. s \in DOMAIN wanted /\ wanted[s] = 0 BY <1>3, <1>5
<1>9. PICK now : now = sessions' OBVIOUS
<1>10. /\ Table(MarkRead(now, s)) /\ DOMAIN MarkRead(now, s) = DOMAIN now
       /\ \A x \in DOMAIN now : MarkRead(now, s)[x] = IF x = s THEN 0 ELSE now[x]
    BY <1>7, <1>9, MarkReadFacts
<1>11. /\ Table(listed') /\ DOMAIN listed' = DOMAIN sessions'
       /\ \A x \in DOMAIN sessions' :
             listed'[x] = sessions'[x] \/ (x = s /\ listed'[x] = 0)
    BY <1>7, <1>9, <1>10
<1>12. ListRight'
    <2>1. current' = s BY DEF Show
    <2>2. s \notin unsaved' => s \in DOMAIN sessions' /\ sessions'[s] = 0 BY <1>7, <1>8
    <2>3. QED BY <1>11, <2>1, <2>2 DEF ListRight, ListMirrorsTable
<1>13. QED BY <1>6, <1>8, <1>11, <1>12, OpenInv

LEMMA StartPrivateInv ==
    ASSUME IInv, NEW s \in Sessions, StartPrivateChat(s)
    PROVE  IInv'
<1>1. loggedIn /\ listed' = sessions' /\ UNCHANGED <<rows, opening, connection, notStored, removed>>
    BY DEF StartPrivateChat, LoadSessions
<1>2. CASE s = current
    BY <1>1, <1>2, SaveInv DEF StartPrivateChat
<1>3. CASE s # current
    BY <1>1, <1>3, OpenSaved DEF StartPrivateChat
<1>4. QED BY <1>2, <1>3

LEMMA FriendChangedInv ==
    ASSUME IInv, NEW s \in Sessions, OnFriendChanged(s)
    PROVE  IInv'
<1>1. loggedIn /\ UNCHANGED <<rows, opening, connection, notStored, removed>>
    BY DEF OnFriendChanged, IInv, TypeOK
<1>2. CASE current # NoSession
    BY <1>1, <1>2, SaveInv DEF OnFriendChanged, LoadSessions
<1>3. CASE current = NoSession
    BY <1>1, <1>3, OpenSaved DEF OnFriendChanged
<1>4. QED BY <1>2, <1>3

\* A new group opened by its timer; the user may have logged out
LEMMA OpenNewInv == IInv /\ OpenNewGroup => IInv'
<1> SUFFICES ASSUME IInv, OpenNewGroup PROVE IInv'
    OBVIOUS
<1> USE InboxAssumption
<1>1. PICK s : s = opening OBVIOUS
<1>2. s \in Groups /\ s \in Sessions /\ s \in DOMAIN sessions /\ opening' = NoSession
    BY <1>1, Typed DEF OpenNewGroup, IInv, OpeningIsStored
<1>3. Table(sessions) /\ Table(listed) BY Typed
<1>4. CASE s = current
    <2>1. UNCHANGED <<rows, sessions, views, connection, observed>>
        BY <1>1, <1>4 DEF OpenNewGroup, observed
    <2>2. TypeOK' BY <1>2, <2>1 DEF IInv, TypeOK, views, connection, observed
    <2>3. /\ DeliveredIsStored' /\ RowsWithinFaults' /\ CurrentIsRead' /\ OpeningIsStored'
          /\ UnseenHasSession'
        BY <1>2, <2>1 DEF IInv, DeliveredIsStored, RowsWithinFaults, CurrentIsRead,
           OpeningIsStored, UnseenHasSession, views, connection, observed
    <2>4. ListRight' /\ ChatMirrorsTable' /\ ReadWasShown'
        BY <2>1 DEF IInv, ListRight, ListMirrorsTable, ChatMirrorsTable, ReadWasShown, views,
           connection, observed
    <2>5. QED BY <2>2, <2>3, <2>4 DEF IInv
<1>5. CASE s # current
    <2>1. /\ Save(s, MarkRead(sessions, s)) /\ Show(s) /\ listed' = MarkRead(listed, s)
          /\ UNCHANGED <<rows, connection, notStored, removed>>
        BY <1>1, <1>5 DEF OpenNewGroup
    <2>2. PICK wanted : wanted = MarkRead(sessions, s) OBVIOUS
    <2>3. /\ Table(wanted) /\ DOMAIN wanted = DOMAIN sessions
          /\ \A x \in DOMAIN sessions : wanted[x] = IF x = s THEN 0 ELSE sessions[x]
        BY <1>3, <2>2, MarkReadFacts
    <2>4. Wanted(s, wanted) BY <2>1, <2>2, <2>3 DEF Wanted
    <2>5. s \in DOMAIN wanted /\ wanted[s] = 0 BY <1>2, <2>3
    <2>6. PICK list : list = MarkRead(listed, s) OBVIOUS
    <2>7. /\ Table(list) /\ DOMAIN list = DOMAIN listed /\ listed' = list
          /\ \A x \in DOMAIN listed : list[x] = IF x = s THEN 0 ELSE listed[x]
        BY <1>3, <2>1, <2>6, MarkReadFacts
    <2>8. loggedIn \/ listed' = NoSessions
        <3>1. CASE loggedIn BY <3>1
        <3>2. CASE ~loggedIn
            <4>1. listed = NoSessions BY <3>2 DEF IInv, TypeOK
            <4>2. DOMAIN listed = {} BY <4>1 DEF NoSessions
            <4>3. listed' = [x \in {} |-> 0] BY <2>1, <4>2 DEF MarkRead
            <4>4. QED BY <4>3 DEF NoSessions
        <3>3. QED BY <3>1, <3>2
    <2>9. ListRight'
        <3>1. /\ DOMAIN sessions' = DOMAIN sessions
              /\ \A t \in DOMAIN sessions : t # s => sessions'[t] = sessions[t]
              /\ s \notin unsaved' => sessions' = wanted
              /\ \A t \in Sessions : t # s => (t \in unsaved' <=> t \in unsaved)
            <4>1. /\ \A t \in DOMAIN sessions : t # s => sessions'[t] = sessions[t]
                  /\ s \notin unsaved' => sessions' = wanted
                  /\ \A t \in Sessions : t # s => (t \in unsaved' <=> t \in unsaved)
                  /\ sessions' \in {sessions, wanted}
                BY <1>2, <2>4, SavedFacts DEF Wanted
            <4>2. QED BY <2>3, <4>1
        <3>2. current' = s /\ loggedIn' = loggedIn BY <2>1 DEF Show, connection
        <3>3. ASSUME loggedIn, NEW t \in Sessions \ unsaved'
              PROVE  /\ t \in DOMAIN listed' <=> t \in DOMAIN sessions'
                     /\ t \in DOMAIN sessions' =>
                           listed'[t] = sessions'[t] /\ (t = current' => sessions'[t] = 0)
            <4>1. ListMirrorsTable /\ DOMAIN sessions \subseteq DOMAIN listed
                BY <3>3 DEF IInv, ListRight
            <4>2. CASE t = s BY <1>2, <2>5, <2>7, <3>1, <3>3, <4>1, <4>2
            <4>3. CASE t # s BY <2>7, <3>1, <3>2, <3>3, <4>1, <4>3 DEF ListMirrorsTable
            <4>4. QED BY <4>2, <4>3
        <3>4. loggedIn => DOMAIN sessions' \subseteq DOMAIN listed'
            BY <2>7, <3>1 DEF IInv, ListRight
        <3>5. QED BY <3>2, <3>3, <3>4 DEF ListRight, ListMirrorsTable
    <2>10. QED BY <1>2, <2>1, <2>4, <2>5, <2>7, <2>8, <2>9, OpenInv
<1>6. QED BY <1>4, <1>5

-----------------------------------------------------------------------------
(***************************************************************************)
(* Connections                                                             *)
(***************************************************************************)

\* Tables, chat and records stay
LEMMA TablesStay ==
    ASSUME IInv, UNCHANGED <<rows, sessions, current, chat, toDeliver, displayed, notStored,
                             removed, unsaved, faults>>,
           opening' \in {opening, NoSession}
    PROVE  /\ DeliveredIsStored' /\ RowsWithinFaults' /\ CurrentIsRead' /\ OpeningIsStored'
           /\ UnseenHasSession' /\ ChatMirrorsTable' /\ ReadWasShown'
<1>1. DeliveredIsStored' /\ RowsWithinFaults' /\ CurrentIsRead' /\ OpeningIsStored'
    BY DEF IInv, DeliveredIsStored, RowsWithinFaults, CurrentIsRead, OpeningIsStored
<1>2. UnseenHasSession' /\ ChatMirrorsTable' /\ ReadWasShown'
    BY DEF IInv, UnseenHasSession, ChatMirrorsTable, ReadWasShown
<1>3. QED BY <1>1, <1>2

LEMMA AuthInv == IInv /\ OnAuthSuccess => IInv'
<1> SUFFICES ASSUME IInv, OnAuthSuccess PROVE IInv'
    OBVIOUS
<1>1. /\ UNCHANGED <<rows, sessions, current, chat, opening, toDeliver, displayed, notStored,
                     removed, unsaved, faults>>
      /\ listed' = sessions /\ loggedIn' = TRUE /\ online' = TRUE
    BY DEF OnAuthSuccess, LoadSessions, tables, observed
<1>2. Table(sessions) BY Typed
<1>3. TypeOK' BY <1>1, <1>2 DEF IInv, TypeOK, Table
<1>4. ListRight'
    <2>1. \A s \in DOMAIN sessions \ unsaved : s = current => sessions[s] = 0
        BY <1>2 DEF IInv, CurrentIsRead, Table
    <2>2. QED BY <1>1, <2>1 DEF ListRight, ListMirrorsTable
<1>5. QED BY <1>1, <1>3, <1>4, TablesStay DEF IInv

LEMMA LostInv == IInv /\ ConnectionLost => IInv'
<1> SUFFICES ASSUME IInv, ConnectionLost PROVE IInv'
    OBVIOUS
<1>1. /\ UNCHANGED <<rows, sessions, listed, current, chat, opening, toDeliver, loggedIn,
                     displayed, notStored, removed, unsaved, faults>>
      /\ online' = FALSE
    BY DEF ConnectionLost, tables, views, observed
<1>2. TypeOK' BY <1>1 DEF IInv, TypeOK
<1>3. ListRight' BY <1>1 DEF IInv, ListRight, ListMirrorsTable
<1>4. QED BY <1>1, <1>2, <1>3, TablesStay DEF IInv

\* After a logout, a refused login or a restart nothing is shown
LEMMA ClearedInv == IInv /\ (AuthenticationCleared \/ Restart) => IInv'
<1> SUFFICES ASSUME IInv, AuthenticationCleared \/ Restart PROVE IInv'
    OBVIOUS
<1> USE InboxAssumption
<1>1. /\ UNCHANGED <<rows, sessions, toDeliver, displayed, notStored, removed, unsaved, faults>>
      /\ opening' \in {opening, NoSession}
      /\ current' = NoSession /\ chat' = NoneStored /\ listed' = NoSessions
      /\ loggedIn' = FALSE /\ online' = FALSE
    BY DEF AuthenticationCleared, Restart, Close, tables
<1>2. /\ rows \in Counts /\ faults \in Nat /\ Table(sessions)
      /\ opening \in Groups \cup {NoSession}
    BY Typed
<1>3. DeliveredIsStored' /\ RowsWithinFaults' BY <1>1, <1>2, DeliveryKept
<1>4. CurrentIsRead' /\ OpeningIsStored' /\ UnseenHasSession' /\ ListRight'
    BY <1>1 DEF IInv, CurrentIsRead, OpeningIsStored, UnseenHasSession, ListRight
<1>5. ChatMirrorsTable' /\ chat' \in Counts BY <1>1, <1>2, ChatClosed
<1>6. ReadWasShown' BY <1>1 DEF IInv, ReadWasShown
<1>7. TypeOK'
    <2>1. listed' \in [DOMAIN listed' -> Nat] /\ DOMAIN listed' = {} BY <1>1 DEF NoSessions
    <2>2. QED BY <1>1, <1>2, <1>5, <2>1 DEF IInv, TypeOK, Counts
<1>8. QED BY <1>3, <1>4, <1>5, <1>6, <1>7 DEF IInv

-----------------------------------------------------------------------------
(***************************************************************************)
(* Messages                                                                *)
(***************************************************************************)

ViewsRight ==
    /\ CurrentIsRead /\ OpeningIsStored /\ UnseenHasSession
    /\ ListRight /\ ChatMirrorsTable /\ ReadWasShown

\* A message that is stored is counted as unread or shown
LEMMA ReceivedRight ==
    ASSUME IInv, NEW m \in Messages, loggedIn, Received(m), ShowReceived(m),
           UNCHANGED <<current, opening, loggedIn, removed, unsaved>>
    PROVE  /\ ViewsRight'
           /\ rows' \in Counts /\ rows'[m] = rows[m] + 1
           /\ \A n \in Messages : n # m => rows'[n] = rows[n]
           /\ Table(sessions') /\ Table(listed') /\ chat' \in Counts
           /\ displayed' \subseteq Messages
<1> USE InboxAssumption
<1>1. /\ rows \in Counts /\ chat \in Counts /\ Table(sessions) /\ Table(listed)
      /\ displayed \subseteq Messages /\ current \in Sessions \cup {NoSession}
    BY Typed
<1>2. PICK s \in Sessions : s = SessionOf[m] OBVIOUS
<1>3. rows' = [rows EXCEPT ![m] = @ + 1] BY DEF Received, InsertMessage
<1>4. /\ rows' \in Counts /\ rows'[m] = rows[m] + 1
      /\ \A n \in Messages : n # m => rows'[n] = rows[n]
      /\ \A n \in Messages : rows[n] <= rows'[n]
    BY <1>1, <1>3 DEF Counts
<1>5. PICK counted : counted = CountUnread(sessions, s) OBVIOUS
<1>6. /\ Table(counted) /\ DOMAIN counted = DOMAIN sessions \cup {s}
      /\ counted[s] = CountOf(sessions, s) + 1
      /\ \A x \in DOMAIN sessions : x # s => counted[x] = sessions[x]
    BY <1>1, <1>5, CountUnreadFacts
<1>7. /\ Table(MarkRead(counted, s)) /\ DOMAIN MarkRead(counted, s) = DOMAIN counted
      /\ \A x \in DOMAIN counted : MarkRead(counted, s)[x] = IF x = s THEN 0 ELSE counted[x]
    BY <1>6, MarkReadFacts
<1>8. sessions' = IF s = current THEN MarkRead(counted, s) ELSE counted
    BY <1>2, <1>5 DEF Received
<1>9. /\ Table(sessions') /\ DOMAIN sessions' = DOMAIN sessions \cup {s}
      /\ sessions'[s] = IF s = current THEN 0 ELSE CountOf(sessions, s) + 1
      /\ \A x \in DOMAIN sessions : x # s => sessions'[x] = sessions[x]
    BY <1>6, <1>7, <1>8
<1>10. /\ Table(listed') /\ DOMAIN listed' = DOMAIN listed \cup {s}
       /\ listed'[s] = IF s = current THEN CountOf(listed, s) ELSE CountOf(listed, s) + 1
       /\ \A x \in DOMAIN listed : x # s => listed'[x] = listed[x]
    <2>1. CASE s = current
        <3>1. PICK S \in SUBSET Sessions : S = {s} OBVIOUS
        <3>2. listed' = With(listed, S) BY <1>2, <2>1, <3>1 DEF ShowReceived, UpsertSession
        <3>3. /\ Table(With(listed, S)) /\ DOMAIN With(listed, S) = DOMAIN listed \cup S
              /\ \A x \in DOMAIN listed \cup S : With(listed, S)[x] = CountOf(listed, x)
            BY <1>1, WithFacts
        <3>4. QED BY <2>1, <3>1, <3>2, <3>3 DEF CountOf
    <2>2. CASE s # current
        <3>1. listed' = CountUnread(listed, s) BY <1>2, <2>2 DEF ShowReceived, UpsertSession
        <3>2. QED BY <1>1, <2>2, <3>1, CountUnreadFacts
    <2>3. QED BY <2>1, <2>2
<1>11. CurrentIsRead'
    BY <1>9 DEF IInv, CurrentIsRead
<1>12. OpeningIsStored' BY <1>9 DEF IInv, OpeningIsStored
<1>13. ListRight'
    <2>1. ListMirrorsTable /\ DOMAIN sessions \subseteq DOMAIN listed BY DEF IInv, ListRight
    <2>2. ASSUME NEW t \in Sessions \ unsaved
          PROVE  /\ t \in DOMAIN listed' <=> t \in DOMAIN sessions'
                 /\ t \in DOMAIN sessions' =>
                       listed'[t] = sessions'[t] /\ (t = current => sessions'[t] = 0)
        <3>1. CASE t # s BY <1>9, <1>10, <2>1, <3>1 DEF ListMirrorsTable
        <3>2. CASE t = s
            <4>1. CountOf(listed, s) = CountOf(sessions, s)
                BY <2>1, <3>2 DEF ListMirrorsTable, CountOf
            <4>2. s = current => CountOf(sessions, s) = 0
                BY <3>2 DEF IInv, CurrentIsRead, CountOf
            <4>3. QED BY <1>9, <1>10, <3>2, <4>1, <4>2
        <3>3. QED BY <3>1, <3>2
    <2>3. ListMirrorsTable' BY <2>2 DEF ListMirrorsTable
    <2>4. DOMAIN sessions' \subseteq DOMAIN listed' BY <1>9, <1>10, <2>1
    <2>5. QED BY <2>3, <2>4 DEF ListRight
<1>14. /\ ChatMirrorsTable' /\ chat' \in Counts /\ displayed' \subseteq Messages
       /\ displayed \subseteq displayed'
       /\ s = current => Unseen(rows', displayed', s) = 0
       /\ s # current => UNCHANGED displayed
    <2>1. CASE s = current
        <3>1. /\ chat' = Fetch(rows', current')
              /\ displayed' = displayed \cup {n \in Messages : chat'[n] > 0}
            BY <1>2, <2>1 DEF ShowReceived, LoadMessages
        <3>2. /\ ChatMirrorsTable' /\ chat' \in Counts /\ displayed' \subseteq Messages
              /\ Unseen(rows', displayed', current') = 0
            BY <1>1, <1>4, <3>1, LoadedRight
        <3>3. QED BY <2>1, <3>1, <3>2
    <2>2. CASE s # current
        <3>1. UNCHANGED <<chat, displayed>> BY <1>2, <2>2 DEF ShowReceived
        <3>2. \A n \in Of(current) : rows'[n] = rows[n] BY <1>2, <1>4, <2>2 DEF Of
        <3>3. ChatMirrorsTable' BY <1>4, <3>1, <3>2, ChatKept
        <3>4. QED BY <1>1, <2>2, <3>1, <3>3
    <2>3. QED BY <2>1, <2>2
<1>15. UnseenHasSession'
    BY <1>2, <1>4, <1>9, <1>14 DEF IInv, UnseenHasSession
<1>16. ReadWasShown'
    <2>1. ASSUME NEW t \in DOMAIN sessions'
          PROVE  Unseen(rows', displayed', t) <= sessions'[t]
        <3>1. t \in Sessions /\ sessions'[t] \in Nat BY <1>9 DEF Table
        <3>2. CASE t # s
            <4>1. t \in DOMAIN sessions /\ sessions'[t] = sessions[t] BY <1>9, <3>2
            <4>2. \A n \in Of(t) : rows'[n] = rows[n] BY <1>2, <1>4, <3>2 DEF Of
            <4>3. \A n \in Of(t) : rows[n] <= rows'[n] BY <1>4 DEF Of
            <4>4. Unseen(rows', displayed', t) <= CountOf(sessions, t)
                BY <1>4, <1>14, <3>1, <4>2, <4>3, StillCounted
            <4>5. QED BY <4>1, <4>4 DEF CountOf
        <3>3. CASE t = s /\ s = current BY <1>14, <3>1, <3>3
        <3>4. CASE t = s /\ s # current
            <4>1. displayed' = displayed BY <1>14, <3>4
            <4>2. PICK u \in Counts : u = rows' BY <1>4
            <4>3. u = [rows EXCEPT ![m] = @ + 1] BY <1>3, <4>2
            <4>4. Unseen(u, displayed, s) <= Unseen(rows, displayed, s) + 1
                BY <1>1, <1>2, <4>3, UnseenByOne
            <4>5. Unseen(rows, displayed, s) <= CountOf(sessions, s)
                <5>1. CASE s \in DOMAIN sessions
                    BY <5>1 DEF IInv, ReadWasShown, Unseen, CountOf
                <5>2. CASE s \notin DOMAIN sessions
                    <6>1. \A n \in Of(s) \ displayed : rows[n] = 0
                        BY <5>2 DEF IInv, UnseenHasSession, Of
                    <6>2. Unseen(rows, displayed, s) = 0 BY <1>1, <6>1, UnseenNone
                    <6>3. QED BY <5>2, <6>2 DEF CountOf
                <5>3. QED BY <5>1, <5>2
            <4>6. /\ Unseen(u, displayed, s) \in Nat /\ Unseen(rows, displayed, s) \in Nat
                  /\ CountOf(sessions, s) \in Nat
                BY <1>1, UnseenType, CountType
            <4>7. Unseen(u, displayed, s) <= CountOf(sessions, s) + 1 BY <4>4, <4>5, <4>6
            <4>8. QED BY <1>9, <3>4, <4>1, <4>2, <4>7
        <3>5. QED BY <3>2, <3>3, <3>4
    <2>2. QED BY <2>1, AllCounted
<1>17. QED
    BY <1>4, <1>9, <1>10, <1>11, <1>12, <1>13, <1>14, <1>15, <1>16 DEF ViewsRight

\* Received and acknowledged, stored or not; or received and not acknowledged
LEMMA ReceiveInv ==
    ASSUME IInv, NEW m \in Messages, ReceiveMessage(m) \/ ReceiveUnacknowledged(m)
    PROVE  IInv'
<1> USE InboxAssumption
<1>1. /\ online /\ m \in toDeliver /\ loggedIn /\ m \in Incoming
      /\ UNCHANGED <<current, opening, loggedIn, removed, unsaved>>
    BY DEF ReceiveMessage, ReceiveUnacknowledged, IInv, TypeOK
<1>2. /\ rows \in Counts /\ faults \in Nat /\ MaxFaults \in Nat /\ faults \in 0..MaxFaults
      /\ Table(sessions) /\ Table(listed) /\ chat \in Counts
    BY Typed
<1>3. /\ \A n \in Incoming : n \notin toDeliver => rows[n] > 0 \/ n \in notStored \cup removed
      /\ \A n \in Incoming : rows[n] <= (IF n \in toDeliver THEN faults ELSE 1 + faults)
      /\ \A n \in Incoming : rows[n] \in Nat
    BY <1>2 DEF IInv, DeliveredIsStored, RowsWithinFaults, Incoming, Counts
<1>4. CASE Received(m) /\ ShowReceived(m)
    <2>1. /\ UNCHANGED notStored /\ online' \in BOOLEAN
          /\ online' => online
          /\ \/ UNCHANGED faults /\ toDeliver' = toDeliver \ {m}
             \/ faults' = faults + 1 /\ faults < MaxFaults /\ toDeliver' \in {toDeliver, toDeliver \ {m}}
        <3>1. CASE ReceiveUnacknowledged(m) BY <3>1 DEF ReceiveUnacknowledged
        <3>2. CASE ReceiveMessage(m)
            <4>1. rows' # rows
                BY <1>1, <1>2, <1>4 DEF Received, InsertMessage, Counts
            <4>2. UNCHANGED <<notStored, faults>>
                BY <3>2, <4>1 DEF ReceiveMessage, OnIncomingMessage, tables
            <4>3. QED BY <3>2, <4>2 DEF ReceiveMessage, IInv, TypeOK
        <3>3. QED BY <3>1, <3>2
    <2>2. /\ ViewsRight'
          /\ rows' \in Counts /\ rows'[m] = rows[m] + 1
          /\ \A n \in Messages : n # m => rows'[n] = rows[n]
          /\ Table(sessions') /\ Table(listed') /\ chat' \in Counts
          /\ displayed' \subseteq Messages
        BY <1>1, <1>4, ReceivedRight
    <2>3. DeliveredIsStored'
        <3>1. ASSUME NEW n \in Incoming
              PROVE  /\ n \notin toDeliver' => rows'[n] > 0 \/ n \in notStored' \cup removed'
                     /\ rows'[n] <= 1 + faults'
            BY <1>1, <1>2, <1>3, <2>1, <2>2, <3>1 DEF Incoming
        <3>2. QED BY <3>1 DEF DeliveredIsStored
    <2>4. RowsWithinFaults'
        <3>1. ASSUME NEW n \in Incoming
              PROVE  rows'[n] <= (IF n \in toDeliver' THEN faults' ELSE 1 + faults')
            BY <1>1, <1>2, <1>3, <2>1, <2>2, <3>1 DEF Incoming
        <3>2. QED BY <3>1 DEF RowsWithinFaults
    <2>5. TypeOK'
        <3>1. faults' \in 0..MaxFaults /\ toDeliver' \subseteq Incoming
            BY <1>2, <2>1 DEF IInv, TypeOK
        <3>2. QED BY <1>1, <2>1, <2>2, <3>1 DEF IInv, TypeOK, Counts, Table
    <2>6. QED BY <2>2, <2>3, <2>4, <2>5 DEF IInv, ViewsRight
<1>5. CASE ~(Received(m) /\ ShowReceived(m))
    <2>1. /\ TransactionFails /\ notStored' = notStored \cup {m}
          /\ UNCHANGED <<rows, sessions, listed, chat, displayed, online>>
          /\ toDeliver' = toDeliver \ {m}
        BY <1>5 DEF ReceiveMessage, ReceiveUnacknowledged, OnIncomingMessage, tables
    <2>2. faults' = faults + 1 /\ faults' \in 0..MaxFaults BY <1>2, <2>1 DEF TransactionFails
    <2>3. DeliveredIsStored' BY <1>1, <1>2, <1>3, <2>1, <2>2 DEF DeliveredIsStored
    <2>4. RowsWithinFaults' BY <1>1, <1>2, <1>3, <2>1, <2>2 DEF RowsWithinFaults
    <2>5. CurrentIsRead' /\ OpeningIsStored' /\ UnseenHasSession' /\ ReadWasShown'
        BY <1>1, <2>1 DEF IInv, CurrentIsRead, OpeningIsStored, UnseenHasSession, ReadWasShown
    <2>6. ListRight' /\ ChatMirrorsTable'
        BY <1>1, <2>1 DEF IInv, ListRight, ListMirrorsTable, ChatMirrorsTable
    <2>7. TypeOK' BY <1>1, <2>1, <2>2 DEF IInv, TypeOK
    <2>8. QED BY <2>3, <2>4, <2>5, <2>6, <2>7 DEF IInv
<1>6. QED BY <1>4, <1>5

\* A message that is written is stored and shown
LEMMA SendInv ==
    ASSUME IInv, NEW m \in Messages, SendMessage(m)
    PROVE  IInv'
<1> USE InboxAssumption
<1>1. /\ rows \in Counts /\ chat \in Counts /\ Table(sessions) /\ Table(listed)
      /\ displayed \subseteq Messages /\ faults \in Nat
    BY Typed
<1>2. /\ online /\ m \in Outgoing /\ m \notin displayed /\ SessionOf[m] = current
      /\ rows' = [rows EXCEPT ![m] = @ + 1] /\ chat' = [chat EXCEPT ![m] = @ + 1]
      /\ displayed' = displayed \cup {m} /\ listed' = With(listed, {current})
      /\ UNCHANGED <<sessions, current, opening, loggedIn, online, toDeliver, notStored, removed,
                     unsaved, faults>>
    BY DEF SendMessage, InsertMessage, connection
<1>3. loggedIn /\ current \in Sessions BY <1>2 DEF IInv, TypeOK
<1>4. /\ rows' \in Counts /\ rows'[m] = rows[m] + 1
      /\ \A n \in Messages : n # m => rows'[n] = rows[n]
      /\ \A n \in Messages : rows[n] <= rows'[n]
      /\ chat' \in Counts /\ chat'[m] = chat[m] + 1
      /\ \A n \in Messages : n # m => chat'[n] = chat[n]
    BY <1>1, <1>2 DEF Counts
<1>5. /\ Table(listed') /\ DOMAIN listed' = DOMAIN listed \cup {current}
      /\ \A x \in DOMAIN listed \cup {current} : listed'[x] = CountOf(listed, x)
    <2>1. PICK S \in SUBSET Sessions : S = {current} BY <1>3
    <2>2. /\ Table(With(listed, S)) /\ DOMAIN With(listed, S) = DOMAIN listed \cup S
          /\ \A x \in DOMAIN listed \cup S : With(listed, S)[x] = CountOf(listed, x)
        BY <1>1, WithFacts
    <2>3. QED BY <1>2, <2>1, <2>2
<1>6. DeliveredIsStored' /\ RowsWithinFaults'
    <2>1. m \notin Incoming BY <1>2 DEF Incoming
    <2>2. \A n \in Incoming : rows'[n] = rows[n] BY <1>4, <2>1 DEF Incoming
    <2>3. DeliveredIsStored' BY <1>2, <2>2 DEF IInv, DeliveredIsStored
    <2>4. RowsWithinFaults' BY <1>2, <2>2 DEF IInv, RowsWithinFaults
    <2>5. QED BY <2>3, <2>4
<1>7. CurrentIsRead' /\ OpeningIsStored' BY <1>2 DEF IInv, CurrentIsRead, OpeningIsStored
<1>8. UnseenHasSession' BY <1>2, <1>4 DEF IInv, UnseenHasSession
<1>9. ListRight'
    <2>1. ListMirrorsTable /\ DOMAIN sessions \subseteq DOMAIN listed
        BY <1>3 DEF IInv, ListRight
    <2>2. ASSUME NEW t \in Sessions \ unsaved
          PROVE  /\ t \in DOMAIN listed' <=> t \in DOMAIN sessions
                 /\ t \in DOMAIN sessions =>
                       listed'[t] = sessions[t] /\ (t = current => sessions[t] = 0)
        BY <1>3, <1>5, <2>1, <2>2 DEF ListMirrorsTable, IInv, CurrentIsRead, CountOf
    <2>3. ListMirrorsTable' BY <1>2, <2>2 DEF ListMirrorsTable
    <2>4. DOMAIN sessions' \subseteq DOMAIN listed' BY <1>2, <1>5, <2>1
    <2>5. QED BY <2>3, <2>4 DEF ListRight
<1>10. ChatMirrorsTable'
    <2>1. PICK u \in Counts : u = rows' BY <1>4
    <2>2. \A n \in Of(current) : rows[n] <= u[n] BY <1>4, <2>1 DEF Of
    <2>3. ASSUME NEW n \in Messages
          PROVE  /\ chat'[n] <= (IF SessionOf[n] = current THEN u[n] ELSE 0)
                 /\ Fetch(u, current)[n] <= chat'[n]
        <3>1. /\ u[n] = rows[n] => Fetch(u, current)[n] <= Fetch(rows, current)[n]
              /\ u[n] = rows[n] + 1 => Fetch(u, current)[n] <= Fetch(rows, current)[n] + 1
            BY <1>1, <2>2, FetchGrows
        <3>2. /\ chat[n] <= (IF SessionOf[n] = current THEN rows[n] ELSE 0)
              /\ Fetch(rows, current)[n] <= chat[n]
            BY DEF IInv, ChatMirrorsTable
        <3>3. /\ Fetch(rows, current)[n] \in Nat /\ Fetch(u, current)[n] \in Nat
              /\ chat[n] \in Nat /\ rows[n] \in Nat
            BY <1>1, FetchFacts DEF Counts
        <3>4. CASE n = m BY <1>2, <1>4, <2>1, <3>1, <3>2, <3>3, <3>4
        <3>5. CASE n # m BY <1>4, <2>1, <3>1, <3>2, <3>3, <3>5
        <3>6. QED BY <3>4, <3>5
    <2>4. current' = current BY <1>2
    <2>5. QED BY <2>1, <2>3, <2>4 DEF ChatMirrorsTable
<1>11. ReadWasShown'
    <2>1. ASSUME NEW t \in DOMAIN sessions'
          PROVE  Unseen(rows', displayed', t) <= sessions'[t]
        <3>1. t \in Sessions /\ t \in DOMAIN sessions /\ sessions'[t] = sessions[t]
            BY <1>1, <1>2 DEF Table
        <3>2. displayed \subseteq displayed' BY <1>2
        <3>3. \A n \in Of(t) : rows[n] <= rows'[n] BY <1>4 DEF Of
        <3>4. \A n \in Of(t) \ displayed' : rows'[n] = rows[n] BY <1>2, <1>4 DEF Of
        <3>5. Unseen(rows', displayed', t) <= CountOf(sessions, t)
            BY <1>4, <3>1, <3>2, <3>3, <3>4, StillCounted
        <3>6. QED BY <3>1, <3>5 DEF CountOf
    <2>2. QED BY <2>1, AllCounted
<1>12. TypeOK'
    BY <1>1, <1>2, <1>3, <1>4, <1>5 DEF IInv, TypeOK, Counts, Table
<1>13. QED BY <1>6, <1>7, <1>8, <1>9, <1>10, <1>11, <1>12 DEF IInv

-----------------------------------------------------------------------------
(***************************************************************************)
(* Sessions removed and added                                              *)
(***************************************************************************)

\* The sessions of S lose their messages; those of G are there afterwards
LEMMA RemoveInv ==
    ASSUME IInv, NEW S \in SUBSET Sessions, NEW G \in SUBSET Groups, opening \notin S \ G,
           RemoveMessages(S), sessions' = With(Without(sessions, S), G),
           CloseIf(current \in S), listed' = sessions', loggedIn,
           UNCHANGED <<opening, connection, notStored, faults>>
    PROVE  IInv'
<1> USE InboxAssumption
<1>1. /\ rows \in Counts /\ chat \in Counts /\ Table(sessions) /\ faults \in Nat
      /\ displayed \subseteq Messages /\ unsaved \subseteq Sessions /\ removed \subseteq Messages
      /\ current \in Sessions \cup {NoSession}
    BY Typed
<1>2. /\ rows' = [m \in Messages |-> IF SessionOf[m] \in S THEN 0 ELSE rows[m]]
      /\ removed' = removed \cup {m \in Messages : SessionOf[m] \in S /\ rows[m] > 0}
      /\ unsaved' = unsaved \ S
    BY DEF RemoveMessages
<1>3. rows' \in Counts /\ \A m \in Messages : rows'[m] = IF SessionOf[m] \in S THEN 0 ELSE rows[m]
    BY <1>1, <1>2 DEF Counts
<1>4. PICK kept : kept = Without(sessions, S) OBVIOUS
<1>5. /\ Table(kept) /\ DOMAIN kept = DOMAIN sessions \ S
      /\ \A x \in DOMAIN sessions \ S : kept[x] = sessions[x]
    BY <1>1, <1>4, WithoutFacts
<1>6. /\ Table(sessions') /\ DOMAIN sessions' = (DOMAIN sessions \ S) \cup G
      /\ \A x \in DOMAIN sessions' : sessions'[x] = IF x \in S THEN 0 ELSE CountOf(sessions, x)
    <2>1. G \in SUBSET Sessions OBVIOUS
    <2>2. /\ Table(With(kept, G)) /\ DOMAIN With(kept, G) = DOMAIN kept \cup G
          /\ \A x \in DOMAIN kept \cup G : With(kept, G)[x] = CountOf(kept, x)
        BY <1>5, <2>1, WithFacts
    <2>3. sessions' = With(kept, G) BY <1>4
    <2>4. QED BY <1>5, <2>2, <2>3 DEF CountOf
<1>7. /\ current \in S => current' = NoSession /\ chat' = NoneStored
      /\ current \notin S => UNCHANGED <<current, chat>>
      /\ UNCHANGED displayed
    BY DEF CloseIf, Close
<1>8. DeliveredIsStored' /\ RowsWithinFaults'
    <2>1. \A m \in Messages : /\ rows[m] \in Nat /\ rows'[m] <= rows[m]
                              /\ rows[m] > 0 => rows'[m] > 0 \/ m \in removed'
        BY <1>1, <1>2, <1>3 DEF Counts
    <2>2. UNCHANGED <<toDeliver, notStored, faults>> /\ removed \subseteq removed'
        BY <1>2 DEF connection
    <2>3. \A m \in Messages : rows'[m] \in Nat BY <1>3 DEF Counts
    <2>4. ASSUME NEW m \in Incoming
          PROVE  /\ m \notin toDeliver' => rows'[m] > 0 \/ m \in notStored' \cup removed'
                 /\ rows'[m] <= 1 + faults'
                 /\ rows'[m] <= (IF m \in toDeliver' THEN faults' ELSE 1 + faults')
        <3>1. /\ m \notin toDeliver => rows[m] > 0 \/ m \in notStored \cup removed
              /\ rows[m] <= 1 + faults
              /\ rows[m] <= (IF m \in toDeliver THEN faults ELSE 1 + faults)
            BY DEF IInv, DeliveredIsStored, RowsWithinFaults
        <3>2. m \in Messages BY DEF Incoming
        <3>3. QED BY <1>1, <2>1, <2>2, <2>3, <3>1, <3>2
    <2>5. QED BY <2>4 DEF DeliveredIsStored, RowsWithinFaults
<1>9. CurrentIsRead'
    <2>1. ASSUME current' \in Sessions \ unsaved'
          PROVE  current' \in DOMAIN sessions' /\ sessions'[current'] = 0
        <3>1. current \notin S /\ current' = current /\ current \notin unsaved
            BY <1>2, <1>7, <2>1
        <3>2. current \in DOMAIN sessions /\ sessions[current] = 0
            BY <2>1, <3>1 DEF IInv, CurrentIsRead
        <3>3. QED BY <1>6, <3>1, <3>2 DEF CountOf
    <2>2. QED BY <2>1 DEF CurrentIsRead
<1>10. OpeningIsStored'
    BY <1>6 DEF IInv, OpeningIsStored
<1>11. UnseenHasSession'
    BY <1>3, <1>6, <1>7 DEF IInv, UnseenHasSession
<1>12. ListRight'
    <2>1. \A t \in DOMAIN sessions' \ unsaved' : t = current' => sessions'[t] = 0
        BY <1>6, <1>9 DEF CurrentIsRead, Table
    <2>2. QED BY <2>1 DEF ListRight, ListMirrorsTable
<1>13. ChatMirrorsTable' /\ chat' \in Counts
    <2>1. CASE current \in S BY <1>3, <1>7, <2>1, ChatClosed
    <2>2. CASE current \notin S
        <3>1. \A m \in Of(current) : rows'[m] = rows[m] BY <1>3, <2>2 DEF Of
        <3>2. QED BY <1>1, <1>3, <1>7, <2>2, <3>1, ChatKept
    <2>3. QED BY <2>1, <2>2
<1>14. ReadWasShown'
    <2>1. ASSUME NEW t \in DOMAIN sessions'
          PROVE  Unseen(rows', displayed', t) <= sessions'[t]
        <3>1. t \in Sessions BY <1>6 DEF Table
        <3>2. CASE t \in S
            <4>1. PICK u \in Counts : u = rows' BY <1>3
            <4>2. \A m \in Of(t) : u[m] = 0 BY <1>3, <3>2, <4>1 DEF Of
            <4>3. Unseen(u, displayed, t) = 0 BY <4>2, UnseenNone
            <4>4. QED BY <1>6, <1>7, <3>2, <4>1, <4>3
        <3>3. CASE t \notin S
            <4>1. \A m \in Of(t) : rows'[m] = rows[m] /\ rows[m] <= rows'[m]
                BY <1>1, <1>3, <3>3 DEF Of, Counts
            <4>2. Unseen(rows', displayed', t) <= CountOf(sessions, t)
                BY <1>3, <1>7, <3>1, <4>1, StillCounted
            <4>3. QED BY <1>6, <3>3, <4>2
        <3>4. QED BY <3>2, <3>3
    <2>2. QED BY <2>1, AllCounted
<1>15. TypeOK'
    <2>1. current' \in Sessions \cup {NoSession} /\ displayed' \subseteq Messages
        BY <1>1, <1>7
    <2>2. removed' \subseteq Messages /\ unsaved' \subseteq Sessions BY <1>1, <1>2
    <2>3. QED
        BY <1>3, <1>6, <1>13, <2>1, <2>2 DEF IInv, TypeOK, Counts, Table, connection
<1>16. QED BY <1>8, <1>9, <1>10, <1>11, <1>12, <1>13, <1>14, <1>15 DEF IInv

LEMMA DeleteInv ==
    ASSUME IInv, NEW s \in Sessions, DeleteSession(s)
    PROVE  IInv'
<1> USE InboxAssumption
<1>1. loggedIn
    <2>1. listed # NoSessions BY DEF DeleteSession, NoSessions
    <2>2. QED BY <2>1 DEF IInv, TypeOK
<1>2. /\ CloseIf(s = current) /\ listed' = sessions'
      /\ UNCHANGED <<opening, connection, notStored>>
    BY DEF DeleteSession, LoadSessions
<1>3. opening \in Groups \cup {NoSession} /\ Table(sessions) BY Typed
<1>4. CASE /\ RemoveMessages({s}) /\ sessions' = With(Without(sessions, {s}), {s} \cap Groups)
           /\ UNCHANGED faults
    <2>1. PICK S \in SUBSET Sessions : S = {s} OBVIOUS
    <2>2. PICK G \in SUBSET Groups : G = {s} \cap Groups OBVIOUS
    <2>3. opening \notin S \ G BY <1>3, <2>1, <2>2
    <2>4. CloseIf(current \in S) BY <1>2, <2>1 DEF CloseIf
    <2>5. RemoveMessages(S) /\ sessions' = With(Without(sessions, S), G)
        BY <1>4, <2>1, <2>2
    <2>6. QED BY <1>1, <1>2, <1>4, <2>3, <2>4, <2>5, RemoveInv
<1>5. CASE TransactionFails /\ UNCHANGED <<tables, removed, unsaved>>
    <2>1. /\ faults' = faults + 1 /\ faults' \in 0..MaxFaults /\ faults \in Nat
          /\ UNCHANGED <<rows, sessions, removed, unsaved>>
        BY <1>5, Typed DEF TransactionFails, tables
    <2>2. rows \in Counts /\ chat \in Counts /\ current \in Sessions \cup {NoSession} BY Typed
    <2>3. DeliveredIsStored' /\ RowsWithinFaults'
        BY <1>2, <2>1, DeliveryKept DEF connection
    <2>4. UNCHANGED displayed /\ current' \in {current, NoSession} BY <1>2 DEF CloseIf, Close
    <2>5. /\ CurrentIsRead' /\ OpeningIsStored' /\ UnseenHasSession' /\ ReadWasShown'
        BY <1>2, <2>1, <2>4 DEF IInv, CurrentIsRead, OpeningIsStored, UnseenHasSession,
           ReadWasShown
    <2>6. ChatMirrorsTable' /\ chat' \in Counts
        <3>1. CASE s = current
            BY <1>2, <2>1, <2>2, <3>1, ChatClosed DEF CloseIf, Close
        <3>2. CASE s # current
            BY <1>2, <2>1, <2>2, <3>2, ChatKept DEF CloseIf
        <3>3. QED BY <3>1, <3>2
    <2>7. ListRight'
        <3>1. \A t \in DOMAIN sessions' \ unsaved' : t = current' => sessions'[t] = 0
            BY <1>3, <2>1, <2>5 DEF CurrentIsRead, Table
        <3>2. QED BY <1>2, <3>1 DEF ListRight, ListMirrorsTable
    <2>8. TypeOK'
        BY <1>1, <1>2, <1>3, <2>1, <2>2, <2>4, <2>6 DEF IInv, TypeOK, Counts, Table, connection
    <2>9. QED BY <2>3, <2>5, <2>6, <2>7, <2>8 DEF IInv
<1>6. QED BY <1>4, <1>5 DEF DeleteSession

LEMMA GroupListInv ==
    ASSUME IInv, NEW G \in SUBSET Groups, ApplyGroupList(G)
    PROVE  IInv'
<1>1. loggedIn BY DEF ApplyGroupList, IInv, TypeOK
<1>2. PICK S : S = (DOMAIN sessions \cap Groups) \ G OBVIOUS
<1>3. S \in SUBSET Sessions BY <1>2, InboxAssumption
<1>4. opening \notin S \ G BY <1>2, InboxAssumption DEF ApplyGroupList
<1>5. /\ RemoveMessages(S) /\ sessions' = With(Without(sessions, S), G)
      /\ CloseIf(current \in S) /\ listed' = sessions'
      /\ UNCHANGED <<opening, connection, notStored, faults>>
    BY <1>2 DEF ApplyGroupList, LoadSessions
<1>6. QED BY <1>1, <1>3, <1>4, <1>5, RemoveInv

LEMMA GroupCreatedInv ==
    ASSUME IInv, NEW g \in Groups, OnGroupCreated(g)
    PROVE  IInv'
<1> USE InboxAssumption
<1>1. /\ rows \in Counts /\ Table(sessions) /\ current \in Sessions \cup {NoSession} BY Typed
<1>2. /\ online /\ g \notin DOMAIN sessions /\ sessions' = With(sessions, {g})
      /\ listed' = sessions' /\ opening' = g
      /\ UNCHANGED <<rows, current, chat, loggedIn, online, toDeliver, displayed, notStored,
                     removed, unsaved, faults>>
    BY DEF OnGroupCreated, LoadSessions, connection, observed
<1>3. /\ Table(sessions') /\ DOMAIN sessions' = DOMAIN sessions \cup {g}
      /\ \A x \in DOMAIN sessions' : sessions'[x] = CountOf(sessions, x)
    <2>1. PICK S \in SUBSET Sessions : S = {g} OBVIOUS
    <2>2. /\ Table(With(sessions, S)) /\ DOMAIN With(sessions, S) = DOMAIN sessions \cup S
          /\ \A x \in DOMAIN sessions \cup S : With(sessions, S)[x] = CountOf(sessions, x)
        BY <1>1, WithFacts
    <2>3. QED BY <1>2, <2>1, <2>2
<1>4. faults \in Nat BY Typed
<1>5. DeliveredIsStored' /\ RowsWithinFaults' BY <1>2, <1>4, DeliveryKept
<1>6. CurrentIsRead' BY <1>2, <1>3 DEF IInv, CurrentIsRead, CountOf
<1>7. OpeningIsStored' BY <1>2, <1>3 DEF OpeningIsStored
<1>8. UnseenHasSession' BY <1>2, <1>3 DEF IInv, UnseenHasSession
<1>9. ListRight'
    <2>1. \A t \in DOMAIN sessions' \ unsaved' : t = current' => sessions'[t] = 0
        BY <1>3, <1>6 DEF CurrentIsRead, Table
    <2>2. QED BY <1>2, <2>1 DEF ListRight, ListMirrorsTable
<1>10. ChatMirrorsTable' BY <1>1, <1>2, ChatKept
<1>11. ReadWasShown'
    <2>1. ASSUME NEW t \in DOMAIN sessions'
          PROVE  Unseen(rows', displayed', t) <= sessions'[t]
        <3>1. t \in Sessions BY <1>3 DEF Table
        <3>2. \A m \in Of(t) : rows'[m] = rows[m] /\ rows[m] <= rows'[m]
            BY <1>1, <1>2 DEF Of, Counts
        <3>3. Unseen(rows', displayed', t) <= CountOf(sessions, t)
            BY <1>1, <1>2, <3>1, <3>2, StillCounted
        <3>4. QED BY <1>3, <3>3
    <2>2. QED BY <2>1, AllCounted
<1>12. TypeOK'
    BY <1>2, <1>3 DEF IInv, TypeOK, Table
<1>13. QED BY <1>5, <1>6, <1>7, <1>8, <1>9, <1>10, <1>11, <1>12 DEF IInv

-----------------------------------------------------------------------------

LEMMA InitInv == Init => IInv
<1> SUFFICES ASSUME Init PROVE IInv
    OBVIOUS
<1> USE InboxAssumption
<1>1. rows \in Counts /\ \A m \in Messages : rows[m] = 0 BY DEF Init, NoneStored, Counts
<1>2. /\ DOMAIN sessions = {} /\ DOMAIN listed = {}
      /\ sessions \in [DOMAIN sessions -> Nat] /\ listed \in [DOMAIN listed -> Nat]
    BY DEF Init, NoSessions
<1>3. TypeOK
    <2>1. rows \in [Messages -> Nat] /\ chat \in [Messages -> Nat] BY DEF Init, NoneStored
    <2>2. faults \in 0..MaxFaults BY DEF Init
    <2>3. QED BY <1>2, <2>1, <2>2 DEF Init, TypeOK
<1>4. DeliveredIsStored /\ RowsWithinFaults
    BY <1>1 DEF Init, DeliveredIsStored, RowsWithinFaults, Incoming
<1>5. CurrentIsRead /\ OpeningIsStored /\ UnseenHasSession /\ ListRight
    BY <1>1 DEF Init, CurrentIsRead, OpeningIsStored, UnseenHasSession, ListRight
<1>6. ChatMirrorsTable
    <2>1. \A m \in Messages : SessionOf[m] # NoSession OBVIOUS
    <2>2. \A m \in Messages : Fetch(rows, NoSession)[m] = 0 BY <1>1, <2>1, FetchFacts
    <2>3. current = NoSession /\ \A m \in Messages : chat[m] = 0 BY DEF Init, NoneStored
    <2>4. QED BY <1>1, <2>1, <2>2, <2>3 DEF ChatMirrorsTable
<1>7. ReadWasShown BY <1>2 DEF ReadWasShown
<1>8. QED BY <1>3, <1>4, <1>5, <1>6, <1>7 DEF IInv

LEMMA StutterInv == IInv /\ UNCHANGED vars => IInv'
<1> SUFFICES ASSUME IInv, UNCHANGED vars PROVE IInv'
    OBVIOUS
<1>1. UNCHANGED <<rows, sessions, listed, current, chat, opening, loggedIn, online, toDeliver,
                  displayed, notStored, removed, unsaved, faults>>
    BY DEF vars, tables, views, connection, observed
<1>2. TypeOK' BY <1>1 DEF IInv, TypeOK
<1>3. ListRight' BY <1>1 DEF IInv, ListRight, ListMirrorsTable
<1>4. QED BY <1>1, <1>2, <1>3, TablesStay DEF IInv

LEMMA NextInv == IInv /\ [Next]_vars => IInv'
BY AuthInv, LostInv, ClearedInv, ReceiveInv, SendInv, SwitchInv, StartPrivateInv,
   FriendChangedInv, DeleteInv, GroupListInv, GroupCreatedInv, OpenNewInv, StutterInv DEF Next

LEMMA Invariance == Spec => []IInv
BY InitInv, NextInv, PTL DEF Spec

\* Every variable of the client keeps its type, for any messages, sessions and limit.
THEOREM TypeCorrect == Spec => []TypeOK
<1>1. IInv => TypeOK BY DEF IInv
<1>2. QED BY <1>1, Invariance, PTL

\* What the server counts as delivered is stored, unless a transaction failed or the session
\* was removed since, and at most once more for each fault (onIncomingMessage).
THEOREM DeliveredStored == Spec => []DeliveredIsStored
<1>1. IInv => DeliveredIsStored BY DEF IInv
<1>2. QED BY <1>1, Invariance, PTL

\* The session list and the open chat, kept by increments and reloads, say what the tables
\* say (SessionListModel, MessageListModel).
THEOREM ViewsMirror == Spec => []ViewsMirrorTables
<1>1. IInv => ViewsMirrorTables BY DEF IInv, ListRight, ViewsMirrorTables
<1>2. QED BY <1>1, Invariance, PTL

\* A message no chat has shown, within the limit of a chat, is among the unread messages of
\* its session (Session::processIncomingMessage, markRead).
THEOREM UnseenIsUnread == Spec => []ReadWasShown
<1>1. IInv => ReadWasShown BY DEF IInv
<1>2. QED BY <1>1, Invariance, PTL
=============================================================================
