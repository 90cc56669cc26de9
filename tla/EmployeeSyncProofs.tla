--------------------------- MODULE EmployeeSyncProofs --------------------------
(***************************************************************************)
(* Proofs about the Redis work queues and the employee synchronisation.    *)
(***************************************************************************)
EXTENDS EmployeeSync, FiniteSetTheorems, SequenceTheorems, WellFoundedInduction, TLAPS

\* A nonempty set of naturals has a least element.
LEMMA NatMin ==
  ASSUME NEW S \in SUBSET Nat, S # {}
  PROVE  Min(S) \in S /\ \A y \in S : Min(S) <= y
<1>1. PICK R : R = {ss \in Nat \X Nat : ss[1] < ss[2]}
  OBVIOUS
<1>2. IsWellFoundedOn(R, Nat)
  BY <1>1, NatLessThanWellFounded, Zenon DEF OpToRel
<1>3. S \subseteq Nat
  OBVIOUS
<1>4. PICK x \in S : \A y \in S : ~(<<y, x>> \in R)
  BY <1>2, <1>3, WFMin, Zenon
<1>5. \A y \in S : x =< y
  <2> SUFFICES ASSUME NEW y \in S PROVE x =< y
    OBVIOUS
  <2>1. x \in Nat /\ y \in Nat /\ ~(<<y, x>> \in R)
    BY <1>4
  <2>2. y < x => <<y, x>> \in R
    BY <1>1, <2>1
  <2> QED
    BY <2>1, <2>2
<1>6. \E z \in S : \A y \in S : z =< y
  BY <1>5
<1> QED
  BY <1>6 DEF Min

\* RemoveFirst takes one occurrence out.
LEMMA RemoveFirstIs ==
  ASSUME NEW S, NEW list \in Seq(S), NEW item, In(item, list)
  PROVE  \E i \in 1 .. Len(list) : list[i] = item /\ RemoveFirst(list, item) = RemoveAt(list, i)
<1> DEFINE I == {i \in 1 .. Len(list) : list[i] = item}
<1>1. PICK e \in I : TRUE
  BY DEF In
<1>2. I \in SUBSET Nat
  OBVIOUS
<1>3. Min(I) \in I
  BY <1>1, <1>2, NatMin
<1>4. RemoveFirst(list, item) = RemoveAt(list, Min(I))
  BY <1>1 DEF RemoveFirst, SelectInSeq
<1> QED
  BY <1>3, <1>4

\* Where the copies of an item are.
At(n, list) == {i \in DOMAIN list : list[i].n = n}

LEMMA CopiesFinite ==
  ASSUME NEW list \in Seq(Item), NEW n
  PROVE  /\ IsFiniteSet(At(n, list)) /\ Copies(n, list) = Cardinality(At(n, list))
         /\ Copies(n, list) \in Nat
         /\ Copies(n, list) = 0 <=> \A x : In(x, list) => x.n # n
<1>1. At(n, list) \subseteq 1 .. Len(list) /\ Len(list) \in Nat
  BY DEF At
<1>2. IsFiniteSet(1 .. Len(list))
  BY <1>1, FS_Interval
<1>3. IsFiniteSet(At(n, list))
  BY <1>1, <1>2, FS_Subset
<1>4. Copies(n, list) = Cardinality(At(n, list))
  BY DEF Copies, At
<1>5. Cardinality(At(n, list)) \in Nat
  BY <1>3, FS_CardinalityType
<1>6. Cardinality(At(n, list)) = 0 <=> At(n, list) = {}
  BY <1>3, FS_EmptySet
<1>7. At(n, list) = {} <=> \A x : In(x, list) => x.n # n
  BY DEF At, In
<1> QED
  BY <1>3, <1>4, <1>5, <1>6, <1>7

\* Appending.
LEMMA AppendIs ==
  ASSUME NEW list \in Seq(Item), NEW x \in Item
  PROVE  /\ Append(list, x) \in Seq(Item)
         /\ \A n : Copies(n, Append(list, x)) = Copies(n, list) + (IF x.n = n THEN 1 ELSE 0)
         /\ \A y : In(y, Append(list, x)) <=> In(y, list) \/ y = x
<1> DEFINE long == Append(list, x)
<1>1. /\ long \in Seq(Item) /\ Len(long) = Len(list) + 1 /\ Len(list) \in Nat
      /\ DOMAIN long = 1 .. Len(list) + 1 /\ DOMAIN list = 1 .. Len(list)
      /\ \A i \in 1 .. Len(list) : long[i] = list[i]
      /\ long[Len(list) + 1] = x
  OBVIOUS
<1> HIDE DEF long
<1>2. ASSUME NEW n PROVE Copies(n, long) = Copies(n, list) + (IF x.n = n THEN 1 ELSE 0)
  <2>1. At(n, long) = IF x.n = n THEN At(n, list) \cup {Len(list) + 1} ELSE At(n, list)
    BY <1>1 DEF At
  <2>2. Len(list) + 1 \notin At(n, list)
    BY <1>1 DEF At
  <2>3. IsFiniteSet(At(n, list)) /\ Copies(n, list) = Cardinality(At(n, list)) /\ Copies(n, list) \in Nat
    BY CopiesFinite
  <2>4. Cardinality(At(n, list) \cup {Len(list) + 1}) = Cardinality(At(n, list)) + 1
    BY <2>2, <2>3, FS_AddElement
  <2>5. Copies(n, long) = Cardinality(At(n, long))
    BY <1>1, CopiesFinite
  <2> QED
    BY <2>1, <2>3, <2>4, <2>5
<1>3. ASSUME NEW y PROVE In(y, long) <=> In(y, list) \/ y = x
  BY <1>1 DEF In
<1> QED
  BY <1>1, <1>2, <1>3 DEF long

\* Taking out the element at one position.
LEMMA RemoveAtIs ==
  ASSUME NEW list \in Seq(Item), NEW i \in 1 .. Len(list)
  PROVE  /\ RemoveAt(list, i) \in Seq(Item) /\ Len(RemoveAt(list, i)) = Len(list) - 1
         /\ \A j \in 1 .. Len(list) - 1 : RemoveAt(list, i)[j] = IF j < i THEN list[j] ELSE list[j + 1]
<1> DEFINE front == SubSeq(list, 1, i - 1)
           back  == SubSeq(list, i + 1, Len(list))
<1>1. Len(list) \in Nat /\ i \in Nat /\ i <= Len(list)
  OBVIOUS
<1>2. /\ front \in Seq(Item) /\ Len(front) = i - 1
      /\ \A j \in 1 .. i - 1 : front[j] = list[j]
  BY <1>1
<1>3. /\ back \in Seq(Item) /\ Len(back) = Len(list) - i
      /\ \A j \in 1 .. Len(list) - i : back[j] = list[i + j]
  BY <1>1
<1> HIDE DEF front, back
<1>4. /\ front \o back \in Seq(Item) /\ Len(front \o back) = Len(list) - 1
      /\ \A j \in 1 .. Len(list) - 1 : (front \o back)[j] = IF j <= i - 1 THEN front[j] ELSE back[j - (i - 1)]
  <2>1. /\ front \o back \in Seq(Item) /\ Len(front \o back) = Len(front) + Len(back)
        /\ \A j \in 1 .. Len(front) + Len(back) :
             (front \o back)[j] = IF j <= Len(front) THEN front[j] ELSE back[j - Len(front)]
    BY <1>2, <1>3, ConcatProperties
  <2>2. Len(front) + Len(back) = Len(list) - 1
    BY <1>1, <1>2, <1>3
  <2> QED
    BY <1>2, <2>1, <2>2
<1>5. ASSUME NEW j \in 1 .. Len(list) - 1
      PROVE  (front \o back)[j] = IF j < i THEN list[j] ELSE list[j + 1]
  <2>1. CASE j < i
    BY <1>1, <1>2, <1>4, <2>1
  <2>2. CASE ~(j < i)
    <3>1. j - (i - 1) \in 1 .. Len(list) - i /\ i + (j - (i - 1)) = j + 1
      BY <1>1, <2>2
    <3> QED
      BY <1>1, <1>3, <1>4, <2>2, <3>1
  <2> QED
    BY <2>1, <2>2
<1>6. RemoveAt(list, i) = front \o back
  BY DEF RemoveAt, front, back
<1> QED
  BY <1>4, <1>5, <1>6

LEMMA RemoveAtCopies ==
  ASSUME NEW list \in Seq(Item), NEW i \in 1 .. Len(list)
  PROVE  /\ RemoveAt(list, i) \in Seq(Item)
         /\ \A n : Copies(n, RemoveAt(list, i)) = Copies(n, list) - (IF list[i].n = n THEN 1 ELSE 0)
         /\ \A y : In(y, RemoveAt(list, i)) => In(y, list)
<1>1. PICK short : short = RemoveAt(list, i)
  OBVIOUS
<1>2. /\ short \in Seq(Item) /\ Len(short) = Len(list) - 1
      /\ \A j \in 1 .. Len(list) - 1 : short[j] = IF j < i THEN list[j] ELSE list[j + 1]
      /\ Len(list) \in Nat /\ i \in Nat
  <2>1. Len(list) \in Nat /\ i \in Nat
    OBVIOUS
  <2>2. /\ RemoveAt(list, i) \in Seq(Item) /\ Len(RemoveAt(list, i)) = Len(list) - 1
        /\ \A j \in 1 .. Len(list) - 1 : RemoveAt(list, i)[j] = IF j < i THEN list[j] ELSE list[j + 1]
    BY RemoveAtIs
  <2> QED
    BY <1>1, <2>1, <2>2, Zenon
<1>3. ASSUME NEW n PROVE Copies(n, short) = Copies(n, list) - (IF list[i].n = n THEN 1 ELSE 0)
  <2>1. PICK S : S = At(n, list) \ {i}
    OBVIOUS
  <2>2. PICK f : f = [j \in S |-> IF j < i THEN j ELSE j - 1]
    OBVIOUS
  <2>3. S \subseteq 1 .. Len(list) /\ i \notin S
    BY <2>1 DEF At
  <2>4. ASSUME NEW j \in S
        PROVE  f[j] \in At(n, short)
    <3>1. j \in 1 .. Len(list) /\ j # i /\ list[j].n = n
      BY <2>1 DEF At
    <3>2. f[j] = IF j < i THEN j ELSE j - 1
      BY <2>2
    <3>3. f[j] \in 1 .. Len(list) - 1 /\ short[f[j]] = list[j]
      BY <1>2, <3>1, <3>2
    <3> QED
      BY <1>2, <3>1, <3>3 DEF At
  <2>5. f \in [S -> At(n, short)]
    BY <2>2, <2>4
  <2>6. ASSUME NEW a \in S, NEW b \in S, f[a] = f[b] PROVE a = b
    <3>1. a \in Nat /\ b \in Nat /\ a # i /\ b # i /\ i \in Nat
      BY <1>2, <2>3
    <3>2. (IF a < i THEN a ELSE a - 1) = (IF b < i THEN b ELSE b - 1)
      BY <2>2, <2>6
    <3> QED
      BY <3>1, <3>2
  <2>7. ASSUME NEW t \in At(n, short) PROVE \E s \in S : f[s] = t
    <3>1. t \in 1 .. Len(list) - 1 /\ short[t].n = n
      BY <1>2 DEF At
    <3>2. PICK s : s = IF t < i THEN t ELSE t + 1
      OBVIOUS
    <3>3. s \in 1 .. Len(list) /\ s # i /\ short[t] = list[s]
      BY <1>2, <3>1, <3>2
    <3>4. s \in S
      BY <2>1, <3>1, <3>3 DEF At
    <3>5. f[s] = t
      BY <1>2, <2>2, <3>1, <3>2, <3>4
    <3> QED
      BY <3>4, <3>5
  <2>8. f \in Bijection(S, At(n, short))
    BY <2>5, <2>6, <2>7 DEF Bijection, Injection, Surjection, IsInjective
  <2>9. ExistsBijection(S, At(n, short))
    BY <2>8 DEF ExistsBijection
  <2>10. /\ IsFiniteSet(At(n, list)) /\ Copies(n, list) = Cardinality(At(n, list))
         /\ Copies(n, short) = Cardinality(At(n, short)) /\ Copies(n, list) \in Nat
    BY <1>2, CopiesFinite
  <2>11. /\ IsFiniteSet(S)
         /\ Cardinality(S) = IF i \in At(n, list) THEN Cardinality(At(n, list)) - 1
                             ELSE Cardinality(At(n, list))
    BY <2>1, <2>10, FS_RemoveElement
  <2>12. Cardinality(At(n, short)) = Cardinality(S)
    BY <2>9, <2>11, FS_Bijection
  <2>13. i \in At(n, list) <=> list[i].n = n
    BY DEF At
  <2> QED
    BY <2>10, <2>11, <2>12, <2>13
<1>4. ASSUME NEW y, In(y, short) PROVE In(y, list)
  <2>1. PICK j \in 1 .. Len(list) - 1 : short[j] = y
    BY <1>2, <1>4 DEF In
  <2>2. PICK k : k = IF j < i THEN j ELSE j + 1
    OBVIOUS
  <2>3. k \in 1 .. Len(list) /\ list[k] = y
    BY <1>2, <2>1, <2>2
  <2> QED
    BY <2>3 DEF In
<1> QED
  BY <1>1, <1>2, <1>3, <1>4

\* LREM with count 1.
LEMMA LremIs ==
  ASSUME NEW list \in Seq(Item), NEW x, In(x, list)
  PROVE  /\ x \in Item /\ RemoveFirst(list, x) \in Seq(Item)
         /\ \A n : Copies(n, RemoveFirst(list, x)) = Copies(n, list) - (IF x.n = n THEN 1 ELSE 0)
         /\ \A y : In(y, RemoveFirst(list, x)) => In(y, list)
         /\ Copies(x.n, list) = 1 => \A y : In(y, RemoveFirst(list, x)) => y.n # x.n
<1>1. PICK i \in 1 .. Len(list) : list[i] = x /\ RemoveFirst(list, x) = RemoveAt(list, i)
  BY RemoveFirstIs
<1>2. x \in Item
  BY <1>1
<1>3. /\ RemoveFirst(list, x) \in Seq(Item)
      /\ \A n : Copies(n, RemoveFirst(list, x)) = Copies(n, list) - (IF x.n = n THEN 1 ELSE 0)
      /\ \A y : In(y, RemoveFirst(list, x)) => In(y, list)
  BY <1>1, RemoveAtCopies
<1>4. ASSUME Copies(x.n, list) = 1 PROVE \A y : In(y, RemoveFirst(list, x)) => y.n # x.n
  <2>1. Copies(x.n, RemoveFirst(list, x)) = 0
    BY <1>3, <1>4
  <2> QED
    BY <1>3, <2>1, CopiesFinite
<1> QED
  BY <1>2, <1>3, <1>4

\* Taking the oldest element.
LEMMA TailIs ==
  ASSUME NEW list \in Seq(Item), list # << >>
  PROVE  /\ Head(list) \in Item /\ In(Head(list), list) /\ Tail(list) \in Seq(Item)
         /\ \A n : Copies(n, Tail(list)) = Copies(n, list) - (IF Head(list).n = n THEN 1 ELSE 0)
         /\ \A y : In(y, Tail(list)) => In(y, list)
         /\ Copies(Head(list).n, list) = 1 => \A y : In(y, Tail(list)) => y.n # Head(list).n
<1>1. Len(list) \in Nat \ {0} /\ Head(list) = list[1] /\ 1 \in 1 .. Len(list)
  OBVIOUS
<1>2. /\ RemoveAt(list, 1) \in Seq(Item) /\ Len(RemoveAt(list, 1)) = Len(list) - 1
      /\ \A j \in 1 .. Len(list) - 1 : RemoveAt(list, 1)[j] = IF j < 1 THEN list[j] ELSE list[j + 1]
  BY <1>1, RemoveAtIs
<1>3. Tail(list) \in Seq(Item) /\ Len(Tail(list)) = Len(list) - 1
      /\ \A j \in 1 .. Len(list) - 1 : Tail(list)[j] = list[j + 1]
  BY <1>1
<1>4. \A j \in 1 .. Len(list) - 1 : RemoveAt(list, 1)[j] = Tail(list)[j]
  BY <1>1, <1>2, <1>3
<1>5. Tail(list) = RemoveAt(list, 1)
  BY <1>2, <1>3, <1>4, SeqEqual
<1>6. /\ \A n : Copies(n, Tail(list)) = Copies(n, list) - (IF Head(list).n = n THEN 1 ELSE 0)
      /\ \A y : In(y, Tail(list)) => In(y, list)
  <2>1. /\ \A n : Copies(n, RemoveAt(list, 1)) = Copies(n, list) - (IF list[1].n = n THEN 1 ELSE 0)
        /\ \A y : In(y, RemoveAt(list, 1)) => In(y, list)
    BY <1>1, RemoveAtCopies
  <2> QED
    BY <1>1, <1>5, <2>1, Zenon
<1>7. Head(list) \in Item /\ In(Head(list), list)
  BY <1>1 DEF In
<1>8. ASSUME Copies(Head(list).n, list) = 1 PROVE \A y : In(y, Tail(list)) => y.n # Head(list).n
  <2>1. Copies(Head(list).n, Tail(list)) = 0
    BY <1>6, <1>8
  <2> QED
    BY <1>3, <2>1, CopiesFinite
<1> QED
  BY <1>3, <1>6, <1>7, <1>8

\* A single copy is one element.
LEMMA OneCopy ==
  ASSUME NEW list \in Seq(Item), NEW x, NEW y, In(x, list), In(y, list), x.n = y.n,
         Copies(x.n, list) = 1
  PROVE  x = y
<1>1. PICK i \in DOMAIN list, j \in DOMAIN list : list[i] = x /\ list[j] = y
  BY DEF In
<1>2. i \in At(x.n, list) /\ j \in At(x.n, list)
  BY <1>1 DEF At
<1>3. IsFiniteSet(At(x.n, list)) /\ Cardinality(At(x.n, list)) = 1
  BY CopiesFinite
<1>4. PICK e : At(x.n, list) = {e}
  BY <1>3, FS_Singleton
<1> QED
  BY <1>1, <1>2, <1>4
--------------------------------------------------------------------------------
(* The lists and the claims.                                               *)

Claim == [n : 0 .. MaxItems, ttl : 0 .. ClaimTTL]

\* An item that is still to be worked on.
Live(x) == In(x, source) \/ In(x, processing)

\* Numbers come from the counter.
Numbered ==
    /\ \A x : Live(x) \/ In(x, dead) => x.n <= issued
    /\ \A n \in acked : n <= issued

\* Waiting items are unmarked, and no live item has used up its attempts.
Waiting ==
    /\ \A x : In(x, source) => ~x.marked
    /\ \A x : Live(x) => x.att < MaxAttempts

\* A claim belongs to an item of its key.
ClaimsOwned ==
    \A k \in Keys : claim[k].ttl > 0 =>
        /\ claim[k].n \in 1 .. issued
        /\ \A x : Live(x) /\ x.n = claim[k].n => x.key = k

ListTypes ==
    /\ source \in Seq(Item) /\ processing \in Seq(Item) /\ dead \in Seq(Item)
    /\ acked \subseteq Numbers
    /\ issued \in 0 .. MaxItems
    /\ claim \in [Keys -> Claim]

ListInv == ListTypes /\ Numbered /\ Waiting /\ NothingLostOrDoubled /\ ClaimsOwned /\ ClaimIsLive

\* What a live item is after a step: the item it was, marked perhaps, or an item
\* with a higher attempt number, or a new one.
Later(x, y) == x.att < y.att \/ (x.att = y.att /\ (x.marked => y.marked))

Advances == \A y : Live(y)' => y.n > issued \/ \E x : Live(x) /\ x.n = y.n /\ Later(x, y)

LEMMA ItemIs ==
  ASSUME NEW x \in Item
  PROVE  /\ x.n \in 1 .. MaxItems /\ x.n \in Nat /\ x.att \in 0 .. MaxAttempts /\ x.att \in Nat
         /\ x.marked \in BOOLEAN /\ x.key \in Keys \cup {NoKey}
         /\ MaxItems \in Nat /\ MaxAttempts \in Nat \ {0} /\ ClaimTTL \in Nat \ {0}
<1>1. MaxItems \in Nat /\ MaxAttempts \in Nat \ {0} /\ ClaimTTL \in Nat \ {0}
  BY QueueConstants
<1> QED
  BY <1>1 DEF Item, Numbers

LEMMA Counted ==
  ASSUME ListInv
  PROVE  /\ \A n : Copies(n, source) \in Nat /\ Copies(n, processing) \in Nat /\ Copies(n, dead) \in Nat
         /\ issued \in Nat /\ issued <= MaxItems /\ MaxItems \in Nat
         /\ \A x : In(x, source) => x \in Item /\ x.n \in 1 .. issued /\ Copies(x.n, source) # 0
         /\ \A x : In(x, processing) => x \in Item /\ x.n \in 1 .. issued /\ Copies(x.n, processing) # 0
<1>1. /\ source \in Seq(Item) /\ processing \in Seq(Item) /\ dead \in Seq(Item)
      /\ issued \in 0 .. MaxItems
  BY DEF ListInv, ListTypes
<1>2. MaxItems \in Nat
  BY QueueConstants
<1>3. \A n : Copies(n, source) \in Nat /\ Copies(n, processing) \in Nat /\ Copies(n, dead) \in Nat
  BY <1>1, CopiesFinite
<1>4. ASSUME NEW x, In(x, source) PROVE x \in Item /\ x.n \in 1 .. issued /\ Copies(x.n, source) # 0
  <2>1. x \in Item
    BY <1>1, <1>4 DEF In
  <2>2. x.n <= issued
    BY <1>4 DEF ListInv, Numbered, Live
  <2>3. Copies(x.n, source) # 0
    BY <1>1, <1>4, CopiesFinite
  <2> QED
    BY <1>1, <1>2, <2>1, <2>2, <2>3, ItemIs
<1>5. ASSUME NEW x, In(x, processing) PROVE x \in Item /\ x.n \in 1 .. issued /\ Copies(x.n, processing) # 0
  <2>1. x \in Item
    BY <1>1, <1>5 DEF In
  <2>2. x.n <= issued
    BY <1>5 DEF ListInv, Numbered, Live
  <2>3. Copies(x.n, processing) # 0
    BY <1>1, <1>5, CopiesFinite
  <2> QED
    BY <1>1, <1>2, <2>1, <2>2, <2>3, ItemIs
<1> QED
  BY <1>1, <1>2, <1>3, <1>4, <1>5

\* An item in the processing list is nowhere else.
LEMMA InProcessing ==
  ASSUME ListInv, NEW x, In(x, processing)
  PROVE  /\ x \in Item /\ x.n \in 1 .. issued /\ x.att < MaxAttempts
         /\ Copies(x.n, processing) = 1 /\ Copies(x.n, source) = 0 /\ Copies(x.n, dead) = 0
         /\ x.n \notin acked
         /\ \A y : Live(y) /\ y.n = x.n => y = x
<1>1. x \in Item /\ x.n \in 1 .. issued /\ Copies(x.n, processing) # 0
  BY Counted
<1>2. Copies(x.n, source) \in Nat /\ Copies(x.n, processing) \in Nat /\ Copies(x.n, dead) \in Nat
  BY Counted
<1>3. Copies(x.n, source) + Copies(x.n, processing) + Copies(x.n, dead)
        + (IF x.n \in acked THEN 1 ELSE 0) = 1
  BY <1>1 DEF ListInv, NothingLostOrDoubled
<1>4. /\ Copies(x.n, processing) = 1 /\ Copies(x.n, source) = 0 /\ Copies(x.n, dead) = 0
      /\ x.n \notin acked
  BY <1>1, <1>2, <1>3
<1>5. x.att < MaxAttempts
  BY DEF ListInv, Waiting, Live
<1>6. source \in Seq(Item) /\ processing \in Seq(Item)
  BY DEF ListInv, ListTypes
<1>7. ASSUME NEW y, Live(y), y.n = x.n PROVE y = x
  <2>1. ~In(y, source)
    BY <1>4, <1>6, <1>7, CopiesFinite
  <2>2. In(y, processing)
    BY <1>7, <2>1 DEF Live
  <2> QED
    BY <1>4, <1>6, <1>7, <2>2, OneCopy
<1> QED
  BY <1>1, <1>4, <1>5, <1>7

LEMMA InSource ==
  ASSUME ListInv, NEW x, In(x, source)
  PROVE  /\ x \in Item /\ x.n \in 1 .. issued /\ x.att < MaxAttempts /\ ~x.marked
         /\ Copies(x.n, source) = 1 /\ Copies(x.n, processing) = 0 /\ Copies(x.n, dead) = 0
         /\ x.n \notin acked
<1>1. x \in Item /\ x.n \in 1 .. issued /\ Copies(x.n, source) # 0
  BY Counted
<1>2. Copies(x.n, source) \in Nat /\ Copies(x.n, processing) \in Nat /\ Copies(x.n, dead) \in Nat
  BY Counted
<1>3. Copies(x.n, source) + Copies(x.n, processing) + Copies(x.n, dead)
        + (IF x.n \in acked THEN 1 ELSE 0) = 1
  BY <1>1 DEF ListInv, NothingLostOrDoubled
<1>4. x.att < MaxAttempts /\ ~x.marked
  BY DEF ListInv, Waiting, Live
<1> QED
  BY <1>1, <1>2, <1>3, <1>4

\* Only the claim an item took itself is released with it.
LEMMA ReleasedIs ==
  ASSUME claim \in [Keys -> Claim], NEW x
  PROVE  /\ Released(x) \in [Keys -> Claim]
         /\ \A k \in Keys :
              /\ Released(x)[k].n = claim[k].n
              /\ Released(x)[k].ttl > 0 =>
                   Released(x)[k] = claim[k] /\ ~(Ticketed /\ x.key = k /\ claim[k].n = x.n)
              /\ claim[k].ttl > 0 /\ Released(x)[k].ttl = 0 => claim[k].n = x.n
<1>1. ClaimTTL \in Nat
  BY QueueConstants
<1>2. CASE Ticketed /\ x.key \in Keys /\ claim[x.key].n = x.n
  <2>1. Released(x) = [claim EXCEPT ![x.key].ttl = 0]
    BY <1>2, Zenon DEF Released
  <2>2. PICK key \in Keys : key = x.key
    BY <1>2
  <2>3. PICK c \in Claim : c = [claim[key] EXCEPT !.ttl = 0]
    <3>1. claim[key] \in Claim /\ 0 \in 0 .. ClaimTTL
      BY <1>1
    <3>2. [claim[key] EXCEPT !.ttl = 0] \in Claim
      BY <3>1 DEF Claim
    <3> QED
      BY <3>2
  <2>4. c.n = claim[key].n /\ c.ttl = 0
    BY <2>3 DEF Claim
  <2>5. Released(x) = [claim EXCEPT ![key] = c]
    BY <2>1, <2>2, <2>3
  <2>6. \A k \in Keys : Released(x)[k] = IF k = key THEN c ELSE claim[k]
    BY <2>5
  <2>7. Released(x) \in [Keys -> Claim]
    BY <2>5
  <2>8. ASSUME NEW k \in Keys
        PROVE  /\ Released(x)[k].n = claim[k].n
               /\ Released(x)[k].ttl > 0 => Released(x)[k] = claim[k] /\ x.key # k
               /\ claim[k].ttl > 0 /\ Released(x)[k].ttl = 0 => claim[k].n = x.n
    <3>1. CASE k = key
      BY <1>2, <2>2, <2>4, <2>6, <3>1
    <3>2. CASE k # key
      <4>1. Released(x)[k] = claim[k] /\ claim[k] \in Claim
        BY <2>6, <3>2
      <4> QED
        BY <2>2, <3>2, <4>1 DEF Claim
    <3> QED
      BY <3>1, <3>2
  <2> QED
    BY <2>7, <2>8
<1>3. CASE ~(Ticketed /\ x.key \in Keys /\ claim[x.key].n = x.n)
  <2>1. Released(x) = claim
    BY <1>3, Zenon DEF Released
  <2>2. \A k \in Keys : ~(Ticketed /\ x.key = k /\ claim[k].n = x.n)
    BY <1>3, Zenon
  <2>3. \A k \in Keys : ~(claim[k].ttl > 0 /\ claim[k].ttl = 0)
    BY DEF Claim
  <2> QED
    BY <2>1, <2>2, <2>3, Zenon
<1> QED
  BY <1>2, <1>3, Zenon
\* Where an item number is counted.
Pending(n) == Copies(n, source) + Copies(n, processing)
Total(n) == Pending(n) + Copies(n, dead) + (IF n \in acked THEN 1 ELSE 0)

\* What every step but an enqueue has to show.
LEMMA ListStep ==
  ASSUME ListInv, ListTypes', issued' = issued,
         \A n \in 1 .. issued : Total(n)' = Total(n),
         \A y : Live(y)' => /\ y.att < MaxAttempts
                            /\ \E x : Live(x) /\ x.n = y.n /\ x.key = y.key /\ Later(x, y),
         \A y : In(y, source)' => ~y.marked,
         \A y : In(y, dead)' => y.n <= issued,
         \A n \in acked' : n <= issued,
         \A k \in Keys : claim'[k].ttl > 0 =>
            /\ claim[k].ttl > 0 /\ claim'[k].n = claim[k].n
            /\ Ticketed => \A n : n = claim[k].n => Pending(n)' = Pending(n)
  PROVE  ListInv' /\ Advances
<1>1. Numbered'
  <2>1. ASSUME NEW y, Live(y)' PROVE y.n <= issued'
    <3>1. PICK x : Live(x) /\ x.n = y.n
      BY <2>1
    <3>2. x.n <= issued
      BY <3>1 DEF ListInv, Numbered
    <3> QED
      BY <3>1, <3>2
  <2>2. \A y : In(y, dead)' => y.n <= issued'
    OBVIOUS
  <2>3. \A n \in acked' : n <= issued'
    OBVIOUS
  <2> QED
    BY <2>1, <2>2, <2>3, Zenon DEF Numbered
<1>2. Waiting'
  <2>1. \A y : Live(y)' => y.att < MaxAttempts
    BY Zenon
  <2> QED
    BY <2>1, Zenon DEF Waiting
<1>3. NothingLostOrDoubled'
  <2>1. ASSUME NEW n \in 1 .. issued PROVE Total(n)' = 1
    <3>1. Total(n) = 1
      BY DEF ListInv, NothingLostOrDoubled, Total, Pending
    <3> QED
      BY <3>1
  <2>2. ASSUME NEW n \in 1 .. issued'
        PROVE  (Copies(n, source) + Copies(n, processing) + Copies(n, dead)
                 + (IF n \in acked THEN 1 ELSE 0) = 1)'
    BY <2>1 DEF Total, Pending
  <2> QED
    BY <2>2 DEF NothingLostOrDoubled
<1>4. ClaimsOwned'
  <2>1. ASSUME NEW k \in Keys, claim'[k].ttl > 0
        PROVE  claim'[k].n \in 1 .. issued' /\ \A y : Live(y)' /\ y.n = claim'[k].n => y.key = k
    <3>1. claim[k].ttl > 0 /\ claim'[k].n = claim[k].n
      BY <2>1
    <3>2. claim[k].n \in 1 .. issued /\ \A x : Live(x) /\ x.n = claim[k].n => x.key = k
      BY <3>1, Zenon DEF ListInv, ClaimsOwned
    <3>3. ASSUME NEW y, Live(y)', y.n = claim'[k].n PROVE y.key = k
      <4>1. PICK x : Live(x) /\ x.n = y.n /\ x.key = y.key
        BY <3>3
      <4> QED
        BY <3>1, <3>2, <3>3, <4>1
    <3> QED
      BY <3>1, <3>2, <3>3, Zenon
  <2> QED
    BY <2>1, Zenon DEF ClaimsOwned
<1>5. ClaimIsLive'
  <2>1. ASSUME Ticketed, NEW k \in Keys, claim'[k].ttl > 0
        PROVE  (Copies(claim[k].n, source) + Copies(claim[k].n, processing) = 1)'
    <3>1. PICK n : n = claim[k].n
      OBVIOUS
    <3>2. claim[k].ttl > 0 /\ claim'[k].n = n /\ Pending(n)' = Pending(n)
      BY <2>1, <3>1
    <3>3. Pending(n) = 1
      BY <2>1, <3>1, <3>2 DEF ListInv, ClaimIsLive, Pending
    <3>4. Pending(n)' = 1
      BY <3>2, <3>3
    <3>5. (Copies(n, source) + Copies(n, processing))' = 1
      BY <3>4 DEF Pending
    <3> QED
      BY <3>2, <3>5, Zenon
  <2> QED
    BY <2>1 DEF ClaimIsLive
<1>6. Advances
  BY Zenon DEF Advances
<1> QED
  BY <1>1, <1>2, <1>3, <1>4, <1>5, <1>6 DEF ListInv

\* An item leaves the processing list for good: acknowledged or buried.
LEMMA Settling ==
  ASSUME ListInv, NEW x, In(x, processing),
         processing' = RemoveFirst(processing, x), source' = source, issued' = issued,
         claim' = Released(x),
         \/ acked' = acked \cup {x.n} /\ dead' = dead
         \/ acked' = acked /\ \E z \in Item : z.n = x.n /\ dead' = Append(dead, z)
  PROVE  /\ ListInv' /\ Advances
         /\ x.n \in acked' \ acked \/ Copies(x.n, dead) < Copies(x.n, dead')
<1>1. /\ source \in Seq(Item) /\ processing \in Seq(Item) /\ dead \in Seq(Item)
      /\ acked \subseteq Numbers /\ issued \in 0 .. MaxItems /\ claim \in [Keys -> Claim]
  BY DEF ListInv, ListTypes
<1>2. /\ x \in Item /\ x.n \in 1 .. issued /\ x.n \notin acked
      /\ \A y : Live(y) /\ y.n = x.n => y = x
  BY InProcessing
<1>3. /\ processing' \in Seq(Item)
      /\ \A n : Copies(n, processing') = Copies(n, processing) - (IF x.n = n THEN 1 ELSE 0)
      /\ \A y : In(y, processing') => In(y, processing)
  BY <1>1, LremIs
<1>4. x.n \in Numbers
  BY <1>2 DEF Item
<1>5. \A n : Copies(n, source) \in Nat /\ Copies(n, processing) \in Nat /\ Copies(n, dead) \in Nat
  BY Counted
<1>6. PICK a \in {0, 1} :
        /\ \A n : Copies(n, dead') = Copies(n, dead) + (IF x.n = n THEN a ELSE 0)
        /\ acked' = IF a = 0 THEN acked \cup {x.n} ELSE acked
        /\ dead' \in Seq(Item)
        /\ \A y : In(y, dead') => In(y, dead) \/ y.n = x.n
  <2>1. CASE acked' = acked \cup {x.n} /\ dead' = dead
    <3>1. \A n : Copies(n, dead') = Copies(n, dead) + (IF x.n = n THEN 0 ELSE 0)
      BY <1>5, <2>1
    <3> QED
      BY <1>1, <2>1, <3>1
  <2>2. CASE acked' = acked /\ \E z \in Item : z.n = x.n /\ dead' = Append(dead, z)
    <3>1. PICK z \in Item : z.n = x.n /\ dead' = Append(dead, z)
      BY <2>2
    <3>2. /\ Append(dead, z) \in Seq(Item)
          /\ \A n : Copies(n, Append(dead, z)) = Copies(n, dead) + (IF z.n = n THEN 1 ELSE 0)
          /\ \A y : In(y, Append(dead, z)) <=> In(y, dead) \/ y = z
      BY <1>1, AppendIs
    <3> QED
      BY <2>2, <3>1, <3>2
  <2> QED
    BY <2>1, <2>2
<1>7. ListTypes'
  <2>1. claim' \in [Keys -> Claim]
    BY <1>1, ReleasedIs
  <2>2. acked' \subseteq Numbers
    BY <1>1, <1>4, <1>6
  <2> QED
    BY <1>1, <1>3, <1>6, <2>1, <2>2 DEF ListTypes
<1>8. ASSUME NEW n \in 1 .. issued PROVE Total(n)' = Total(n)
  <2>1. Copies(n, processing') = Copies(n, processing) - (IF x.n = n THEN 1 ELSE 0)
    BY <1>3
  <2>2. Copies(n, dead') = Copies(n, dead) + (IF x.n = n THEN a ELSE 0)
    BY <1>6
  <2>3. (IF n \in acked' THEN 1 ELSE 0) = (IF n \in acked THEN 1 ELSE 0) + (IF x.n = n THEN 1 - a ELSE 0)
    BY <1>2, <1>6
  <2>4. Total(n)' = Copies(n, source') + Copies(n, processing') + Copies(n, dead') + (IF n \in acked' THEN 1 ELSE 0)
    BY DEF Total, Pending
  <2>5. Total(n) = Copies(n, source) + Copies(n, processing) + Copies(n, dead) + (IF n \in acked THEN 1 ELSE 0)
    BY DEF Total, Pending
  <2>6. Copies(n, source') = Copies(n, source)
    BY Zenon
  <2>7. /\ Copies(n, source) \in Nat /\ Copies(n, processing) \in Nat /\ Copies(n, dead) \in Nat
        /\ a \in Int /\ (IF n \in acked THEN 1 ELSE 0) \in Int
    BY <1>5
  <2>8. CASE x.n = n
    <3>1. /\ Copies(n, processing') = Copies(n, processing) - 1 /\ Copies(n, dead') = Copies(n, dead) + a
          /\ (IF n \in acked' THEN 1 ELSE 0) = (IF n \in acked THEN 1 ELSE 0) + (1 - a)
      BY <2>1, <2>2, <2>3, <2>8
    <3> QED
      BY SMTT(30), <2>4, <2>5, <2>6, <2>7, <3>1
  <2>9. CASE x.n # n
    <3>1. /\ Copies(n, processing') = Copies(n, processing) /\ Copies(n, dead') = Copies(n, dead)
          /\ (IF n \in acked' THEN 1 ELSE 0) = (IF n \in acked THEN 1 ELSE 0)
      BY <2>1, <2>2, <2>3, <2>7, <2>9
    <3> QED
      BY <2>4, <2>5, <2>6, <2>7, <3>1
  <2> QED
    BY <2>8, <2>9
<1>9. ASSUME NEW y, Live(y)' PROVE Live(y) /\ y.n \in Nat /\ y.att \in Nat
  <2>1. Live(y)
    BY <1>3, <1>9 DEF Live
  <2>2. y \in Item
    BY <2>1, Counted DEF Live
  <2> QED
    BY <2>1, <2>2, ItemIs
<1>10. ASSUME NEW y, Live(y)'
       PROVE  y.att < MaxAttempts /\ \E u : Live(u) /\ u.n = y.n /\ u.key = y.key /\ Later(u, y)
  <2>1. y.att < MaxAttempts
    BY <1>9, <1>10 DEF ListInv, Waiting
  <2>2. Later(y, y)
    BY DEF Later
  <2> QED
    BY <1>9, <1>10, <2>1, <2>2, Zenon
<1>11. \A y : In(y, source)' => ~y.marked
  BY DEF ListInv, Waiting
<1>12. \A y : In(y, dead)' => y.n <= issued
  BY <1>2, <1>6 DEF ListInv, Numbered
<1>13. \A n \in acked' : n <= issued
  BY <1>2, <1>6 DEF ListInv, Numbered
<1>14. ASSUME NEW k \in Keys, claim'[k].ttl > 0
       PROVE  /\ claim[k].ttl > 0 /\ claim'[k].n = claim[k].n
              /\ Ticketed => \A n : n = claim[k].n => Pending(n)' = Pending(n)
  <2>1. claim'[k] = claim[k] /\ ~(Ticketed /\ x.key = k /\ claim[k].n = x.n)
    BY <1>1, <1>14, ReleasedIs
  <2>2. claim[k].ttl > 0
    BY <1>14, <2>1
  <2>3. claim[k].n = x.n => x.key = k
    BY <2>2, Zenon DEF ListInv, ClaimsOwned, Live
  <2>4. ASSUME Ticketed, NEW n, n = claim[k].n PROVE Pending(n)' = Pending(n)
    <3>1. n # x.n
      BY <2>1, <2>3, <2>4
    <3>2. Copies(n, processing') = Copies(n, processing)
      BY <1>3, <1>5, <3>1
    <3> QED
      BY <3>2 DEF Pending
  <2> QED
    BY <2>1, <2>2, <2>4
<1>15. ListInv' /\ Advances
  BY <1>7, <1>8, <1>10, <1>11, <1>12, <1>13, <1>14, ListStep
<1>16. x.n \in acked' \ acked \/ Copies(x.n, dead) < Copies(x.n, dead')
  <2>1. CASE a = 0
    BY <1>2, <1>6, <2>1
  <2>2. CASE a = 1
    <3>1. Copies(x.n, dead') = Copies(x.n, dead) + 1
      BY <1>6, <2>2
    <3> QED
      BY <1>5, <3>1
  <2> QED
    BY <2>1, <2>2
<1> QED
  BY <1>15, <1>16
\* An item moves within the live lists: back to the source with one more
\* attempt, from the source to the processing list, or in place to its marked form.
LEMMA Moving ==
  ASSUME ListInv, ListTypes', NEW x, NEW z \in Item, Live(x),
         z.n = x.n, z.key = x.key, z.att < MaxAttempts, Later(x, z),
         issued' = issued, dead' = dead, acked' = acked, claim' = claim,
         \A n : Pending(n)' = Pending(n),
         \A y : Live(y)' => Live(y) \/ y = z,
         \A y : In(y, source)' => ~y.marked
  PROVE  ListInv' /\ Advances
<1>1. ASSUME NEW n \in 1 .. issued PROVE Total(n)' = Total(n)
  <2>1. Pending(n)' = Pending(n)
    OBVIOUS
  <2>2. Copies(n, dead)' = Copies(n, dead) /\ (n \in acked)' = (n \in acked)
    BY Zenon
  <2> QED
    BY <2>1, <2>2 DEF Total
<1>2. ASSUME NEW y, Live(y)'
      PROVE  y.att < MaxAttempts /\ \E u : Live(u) /\ u.n = y.n /\ u.key = y.key /\ Later(u, y)
  <2>1. CASE Live(y)
    <3>1. y \in Item
      BY <2>1, Counted DEF Live
    <3>2. Later(y, y)
      BY <3>1, ItemIs DEF Later
    <3>3. y.att < MaxAttempts
      BY <2>1 DEF ListInv, Waiting
    <3> QED
      BY <2>1, <3>2, <3>3, Zenon
  <2>2. CASE y = z
    BY <2>2
  <2> QED
    BY <1>2, <2>1, <2>2
<1>3. \A y : In(y, dead)' => y.n <= issued
  BY DEF ListInv, Numbered
<1>4. \A n \in acked' : n <= issued
  BY DEF ListInv, Numbered
<1>5. ASSUME NEW k \in Keys, claim'[k].ttl > 0
      PROVE  /\ claim[k].ttl > 0 /\ claim'[k].n = claim[k].n
             /\ Ticketed => \A n : n = claim[k].n => Pending(n)' = Pending(n)
  BY <1>5
<1> QED
  BY <1>1, <1>2, <1>3, <1>4, <1>5, ListStep

\* LREM and RPUSH to the source.
LEMMA Returning ==
  ASSUME ListInv, NEW x, In(x, processing), Rewritten(x).att < MaxAttempts,
         processing' = RemoveFirst(processing, x), source' = Append(source, Rewritten(x)),
         issued' = issued, dead' = dead, acked' = acked, claim' = claim
  PROVE  ListInv' /\ Advances
<1>1. /\ source \in Seq(Item) /\ processing \in Seq(Item) /\ dead \in Seq(Item)
      /\ acked \subseteq Numbers /\ issued \in 0 .. MaxItems /\ claim \in [Keys -> Claim]
  BY DEF ListInv, ListTypes
<1>2. x \in Item /\ x.att < MaxAttempts
  BY InProcessing
<1>3. PICK z : z = Rewritten(x)
  OBVIOUS
<1>4. z.n = x.n /\ z.key = x.key /\ z.att = x.att + 1 /\ z.marked = FALSE /\ z \in Item
  <2>1. x.att + 1 \in 0 .. MaxAttempts /\ FALSE \in BOOLEAN
    BY <1>2, ItemIs
  <2> QED
    BY <1>2, <1>3, <2>1 DEF Rewritten, Item
<1>5. /\ processing' \in Seq(Item)
      /\ \A n : Copies(n, processing') = Copies(n, processing) - (IF x.n = n THEN 1 ELSE 0)
      /\ \A y : In(y, processing') => In(y, processing)
  BY <1>1, LremIs
<1>6. /\ source' \in Seq(Item)
      /\ \A n : Copies(n, source') = Copies(n, source) + (IF z.n = n THEN 1 ELSE 0)
      /\ \A y : In(y, source') <=> In(y, source) \/ y = z
  <2>1. source' = Append(source, z)
    BY <1>3
  <2>2. /\ Append(source, z) \in Seq(Item)
        /\ \A n : Copies(n, Append(source, z)) = Copies(n, source) + (IF z.n = n THEN 1 ELSE 0)
        /\ \A y : In(y, Append(source, z)) <=> In(y, source) \/ y = z
    BY <1>1, <1>4, AppendIs
  <2> QED
    BY <2>1, <2>2, Zenon
<1>7. ListTypes'
  BY <1>1, <1>5, <1>6 DEF ListTypes
<1>8. ASSUME NEW n PROVE Pending(n)' = Pending(n)
  <2>1. Copies(n, source) \in Nat /\ Copies(n, processing) \in Nat
    BY Counted
  <2>2. Pending(n)' = Copies(n, source') + Copies(n, processing')
    BY DEF Pending
  <2>3. Copies(n, source') + Copies(n, processing') = Copies(n, source) + Copies(n, processing)
    <3>1. Copies(n, source') = Copies(n, source) + (IF z.n = n THEN 1 ELSE 0)
      BY <1>6
    <3>2. Copies(n, processing') = Copies(n, processing) - (IF x.n = n THEN 1 ELSE 0)
      BY <1>5
    <3>3. z.n = x.n
      BY <1>4
    <3> QED
      BY <2>1, <3>1, <3>2, <3>3
  <2> QED
    BY <2>2, <2>3 DEF Pending
<1>9. \A y : Live(y)' => Live(y) \/ y = z
  BY <1>5, <1>6 DEF Live
<1>10. \A y : In(y, source)' => ~y.marked
  BY <1>4, <1>6 DEF ListInv, Waiting
<1>11. Live(x) /\ Later(x, z)
  BY <1>2, <1>4, ItemIs DEF Live, Later
<1>12. z.att < MaxAttempts
  BY <1>3
<1> QED
  BY <1>4, <1>7, <1>8, <1>9, <1>10, <1>11, <1>12, Moving

\* The mark of a worker replaces the item in the processing list.
LEMMA Marking ==
  ASSUME ListInv, NEW x, In(x, processing),
         processing' = Append(RemoveFirst(processing, x), [x EXCEPT !.marked = TRUE]),
         source' = source, issued' = issued, dead' = dead, acked' = acked, claim' = claim
  PROVE  ListInv' /\ Advances /\ \A y : Live(y)' /\ y.n = x.n => y = [x EXCEPT !.marked = TRUE]
<1>1. /\ source \in Seq(Item) /\ processing \in Seq(Item) /\ dead \in Seq(Item)
      /\ acked \subseteq Numbers /\ issued \in 0 .. MaxItems /\ claim \in [Keys -> Claim]
  BY DEF ListInv, ListTypes
<1>2. /\ x \in Item /\ x.att < MaxAttempts /\ Copies(x.n, processing) = 1 /\ Copies(x.n, source) = 0
  BY InProcessing
<1>3. PICK z : z = [x EXCEPT !.marked = TRUE]
  OBVIOUS
<1>4. z.n = x.n /\ z.key = x.key /\ z.att = x.att /\ z.marked /\ z \in Item
  BY <1>2, <1>3 DEF Item
<1>5. PICK rest : rest = RemoveFirst(processing, x)
  OBVIOUS
<1>6. /\ rest \in Seq(Item)
      /\ \A n : Copies(n, rest) = Copies(n, processing) - (IF x.n = n THEN 1 ELSE 0)
      /\ \A y : In(y, rest) => In(y, processing)
      /\ \A y : In(y, rest) => y.n # x.n
  <2>1. /\ RemoveFirst(processing, x) \in Seq(Item)
        /\ \A n : Copies(n, RemoveFirst(processing, x))
                   = Copies(n, processing) - (IF x.n = n THEN 1 ELSE 0)
        /\ \A y : In(y, RemoveFirst(processing, x)) => In(y, processing)
        /\ \A y : In(y, RemoveFirst(processing, x)) => y.n # x.n
    BY <1>1, <1>2, LremIs, Zenon
  <2> QED
    BY <1>5, <2>1, Zenon
<1>7. /\ processing' \in Seq(Item)
      /\ \A n : Copies(n, processing') = Copies(n, rest) + (IF z.n = n THEN 1 ELSE 0)
      /\ \A y : In(y, processing') <=> In(y, rest) \/ y = z
  <2>1. processing' = Append(rest, z)
    BY <1>3, <1>5
  <2>2. /\ Append(rest, z) \in Seq(Item)
        /\ \A n : Copies(n, Append(rest, z)) = Copies(n, rest) + (IF z.n = n THEN 1 ELSE 0)
        /\ \A y : In(y, Append(rest, z)) <=> In(y, rest) \/ y = z
    BY <1>4, <1>6, AppendIs
  <2> QED
    BY <2>1, <2>2, Zenon
<1>8. ListTypes'
  BY <1>1, <1>7 DEF ListTypes
<1>9. ASSUME NEW n PROVE Pending(n)' = Pending(n)
  <2>1. Copies(n, source) \in Nat /\ Copies(n, processing) \in Nat
    BY Counted
  <2>2. Pending(n)' = Copies(n, source') + Copies(n, processing')
    BY DEF Pending
  <2>3. Copies(n, processing') = Copies(n, processing)
    <3>1. Copies(n, processing') = Copies(n, rest) + (IF z.n = n THEN 1 ELSE 0)
      BY <1>7
    <3>2. Copies(n, rest) = Copies(n, processing) - (IF x.n = n THEN 1 ELSE 0)
      BY <1>6
    <3>3. z.n = x.n
      BY <1>4
    <3> QED
      BY <2>1, <3>1, <3>2, <3>3
  <2>4. Copies(n, source') = Copies(n, source)
    BY Zenon
  <2> QED
    BY <2>2, <2>3, <2>4 DEF Pending
<1>10. \A y : Live(y)' => Live(y) \/ y = z
  BY <1>6, <1>7 DEF Live
<1>11. \A y : In(y, source)' => ~y.marked
  BY DEF ListInv, Waiting
<1>12. Live(x) /\ Later(x, z)
  BY <1>2, <1>4, ItemIs DEF Live, Later
<1>13. ListInv' /\ Advances
  BY <1>2, <1>4, <1>8, <1>9, <1>10, <1>11, <1>12, Moving
<1>14. ASSUME NEW y, Live(y)', y.n = x.n PROVE y = z
  <2>1. ~In(y, source)
    BY <1>1, <1>2, <1>14, CopiesFinite
  <2>2. In(y, processing')
    BY <1>14, <2>1 DEF Live
  <2> QED
    BY <1>6, <1>7, <1>14, <2>2
<1> QED
  BY <1>3, <1>13, <1>14

\* BLMOVE.
LEMMA Taking ==
  ASSUME ListInv, source # << >>,
         source' = Tail(source), processing' = Append(processing, Head(source)),
         issued' = issued, dead' = dead, acked' = acked, claim' = claim
  PROVE  /\ ListInv' /\ Advances
         /\ Head(source) \in Item /\ Head(source).n \in 1 .. issued /\ ~Head(source).marked
<1>1. /\ source \in Seq(Item) /\ processing \in Seq(Item) /\ dead \in Seq(Item)
      /\ acked \subseteq Numbers /\ issued \in 0 .. MaxItems /\ claim \in [Keys -> Claim]
  BY DEF ListInv, ListTypes
<1>2. PICK z : z = Head(source)
  OBVIOUS
<1>3. /\ z \in Item /\ In(z, source) /\ source' \in Seq(Item)
      /\ \A n : Copies(n, source') = Copies(n, source) - (IF z.n = n THEN 1 ELSE 0)
      /\ \A y : In(y, source') => In(y, source)
  <2>1. /\ Head(source) \in Item /\ In(Head(source), source) /\ Tail(source) \in Seq(Item)
        /\ \A n : Copies(n, Tail(source)) = Copies(n, source) - (IF Head(source).n = n THEN 1 ELSE 0)
        /\ \A y : In(y, Tail(source)) => In(y, source)
    BY <1>1, TailIs
  <2> QED
    BY <1>2, <2>1, Zenon
<1>4. z.n \in 1 .. issued /\ z.att < MaxAttempts /\ ~z.marked
  BY <1>3, InSource
<1>5. /\ processing' \in Seq(Item)
      /\ \A n : Copies(n, processing') = Copies(n, processing) + (IF z.n = n THEN 1 ELSE 0)
      /\ \A y : In(y, processing') <=> In(y, processing) \/ y = z
  <2>1. processing' = Append(processing, z)
    BY <1>2
  <2>2. /\ Append(processing, z) \in Seq(Item)
        /\ \A n : Copies(n, Append(processing, z)) = Copies(n, processing) + (IF z.n = n THEN 1 ELSE 0)
        /\ \A y : In(y, Append(processing, z)) <=> In(y, processing) \/ y = z
    BY <1>1, <1>3, AppendIs
  <2> QED
    BY <2>1, <2>2, Zenon
<1>6. ListTypes'
  BY <1>1, <1>3, <1>5 DEF ListTypes
<1>7. ASSUME NEW n PROVE Pending(n)' = Pending(n)
  <2>1. Copies(n, source) \in Nat /\ Copies(n, processing) \in Nat
    BY Counted
  <2>2. Pending(n)' = Copies(n, source') + Copies(n, processing')
    BY DEF Pending
  <2>3. Copies(n, source') + Copies(n, processing') = Copies(n, source) + Copies(n, processing)
    <3>1. Copies(n, source') = Copies(n, source) - (IF z.n = n THEN 1 ELSE 0)
      BY <1>3
    <3>2. Copies(n, processing') = Copies(n, processing) + (IF z.n = n THEN 1 ELSE 0)
      BY <1>5
    <3> QED
      BY <2>1, <3>1, <3>2
  <2> QED
    BY <2>2, <2>3 DEF Pending
<1>8. \A y : Live(y)' => Live(y) \/ y = z
  BY <1>3, <1>5 DEF Live
<1>9. \A y : In(y, source)' => ~y.marked
  BY <1>3 DEF ListInv, Waiting
<1>10. Live(z) /\ Later(z, z)
  BY <1>3, ItemIs DEF Live, Later
<1>11. ListInv' /\ Advances
  BY <1>3, <1>4, <1>6, <1>7, <1>8, <1>9, <1>10, Moving
<1> QED
  BY <1>2, <1>3, <1>4, <1>11
\* A producer appends a new item; the enqueue script takes the claim with it.
LEMMA Adding ==
  ASSUME ListInv, issued < MaxItems, NEW key \in Keys \cup {NoKey},
         NEW kind \in {"event", "mistyped", "garbage"},
         source' = Append(source, NewItem(key, kind)), issued' = issued + 1,
         processing' = processing, dead' = dead, acked' = acked,
         \/ claim' = claim
         \/ key \in Keys /\ claim' = [claim EXCEPT ![key] = [n |-> issued + 1, ttl |-> ClaimTTL]]
  PROVE  ListInv' /\ Advances
<1>1. /\ source \in Seq(Item) /\ processing \in Seq(Item) /\ dead \in Seq(Item)
      /\ acked \subseteq Numbers /\ issued \in 0 .. MaxItems /\ claim \in [Keys -> Claim]
      /\ issued \in Nat /\ MaxItems \in Nat /\ MaxAttempts \in Nat \ {0} /\ ClaimTTL \in Nat \ {0}
  BY QueueConstants DEF ListInv, ListTypes
<1>2. PICK z : z = NewItem(key, kind)
  OBVIOUS
<1>3. /\ z \in Item /\ z.n = issued + 1 /\ z.key = key /\ z.att = 0 /\ z.marked = FALSE
  <2>1. issued + 1 \in Numbers /\ 0 \in 0 .. MaxAttempts /\ FALSE \in BOOLEAN
    BY <1>1 DEF Numbers
  <2> QED
    BY <1>2, <2>1 DEF NewItem, Item
<1>4. /\ source' \in Seq(Item)
      /\ \A n : Copies(n, source') = Copies(n, source) + (IF z.n = n THEN 1 ELSE 0)
      /\ \A y : In(y, source') <=> In(y, source) \/ y = z
  <2>1. source' = Append(source, z)
    BY <1>2
  <2>2. /\ Append(source, z) \in Seq(Item)
        /\ \A n : Copies(n, Append(source, z)) = Copies(n, source) + (IF z.n = n THEN 1 ELSE 0)
        /\ \A y : In(y, Append(source, z)) <=> In(y, source) \/ y = z
    BY <1>1, <1>3, AppendIs
  <2> QED
    BY <2>1, <2>2, Zenon
<1>5. ASSUME NEW n \in 1 .. issued
      PROVE  Copies(n, source') = Copies(n, source) /\ Copies(n, processing') = Copies(n, processing)
  <2>1. z.n # n /\ Copies(n, source) \in Nat
    BY <1>1, <1>3, Counted
  <2>2. Copies(n, source') = Copies(n, source)
    BY <1>4, <2>1
  <2> QED
    BY <2>2, Zenon
<1>6. PICK m : m = issued + 1
  OBVIOUS
<1>7. /\ Copies(m, source') = 1 /\ Copies(m, processing') = 0 /\ Copies(m, dead') = 0 /\ m \notin acked
  <2>1. ~(m <= issued)
    BY <1>1, <1>6
  <2>2. /\ \A y : In(y, source) => y.n # m
        /\ \A y : In(y, processing) => y.n # m
        /\ \A y : In(y, dead) => y.n # m
        /\ m \notin acked
    BY <2>1, Zenon DEF ListInv, Numbered, Live
  <2>3. Copies(m, source) = 0 /\ Copies(m, processing) = 0 /\ Copies(m, dead) = 0
    BY <1>1, <2>2, CopiesFinite
  <2>4. Copies(m, source') = 1
    BY <1>3, <1>4, <1>6, <2>3
  <2> QED
    BY <2>2, <2>3, <2>4, Zenon
<1>8. ASSUME NEW k \in Keys, claim'[k].ttl > 0
      PROVE  \/ claim'[k].n = m /\ key = k
             \/ claim'[k] = claim[k]
  <2>1. CASE claim' = claim
    BY <2>1
  <2>2. CASE key \in Keys /\ claim' = [claim EXCEPT ![key] = [n |-> issued + 1, ttl |-> ClaimTTL]]
    <3>1. CASE k = key
      BY <1>1, <1>6, <2>2, <3>1
    <3>2. CASE k # key
      BY <1>1, <2>2, <3>2
    <3> QED
      BY <3>1, <3>2
  <2> QED
    BY <2>1, <2>2
<1>9. ListTypes'
  <2>1. issued' \in 0 .. MaxItems
    BY <1>1
  <2>2. claim' \in [Keys -> Claim]
    <3>1. [n |-> issued + 1, ttl |-> ClaimTTL] \in Claim
      BY <1>1 DEF Claim
    <3> QED
      BY <1>1, <3>1
  <2> QED
    BY <1>1, <1>4, <2>1, <2>2 DEF ListTypes
<1>10. \A y : Live(y)' => Live(y) \/ y = z
  BY <1>4 DEF Live
<1>11. Numbered'
  <2>1. ASSUME NEW y, Live(y)' \/ In(y, dead)' PROVE y.n <= issued'
    <3>1. CASE Live(y) \/ In(y, dead)
      <4>1. y.n <= issued
        BY <3>1 DEF ListInv, Numbered
      <4>2. y \in Item
        BY <1>1, <3>1 DEF Live, In
      <4> QED
        BY <1>1, <4>1, <4>2, ItemIs
    <3>2. CASE y = z
      BY <1>1, <1>3, <3>2
    <3> QED
      BY <1>10, <2>1, <3>1, <3>2
  <2>2. ASSUME NEW n \in acked' PROVE n <= issued'
    <3>1. n <= issued /\ n \in Nat
      BY <1>1 DEF ListInv, Numbered, Numbers
    <3> QED
      BY <1>1, <3>1
  <2> QED
    BY <2>1, <2>2 DEF Numbered
<1>12. Waiting'
  <2>1. \A x : In(x, source) => ~x.marked
    BY DEF ListInv, Waiting
  <2>2. \A x : Live(x) => x.att < MaxAttempts
    BY DEF ListInv, Waiting
  <2>3. z.att < MaxAttempts
    BY <1>1, <1>3
  <2>4. \A y : In(y, source)' => ~y.marked
    BY <1>3, <1>4, <2>1
  <2>5. \A y : Live(y)' => y.att < MaxAttempts
    BY <1>10, <2>2, <2>3
  <2> QED
    BY <2>4, <2>5, Zenon DEF Waiting
<1>13. NothingLostOrDoubled'
  <2>1. ASSUME NEW n \in 1 .. issued'
        PROVE  (Copies(n, source) + Copies(n, processing) + Copies(n, dead)
                 + (IF n \in acked THEN 1 ELSE 0) = 1)'
    <3>1. CASE n \in 1 .. issued
      <4>1. Copies(n, source) + Copies(n, processing) + Copies(n, dead)
              + (IF n \in acked THEN 1 ELSE 0) = 1
        BY <3>1 DEF ListInv, NothingLostOrDoubled
      <4>2. Copies(n, source') = Copies(n, source) /\ Copies(n, processing') = Copies(n, processing)
        BY <1>5, <3>1
      <4> QED
        BY <4>1, <4>2
    <3>2. CASE n = m
      <4>1. /\ Copies(n, source') = 1 /\ Copies(n, processing') = 0 /\ Copies(n, dead') = 0
            /\ n \notin acked'
        BY <1>7, <3>2
      <4> QED
        BY <4>1
    <3> QED
      BY <1>1, <1>6, <3>1, <3>2
  <2> QED
    BY <2>1 DEF NothingLostOrDoubled
<1>14. ClaimsOwned'
  <2>1. ASSUME NEW k \in Keys, claim'[k].ttl > 0
        PROVE  claim'[k].n \in 1 .. issued' /\ \A y : Live(y)' /\ y.n = claim'[k].n => y.key = k
    <3>1. CASE claim'[k].n = m /\ key = k
      <4>1. ASSUME NEW y, Live(y)', y.n = m PROVE y.key = k
        <5>1. ~Live(y)
          <6>1. ~(m <= issued)
            BY <1>1, <1>6
          <6> QED
            BY <4>1, <6>1, Zenon DEF ListInv, Numbered
        <5> QED
          BY <1>3, <1>10, <3>1, <4>1, <5>1
      <4> QED
        BY <1>1, <1>6, <3>1, <4>1
    <3>2. CASE claim'[k] = claim[k]
      <4>1. claim[k].n \in 1 .. issued /\ \A x : Live(x) /\ x.n = claim[k].n => x.key = k
        BY <2>1, <3>2, Zenon DEF ListInv, ClaimsOwned
      <4>2. claim[k].n # z.n
        BY <1>1, <1>3, <4>1
      <4>3. \A y : Live(y)' /\ y.n = claim'[k].n => y.key = k
        BY <1>10, <3>2, <4>1, <4>2
      <4> QED
        BY <1>1, <3>2, <4>1, <4>3
    <3> QED
      BY <1>8, <2>1, <3>1, <3>2
  <2> QED
    BY <2>1, Zenon DEF ClaimsOwned
<1>15. ClaimIsLive'
  <2>1. ASSUME Ticketed, NEW k \in Keys, claim'[k].ttl > 0
        PROVE  Copies(claim'[k].n, source') + Copies(claim'[k].n, processing') = 1
    <3>1. CASE claim'[k].n = m /\ key = k
      BY <1>7, <3>1
    <3>2. CASE claim'[k] = claim[k]
      <4>1. claim[k].n \in 1 .. issued
        BY <2>1, <3>2, Zenon DEF ListInv, ClaimsOwned
      <4>2. Copies(claim[k].n, source) + Copies(claim[k].n, processing) = 1
        BY <2>1, <3>2 DEF ListInv, ClaimIsLive
      <4>3. /\ Copies(claim[k].n, source') = Copies(claim[k].n, source)
            /\ Copies(claim[k].n, processing') = Copies(claim[k].n, processing)
        BY <1>5, <4>1
      <4> QED
        BY <3>2, <4>2, <4>3
    <3> QED
      BY <1>8, <2>1, <3>1, <3>2
  <2> QED
    BY <2>1 DEF ClaimIsLive
<1>16. Advances
  <2>1. ASSUME NEW y, Live(y)' PROVE y.n > issued \/ \E x : Live(x) /\ x.n = y.n /\ Later(x, y)
    <3>1. CASE Live(y)
      <4>1. y \in Item
        BY <3>1, Counted DEF Live
      <4>2. Later(y, y)
        BY <4>1, ItemIs DEF Later
      <4> QED
        BY <3>1, <4>2, Zenon
    <3>2. CASE y = z
      BY <1>1, <1>3, <3>2
    <3> QED
      BY <1>10, <2>1, <3>1, <3>2
  <2> QED
    BY <2>1, Zenon DEF Advances
<1> QED
  BY <1>9, <1>11, <1>12, <1>13, <1>14, <1>15, <1>16 DEF ListInv

\* The clock only shortens claims.
LEMMA Ticking ==
  ASSUME ListInv, source' = source, processing' = processing, dead' = dead, acked' = acked,
         issued' = issued, claim' = [k \in Keys |-> [claim[k] EXCEPT !.ttl = Lower(@)]]
  PROVE  /\ ListInv' /\ Advances
         /\ \A k \in Keys : claim[k].ttl > 0 /\ claim'[k].ttl = 0 => claim[k].ttl = 1
<1>1. ClaimTTL \in Nat /\ claim \in [Keys -> Claim]
  BY QueueConstants DEF ListInv, ListTypes
<1>2. ASSUME NEW k \in Keys
      PROVE  /\ claim'[k] \in Claim /\ claim'[k].n = claim[k].n
             /\ claim'[k].ttl > 0 => claim[k].ttl > 0
             /\ claim[k].ttl > 0 /\ claim'[k].ttl = 0 => claim[k].ttl = 1
  <2>1. PICK c \in Claim : c = claim[k]
    BY <1>1
  <2>2. claim'[k] = [c EXCEPT !.ttl = Lower(c.ttl)]
    BY <2>1
  <2>3. c.ttl \in 0 .. ClaimTTL
    BY <2>1 DEF Claim
  <2>4. Lower(c.ttl) \in 0 .. ClaimTTL /\ Lower(c.ttl) = IF c.ttl > 0 THEN c.ttl - 1 ELSE 0
    BY <1>1, <2>3 DEF Lower
  <2>5. PICK t \in 0 .. ClaimTTL : t = Lower(c.ttl)
    BY <2>4
  <2>6. claim'[k] = [c EXCEPT !.ttl = t]
    BY <2>2, <2>5
  <2>7. claim'[k] \in Claim /\ claim'[k].n = c.n /\ claim'[k].ttl = t
    BY <2>6 DEF Claim
  <2> QED
    BY <1>1, <2>1, <2>3, <2>4, <2>5, <2>7
<1>3. claim' \in [Keys -> Claim]
  BY <1>2
<1>4. ListTypes'
  BY <1>3 DEF ListInv, ListTypes
<1>5. ASSUME NEW n PROVE Pending(n)' = Pending(n) /\ Total(n)' = Total(n)
  BY Zenon DEF Pending, Total
<1>6. ASSUME NEW y, Live(y)'
      PROVE  y.att < MaxAttempts /\ \E x : Live(x) /\ x.n = y.n /\ x.key = y.key /\ Later(x, y)
  <2>1. Live(y)
    BY <1>6 DEF Live
  <2>2. y \in Item
    BY <2>1, Counted DEF Live
  <2>3. Later(y, y)
    BY <2>2, ItemIs DEF Later
  <2>4. y.att < MaxAttempts
    BY <2>1 DEF ListInv, Waiting
  <2> QED
    BY <2>1, <2>3, <2>4, Zenon
<1>7. \A y : In(y, source)' => ~y.marked
  BY DEF ListInv, Waiting
<1>8. \A y : In(y, dead)' => y.n <= issued
  BY DEF ListInv, Numbered
<1>9. \A n \in acked' : n <= issued
  BY DEF ListInv, Numbered
<1>10. ListInv' /\ Advances
  BY <1>2, <1>4, <1>5, <1>6, <1>7, <1>8, <1>9, ListStep
<1> QED
  BY <1>2, <1>10
--------------------------------------------------------------------------------
(* The workers.                                                            *)

\* A worker that holds an item holds one that was enqueued, marked exactly when
\* its processing has begun.
WorkersOK ==
    /\ worker = [w \in Workers |-> worker[w]]
    /\ \A w \in Workers :
         /\ worker[w].pc \in {"idle", "taken", "busy", "scan"}
         /\ worker[w].pc \in {"taken", "busy"} =>
              /\ worker[w].item \in Item /\ worker[w].item.n <= issued
              /\ worker[w].item.marked <=> worker[w].pc = "busy"

\* A live item never falls behind the copy a busy worker holds ...
HoldersBehind ==
    \A w \in Workers : \A x : worker[w].pc = "busy" /\ Live(x) /\ x.n = worker[w].item.n =>
        Later(worker[w].item, x)

\* ... so no two busy workers hold the same copy.
HoldersDiffer ==
    \A v, w \in Workers :
        worker[v].pc = "busy" /\ worker[w].pc = "busy" /\ worker[v].item = worker[w].item => v = w

\* The inductive invariant of the queues.
QueueInv == ListInv /\ WorkersOK /\ HoldersBehind /\ HoldersDiffer

LEMMA QueueInvInit ==
  ASSUME QueueInit
  PROVE  QueueInv
<1>1. ListTypes
  <2>1. [n |-> 0, ttl |-> 0] \in Claim
    BY QueueConstants DEF Claim
  <2>2. claim \in [Keys -> Claim]
    BY <2>1 DEF QueueInit
  <2>3. /\ source \in Seq(Item) /\ processing \in Seq(Item) /\ dead \in Seq(Item)
        /\ acked \subseteq Numbers /\ issued \in 0 .. MaxItems
    BY QueueConstants DEF QueueInit
  <2> QED
    BY <2>2, <2>3 DEF ListTypes
<1>2. \A x : ~In(x, source) /\ ~In(x, processing) /\ ~In(x, dead)
  BY DEF QueueInit, In
<1>3. Numbered /\ Waiting
  BY <1>2 DEF QueueInit, Numbered, Waiting, Live
<1>4. NothingLostOrDoubled
  BY DEF QueueInit, NothingLostOrDoubled
<1>5. \A k \in Keys : ~(claim[k].ttl > 0)
  BY DEF QueueInit
<1>6. ClaimsOwned /\ ClaimIsLive
  BY <1>5 DEF ClaimsOwned, ClaimIsLive
<1>7. \A w \in Workers : worker[w].pc = "idle"
  BY DEF QueueInit, Idle
<1>8. worker = [w \in Workers |-> worker[w]]
  BY DEF QueueInit
<1>9. WorkersOK /\ HoldersBehind /\ HoldersDiffer
  BY <1>7, <1>8 DEF WorkersOK, HoldersBehind, HoldersDiffer
<1> QED
  BY <1>1, <1>3, <1>4, <1>6, <1>9 DEF QueueInv, ListInv

\* A copy of a worker that does not move stays behind.
LEMMA StaysBehind ==
  ASSUME QueueInv, ListInv', Advances, NEW v \in Workers, worker[v].pc = "busy",
         NEW y, Live(y)', y.n = worker[v].item.n
  PROVE  Later(worker[v].item, y)
<1>1. worker[v].item \in Item /\ worker[v].item.n <= issued
  BY DEF QueueInv, WorkersOK
<1>2. issued \in Nat
  BY QueueConstants DEF QueueInv, ListInv, ListTypes
<1>3. PICK x : Live(x) /\ x.n = y.n /\ Later(x, y)
  <2>1. ~(y.n > issued)
    BY <1>1, <1>2, ItemIs
  <2> QED
    BY <2>1 DEF Advances
<1>4. Later(worker[v].item, x)
  BY <1>3 DEF QueueInv, HoldersBehind
<1>5. x \in Item
  BY <1>3, Counted DEF QueueInv, Live
<1>6. y.att \in Nat /\ y.marked \in BOOLEAN
  <2>1. source' \in Seq(Item) /\ processing' \in Seq(Item)
    BY DEF ListInv, ListTypes
  <2>2. y \in Item
    BY <2>1 DEF Live, In
  <2> QED
    BY <2>2, ItemIs
<1>7. worker[v].item.att \in Nat /\ x.att \in Nat
  BY <1>1, <1>5, ItemIs
<1> QED
  BY <1>3, <1>4, <1>6, <1>7 DEF Later

\* Every step moves one worker at most.
LEMMA WorkerStep ==
  ASSUME QueueInv, ListInv', Advances, issued <= issued', NEW w \in Workers, NEW r,
         worker' = [worker EXCEPT ![w] = r],
         r.pc \in {"idle", "taken", "busy", "scan"},
         r.pc \in {"taken", "busy"} =>
            r.item \in Item /\ r.item.n <= issued' /\ (r.item.marked <=> r.pc = "busy"),
         r.pc = "busy" =>
            /\ \A x : Live(x)' /\ x.n = r.item.n => Later(r.item, x)
            /\ \A v \in Workers \ {w} : worker[v].pc = "busy" => worker[v].item # r.item
  PROVE  QueueInv'
<1>1. /\ worker = [v \in Workers |-> worker[v]] /\ worker'[w] = r
      /\ \A v \in Workers \ {w} : worker'[v] = worker[v]
  <2>1. worker = [v \in Workers |-> worker[v]]
    BY DEF QueueInv, WorkersOK
  <2> QED
    BY <2>1
<1>2. WorkersOK'
  <2>1. worker' = [v \in Workers |-> worker'[v]]
    BY <1>1
  <2>2. ASSUME NEW v \in Workers
        PROVE  /\ worker'[v].pc \in {"idle", "taken", "busy", "scan"}
               /\ worker'[v].pc \in {"taken", "busy"} =>
                    /\ worker'[v].item \in Item /\ worker'[v].item.n <= issued'
                    /\ worker'[v].item.marked <=> worker'[v].pc = "busy"
    <3>1. CASE v = w
      BY <1>1, <3>1
    <3>2. CASE v # w
      <4>1. worker'[v] = worker[v]
        BY <1>1, <3>2
      <4>2. /\ worker[v].pc \in {"idle", "taken", "busy", "scan"}
            /\ worker[v].pc \in {"taken", "busy"} =>
                 /\ worker[v].item \in Item /\ worker[v].item.n <= issued
                 /\ worker[v].item.marked <=> worker[v].pc = "busy"
        BY DEF QueueInv, WorkersOK
      <4>3. issued \in Nat /\ issued' \in Nat
        BY QueueConstants DEF QueueInv, ListInv, ListTypes
      <4>4. ASSUME worker[v].pc \in {"taken", "busy"} PROVE worker[v].item.n <= issued'
        <5>1. worker[v].item.n \in Nat
          BY <4>2, <4>4, ItemIs
        <5> QED
          BY <4>2, <4>3, <4>4, <5>1
      <4> QED
        BY <4>1, <4>2, <4>4
    <3> QED
      BY <3>1, <3>2
  <2> QED
    BY <2>1, <2>2 DEF WorkersOK
<1>3. HoldersBehind'
  <2>1. ASSUME NEW v \in Workers, worker'[v].pc = "busy",
               NEW x, Live(x)', x.n = worker'[v].item.n
        PROVE  Later(worker'[v].item, x)
    <3>1. CASE v = w
      BY <1>1, <2>1, <3>1
    <3>2. CASE v # w
      <4>1. worker'[v] = worker[v]
        BY <1>1, <3>2
      <4>2. Later(worker[v].item, x)
        BY <2>1, <4>1, StaysBehind
      <4> QED
        BY <4>1, <4>2
    <3> QED
      BY <3>1, <3>2
  <2> QED
    BY <2>1, Zenon DEF HoldersBehind, Later
<1>4. HoldersDiffer'
  <2>1. ASSUME NEW u \in Workers, NEW v \in Workers, worker'[u].pc = "busy", worker'[v].pc = "busy",
               worker'[u].item = worker'[v].item
        PROVE  u = v
    <3>1. CASE u = w /\ v # w
      BY <1>1, <2>1, <3>1
    <3>2. CASE v = w /\ u # w
      BY <1>1, <2>1, <3>2
    <3>3. CASE u # w /\ v # w
      BY <1>1, <2>1, <3>3 DEF QueueInv, HoldersDiffer
    <3> QED
      BY <3>1, <3>2, <3>3
  <2> QED
    BY <2>1 DEF HoldersDiffer
<1> QED
  BY <1>2, <1>3, <1>4 DEF QueueInv

\* Steps that move no worker.
LEMMA WorkersRest ==
  ASSUME QueueInv, ListInv', Advances, issued <= issued', worker' = worker
  PROVE  QueueInv'
<1>1. WorkersOK'
  <2>1. issued \in Nat /\ issued' \in Nat
    BY QueueConstants DEF QueueInv, ListInv, ListTypes
  <2>2. ASSUME NEW v \in Workers, worker[v].pc \in {"taken", "busy"} PROVE worker[v].item.n <= issued'
    <3>1. worker[v].item \in Item /\ worker[v].item.n <= issued
      BY <2>2 DEF QueueInv, WorkersOK
    <3> QED
      BY <2>1, <3>1, ItemIs
  <2> QED
    BY <2>2 DEF QueueInv, WorkersOK
<1>2. HoldersBehind'
  <2>1. ASSUME NEW v \in Workers, worker[v].pc = "busy", NEW x, Live(x)', x.n = worker[v].item.n
        PROVE  Later(worker[v].item, x)
    BY <2>1, StaysBehind
  <2> QED
    BY <2>1, Zenon DEF HoldersBehind, Later
<1>3. HoldersDiffer'
  BY DEF QueueInv, HoldersDiffer
<1> QED
  BY <1>1, <1>2, <1>3 DEF QueueInv

--------------------------------------------------------------------------------
(* The steps of the queues.                                                *)

\* What ClaimFreedByOwner asks of one step.
FreedByOwner ==
    \A k \in Keys : claim[k].ttl > 0 /\ claim'[k].ttl = 0 =>
        \/ claim[k].ttl = 1
        \/ claim[k].n \in acked' \ acked
        \/ Copies(claim[k].n, dead) < Copies(claim[k].n, dead')

LEMMA Standing ==
  ASSUME ListInv, UNCHANGED <<source, processing, dead, acked, claim, issued>>
  PROVE  ListInv' /\ Advances /\ FreedByOwner
<1>1. ListInv'
  BY DEF ListInv, ListTypes, Numbered, Waiting, NothingLostOrDoubled, ClaimsOwned, ClaimIsLive,
         Live, In, Copies
<1>2. ASSUME NEW y, Live(y)' PROVE \E x : Live(x) /\ x.n = y.n /\ Later(x, y)
  <2>1. Live(y)
    BY <1>2 DEF Live
  <2>2. y \in Item
    BY <2>1, Counted DEF Live
  <2>3. Later(y, y)
    BY <2>2, ItemIs DEF Later
  <2> QED
    BY <2>1, <2>3, Zenon
<1>3. FreedByOwner
  <2>1. claim \in [Keys -> Claim]
    BY DEF ListInv, ListTypes
  <2> QED
    BY <2>1 DEF FreedByOwner, Claim
<1> QED
  BY <1>1, <1>2, <1>3 DEF Advances

\* A settled item frees its own claim only.
LEMMA SettlingFrees ==
  ASSUME ListInv, NEW x, claim' = Released(x),
         x.n \in acked' \ acked \/ Copies(x.n, dead) < Copies(x.n, dead')
  PROVE  FreedByOwner
<1>1. claim \in [Keys -> Claim]
  BY DEF ListInv, ListTypes
<1>2. ASSUME NEW k \in Keys, claim[k].ttl > 0, claim'[k].ttl = 0
      PROVE  \/ claim[k].n \in acked' \ acked
             \/ Copies(claim[k].n, dead) < Copies(claim[k].n, dead')
  <2>1. claim[k].n = x.n
    BY <1>1, <1>2, ReleasedIs
  <2> QED
    BY <2>1, Zenon
<1> QED
  BY <1>2, Zenon DEF FreedByOwner

\* retryReliableQueueItem.
LEMMA Requeueing ==
  ASSUME ListInv, NEW x, Requeue(x), UNCHANGED <<acked, issued>>
  PROVE  ListInv' /\ Advances /\ FreedByOwner
<1>1. CASE In(x, processing) /\ Rewritten(x).att >= MaxAttempts
  <2>1. /\ processing' = RemoveFirst(processing, x) /\ dead' = Append(dead, Rewritten(x))
        /\ claim' = Released(x) /\ source' = source
    BY <1>1, Zenon DEF Requeue
  <2>2. x \in Item /\ x.att < MaxAttempts
    BY <1>1, InProcessing
  <2>3. Rewritten(x) \in Item /\ Rewritten(x).n = x.n
    <3>1. x.att + 1 \in 0 .. MaxAttempts /\ FALSE \in BOOLEAN
      BY <2>2, ItemIs
    <3> QED
      BY <2>2, <3>1 DEF Rewritten, Item
  <2>4. \E z \in Item : z.n = x.n /\ dead' = Append(dead, z)
    BY <2>1, <2>3, Zenon
  <2>5. /\ ListInv' /\ Advances
        /\ x.n \in acked' \ acked \/ Copies(x.n, dead) < Copies(x.n, dead')
    BY <1>1, <2>1, <2>4, Settling
  <2>6. FreedByOwner
    BY <2>1, <2>5, SettlingFrees
  <2> QED
    BY <2>5, <2>6
<1>2. CASE In(x, processing) /\ ~(Rewritten(x).att >= MaxAttempts)
  <2>1. /\ processing' = RemoveFirst(processing, x) /\ source' = Append(source, Rewritten(x))
        /\ UNCHANGED <<dead, claim>>
    BY <1>2, Zenon DEF Requeue
  <2>2. Rewritten(x).att < MaxAttempts
    <3>1. x \in Item
      BY <1>2, InProcessing
    <3>2. Rewritten(x).att = x.att + 1
      BY <3>1 DEF Rewritten, Item
    <3> QED
      BY <1>2, <3>1, <3>2, ItemIs
  <2>3. ListInv' /\ Advances
    BY <1>2, <2>1, <2>2, Returning
  <2>4. FreedByOwner
    BY <2>1 DEF ListInv, ListTypes, FreedByOwner, Claim
  <2> QED
    BY <2>3, <2>4
<1>3. CASE ~In(x, processing)
  <2>1. UNCHANGED <<source, processing, dead, claim>>
    BY <1>3, Zenon DEF Requeue
  <2> QED
    BY <2>1, Standing
<1> QED
  BY <1>1, <1>2, <1>3

\* moveMalformedQueueItem.
LEMMA Burying ==
  ASSUME ListInv, NEW x, BuryMalformed(x), UNCHANGED <<acked, issued>>
  PROVE  ListInv' /\ Advances /\ FreedByOwner
<1>1. CASE In(x, processing)
  <2>1. /\ processing' = RemoveFirst(processing, x) /\ dead' = Append(dead, [x EXCEPT !.att = 1])
        /\ claim' = Released(x) /\ source' = source
    BY <1>1, Zenon DEF BuryMalformed
  <2>2. x \in Item
    BY <1>1, InProcessing
  <2>3. [x EXCEPT !.att = 1] \in Item /\ [x EXCEPT !.att = 1].n = x.n
    <3>1. 1 \in 0 .. MaxAttempts
      BY <2>2, ItemIs
    <3> QED
      BY <2>2, <3>1 DEF Item
  <2>4. \E z \in Item : z.n = x.n /\ dead' = Append(dead, z)
    BY <2>1, <2>3, Zenon
  <2>5. /\ ListInv' /\ Advances
        /\ x.n \in acked' \ acked \/ Copies(x.n, dead) < Copies(x.n, dead')
    BY <1>1, <2>1, <2>4, Settling
  <2>6. FreedByOwner
    BY <2>1, <2>5, SettlingFrees
  <2> QED
    BY <2>5, <2>6
<1>2. CASE ~In(x, processing)
  <2>1. UNCHANGED <<source, processing, dead, claim>>
    BY <1>2, Zenon DEF BuryMalformed
  <2> QED
    BY <2>1, Standing
<1> QED
  BY <1>1, <1>2
LEMMA EnqueueSafe ==
  ASSUME QueueInv, NEW k \in Keys, Enqueue(k)
  PROVE  QueueInv' /\ FreedByOwner
<1>1. /\ issued < MaxItems
      /\ source' = Append(source, NewItem(k, "event")) /\ issued' = issued + 1
      /\ processing' = processing /\ dead' = dead /\ acked' = acked
      /\ claim' = [claim EXCEPT ![k] = [n |-> issued + 1, ttl |-> ClaimTTL]]
      /\ worker' = worker
  BY Zenon DEF Enqueue
<1>2. ListInv
  BY DEF QueueInv
<1>3. ListInv' /\ Advances
  BY <1>1, <1>2, Adding
<1>4. issued <= issued'
  BY <1>1, QueueConstants DEF QueueInv, ListInv, ListTypes
<1>5. QueueInv'
  BY <1>1, <1>3, <1>4, WorkersRest
<1>6. FreedByOwner
  <2>1. claim \in [Keys -> Claim] /\ ClaimTTL \in Nat \ {0}
    BY <1>2, QueueConstants DEF ListInv, ListTypes
  <2>2. ASSUME NEW j \in Keys, claim[j].ttl > 0 PROVE claim'[j].ttl # 0
    <3>1. CASE j = k
      BY <1>1, <2>1, <3>1
    <3>2. CASE j # k
      BY <1>1, <2>1, <2>2, <3>2 DEF Claim
    <3> QED
      BY <3>1, <3>2
  <2> QED
    BY <2>2 DEF FreedByOwner
<1> QED
  BY <1>5, <1>6

LEMMA PushSafe ==
  ASSUME QueueInv, NEW kind \in Kinds, Push(kind)
  PROVE  QueueInv' /\ FreedByOwner
<1>1. /\ issued < MaxItems
      /\ source' = Append(source, NewItem(NoKey, kind)) /\ issued' = issued + 1
      /\ processing' = processing /\ dead' = dead /\ acked' = acked /\ claim' = claim
      /\ worker' = worker
  BY Zenon DEF Push
<1>2. ListInv /\ kind \in {"event", "mistyped", "garbage"}
  BY QueueConstants DEF QueueInv
<1>3. ListInv' /\ Advances
  BY <1>1, <1>2, Adding
<1>4. issued <= issued'
  BY <1>1, QueueConstants DEF QueueInv, ListInv, ListTypes
<1>5. QueueInv'
  BY <1>1, <1>3, <1>4, WorkersRest
<1>6. FreedByOwner
  BY <1>1, <1>2 DEF ListInv, ListTypes, FreedByOwner, Claim
<1> QED
  BY <1>5, <1>6

LEMMA TakeSafe ==
  ASSUME QueueInv, NEW w \in Workers, Take(w)
  PROVE  QueueInv' /\ FreedByOwner
<1>1. /\ source # << >> /\ source' = Tail(source)
      /\ processing' = Append(processing, Head(source))
      /\ worker' = [worker EXCEPT ![w] = [pc |-> "taken", item |-> Head(source)]]
      /\ dead' = dead /\ acked' = acked /\ claim' = claim /\ issued' = issued
  BY Zenon DEF Take
<1>2. ListInv
  BY DEF QueueInv
<1>3. /\ ListInv' /\ Advances
      /\ Head(source) \in Item /\ Head(source).n \in 1 .. issued /\ ~Head(source).marked
  BY <1>1, <1>2, Taking
<1>4. PICK r : r = [pc |-> "taken", item |-> Head(source)]
  OBVIOUS
<1>5. r.pc = "taken" /\ r.item = Head(source)
  BY <1>4
<1>6. issued \in Nat
  BY QueueConstants DEF QueueInv, ListInv, ListTypes
<1>7. issued <= issued' /\ r.item.n <= issued'
  BY <1>1, <1>3, <1>5, <1>6
<1>8. worker' = [worker EXCEPT ![w] = r]
  BY <1>1, <1>4
<1>9. QueueInv'
  BY <1>3, <1>5, <1>7, <1>8, WorkerStep
<1>10. FreedByOwner
  BY <1>1, <1>2 DEF ListInv, ListTypes, FreedByOwner, Claim
<1> QED
  BY <1>9, <1>10

\* A worker gives its item up, after a step on the lists.
LEMMA LetsGo ==
  ASSUME QueueInv, ListInv', Advances, issued' = issued, NEW w \in Workers,
         worker' = [worker EXCEPT ![w] = Idle]
  PROVE  QueueInv'
<1>1. issued <= issued'
  BY QueueConstants DEF QueueInv, ListInv, ListTypes
<1>2. PICK r : r = Idle
  OBVIOUS
<1>3. r.pc = "idle" /\ worker' = [worker EXCEPT ![w] = r]
  BY <1>2 DEF Idle
<1> QED
  BY <1>1, <1>3, WorkerStep

LEMMA MarkSafe ==
  ASSUME QueueInv, NEW w \in Workers, Mark(w)
  PROVE  QueueInv' /\ FreedByOwner
<1>1. worker[w].pc = "taken" /\ UNCHANGED <<acked, issued, losses>>
  BY DEF Mark
<1>2. PICK x : x = worker[w].item
  OBVIOUS
<1>3. x \in Item /\ x.n <= issued /\ ~x.marked /\ ListInv
  BY <1>1, <1>2 DEF QueueInv, WorkersOK
<1>4. CASE x.kind # "event"
  <2>1. BuryMalformed(x) /\ worker' = [worker EXCEPT ![w] = Idle]
    BY <1>2, <1>4, Zenon DEF Mark
  <2>2. ListInv' /\ Advances /\ FreedByOwner
    BY <1>1, <1>3, <2>1, Burying
  <2> QED
    BY <1>1, <2>1, <2>2, LetsGo
<1>5. CASE x.kind = "event" /\ In(x, processing)
  <2>1. PICK z : z = [x EXCEPT !.marked = TRUE]
    OBVIOUS
  <2>2. /\ processing' = Append(RemoveFirst(processing, x), z)
        /\ worker' = [worker EXCEPT ![w] = [pc |-> "busy", item |-> z]]
        /\ UNCHANGED <<source, dead, claim>>
    BY <1>2, <1>5, <2>1, Zenon DEF Mark
  <2>3. ListInv' /\ Advances /\ \A y : Live(y)' /\ y.n = x.n => y = z
    BY <1>1, <1>3, <1>5, <2>1, <2>2, Marking
  <2>4. z \in Item /\ z.n = x.n /\ z.att = x.att /\ z.marked
    BY <1>3, <2>1 DEF Item
  <2>5. PICK r : r = [pc |-> "busy", item |-> z]
    OBVIOUS
  <2>6. r.pc = "busy" /\ r.item = z /\ worker' = [worker EXCEPT ![w] = r]
    BY <2>2, <2>5
  <2>7. issued <= issued' /\ z.n <= issued'
    BY <1>1, <1>3, <2>4, QueueConstants DEF QueueInv, ListInv, ListTypes
  <2>8. ASSUME NEW y, Live(y)', y.n = z.n PROVE Later(z, y)
    <3>1. y = z
      BY <2>3, <2>4, <2>8
    <3> QED
      BY <2>4, <3>1, ItemIs DEF Later
  <2>9. ASSUME NEW v \in Workers \ {w}, worker[v].pc = "busy" PROVE worker[v].item # z
    <3>1. SUFFICES ASSUME worker[v].item = z PROVE FALSE
      OBVIOUS
    <3>2. Later(z, x)
      BY <1>5, <2>4, <2>9, <3>1 DEF QueueInv, HoldersBehind, Live
    <3> QED
      BY <1>3, <2>4, <3>2, ItemIs DEF Later
  <2>10. QueueInv'
    <3>1. \A y : Live(y)' /\ y.n = r.item.n => Later(r.item, y)
      BY <2>6, <2>8
    <3>2. \A v \in Workers \ {w} : worker[v].pc = "busy" => worker[v].item # r.item
      BY <2>6, <2>9
    <3> QED
      BY <2>3, <2>4, <2>6, <2>7, <3>1, <3>2, WorkerStep
  <2>11. FreedByOwner
    BY <1>3, <2>2 DEF ListInv, ListTypes, FreedByOwner, Claim
  <2> QED
    BY <2>10, <2>11
<1>6. CASE x.kind = "event" /\ ~In(x, processing)
  <2>1. worker' = [worker EXCEPT ![w] = Idle] /\ UNCHANGED <<source, processing, dead, claim, fresh>>
    BY <1>2, <1>6, Zenon DEF Mark
  <2>2. ListInv' /\ Advances /\ FreedByOwner
    BY <1>1, <1>3, <2>1, Standing
  <2> QED
    BY <1>1, <2>1, <2>2, LetsGo
<1> QED
  BY <1>4, <1>5, <1>6

LEMMA AckSafe ==
  ASSUME QueueInv, NEW w \in Workers, Ack(w)
  PROVE  QueueInv' /\ FreedByOwner
<1>1. PICK x : x = worker[w].item
  OBVIOUS
<1>2. ListInv
  BY DEF QueueInv
<1>3. /\ worker' = [worker EXCEPT ![w] = Idle]
      /\ UNCHANGED <<source, dead, issued, fresh, losses>>
  BY DEF Ack
<1>4. CASE In(x, processing)
  <2>1. processing' = RemoveFirst(processing, x) /\ acked' = acked \cup {x.n} /\ claim' = Released(x)
    BY <1>1, <1>4, Zenon DEF Ack
  <2>2. /\ ListInv' /\ Advances
        /\ x.n \in acked' \ acked \/ Copies(x.n, dead) < Copies(x.n, dead')
    BY <1>2, <1>3, <1>4, <2>1, Settling
  <2>3. FreedByOwner
    BY <1>2, <2>1, <2>2, SettlingFrees
  <2> QED
    BY <1>3, <2>2, <2>3, LetsGo
<1>5. CASE ~In(x, processing)
  <2>1. UNCHANGED <<processing, acked, claim>>
    BY <1>1, <1>5, Zenon DEF Ack
  <2>2. ListInv' /\ Advances /\ FreedByOwner
    BY <1>2, <1>3, <2>1, Standing
  <2> QED
    BY <1>3, <2>2, LetsGo
<1> QED
  BY <1>4, <1>5

LEMMA RetrySafe ==
  ASSUME QueueInv, NEW w \in Workers, Retry(w)
  PROVE  QueueInv' /\ FreedByOwner
<1>1. PICK x : x = worker[w].item
  OBVIOUS
<1>2. /\ Requeue(x) /\ worker' = [worker EXCEPT ![w] = Idle]
      /\ UNCHANGED <<acked, issued>>
  BY <1>1, Zenon DEF Retry
<1>3. ListInv' /\ Advances /\ FreedByOwner
  BY <1>2, Requeueing DEF QueueInv
<1> QED
  BY <1>2, <1>3, LetsGo

\* Whatever the snapshot of a recovery holds, it touches only items that are
\* still in the processing list.
LEMMA RecoverItemSafe ==
  ASSUME QueueInv, NEW w \in Workers, RecoverItem(w)
  PROVE  QueueInv' /\ FreedByOwner
<1>1. PICK x, rest, r :
        /\ x = Head(worker[w].snapshot) /\ rest = Tail(worker[w].snapshot)
        /\ r = IF rest # << >> /\ In(x, processing) THEN [pc |-> "scan", snapshot |-> rest] ELSE Idle
  OBVIOUS
<1>2. /\ IF x.kind = "garbage" THEN BuryMalformed(x) ELSE Requeue(x)
      /\ worker' = [worker EXCEPT ![w] = r] /\ UNCHANGED <<acked, issued>>
  BY <1>1, Zenon DEF RecoverItem
<1>3. ListInv' /\ Advances /\ FreedByOwner
  <2>1. CASE BuryMalformed(x)
    BY <1>2, <2>1, Burying DEF QueueInv
  <2>2. CASE Requeue(x)
    BY <1>2, <2>2, Requeueing DEF QueueInv
  <2> QED
    BY <1>2, <2>1, <2>2, Zenon
<1>4. issued <= issued'
  BY <1>2, QueueConstants DEF QueueInv, ListInv, ListTypes
<1>5. r.pc \in {"scan", "idle"}
  BY <1>1 DEF Idle
<1> QED
  BY <1>2, <1>3, <1>4, <1>5, WorkerStep

LEMMA StartRecoverySafe ==
  ASSUME QueueInv, NEW w \in Workers, StartRecovery(w)
  PROVE  QueueInv' /\ FreedByOwner
<1>1. \E snapshot : worker' = [worker EXCEPT ![w] = [pc |-> "scan", snapshot |-> snapshot]]
  BY Zenon DEF StartRecovery
<1>2. PICK r : r.pc = "scan" /\ worker' = [worker EXCEPT ![w] = r]
  BY <1>1
<1>3. UNCHANGED <<source, processing, dead, acked, claim, issued, fresh, losses>>
  BY Zenon DEF StartRecovery
<1>4. ListInv' /\ Advances /\ FreedByOwner
  BY <1>3, Standing DEF QueueInv
<1>5. issued <= issued'
  BY <1>3, QueueConstants DEF QueueInv, ListInv, ListTypes
<1> QED
  BY <1>2, <1>4, <1>5, WorkerStep

LEMMA LoseSafe ==
  ASSUME QueueInv, NEW w \in Workers, Lose(w)
  PROVE  QueueInv' /\ FreedByOwner
<1>1. /\ worker' = [worker EXCEPT ![w] = Idle]
      /\ UNCHANGED <<source, processing, dead, acked, claim, issued, fresh>>
  BY DEF Lose
<1>2. ListInv' /\ Advances /\ FreedByOwner
  BY <1>1, Standing DEF QueueInv
<1> QED
  BY <1>1, <1>2, LetsGo

LEMMA TickSafe ==
  ASSUME QueueInv, Tick
  PROVE  QueueInv' /\ FreedByOwner
<1>1. /\ claim' = [k \in Keys |-> [claim[k] EXCEPT !.ttl = Lower(@)]]
      /\ UNCHANGED <<source, processing, dead, acked, issued, worker, losses>>
  BY DEF Tick
<1>2. /\ ListInv' /\ Advances
      /\ \A k \in Keys : claim[k].ttl > 0 /\ claim'[k].ttl = 0 => claim[k].ttl = 1
  BY <1>1, Ticking DEF QueueInv
<1>3. issued <= issued'
  BY <1>1, QueueConstants DEF QueueInv, ListInv, ListTypes
<1>4. QueueInv'
  BY <1>1, <1>2, <1>3, WorkersRest
<1> QED
  BY <1>2, <1>4 DEF FreedByOwner

LEMMA IdleSafe ==
  ASSUME QueueInv, UNCHANGED queueVars
  PROVE  QueueInv' /\ FreedByOwner
<1>1. UNCHANGED <<source, processing, dead, acked, claim, issued, worker>>
  BY DEF queueVars
<1>2. ListInv' /\ Advances /\ FreedByOwner
  BY <1>1, Standing DEF QueueInv
<1>3. issued <= issued'
  BY <1>1, QueueConstants DEF QueueInv, ListInv, ListTypes
<1> QED
  BY <1>1, <1>2, <1>3, WorkersRest

LEMMA QueueStepSafe ==
  ASSUME QueueInv, [QueueNext]_queueVars
  PROVE  QueueInv' /\ FreedByOwner
<1>1. ASSUME NEW k \in Keys, Enqueue(k) PROVE QueueInv' /\ FreedByOwner
  BY <1>1, EnqueueSafe
<1>2. ASSUME NEW kind \in Kinds, Push(kind) PROVE QueueInv' /\ FreedByOwner
  BY <1>2, PushSafe
<1>3. ASSUME NEW w \in Workers, LoopStep(w) PROVE QueueInv' /\ FreedByOwner
  <2>1. CASE Take(w)
    BY <2>1, TakeSafe
  <2>2. CASE Mark(w)
    BY <2>2, MarkSafe
  <2>3. CASE Ack(w)
    BY <2>3, AckSafe
  <2>4. CASE Retry(w)
    BY <2>4, RetrySafe
  <2>5. CASE StartRecovery(w)
    BY <2>5, StartRecoverySafe
  <2>6. CASE RecoverItem(w)
    BY <2>6, RecoverItemSafe
  <2> QED
    BY <1>3, <2>1, <2>2, <2>3, <2>4, <2>5, <2>6 DEF LoopStep
<1>4. ASSUME NEW w \in Workers, Poll(w) PROVE QueueInv' /\ FreedByOwner
  <2>1. UNCHANGED queueVars
    BY <1>4 DEF Poll
  <2> QED
    BY <2>1, IdleSafe
<1>5. ASSUME NEW w \in Workers, Lose(w) PROVE QueueInv' /\ FreedByOwner
  BY <1>5, LoseSafe
<1>6. CASE Tick
  BY <1>6, TickSafe
<1>7. CASE UNCHANGED queueVars
  BY <1>7, IdleSafe
<1> QED
  BY <1>1, <1>2, <1>3, <1>4, <1>5, <1>6, <1>7, Zenon DEF QueueNext

LEMMA HoldersExclude ==
  ASSUME QueueInv
  PROVE  OneHolder
<1>1. ASSUME NEW v \in Workers, NEW w \in Workers,
             worker[v].pc = "busy", worker[w].pc = "busy", worker[v].item.n = worker[w].item.n,
             In(worker[v].item, processing), In(worker[w].item, processing)
      PROVE  v = w
  <2>1. worker[v].item = worker[w].item
    BY <1>1, InProcessing DEF QueueInv, Live
  <2> QED
    BY <1>1, <2>1 DEF QueueInv, HoldersDiffer
<1> QED
  BY <1>1 DEF OneHolder

LEMMA QueueSafe == QueueSpec => []QueueInv
<1>1. QueueInit => QueueInv
  BY QueueInvInit
<1>2. QueueInv /\ [QueueNext]_queueVars => QueueInv'
  BY QueueStepSafe
<1> QED
  BY <1>1, <1>2, PTL DEF QueueSpec

\* With crashes, lost replies and recovery racing live workers, every enqueued
\* item is in exactly one place or was acknowledged, for any number of items.
THEOREM NothingIsLost == QueueSpec => []NothingLostOrDoubled
<1>1. QueueInv => NothingLostOrDoubled
  BY DEF QueueInv, ListInv
<1> QED
  BY <1>1, QueueSafe, PTL

\* No two workers hold the live copy of an item.
THEOREM OneHolderOfItem == QueueSpec => []OneHolder
<1>1. QueueInv => OneHolder
  BY HoldersExclude
<1> QED
  BY <1>1, QueueSafe, PTL

\* A ticketed idempotency claim is held by an item that is still to be worked on.
THEOREM ClaimsAreLive == QueueSpec => []ClaimIsLive
<1>1. QueueInv => ClaimIsLive
  BY DEF QueueInv, ListInv
<1> QED
  BY <1>1, QueueSafe, PTL

\* A claim ends by its expiry or with its own item.
THEOREM ClaimsFreedByOwner == QueueSpec => ClaimFreedByOwner
<1>1. QueueInv /\ [QueueNext]_queueVars => [FreedByOwner]_queueVars
  BY QueueStepSafe
<1> QED
  BY <1>1, QueueSafe, PTL DEF QueueSpec, ClaimFreedByOwner, FreedByOwner
--------------------------------------------------------------------------------
(* Employee synchronisation.                                               *)

SyncTypes ==
    /\ marker \in Marker
    /\ binding \in [ver : 1 .. MaxVersion, verified : BOOLEAN]
    /\ request \in [Requests -> 0 .. MaxItems]
    /\ run \in [Workers -> Run]
    /\ stored \in [ver : 0 .. MaxVersion, ticket : 0 .. MaxItems]

\* Process runs only for the item the worker holds, under that item's ticket.
RunHolds ==
    \A w \in Workers :
        run[w].pc \in {"start", "read", "begun", "fetched", "done", "failed"} =>
            worker[w].pc = "busy" /\ worker[w].item.n = run[w].ticket

\* A verdict of failure still to be recorded is about a dead letter.
VerdictsTrue ==
    \A w \in Workers :
        run[w].pc = "record" /\ run[w].verdict = "failed" => Copies(run[w].ticket, dead) = 1

\* The employees stored never come from a newer job than the marker's.
StoredNotNewer == stored.ticket <= marker.ticket

\* The inductive invariant of the synchronisation.
SyncInv ==
    /\ QueueInv /\ SyncTypes /\ RunHolds /\ VerdictsTrue
    /\ FailedIsOver /\ CompletedDescribesData /\ StoredNotNewer

\* What the action properties ask of one step.
NewerStep == marker'.ticket >= marker.ticket /\ stored'.ticket >= stored.ticket

LateNoteStep ==
    marker.code = "completed" /\ marker'.ticket = marker.ticket /\ marker'.ver = marker.ver
        => marker' = marker \/ run' # run

LEMMA SyncFacts ==
  /\ MaxItems \in Nat /\ MaxVersion \in Nat \ {0} /\ "event" \in Kinds
  /\ NoRun \in Run /\ NoRow \in Marker
  BY QueueConstants, SyncConstants DEF NoRun, Run, NoRow, Marker

\* Dead letters stay.
LEMMA DeadStays ==
  ASSUME QueueInv, [QueueNext]_queueVars, NEW n, Copies(n, dead) = 1
  PROVE  Copies(n, dead') = 1
<1>1. QueueInv'
  BY QueueStepSafe
<1>2. dead \in Seq(Item) /\ dead' \in Seq(Item) /\ issued \in Nat /\ issued' \in Nat
  BY <1>1, QueueConstants DEF QueueInv, ListInv, ListTypes
<1>3. dead' = dead \/ \E z : dead' = Append(dead, z)
  <2>1. ASSUME NEW x, Requeue(x) PROVE dead' = dead \/ \E z : dead' = Append(dead, z)
    BY <2>1, Zenon DEF Requeue
  <2>2. ASSUME NEW x, BuryMalformed(x) PROVE dead' = dead \/ \E z : dead' = Append(dead, z)
    BY <2>2, Zenon DEF BuryMalformed
  <2>3. ASSUME NEW w \in Workers, Mark(w) PROVE dead' = dead \/ \E z : dead' = Append(dead, z)
    BY <2>2, <2>3, Zenon DEF Mark
  <2>4. ASSUME NEW w \in Workers, Retry(w) PROVE dead' = dead \/ \E z : dead' = Append(dead, z)
    BY <2>1, <2>4, Zenon DEF Retry
  <2>5. ASSUME NEW w \in Workers, RecoverItem(w) PROVE dead' = dead \/ \E z : dead' = Append(dead, z)
    BY <2>1, <2>2, <2>5, Zenon DEF RecoverItem
  <2>6. ASSUME NEW w \in Workers, Take(w) \/ Ack(w) \/ StartRecovery(w) \/ Poll(w) \/ Lose(w)
        PROVE  dead' = dead
    BY <2>6, Zenon DEF Take, Ack, StartRecovery, Poll, Lose, queueVars
  <2>7. ASSUME NEW k, Enqueue(k) \/ Push(k) PROVE dead' = dead
    BY <2>7, Zenon DEF Enqueue, Push
  <2>8. CASE Tick \/ UNCHANGED queueVars
    BY <2>8, Zenon DEF Tick, queueVars
  <2> QED
    BY <2>3, <2>4, <2>5, <2>6, <2>7, <2>8, Zenon DEF QueueNext, LoopStep
<1>4. Copies(n, dead') \in Nat /\ Copies(n, dead') >= 1
  <2>1. CASE dead' = dead
    BY <2>1
  <2>2. CASE \E z : dead' = Append(dead, z)
    <3>1. PICK z : dead' = Append(dead, z)
      BY <2>2
    <3>2. z \in Item
      <4>1. Len(dead) + 1 \in 1 .. Len(dead') /\ dead'[Len(dead) + 1] = z
        BY <1>2, <3>1
      <4> QED
        BY <1>2, <4>1
    <3>3. Copies(n, Append(dead, z)) = Copies(n, dead) + (IF z.n = n THEN 1 ELSE 0)
      BY <1>2, <3>2, AppendIs
    <3>4. Copies(n, dead') = 1 + (IF z.n = n THEN 1 ELSE 0)
      BY <3>1, <3>3
    <3> QED
      BY <3>4
  <2> QED
    BY <1>3, <2>1, <2>2
<1>5. n \in 1 .. issued'
  <2>1. ~(Copies(n, dead') = 0)
    BY <1>4
  <2>2. \E x : In(x, dead') /\ x.n = n
    BY <1>2, <2>1, CopiesFinite
  <2>3. PICK x : In(x, dead') /\ x.n = n
    BY <2>2
  <2>4. x \in Item
    BY <1>2, <2>3 DEF In
  <2>5. x.n <= issued'
    BY <1>1, <2>3, Zenon DEF QueueInv, ListInv, Numbered
  <2> QED
    BY <1>2, <2>3, <2>4, <2>5, ItemIs
<1>6. Copies(n, source') + Copies(n, processing') + Copies(n, dead')
        + (IF n \in acked' THEN 1 ELSE 0) = 1
  BY <1>1, <1>5 DEF QueueInv, ListInv, NothingLostOrDoubled
<1>7. Copies(n, source') \in Nat /\ Copies(n, processing') \in Nat
  BY <1>1, CopiesFinite DEF QueueInv, ListInv, ListTypes
<1> QED
  BY <1>4, <1>6, <1>7

LEMMA SyncInvInit ==
  ASSUME SyncInit
  PROVE  SyncInv
<1>1. QueueInv
  BY QueueInvInit DEF SyncInit
<1>2. SyncTypes
  <2>1. [ver |-> 1, verified |-> TRUE] \in [ver : 1 .. MaxVersion, verified : BOOLEAN]
    BY SyncFacts
  <2>2. [ver |-> 0, ticket |-> 0] \in [ver : 0 .. MaxVersion, ticket : 0 .. MaxItems]
    BY SyncFacts
  <2>3. 0 \in 0 .. MaxItems
    BY SyncFacts
  <2> QED
    BY <2>1, <2>2, <2>3, SyncFacts DEF SyncInit, SyncTypes
<1>3. \A w \in Workers : run[w].pc = "none"
  BY DEF SyncInit, NoRun
<1>4. marker.code = "none" /\ marker.ticket = 0 /\ stored.ticket = 0
  BY DEF SyncInit, NoRow
<1> QED
  BY <1>1, <1>2, <1>3, <1>4
  DEF SyncInv, RunHolds, VerdictsTrue, FailedIsOver, CompletedDescribesData, StoredNotNewer

\* The queue inside the synchronisation takes the queue's own steps.
LEMMA QueueInside ==
  ASSUME SyncTypes, [SyncNext]_vars
  PROVE  [QueueNext]_queueVars
<1>1. "event" \in Kinds
  BY SyncFacts
<1>2. ASSUME NEW w \in Workers, LoopStep(w) \/ Poll(w) \/ Lose(w) PROVE QueueNext
  BY <1>2, Zenon DEF QueueNext
<1>3. ASSUME NEW w \in Workers,
             Take(w) \/ Mark(w) \/ Ack(w) \/ Retry(w) \/ StartRecovery(w) \/ RecoverItem(w)
      PROVE  QueueNext
  BY <1>2, <1>3, Zenon DEF LoopStep
<1>4. ASSUME NEW r \in Requests, NEW k \in Keys, StartSync(r, k) PROVE QueueNext \/ UNCHANGED queueVars
  BY <1>1, <1>4, Zenon DEF StartSync, QueueNext
<1>5. ASSUME NEW r \in Requests, NoteQueued(r) \/ NoteLost(r) PROVE UNCHANGED queueVars
  BY <1>5, Zenon DEF NoteQueued, NoteLost
<1>6. CASE ChangeBinding
  BY <1>6, Zenon DEF ChangeBinding
<1>7. ASSUME NEW w \in Workers, TakeJob(w) \/ MarkJob(w) \/ AckJob(w) \/ RetryJob(w)
      PROVE  QueueNext
  BY <1>3, <1>7, Zenon DEF TakeJob, MarkJob, AckJob, RetryJob
<1>8. ASSUME NEW w \in Workers, RecoverJobs(w) PROVE QueueNext
  BY <1>2, <1>3, <1>8, Zenon DEF RecoverJobs
<1>9. ASSUME NEW w \in Workers, LoseWorker(w) PROVE QueueNext \/ UNCHANGED queueVars
  BY <1>2, <1>9, Zenon DEF LoseWorker
<1>10. ASSUME NEW w \in Workers,
              \/ ReadCredential(w) \/ BeginSync(w) \/ FetchEmployees(w) \/ SaveEmployees(w)
              \/ FailSync(w) \/ RecordVerdict(w)
       PROVE  UNCHANGED queueVars
  BY <1>10, Zenon DEF ReadCredential, BeginSync, FetchEmployees, SaveEmployees, FailSync, RecordVerdict
<1>11. CASE Tick
  BY <1>11, Zenon DEF QueueNext
<1>12. CASE UNCHANGED vars
  BY <1>12, Zenon DEF vars
<1> QED
  BY <1>4, <1>5, <1>6, <1>7, <1>8, <1>9, <1>10, <1>11, <1>12, Zenon DEF SyncNext
\* The markers and the employees are left alone.
LEMMA MarkerKept ==
  ASSUME SyncInv, [QueueNext]_queueVars, UNCHANGED <<marker, stored>>
  PROVE  FailedIsOver' /\ CompletedDescribesData' /\ StoredNotNewer' /\ NewerStep /\ LateNoteStep
<1>1. ASSUME marker'.code = "failed" PROVE Copies(marker'.ticket, dead') = 1
  <2>1. Copies(marker.ticket, dead) = 1
    BY <1>1 DEF SyncInv, FailedIsOver
  <2>2. PICK n : n = marker.ticket
    OBVIOUS
  <2>3. Copies(n, dead') = 1
    BY <2>1, <2>2, DeadStays DEF SyncInv
  <2> QED
    BY <2>2, <2>3
<1>2. FailedIsOver'
  BY <1>1 DEF FailedIsOver
<1>3. CompletedDescribesData' /\ StoredNotNewer'
  BY DEF SyncInv, CompletedDescribesData, StoredNotNewer
<1>4. marker.ticket \in Nat /\ stored.ticket \in Nat
  BY SyncFacts DEF SyncInv, SyncTypes, Marker
<1>5. NewerStep
  BY <1>4 DEF NewerStep
<1> QED
  BY <1>2, <1>3, <1>5 DEF LateNoteStep

\* No run changes.
LEMMA RunsKept ==
  ASSUME SyncInv, [QueueNext]_queueVars, run' = run,
         \A w \in Workers : worker[w].pc = "busy" => worker'[w] = worker[w]
  PROVE  RunHolds' /\ VerdictsTrue'
<1>1. RunHolds'
  BY DEF SyncInv, RunHolds
<1>2. ASSUME NEW w \in Workers, run[w].pc = "record", run[w].verdict = "failed"
      PROVE  Copies(run[w].ticket, dead') = 1
  <2>1. PICK n : n = run[w].ticket
    OBVIOUS
  <2>2. Copies(n, dead) = 1
    BY <1>2, <2>1 DEF SyncInv, VerdictsTrue
  <2>3. Copies(n, dead') = 1
    BY <2>2, DeadStays DEF SyncInv
  <2> QED
    BY <2>1, <2>3
<1> QED
  BY <1>1, <1>2 DEF VerdictsTrue

\* One worker's run changes.
LEMMA RunStep ==
  ASSUME SyncInv, [QueueNext]_queueVars, NEW w \in Workers, NEW r \in Run,
         run' = [run EXCEPT ![w] = r],
         \A v \in Workers \ {w} : worker'[v] = worker[v],
         r.pc \in {"start", "read", "begun", "fetched", "done", "failed"} =>
            worker'[w].pc = "busy" /\ worker'[w].item.n = r.ticket,
         r.pc = "record" /\ r.verdict = "failed" => Copies(r.ticket, dead') = 1
  PROVE  run' \in [Workers -> Run] /\ RunHolds' /\ VerdictsTrue'
<1>1. run \in [Workers -> Run]
  BY DEF SyncInv, SyncTypes
<1>2. /\ run' \in [Workers -> Run] /\ run'[w] = r
      /\ \A v \in Workers \ {w} : run'[v] = run[v]
  BY <1>1
<1>3. RunHolds'
  <2>1. ASSUME NEW v \in Workers,
               run'[v].pc \in {"start", "read", "begun", "fetched", "done", "failed"}
        PROVE  worker'[v].pc = "busy" /\ worker'[v].item.n = run'[v].ticket
    <3>1. CASE v = w
      BY <1>2, <2>1, <3>1
    <3>2. CASE v # w
      <4>1. run'[v] = run[v] /\ worker'[v] = worker[v]
        BY <1>2, <3>2
      <4>2. worker[v].pc = "busy" /\ worker[v].item.n = run[v].ticket
        BY <2>1, <4>1 DEF SyncInv, RunHolds
      <4> QED
        BY <4>1, <4>2
    <3> QED
      BY <3>1, <3>2
  <2> QED
    BY <2>1 DEF RunHolds
<1>4. VerdictsTrue'
  <2>1. ASSUME NEW v \in Workers, run'[v].pc = "record", run'[v].verdict = "failed"
        PROVE  Copies(run'[v].ticket, dead') = 1
    <3>1. CASE v = w
      BY <1>2, <2>1, <3>1
    <3>2. CASE v # w
      <4>1. run'[v] = run[v]
        BY <1>2, <3>2
      <4>2. PICK n : n = run[v].ticket
        OBVIOUS
      <4>3. Copies(n, dead) = 1
        BY <2>1, <4>1, <4>2 DEF SyncInv, VerdictsTrue
      <4>4. Copies(n, dead') = 1
        BY <4>3, DeadStays DEF SyncInv
      <4> QED
        BY <4>1, <4>2, <4>4
    <3> QED
      BY <3>1, <3>2
  <2> QED
    BY <2>1 DEF VerdictsTrue
<1> QED
  BY <1>2, <1>3, <1>4

SyncGoal == SyncInv' /\ NewerStep /\ LateNoteStep

LEMMA StartSyncSafe ==
  ASSUME SyncInv, NEW r \in Requests, NEW k \in Keys, StartSync(r, k)
  PROVE  SyncGoal
<1>1. [QueueNext]_queueVars
  <2>1. SyncNext
    BY Zenon DEF SyncNext
  <2> QED
    BY <2>1, QueueInside DEF SyncInv
<1>2. QueueInv'
  BY <1>1, QueueStepSafe DEF SyncInv
<1>3. worker' = worker
  BY Zenon DEF StartSync, Enqueue, queueVars
<1>4. UNCHANGED <<marker, binding, run, stored>>
  BY Zenon DEF StartSync
<1>5. PICK t \in 0 .. MaxItems : request' = [request EXCEPT ![r] = t]
  <2>1. CASE Enqueue(k) /\ request' = [request EXCEPT ![r] = issued + 1]
    <3>1. issued < MaxItems /\ issued \in 0 .. MaxItems
      BY <2>1 DEF Enqueue, SyncInv, QueueInv, ListInv, ListTypes
    <3>2. issued + 1 \in 0 .. MaxItems
      BY <3>1, SyncFacts
    <3> QED
      BY <2>1, <3>2
  <2>2. CASE request' = [request EXCEPT ![r] = claim[k].n]
    <3>1. claim[k].n \in 0 .. MaxItems
      BY DEF SyncInv, QueueInv, ListInv, ListTypes, Claim
    <3> QED
      BY <2>2, <3>1
  <2> QED
    BY <2>1, <2>2, Zenon DEF StartSync
<1>6. SyncTypes'
  BY <1>4, <1>5 DEF SyncInv, SyncTypes
<1>7. RunHolds' /\ VerdictsTrue'
  BY <1>1, <1>3, <1>4, RunsKept
<1>8. FailedIsOver' /\ CompletedDescribesData' /\ StoredNotNewer' /\ NewerStep /\ LateNoteStep
  BY <1>1, <1>4, MarkerKept
<1> QED
  BY <1>2, <1>6, <1>7, <1>8 DEF SyncGoal, SyncInv

\* A note: the guard compares the ticket before the version.
LEMMA NoteQueuedSafe ==
  ASSUME SyncInv, NEW r \in Requests, NoteQueued(r)
  PROVE  SyncGoal
<1>1. UNCHANGED queueVars /\ UNCHANGED <<binding, run, stored>>
  BY Zenon DEF NoteQueued
<1>2. QueueInv' /\ worker' = worker /\ dead' = dead
  BY <1>1, QueueStepSafe DEF SyncInv, queueVars
<1>3. PICK t \in 0 .. MaxItems : t = request[r]
  BY DEF SyncInv, SyncTypes
<1>4. /\ request' = [request EXCEPT ![r] = 0]
      /\ marker' = IF KeepsMarker(t) THEN marker
                   ELSE [code |-> "queued", ver |-> binding.ver, ticket |-> t]
  BY <1>3, Zenon DEF NoteQueued
<1>5. request' \in [Requests -> 0 .. MaxItems]
  BY <1>4, SyncFacts DEF SyncInv, SyncTypes
<1>6. RunHolds' /\ VerdictsTrue'
  BY <1>1, <1>2, RunsKept
<1>7. CASE KeepsMarker(t)
  <2>1. marker' = marker
    BY <1>4, <1>7
  <2>2. FailedIsOver' /\ CompletedDescribesData' /\ StoredNotNewer' /\ NewerStep /\ LateNoteStep
    BY <1>1, <2>1, MarkerKept
  <2>3. SyncTypes'
    BY <1>1, <1>5, <2>1 DEF SyncInv, SyncTypes
  <2> QED
    BY <1>2, <1>6, <2>2, <2>3 DEF SyncGoal, SyncInv
<1>8. CASE ~KeepsMarker(t)
  <2>1. marker' = [code |-> "queued", ver |-> binding.ver, ticket |-> t]
    BY <1>4, <1>8
  <2>2. marker'.code = "queued" /\ marker'.ver = binding.ver /\ marker'.ticket = t
    BY <2>1
  <2>3. binding.ver \in 0 .. MaxVersion
    BY SyncFacts DEF SyncInv, SyncTypes
  <2>4. marker' \in Marker
    BY <2>1, <2>3 DEF Marker
  <2>5. SyncTypes'
    BY <1>1, <1>5, <2>4 DEF SyncInv, SyncTypes
  <2>6. /\ marker.ticket \in Nat /\ stored.ticket \in Nat /\ t \in Nat
        /\ stored.ticket <= marker.ticket
    BY SyncFacts DEF SyncInv, SyncTypes, Marker, StoredNotNewer
  <2>7. marker.ticket <= t
    BY <1>8, <2>6 DEF KeepsMarker
  <2>8. NewerStep /\ StoredNotNewer'
    BY <1>1, <2>2, <2>6, <2>7 DEF NewerStep, StoredNotNewer
  <2>9. FailedIsOver' /\ CompletedDescribesData'
    BY <2>2 DEF FailedIsOver, CompletedDescribesData
  <2>10. LateNoteStep
    BY <1>8, <2>2 DEF LateNoteStep, KeepsMarker
  <2> QED
    BY <1>2, <1>6, <2>5, <2>8, <2>9, <2>10 DEF SyncGoal, SyncInv
<1> QED
  BY <1>7, <1>8
LEMMA NoteLostSafe ==
  ASSUME SyncInv, NEW r \in Requests, NoteLost(r)
  PROVE  SyncGoal
<1>1. /\ UNCHANGED queueVars /\ UNCHANGED <<marker, binding, run, stored>>
      /\ request' = [request EXCEPT ![r] = 0]
  BY Zenon DEF NoteLost
<1>2. QueueInv' /\ worker' = worker
  BY <1>1, QueueStepSafe DEF SyncInv, queueVars
<1>3. SyncTypes'
  BY <1>1, SyncFacts DEF SyncInv, SyncTypes
<1>4. RunHolds' /\ VerdictsTrue'
  BY <1>1, <1>2, RunsKept
<1>5. FailedIsOver' /\ CompletedDescribesData' /\ StoredNotNewer' /\ NewerStep /\ LateNoteStep
  BY <1>1, MarkerKept
<1> QED
  BY <1>2, <1>3, <1>4, <1>5 DEF SyncGoal, SyncInv

LEMMA ChangeBindingSafe ==
  ASSUME SyncInv, ChangeBinding
  PROVE  SyncGoal
<1>1. UNCHANGED queueVars /\ UNCHANGED <<marker, request, run, stored>> /\ binding.ver < MaxVersion
  BY Zenon DEF ChangeBinding
<1>2. QueueInv' /\ worker' = worker
  BY <1>1, QueueStepSafe DEF SyncInv, queueVars
<1>3. binding' \in [ver : 1 .. MaxVersion, verified : BOOLEAN]
  <2>1. PICK b \in BOOLEAN : binding' = [ver |-> binding.ver + 1, verified |-> b]
    BY DEF ChangeBinding
  <2>2. binding.ver + 1 \in 1 .. MaxVersion
    BY <1>1, SyncFacts DEF SyncInv, SyncTypes
  <2> QED
    BY <2>1, <2>2
<1>4. SyncTypes'
  BY <1>1, <1>3 DEF SyncInv, SyncTypes
<1>5. RunHolds' /\ VerdictsTrue'
  BY <1>1, <1>2, RunsKept
<1>6. FailedIsOver' /\ CompletedDescribesData' /\ StoredNotNewer' /\ NewerStep /\ LateNoteStep
  BY <1>1, MarkerKept
<1> QED
  BY <1>2, <1>4, <1>5, <1>6 DEF SyncGoal, SyncInv

\* A step of the clock, of recovery or of BLMOVE: no worker that processes moves.
LEMMA OnlyQueue ==
  ASSUME SyncInv, [QueueNext]_queueVars, UNCHANGED syncVars,
         \A w \in Workers : worker[w].pc = "busy" => worker'[w] = worker[w]
  PROVE  SyncGoal
<1>1. UNCHANGED <<marker, binding, request, run, stored>>
  BY DEF syncVars
<1>2. QueueInv'
  BY QueueStepSafe DEF SyncInv
<1>3. SyncTypes'
  BY <1>1 DEF SyncInv, SyncTypes
<1>4. RunHolds' /\ VerdictsTrue'
  BY <1>1, RunsKept
<1>5. FailedIsOver' /\ CompletedDescribesData' /\ StoredNotNewer' /\ NewerStep /\ LateNoteStep
  BY <1>1, MarkerKept
<1> QED
  BY <1>2, <1>3, <1>4, <1>5 DEF SyncGoal, SyncInv

LEMMA TakeJobSafe ==
  ASSUME SyncInv, NEW w \in Workers, TakeJob(w)
  PROVE  SyncGoal
<1>1. [QueueNext]_queueVars
  <2>1. SyncNext
    BY Zenon DEF SyncNext
  <2> QED
    BY <2>1, QueueInside DEF SyncInv
<1>2. worker[w] = Idle /\ (\E r : worker' = [worker EXCEPT ![w] = r]) /\ UNCHANGED syncVars
  BY Zenon DEF TakeJob, Take
<1>3. worker = [v \in Workers |-> worker[v]] /\ worker[w].pc # "busy"
  BY <1>2 DEF SyncInv, QueueInv, WorkersOK, Idle
<1>4. \A v \in Workers : worker[v].pc = "busy" => worker'[v] = worker[v]
  BY <1>2, <1>3
<1> QED
  BY <1>1, <1>2, <1>4, OnlyQueue

LEMMA RecoverJobsSafe ==
  ASSUME SyncInv, NEW w \in Workers, RecoverJobs(w)
  PROVE  SyncGoal
<1>1. [QueueNext]_queueVars
  <2>1. SyncNext
    BY Zenon DEF SyncNext
  <2> QED
    BY <2>1, QueueInside DEF SyncInv
<1>2. worker = [v \in Workers |-> worker[v]]
  BY DEF SyncInv, QueueInv, WorkersOK
<1>3. UNCHANGED syncVars /\ (StartRecovery(w) \/ RecoverItem(w) \/ Poll(w))
  BY Zenon DEF RecoverJobs
<1>4. worker' = worker \/ (worker[w].pc # "busy" /\ \E r : worker' = [worker EXCEPT ![w] = r])
  <2>1. CASE StartRecovery(w)
    <3>1. worker[w] = Idle /\ \E r : worker' = [worker EXCEPT ![w] = r]
      BY <2>1, Zenon DEF StartRecovery
    <3>2. worker[w].pc # "busy"
      BY <3>1 DEF Idle
    <3> QED
      BY <3>1, <3>2, Zenon
  <2>2. CASE RecoverItem(w)
    <3>1. worker[w].pc = "scan" /\ \E r : worker' = [worker EXCEPT ![w] = r]
      BY <2>2, Zenon DEF RecoverItem
    <3> QED
      BY <3>1
  <2>3. CASE Poll(w)
    BY <2>3 DEF Poll, queueVars
  <2> QED
    BY <1>3, <2>1, <2>2, <2>3
<1>5. \A v \in Workers : worker[v].pc = "busy" => worker'[v] = worker[v]
  BY <1>2, <1>4
<1> QED
  BY <1>1, <1>3, <1>5, OnlyQueue

\* Steps of one worker's run; its job in the queue may move with it.
LEMMA OnlyRun ==
  ASSUME SyncInv, [QueueNext]_queueVars, UNCHANGED <<marker, binding, request, stored>>,
         NEW w \in Workers, NEW r \in Run, run' = [run EXCEPT ![w] = r],
         \A v \in Workers \ {w} : worker'[v] = worker[v],
         r.pc \in {"start", "read", "begun", "fetched", "done", "failed"} =>
            worker'[w].pc = "busy" /\ worker'[w].item.n = r.ticket,
         r.pc = "record" /\ r.verdict = "failed" => Copies(r.ticket, dead') = 1
  PROVE  SyncGoal
<1>1. QueueInv'
  BY QueueStepSafe DEF SyncInv
<1>2. run' \in [Workers -> Run] /\ RunHolds' /\ VerdictsTrue'
  BY RunStep
<1>3. SyncTypes'
  BY <1>2 DEF SyncInv, SyncTypes
<1>4. FailedIsOver' /\ CompletedDescribesData' /\ StoredNotNewer' /\ NewerStep /\ LateNoteStep
  BY MarkerKept
<1> QED
  BY <1>1, <1>2, <1>3, <1>4 DEF SyncGoal, SyncInv

\* A worker whose run is over.
LEMMA RunEnds ==
  ASSUME SyncInv, [QueueNext]_queueVars, UNCHANGED <<marker, binding, request, stored>>,
         NEW w \in Workers, run' = [run EXCEPT ![w] = NoRun],
         \A v \in Workers \ {w} : worker'[v] = worker[v]
  PROVE  SyncGoal
<1>1. PICK r \in Run : r = NoRun
  BY SyncFacts
<1>2. r.pc = "none" /\ run' = [run EXCEPT ![w] = r]
  BY <1>1 DEF NoRun
<1> QED
  BY <1>2, OnlyRun

RunPlaces == {"none", "start", "read", "begun", "fetched", "done", "failed", "record"}

LEMMA RunUpdate ==
  ASSUME NEW s \in Run, NEW p \in RunPlaces
  PROVE  /\ [s EXCEPT !.pc = p] \in Run /\ [s EXCEPT !.pc = p].pc = p
         /\ [s EXCEPT !.pc = p].ticket = s.ticket /\ [s EXCEPT !.pc = p].ver = s.ver
         /\ [s EXCEPT !.pc = p].verdict = s.verdict
  BY DEF Run, RunPlaces

\* A run moves on while its worker keeps the job.
LEMMA Proceeds ==
  ASSUME SyncInv, UNCHANGED queueVars, UNCHANGED <<marker, binding, request, stored>>,
         NEW w \in Workers, NEW r \in Run, run' = [run EXCEPT ![w] = r],
         run[w].pc \in {"start", "read", "begun", "fetched"},
         r.pc \in {"start", "read", "begun", "fetched", "done", "failed"},
         r.ticket = run[w].ticket
  PROVE  SyncGoal
<1>1. worker' = worker
  BY DEF queueVars
<1>2. worker[w].pc = "busy" /\ worker[w].item.n = run[w].ticket
  BY DEF SyncInv, RunHolds
<1> QED
  BY <1>1, <1>2, OnlyRun

LEMMA ReadCredentialSafe ==
  ASSUME SyncInv, NEW w \in Workers, ReadCredential(w)
  PROVE  SyncGoal
<1>1. /\ UNCHANGED queueVars /\ UNCHANGED <<marker, binding, request, stored>>
      /\ run[w].pc = "start"
  BY Zenon DEF ReadCredential
<1>2. run' = [run EXCEPT ![w].pc = "read", ![w].ver = binding.ver]
  BY Zenon DEF ReadCredential
<1>3. run[w] \in Run /\ run \in [Workers -> Run] /\ binding.ver \in 0 .. MaxVersion
  BY SyncFacts DEF SyncInv, SyncTypes
<1>4. PICK r : r = [run[w] EXCEPT !.pc = "read", !.ver = binding.ver]
  OBVIOUS
<1>5. r \in Run /\ r.pc = "read" /\ r.ticket = run[w].ticket
  BY <1>3, <1>4 DEF Run
<1>6. run' = [run EXCEPT ![w] = r]
  BY <1>2, <1>3, <1>4
<1> QED
  BY <1>1, <1>5, <1>6, Proceeds

LEMMA FetchEmployeesSafe ==
  ASSUME SyncInv, NEW w \in Workers, FetchEmployees(w)
  PROVE  SyncGoal
<1>1. /\ UNCHANGED queueVars /\ UNCHANGED <<marker, binding, request, stored>>
      /\ run[w].pc = "begun" /\ run' = [run EXCEPT ![w].pc = "fetched"]
  BY Zenon DEF FetchEmployees
<1>2. run[w] \in Run
  BY DEF SyncInv, SyncTypes
<1>3. PICK r : r = [run[w] EXCEPT !.pc = "fetched"]
  OBVIOUS
<1>4. r \in Run /\ r.pc = "fetched" /\ r.ticket = run[w].ticket
  BY <1>2, <1>3, RunUpdate DEF RunPlaces
<1>5. run' = [run EXCEPT ![w] = r]
  BY <1>1, <1>3
<1> QED
  BY <1>1, <1>4, <1>5, Proceeds

LEMMA FailSyncSafe ==
  ASSUME SyncInv, NEW w \in Workers, FailSync(w)
  PROVE  SyncGoal
<1>1. /\ UNCHANGED queueVars /\ UNCHANGED <<marker, binding, request, stored>>
      /\ run[w].pc \in {"start", "read", "begun", "fetched"}
      /\ run' = [run EXCEPT ![w].pc = "failed"]
  BY Zenon DEF FailSync
<1>2. run[w] \in Run
  BY DEF SyncInv, SyncTypes
<1>3. PICK r : r = [run[w] EXCEPT !.pc = "failed"]
  OBVIOUS
<1>4. r \in Run /\ r.pc = "failed" /\ r.ticket = run[w].ticket
  BY <1>2, <1>3, RunUpdate DEF RunPlaces
<1>5. run' = [run EXCEPT ![w] = r]
  BY <1>1, <1>3
<1> QED
  BY <1>1, <1>4, <1>5, Proceeds
\* A versioned write of a worker: the marker takes the job's ticket.
LEMMA VersionedWrite ==
  ASSUME SyncInv, UNCHANGED queueVars, UNCHANGED <<binding, request>>,
         NEW w \in Workers, NEW r \in Run, run' = [run EXCEPT ![w] = r], run[w].pc # r.pc,
         MayWrite(w), NEW c \in {"none", "queued", "running", "failed", "completed"},
         marker' = [code |-> c, ver |-> binding.ver, ticket |-> run[w].ticket],
         \/ c # "completed" /\ stored' = stored
         \/ c = "completed" /\ stored' = [ver |-> run[w].ver, ticket |-> run[w].ticket],
         c = "failed" => Copies(run[w].ticket, dead) = 1,
         r.pc \in {"start", "read", "begun", "fetched", "done", "failed"} =>
            /\ run[w].pc \in {"start", "read", "begun", "fetched"}
            /\ r.ticket = run[w].ticket,
         r.pc # "record"
  PROVE  SyncGoal
<1>1. /\ source' = source /\ processing' = processing /\ dead' = dead /\ worker' = worker
  BY DEF queueVars
<1>2. QueueInv'
  BY QueueStepSafe DEF SyncInv
<1>3. r.pc \in {"start", "read", "begun", "fetched", "done", "failed"} =>
        worker'[w].pc = "busy" /\ worker'[w].item.n = r.ticket
  BY <1>1 DEF SyncInv, RunHolds
<1>4. run' \in [Workers -> Run] /\ RunHolds' /\ VerdictsTrue'
  BY <1>1, <1>3, RunStep
<1>5. /\ run[w].ticket \in 0 .. MaxItems /\ run[w].ver \in 0 .. MaxVersion
      /\ binding.ver \in 0 .. MaxVersion
      /\ marker.ticket \in 0 .. MaxItems /\ stored.ticket \in 0 .. MaxItems
      /\ MaxItems \in Nat /\ run \in [Workers -> Run]
  BY SyncFacts DEF SyncInv, SyncTypes, Run, Marker
<1>6. marker'.code = c /\ marker'.ver = binding.ver /\ marker'.ticket = run[w].ticket /\ marker' \in Marker
  BY <1>5 DEF Marker
<1>7. stored' \in [ver : 0 .. MaxVersion, ticket : 0 .. MaxItems]
  BY <1>5 DEF SyncInv, SyncTypes
<1>8. SyncTypes'
  BY <1>4, <1>6, <1>7 DEF SyncInv, SyncTypes
<1>9. binding.ver = run[w].ver /\ marker.ticket <= run[w].ticket /\ stored.ticket <= marker.ticket
  BY DEF MayWrite, SyncInv, StoredNotNewer
<1>10. stored'.ticket \in {stored.ticket, run[w].ticket}
  OBVIOUS
<1>11. NewerStep /\ StoredNotNewer'
  BY <1>5, <1>6, <1>9, <1>10 DEF NewerStep, StoredNotNewer
<1>12. CompletedDescribesData'
  BY <1>6, <1>9 DEF CompletedDescribesData
<1>13. FailedIsOver'
  BY <1>1, <1>6 DEF FailedIsOver
<1>14. LateNoteStep
  BY <1>5 DEF LateNoteStep
<1> QED
  BY <1>2, <1>4, <1>8, <1>11, <1>12, <1>13, <1>14 DEF SyncGoal, SyncInv

LEMMA BeginSyncSafe ==
  ASSUME SyncInv, NEW w \in Workers, BeginSync(w)
  PROVE  SyncGoal
<1>1. /\ UNCHANGED queueVars /\ UNCHANGED <<binding, request, stored>>
      /\ run[w].pc = "read" /\ run' = [run EXCEPT ![w].pc = "begun"] /\ MayWrite(w)
      /\ marker' = [code |-> "running", ver |-> binding.ver, ticket |-> run[w].ticket]
  BY Zenon DEF BeginSync
<1>2. run[w] \in Run
  BY DEF SyncInv, SyncTypes
<1>3. PICK r : r = [run[w] EXCEPT !.pc = "begun"]
  OBVIOUS
<1>4. r \in Run /\ r.pc = "begun" /\ r.ticket = run[w].ticket
  BY <1>2, <1>3, RunUpdate DEF RunPlaces
<1>5. run' = [run EXCEPT ![w] = r]
  BY <1>1, <1>3
<1> QED
  BY <1>1, <1>4, <1>5, VersionedWrite

LEMMA SaveEmployeesSafe ==
  ASSUME SyncInv, NEW w \in Workers, SaveEmployees(w)
  PROVE  SyncGoal
<1>1. /\ UNCHANGED queueVars /\ UNCHANGED <<binding, request>>
      /\ run[w].pc = "fetched" /\ MayWrite(w)
      /\ stored' = [ver |-> run[w].ver, ticket |-> run[w].ticket]
      /\ marker' = [code |-> "completed", ver |-> binding.ver, ticket |-> run[w].ticket]
  BY Zenon DEF SaveEmployees
<1>2. PICK p \in {"done", "failed"} : run' = [run EXCEPT ![w].pc = p]
  BY Zenon DEF SaveEmployees
<1>3. run[w] \in Run
  BY DEF SyncInv, SyncTypes
<1>4. PICK r : r = [run[w] EXCEPT !.pc = p]
  OBVIOUS
<1>5. r \in Run /\ r.pc = p /\ r.ticket = run[w].ticket
  <2>1. p \in RunPlaces
    BY DEF RunPlaces
  <2> QED
    BY <1>3, <1>4, <2>1, RunUpdate
<1>6. run' = [run EXCEPT ![w] = r]
  BY <1>2, <1>4
<1>7. /\ run[w].pc # r.pc /\ r.pc # "record"
  BY <1>1, <1>2, <1>5
<1> QED
  BY <1>1, <1>5, <1>6, <1>7, VersionedWrite

LEMMA RecordVerdictSafe ==
  ASSUME SyncInv, NEW w \in Workers, RecordVerdict(w)
  PROVE  SyncGoal
<1>1. /\ UNCHANGED queueVars /\ UNCHANGED <<binding, request, stored>>
      /\ run[w].pc = "record" /\ run' = [run EXCEPT ![w] = NoRun]
      /\ marker' = IF MayWrite(w)
                   THEN [code |-> run[w].verdict, ver |-> binding.ver, ticket |-> run[w].ticket]
                   ELSE marker
  BY Zenon DEF RecordVerdict
<1>2. CASE MayWrite(w)
  <2>1. PICK r \in Run : r = NoRun
    BY SyncFacts
  <2>2. r.pc = "none" /\ run' = [run EXCEPT ![w] = r]
    BY <1>1, <2>1 DEF NoRun
  <2>3. PICK c \in {"none", "queued", "failed"} : c = run[w].verdict
    BY DEF SyncInv, SyncTypes, Run
  <2>4. marker' = [code |-> c, ver |-> binding.ver, ticket |-> run[w].ticket]
    BY <1>1, <1>2, <2>3
  <2>5. c = "failed" => Copies(run[w].ticket, dead) = 1
    BY <1>1, <2>3 DEF SyncInv, VerdictsTrue
  <2>6. c # "completed" /\ c \in {"none", "queued", "running", "failed", "completed"}
    OBVIOUS
  <2>7. run[w].pc # r.pc
    BY <1>1, <2>2
  <2> QED
    BY <1>1, <1>2, <2>2, <2>4, <2>5, <2>6, <2>7, VersionedWrite
<1>3. CASE ~MayWrite(w)
  <2>1. marker' = marker /\ worker' = worker
    BY <1>1, <1>3 DEF queueVars
  <2> QED
    BY <1>1, <2>1, RunEnds
<1> QED
  BY <1>2, <1>3

LEMMA LoseWorkerSafe ==
  ASSUME SyncInv, NEW w \in Workers, LoseWorker(w)
  PROVE  SyncGoal
<1>1. [QueueNext]_queueVars
  <2>1. SyncNext
    BY Zenon DEF SyncNext
  <2> QED
    BY <2>1, QueueInside DEF SyncInv
<1>2. UNCHANGED <<marker, binding, request, stored>> /\ run' = [run EXCEPT ![w] = NoRun]
  BY Zenon DEF LoseWorker
<1>3. worker' = worker \/ worker' = [worker EXCEPT ![w] = Idle]
  BY Zenon DEF LoseWorker, Lose, queueVars
<1>4. \A v \in Workers \ {w} : worker'[v] = worker[v]
  BY <1>3 DEF SyncInv, QueueInv, WorkersOK
<1> QED
  BY <1>1, <1>2, <1>4, RunEnds

LEMMA AckJobSafe ==
  ASSUME SyncInv, NEW w \in Workers, AckJob(w)
  PROVE  SyncGoal
<1>1. [QueueNext]_queueVars
  <2>1. SyncNext
    BY Zenon DEF SyncNext
  <2> QED
    BY <2>1, QueueInside DEF SyncInv
<1>2. UNCHANGED <<marker, binding, request, stored>> /\ run' = [run EXCEPT ![w] = NoRun]
  BY Zenon DEF AckJob
<1>3. worker' = [worker EXCEPT ![w] = Idle]
  BY Zenon DEF AckJob, Ack
<1>4. \A v \in Workers \ {w} : worker'[v] = worker[v]
  BY <1>3 DEF SyncInv, QueueInv, WorkersOK
<1> QED
  BY <1>1, <1>2, <1>4, RunEnds

\* The run starts under the ticket of the item that was just marked.
LEMMA MarkJobSafe ==
  ASSUME SyncInv, NEW w \in Workers, MarkJob(w)
  PROVE  SyncGoal
<1>1. [QueueNext]_queueVars
  <2>1. SyncNext
    BY Zenon DEF SyncNext
  <2> QED
    BY <2>1, QueueInside DEF SyncInv
<1>2. UNCHANGED <<marker, binding, request, stored>> /\ Mark(w)
  BY Zenon DEF MarkJob
<1>3. PICK x : x = worker[w].item
  OBVIOUS
<1>4. worker[w].pc = "taken"
  BY <1>2 DEF Mark
<1>5. x \in Item /\ worker = [v \in Workers |-> worker[v]]
  BY <1>3, <1>4 DEF SyncInv, QueueInv, WorkersOK
<1>6. PICK z : z = [x EXCEPT !.marked = TRUE]
  OBVIOUS
<1>7. \/ worker' = [worker EXCEPT ![w] = Idle]
      \/ worker' = [worker EXCEPT ![w] = [pc |-> "busy", item |-> z]]
  BY <1>2, <1>3, <1>6, Zenon DEF Mark
<1>8. \A v \in Workers \ {w} : worker'[v] = worker[v]
  BY <1>5, <1>7
<1>9. z.n = x.n
  BY <1>5, <1>6 DEF Item
<1>10. CASE worker'[w].pc = "busy"
  <2>1. worker'[w].item.n = x.n
    <3>1. CASE worker' = [worker EXCEPT ![w] = Idle]
      <4>1. worker'[w] = Idle
        BY <1>5, <3>1
      <4> QED
        BY <1>10, <4>1 DEF Idle
    <3>2. CASE worker' = [worker EXCEPT ![w] = [pc |-> "busy", item |-> z]]
      <4>1. worker'[w] = [pc |-> "busy", item |-> z]
        BY <1>5, <3>2
      <4> QED
        BY <1>9, <4>1
    <3> QED
      BY <1>7, <3>1, <3>2
  <2>2. PICK r : r = [NoRun EXCEPT !.pc = "start", !.ticket = x.n]
    OBVIOUS
  <2>3. r \in Run /\ r.pc = "start" /\ r.ticket = x.n
    <3>1. x.n \in 0 .. MaxItems
      BY <1>5, ItemIs
    <3> QED
      BY <2>2, <3>1, SyncFacts DEF Run
  <2>4. run' = [run EXCEPT ![w] = r]
    BY <1>3, <1>10, <2>2, Zenon DEF MarkJob
  <2> QED
    BY <1>1, <1>2, <1>8, <1>10, <2>1, <2>3, <2>4, OnlyRun
<1>11. CASE worker'[w].pc # "busy"
  <2>1. run' = run
    BY <1>11, Zenon DEF MarkJob
  <2>2. \A v \in Workers : worker[v].pc = "busy" => worker'[v] = worker[v]
    BY <1>4, <1>8
  <2> QED
    BY <1>1, <1>2, <2>1, <2>2, OnlyQueue DEF syncVars
<1> QED
  BY <1>10, <1>11

\* "Failed" is noted exactly when the retry made the job a dead letter.
LEMMA RetryJobSafe ==
  ASSUME SyncInv, NEW w \in Workers, RetryJob(w)
  PROVE  SyncGoal
<1>1. [QueueNext]_queueVars
  <2>1. SyncNext
    BY Zenon DEF SyncNext
  <2> QED
    BY <2>1, QueueInside DEF SyncInv
<1>2. UNCHANGED <<marker, binding, request, stored>> /\ Retry(w) /\ run[w].pc = "failed"
  BY Zenon DEF RetryJob
<1>3. PICK x : x = worker[w].item
  OBVIOUS
<1>4. worker[w].pc = "busy" /\ x.n = run[w].ticket /\ run[w] \in Run
  BY <1>2, <1>3 DEF SyncInv, RunHolds, SyncTypes
<1>5. x \in Item /\ worker = [v \in Workers |-> worker[v]]
  BY <1>3, <1>4 DEF SyncInv, QueueInv, WorkersOK
<1>6. worker' = [worker EXCEPT ![w] = Idle] /\ Requeue(x)
  BY <1>2, <1>3, Zenon DEF Retry
<1>7. \A v \in Workers \ {w} : worker'[v] = worker[v]
  BY <1>5, <1>6
<1>8. CASE In(x, processing) /\ run[w].ver # 0
  <2>1. PICK c : c = VerdictOf(x)
    OBVIOUS
  <2>2. c \in {"queued", "failed"}
    BY <2>1 DEF VerdictOf
  <2>3. PICK r : r = [run[w] EXCEPT !.pc = "record", !.verdict = c]
    OBVIOUS
  <2>4. r \in Run /\ r.pc = "record" /\ r.verdict = c /\ r.ticket = run[w].ticket
    BY <1>4, <2>2, <2>3 DEF Run
  <2>5. run' = [run EXCEPT ![w] = r]
    BY <1>3, <1>8, <2>1, <2>3, Zenon DEF RetryJob
  <2>6. ASSUME c = "failed" PROVE Copies(r.ticket, dead') = 1
    <3>1. x.att + 1 >= MaxAttempts
      BY <2>1, <2>6 DEF VerdictOf
    <3>2. PICK z : z = Rewritten(x)
      OBVIOUS
    <3>3. z.att = x.att + 1 /\ z.n = x.n /\ x.att < MaxAttempts
      <4>1. x.att < MaxAttempts
        BY <1>8, InProcessing DEF SyncInv, QueueInv
      <4> QED
        BY <1>5, <3>2, <4>1 DEF Rewritten, Item
    <3>4. dead' = Append(dead, z)
      <4>1. z.att >= MaxAttempts
        BY <3>1, <3>3
      <4> QED
        BY <1>6, <1>8, <3>2, <4>1, Zenon DEF Requeue
    <3>5. z \in Item
      <4>1. x.att + 1 \in 0 .. MaxAttempts /\ FALSE \in BOOLEAN
        BY <1>5, <3>3, ItemIs
      <4> QED
        BY <1>5, <3>2, <4>1 DEF Rewritten, Item
    <3>6. Copies(x.n, Append(dead, z)) = Copies(x.n, dead) + (IF z.n = x.n THEN 1 ELSE 0)
      BY <3>5, AppendIs DEF SyncInv, QueueInv, ListInv, ListTypes
    <3>7. Copies(x.n, dead) = 0
      BY <1>8, InProcessing DEF SyncInv, QueueInv
    <3>8. Copies(x.n, dead') = 1
      BY <3>3, <3>4, <3>6, <3>7
    <3> QED
      BY <1>4, <2>4, <3>8
  <2> QED
    BY <1>1, <1>2, <1>7, <2>4, <2>5, <2>6, OnlyRun
<1>9. CASE ~(In(x, processing) /\ run[w].ver # 0)
  <2>1. run' = [run EXCEPT ![w] = NoRun]
    BY <1>3, <1>9, Zenon DEF RetryJob
  <2> QED
    BY <1>1, <1>2, <1>7, <2>1, RunEnds
<1> QED
  BY <1>8, <1>9

LEMMA SyncStepSafe ==
  ASSUME SyncInv, [SyncNext]_vars
  PROVE  SyncGoal
<1>1. ASSUME NEW r \in Requests, NEW k \in Keys, StartSync(r, k) PROVE SyncGoal
  BY <1>1, StartSyncSafe
<1>2. ASSUME NEW r \in Requests, NoteQueued(r) PROVE SyncGoal
  BY <1>2, NoteQueuedSafe
<1>3. ASSUME NEW r \in Requests, NoteLost(r) PROVE SyncGoal
  BY <1>3, NoteLostSafe
<1>4. CASE ChangeBinding
  BY <1>4, ChangeBindingSafe
<1>5. ASSUME NEW w \in Workers, TakeJob(w) PROVE SyncGoal
  BY <1>5, TakeJobSafe
<1>6. ASSUME NEW w \in Workers, MarkJob(w) PROVE SyncGoal
  BY <1>6, MarkJobSafe
<1>7. ASSUME NEW w \in Workers, ReadCredential(w) PROVE SyncGoal
  BY <1>7, ReadCredentialSafe
<1>8. ASSUME NEW w \in Workers, BeginSync(w) PROVE SyncGoal
  BY <1>8, BeginSyncSafe
<1>9. ASSUME NEW w \in Workers, FetchEmployees(w) PROVE SyncGoal
  BY <1>9, FetchEmployeesSafe
<1>10. ASSUME NEW w \in Workers, SaveEmployees(w) PROVE SyncGoal
  BY <1>10, SaveEmployeesSafe
<1>11. ASSUME NEW w \in Workers, FailSync(w) PROVE SyncGoal
  BY <1>11, FailSyncSafe
<1>12. ASSUME NEW w \in Workers, AckJob(w) PROVE SyncGoal
  BY <1>12, AckJobSafe
<1>13. ASSUME NEW w \in Workers, RetryJob(w) PROVE SyncGoal
  BY <1>13, RetryJobSafe
<1>14. ASSUME NEW w \in Workers, RecordVerdict(w) PROVE SyncGoal
  BY <1>14, RecordVerdictSafe
<1>15. ASSUME NEW w \in Workers, LoseWorker(w) PROVE SyncGoal
  BY <1>15, LoseWorkerSafe
<1>16. ASSUME NEW w \in Workers, RecoverJobs(w) PROVE SyncGoal
  BY <1>16, RecoverJobsSafe
<1>17. CASE Tick /\ UNCHANGED syncVars
  <2>1. [QueueNext]_queueVars
    BY <1>17, Zenon DEF QueueNext
  <2>2. worker' = worker
    BY <1>17 DEF Tick
  <2> QED
    BY <1>17, <2>1, <2>2, OnlyQueue
<1>18. CASE UNCHANGED vars
  <2>1. UNCHANGED queueVars /\ UNCHANGED syncVars
    BY <1>18 DEF vars
  <2>2. worker' = worker
    BY <2>1 DEF queueVars
  <2> QED
    BY <2>1, <2>2, OnlyQueue
<1> QED
  BY <1>1, <1>2, <1>3, <1>4, <1>5, <1>6, <1>7, <1>8, <1>9, <1>10, <1>11, <1>12, <1>13, <1>14,
     <1>15, <1>16, <1>17, <1>18, Zenon DEF SyncNext

LEMMA SyncSafe == SyncSpec => []SyncInv
<1>1. SyncInit => SyncInv
  BY SyncInvInit
<1>2. SyncInv /\ [SyncNext]_vars => SyncInv'
  BY SyncStepSafe DEF SyncGoal
<1> QED
  BY <1>1, <1>2, PTL DEF SyncSpec

\* Whatever requests, workers and rotations do, the job queue behaves as
\* specified for the queues alone: its theorems hold here too.
THEOREM QueueImplemented == SyncSpec => QueueSpec
<1>1. SyncInit => QueueInit
  BY DEF SyncInit
<1>2. SyncInv /\ [SyncNext]_vars => [QueueNext]_queueVars
  BY QueueInside DEF SyncInv
<1> QED
  BY <1>1, <1>2, SyncSafe, PTL DEF SyncSpec, QueueSpec

\* "Failed" is shown only for a job that has become a dead letter.
THEOREM FailedJobIsOver == SyncSpec => []FailedIsOver
<1>1. SyncInv => FailedIsOver
  BY DEF SyncInv
<1> QED
  BY <1>1, SyncSafe, PTL

\* A marker that says completed describes the employees stored.
THEOREM CompletedDescribes == SyncSpec => []CompletedDescribesData
<1>1. SyncInv => CompletedDescribesData
  BY DEF SyncInv
<1> QED
  BY <1>1, SyncSafe, PTL

\* Neither the marker nor the employees ever go back to an older job.
THEOREM NewerWins == SyncSpec => NewerJobWins
<1>1. SyncInv /\ [SyncNext]_vars => [NewerStep]_vars
  BY SyncStepSafe DEF SyncGoal
<1> QED
  BY <1>1, SyncSafe, PTL DEF SyncSpec, NewerJobWins, NewerStep

\* A request's late note does not take back the completion of its own job.
THEOREM LateNoteKeeps == SyncSpec => LateNoteKeepsCompletion
<1>1. SyncInv /\ [SyncNext]_vars => [LateNoteStep]_vars
  BY SyncStepSafe DEF SyncGoal
<1> QED
  BY <1>1, SyncSafe, PTL DEF SyncSpec, LateNoteKeepsCompletion, LateNoteStep

--------------------------------------------------------------------------------
(* The queue implements EventLifecycle.                                    *)

\* Where an item is in its life, by the history and the dead letters alone.
Staged ==
    \A n \in Numbers :
        /\ n > issued => ItemStage(n) = "absent"
        /\ n <= issued =>
             /\ n \in acked => ItemStage(n) = "completed" /\ Copies(n, dead) = 0
             /\ n \notin acked /\ Copies(n, dead) = 1 => ItemStage(n) = "dead"
             /\ n \notin acked /\ Copies(n, dead) # 1 => ItemStage(n) = "open"

LEMMA Staging == QueueInv => Staged
<1> SUFFICES ASSUME QueueInv, NEW n \in Numbers
             PROVE  /\ n > issued => ItemStage(n) = "absent"
                    /\ n <= issued =>
                         /\ n \in acked => ItemStage(n) = "completed" /\ Copies(n, dead) = 0
                         /\ n \notin acked /\ Copies(n, dead) = 1 => ItemStage(n) = "dead"
                         /\ n \notin acked /\ Copies(n, dead) # 1 => ItemStage(n) = "open"
  BY Zenon DEF Staged
<1>1. issued \in Nat /\ n \in Nat /\ n >= 1
  BY QueueConstants DEF QueueInv, ListInv, ListTypes, Numbers
<1>2. /\ Copies(n, source) \in Nat /\ Copies(n, processing) \in Nat
      /\ Copies(n, dead) \in Nat
  BY CopiesFinite DEF QueueInv, ListInv, ListTypes
<1>3. CASE n > issued
  BY <1>1, <1>3 DEF ItemStage
<1>4. CASE n <= issued
  <2>1. Copies(n, source) + Copies(n, processing) + Copies(n, dead)
          + (IF n \in acked THEN 1 ELSE 0) = 1
    BY <1>1, <1>4 DEF QueueInv, ListInv, NothingLostOrDoubled
  <2>2. CASE n \in acked
    <3>1. Copies(n, source) + Copies(n, processing) = 0 /\ Copies(n, dead) = 0
      BY <1>2, <2>1, <2>2
    <3> QED
      BY <1>1, <1>4, <2>2, <3>1 DEF ItemStage
  <2>3. CASE n \notin acked /\ Copies(n, dead) = 1
    <3>1. Copies(n, source) + Copies(n, processing) = 0
      BY <1>2, <2>1, <2>3
    <3> QED
      BY <1>1, <1>4, <2>3, <3>1 DEF ItemStage
  <2>4. CASE n \notin acked /\ Copies(n, dead) # 1
    <3>1. Copies(n, source) + Copies(n, processing) = 1 /\ Copies(n, dead) = 0
      BY <1>2, <2>1, <2>4
    <3> QED
      BY <1>1, <1>4, <2>4, <3>1 DEF ItemStage
  <2> QED
    BY <1>1, <1>4, <2>2, <2>3, <2>4
<1> QED
  BY <1>1, <1>3, <1>4

\* What the refinement mapping makes of a state.
ItemStages == [n \in Numbers |-> ItemStage(n)]

\* No item is issued or acknowledged; items may have become dead letters.
LEMMA QuietStage ==
  ASSUME QueueInv, [QueueNext]_queueVars, Staged, Staged',
         issued' = issued, acked' = acked
  PROVE  [Lifecycle!VerdictNext]_ItemStages
<1> DEFINE S == {n \in Numbers : ItemStage(n) = "open" /\ ItemStage(n)' = "dead"}
<1>0. issued \in Nat /\ \A n \in Numbers : n \in Nat
  BY QueueConstants DEF QueueInv, ListInv, ListTypes, Numbers
<1>1. ASSUME NEW n \in Numbers
      PROVE  ItemStage(n)' = IF n \in S THEN "dead" ELSE ItemStage(n)
  <2>1. Copies(n, dead) = 1 => Copies(n, dead') = 1
    BY DeadStays
  <2>2. /\ n > issued => ItemStage(n) = "absent" /\ ItemStage(n)' = "absent"
        /\ n <= issued /\ n \in acked => ItemStage(n) = "completed" /\ ItemStage(n)' = "completed"
        /\ n <= issued /\ n \notin acked =>
             /\ Copies(n, dead) = 1 => ItemStage(n) = "dead"
             /\ Copies(n, dead) # 1 => ItemStage(n) = "open"
             /\ Copies(n, dead') = 1 => ItemStage(n)' = "dead"
             /\ Copies(n, dead') # 1 => ItemStage(n)' = "open"
    BY DEF Staged
  <2>3. n > issued \/ n <= issued
    BY <1>0
  <2> QED
    BY <2>1, <2>2, <2>3
<1>2. S \in SUBSET Numbers /\ \A n \in S : ItemStages[n] = "open"
  BY DEF ItemStages
<1>3. ItemStages' = [n \in Numbers |-> IF n \in S THEN "dead" ELSE ItemStages[n]]
  BY <1>1 DEF ItemStages
<1> HIDE DEF S
<1>4. Lifecycle!Bury(S)
  BY <1>2, <1>3, Zenon DEF Lifecycle!Bury, ItemStages
<1> QED
  BY <1>2, <1>4 DEF Lifecycle!VerdictNext

\* One item changes its stage.
OneStage(m, old, new) ==
    /\ ItemStage(m) = old /\ ItemStage(m)' = new
    /\ \A n \in Numbers \ {m} : ItemStage(n)' = ItemStage(n)

LEMMA OneStageStep ==
  ASSUME NEW m \in Numbers,
         OneStage(m, "absent", "open") \/ OneStage(m, "open", "completed")
  PROVE  [Lifecycle!VerdictNext]_ItemStages
<1>1. ASSUME NEW old, NEW new, OneStage(m, old, new)
      PROVE  ItemStages[m] = old /\ ItemStages' = [ItemStages EXCEPT ![m] = new]
  BY <1>1 DEF OneStage, ItemStages
<1>2. ASSUME OneStage(m, "absent", "open") PROVE Lifecycle!Accept(m)
  <2>1. ItemStages[m] = "absent" /\ ItemStages' = [ItemStages EXCEPT ![m] = "open"]
    BY <1>1, <1>2
  <2> QED
    BY <2>1, Zenon DEF Lifecycle!Accept, ItemStages
<1>3. ASSUME OneStage(m, "open", "completed") PROVE Lifecycle!Finish(m)
  <2>1. ItemStages[m] = "open" /\ ItemStages' = [ItemStages EXCEPT ![m] = "completed"]
    BY <1>1, <1>3
  <2> QED
    BY <2>1, Zenon DEF Lifecycle!Finish, ItemStages
<1> QED
  BY <1>2, <1>3 DEF Lifecycle!VerdictNext

LEMMA AckStage ==
  ASSUME QueueInv, Staged, Staged', NEW x, In(x, processing),
         issued' = issued, dead' = dead, acked' = acked \cup {x.n}
  PROVE  [Lifecycle!VerdictNext]_ItemStages
<1>1. PICK m \in Numbers : m = x.n /\ m <= issued /\ m \notin acked
  <2>1. x.n \in 1 .. issued /\ x.n \notin acked /\ issued \in 0 .. MaxItems
    BY InProcessing DEF QueueInv, ListInv, ListTypes
  <2> QED
    BY <2>1, QueueConstants DEF Numbers
<1>2. ItemStage(m)' = "completed" /\ Copies(m, dead) = 0
  BY <1>1 DEF Staged
<1>3. ItemStage(m) = "open"
  BY <1>1, <1>2 DEF Staged
<1>4. ASSUME NEW n \in Numbers, n # m PROVE ItemStage(n)' = ItemStage(n)
  <2>1. (n \in acked') <=> n \in acked
    BY <1>1, <1>4
  <2>2. n > issued \/ n <= issued
    BY QueueConstants DEF QueueInv, ListInv, ListTypes, Numbers
  <2> QED
    BY <2>1, <2>2 DEF Staged
<1>5. OneStage(m, "open", "completed")
  BY <1>2, <1>3, <1>4 DEF OneStage
<1> QED
  BY <1>5, OneStageStep

LEMMA NewStage ==
  ASSUME QueueInv, Staged, Staged', issued < MaxItems,
         issued' = issued + 1, dead' = dead, acked' = acked
  PROVE  [Lifecycle!VerdictNext]_ItemStages
<1>0. issued \in Nat /\ dead \in Seq(Item) /\ \A n \in Numbers : n \in Nat
  BY QueueConstants DEF QueueInv, ListInv, ListTypes, Numbers
<1>1. PICK m \in Numbers : m = issued + 1
  BY <1>0, QueueConstants DEF Numbers
<1>2. m > issued /\ m <= issued'
  BY <1>0, <1>1
<1>3. m \notin acked
  <2>1. \A n \in acked : n <= issued
    BY DEF QueueInv, ListInv, Numbered
  <2> QED
    BY <1>0, <1>2, <2>1
<1>4. Copies(m, dead) = 0
  <2>1. \A y : In(y, dead) => y.n <= issued
    BY Zenon DEF QueueInv, ListInv, Numbered
  <2>2. \A y : In(y, dead) => y.n # m
    BY <1>0, <1>2, <2>1
  <2> QED
    BY <1>0, <2>2, CopiesFinite
<1>5. ItemStage(m) = "absent" /\ ItemStage(m)' = "open"
  BY <1>2, <1>3, <1>4 DEF Staged
<1>6. ASSUME NEW n \in Numbers, n # m PROVE ItemStage(n)' = ItemStage(n)
  <2>1. (n > issued /\ n > issued') \/ (n <= issued /\ n <= issued')
    BY <1>0, <1>1, <1>6
  <2> QED
    BY <2>1 DEF Staged
<1>7. OneStage(m, "absent", "open")
  BY <1>5, <1>6 DEF OneStage
<1> QED
  BY <1>7, OneStageStep

LEMMA QueueStages ==
  QueueInv /\ QueueInv' /\ [QueueNext]_queueVars => [Lifecycle!VerdictNext]_ItemStages
<1> SUFFICES ASSUME QueueInv, QueueInv', [QueueNext]_queueVars
             PROVE  [Lifecycle!VerdictNext]_ItemStages
  OBVIOUS
<1>1. Staged /\ Staged'
  BY Staging, PTL
<1>2. \/ issued' = issued /\ acked' = acked
      \/ issued < MaxItems /\ issued' = issued + 1 /\ dead' = dead /\ acked' = acked
      \/ \E x : /\ In(x, processing) /\ issued' = issued /\ dead' = dead
                /\ acked' = acked \cup {x.n}
  <2>1. ASSUME NEW w \in Workers, Ack(w)
        PROVE  \/ issued' = issued /\ acked' = acked
               \/ \E x : /\ In(x, processing) /\ issued' = issued /\ dead' = dead
                         /\ acked' = acked \cup {x.n}
    BY <2>1, Zenon DEF Ack
  <2>2. ASSUME NEW w \in Workers,
               Take(w) \/ Mark(w) \/ Retry(w) \/ StartRecovery(w) \/ RecoverItem(w)
                 \/ Poll(w) \/ Lose(w)
        PROVE  issued' = issued /\ acked' = acked
    BY <2>2, Zenon DEF Take, Mark, Retry, StartRecovery, RecoverItem, Poll, Lose, queueVars
  <2>3. ASSUME NEW k, Enqueue(k) \/ Push(k)
        PROVE  issued < MaxItems /\ issued' = issued + 1 /\ dead' = dead /\ acked' = acked
    BY <2>3, Zenon DEF Enqueue, Push
  <2>4. CASE Tick \/ UNCHANGED queueVars
    BY <2>4, Zenon DEF Tick, queueVars
  <2> QED
    BY <2>1, <2>2, <2>3, <2>4, Zenon DEF QueueNext, LoopStep
<1> QED
  BY <1>1, <1>2, QuietStage, AckStage, NewStage, Zenon

\* Refinement: with the crashes, the lost replies and the recoveries that race
\* slow workers, each item lives the lifecycle of EventLifecycle, and its verdict
\* is final: it is never lost, doubled or worked on again.
THEOREM QueueImplementsLifecycle == QueueSpec => ImplementsLifecycle
<1>1. QueueInit => Lifecycle!LifecycleInit
  <2> SUFFICES ASSUME QueueInit PROVE Lifecycle!LifecycleInit
    OBVIOUS
  <2>1. \A n \in Numbers : n > issued
    BY QueueConstants DEF QueueInit, Numbers
  <2>2. \A n \in Numbers : ItemStage(n) = "absent"
    BY <2>1, QueueInvInit, Staging, Zenon DEF Staged
  <2> QED
    BY <2>2 DEF Lifecycle!LifecycleInit
<1> QED
  BY <1>1, QueueStages, QueueSafe, PTL
  DEF QueueSpec, ImplementsLifecycle, Lifecycle!VerdictSpec, ItemStages

\* The jobs of the employee synchronisation are such items, whatever requests,
\* rotations of the credentials and workers between Redis and MySQL do.
THEOREM JobsImplementLifecycle == SyncSpec => ImplementsLifecycle
  BY QueueImplemented, QueueImplementsLifecycle, PTL

--------------------------------------------------------------------------------
(* Types of the queues and of the synchronisation.                         *)

\* The three places of a worker loop have the fields they should have.
Shaped(loop) ==
    \/ loop = Idle
    \/ loop = [pc |-> loop.pc, item |-> loop.item] /\ loop.pc \in {"taken", "busy"}
    \/ loop = [pc |-> "scan", snapshot |-> loop.snapshot]

QueueShape ==
    /\ fresh \in [Numbers -> 0 .. StaleAfter]
    /\ losses \in 0 .. MaxLosses
    /\ \A w \in Workers : Shaped(worker[w])

\* A recovery's snapshot is a selection from the list of items.
SnapshotsAreLists ==
    \A w \in Workers : worker[w].pc = "scan" => worker[w].snapshot \in Seq(Item)

LEMMA LoopShapes ==
  ASSUME NEW x, NEW s
  PROVE  /\ Shaped(Idle) /\ Shaped([pc |-> "taken", item |-> x])
         /\ Shaped([pc |-> "busy", item |-> x]) /\ Shaped([pc |-> "scan", snapshot |-> s])
  BY DEF Shaped

LEMMA ShapeStep ==
  ASSUME QueueInv, QueueShape, NEW w \in Workers, NEW loop, Shaped(loop),
         worker' = [worker EXCEPT ![w] = loop],
         fresh' \in [Numbers -> 0 .. StaleAfter], losses' \in 0 .. MaxLosses
  PROVE  QueueShape'
<1>1. worker = [v \in Workers |-> worker[v]]
  BY DEF QueueInv, WorkersOK
<1>2. \A v \in Workers : worker'[v] = IF v = w THEN loop ELSE worker[v]
  BY <1>1
<1>3. ASSUME NEW v \in Workers PROVE Shaped(worker'[v])
  BY <1>2 DEF QueueShape
<1> QED
  BY <1>3 DEF QueueShape

LEMMA MarkShape ==
  ASSUME QueueInv, QueueShape, NEW w \in Workers, Mark(w)
  PROVE  QueueShape'
<1>1. worker[w].item \in Item /\ worker[w].item.n \in Numbers
  BY DEF QueueInv, WorkersOK, Mark, Item
<1>2. losses' \in 0 .. MaxLosses
  BY DEF Mark, QueueShape
<1>3. CASE fresh' = fresh /\ worker' = [worker EXCEPT ![w] = Idle]
  BY <1>2, <1>3, LoopShapes, ShapeStep DEF QueueShape
<1>4. CASE /\ fresh' = [fresh EXCEPT ![worker[w].item.n] = StaleAfter]
           /\ worker' = [worker EXCEPT ![w] =
                           [pc |-> "busy", item |-> [worker[w].item EXCEPT !.marked = TRUE]]]
  <2>1. fresh' \in [Numbers -> 0 .. StaleAfter]
    BY <1>1, <1>4, QueueConstants DEF QueueShape
  <2> QED
    BY <1>2, <1>4, <2>1, LoopShapes, ShapeStep
<1> QED
  BY <1>3, <1>4, Zenon DEF Mark

LEMMA QueueShapeNext ==
  QueueInv /\ QueueShape /\ [QueueNext]_queueVars => QueueShape'
<1> SUFFICES ASSUME QueueInv, QueueShape, [QueueNext]_queueVars PROVE QueueShape'
  OBVIOUS
<1>0. fresh \in [Numbers -> 0 .. StaleAfter] /\ losses \in 0 .. MaxLosses
  BY DEF QueueShape
<1>1. ASSUME UNCHANGED <<fresh, worker, losses>> PROVE QueueShape'
  BY <1>1 DEF QueueShape
<1>2. ASSUME NEW w \in Workers,
             Take(w) \/ Ack(w) \/ Retry(w) \/ StartRecovery(w) \/ RecoverItem(w)
      PROVE  QueueShape'
  <2>1. /\ UNCHANGED <<fresh, losses>>
        /\ \E x, s : \E loop \in {Idle, [pc |-> "taken", item |-> x], [pc |-> "scan", snapshot |-> s]} :
              worker' = [worker EXCEPT ![w] = loop]
    BY <1>2 DEF Take, Ack, Retry, StartRecovery, RecoverItem
  <2> QED
    BY <1>0, <2>1, LoopShapes, ShapeStep
<1>3. ASSUME NEW w \in Workers, Lose(w) PROVE QueueShape'
  <2>1. /\ worker' = [worker EXCEPT ![w] = Idle] /\ fresh' = fresh
        /\ losses' \in 0 .. MaxLosses
    BY <1>0, <1>3, QueueConstants DEF Lose
  <2> QED
    BY <1>0, <2>1, LoopShapes, ShapeStep
<1>4. CASE Tick
  <2>1. fresh' = [n \in Numbers |-> Lower(fresh[n])] /\ UNCHANGED <<worker, losses>>
    BY <1>4 DEF Tick
  <2>2. \A n \in Numbers : Lower(fresh[n]) \in 0 .. StaleAfter
    BY <1>0, QueueConstants DEF Lower
  <2> QED
    BY <2>1, <2>2 DEF QueueShape
<1>5. ASSUME NEW k, Enqueue(k) \/ Push(k) PROVE QueueShape'
  <2>1. UNCHANGED <<fresh, worker, losses>>
    BY <1>5, Zenon DEF Enqueue, Push
  <2> QED
    BY <1>1, <2>1
<1>6. ASSUME NEW w \in Workers, Poll(w) PROVE QueueShape'
  <2>1. UNCHANGED <<fresh, worker, losses>>
    BY <1>6, Zenon DEF Poll, queueVars
  <2> QED
    BY <1>1, <2>1
<1>7. CASE UNCHANGED queueVars
  <2>1. UNCHANGED <<fresh, worker, losses>>
    BY <1>7, Zenon DEF queueVars
  <2> QED
    BY <1>1, <2>1
<1> QED
  BY <1>2, <1>3, <1>4, <1>5, <1>6, <1>7, MarkShape, Zenon DEF QueueNext, LoopStep

LEMMA QueueShapeSafe == QueueSpec => []QueueShape
<1>1. QueueInit => QueueShape
  BY QueueConstants DEF QueueInit, QueueShape, Shaped
<1> QED
  BY <1>1, QueueSafe, QueueShapeNext, PTL DEF QueueSpec

LEMMA QueueTyped ==
  QueueInv /\ QueueShape /\ SnapshotsAreLists => QueueTypeOK
<1> SUFFICES ASSUME QueueInv, QueueShape, SnapshotsAreLists PROVE QueueTypeOK
  OBVIOUS
<1>1. ASSUME NEW w \in Workers PROVE worker[w] \in WorkerLoop
  <2>1. Shaped(worker[w])
    BY DEF QueueShape
  <2>2. CASE worker[w] = Idle
    BY <2>2 DEF Idle, WorkerLoop
  <2>3. CASE /\ worker[w] = [pc |-> worker[w].pc, item |-> worker[w].item]
             /\ worker[w].pc \in {"taken", "busy"}
    <3>1. worker[w].item \in Item
      BY <2>3 DEF QueueInv, WorkersOK
    <3> QED
      BY <2>3, <3>1 DEF WorkerLoop
  <2>4. CASE worker[w] = [pc |-> "scan", snapshot |-> worker[w].snapshot]
    <3>1. worker[w].snapshot \in Seq(Item)
      BY <2>4 DEF SnapshotsAreLists
    <3> QED
      BY <2>4, <3>1 DEF WorkerLoop
  <2> QED
    BY <2>1, <2>2, <2>3, <2>4 DEF Shaped
<1>2. worker \in [Workers -> WorkerLoop]
  BY <1>1 DEF QueueInv, WorkersOK
<1> QED
  BY <1>2 DEF QueueInv, ListInv, ListTypes, Claim, QueueShape, QueueTypeOK

\* Type correctness of the lists, the claims, the marks and the worker loops,
\* given that the library's SelectSeq makes a list of items out of one.
THEOREM QueueTypeCorrect == QueueSpec => [](SnapshotsAreLists => QueueTypeOK)
<1>1. QueueInv /\ QueueShape => (SnapshotsAreLists => QueueTypeOK)
  BY QueueTyped
<1> QED
  BY <1>1, QueueSafe, QueueShapeSafe, PTL

\* The same of the synchronisation, with the marker, the requests and the runs.
THEOREM SyncTypeCorrect == SyncSpec => [](SnapshotsAreLists => SyncTypeOK)
<1>1. SyncInv /\ QueueShape => (SnapshotsAreLists => SyncTypeOK)
  BY QueueTyped DEF SyncInv, SyncTypes, SyncTypeOK
<1> QED
  BY <1>1, SyncSafe, QueueImplemented, QueueShapeSafe, PTL

================================================================================
