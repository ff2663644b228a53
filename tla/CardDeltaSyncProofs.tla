------------------------- MODULE CardDeltaSyncProofs -------------------------
(***************************************************************************)
(* Proofs about CardDeltaSync for any number of devices, cards, rows and   *)
(* transactions, any page and any grain of the cursor: no change is skipped *)
(* but those that were in flight while a page was read.                    *)
(*                                                                         *)
(* The argument has two halves.  What is in flight is stamped past every   *)
(* cursor, or its card is among the crossed ones (Ahead).  What a page     *)
(* leaves out is, in its order, past the last card that it has             *)
(* (LastIsPassed).                                                         *)
(***************************************************************************)
EXTENDS CardDeltaSync, FiniteSetTheorems, NaturalsInduction, WellFoundedInduction, TLAPS

-----------------------------------------------------------------------------
(* Numbers.                                                                 *)
Less == {e \in Nat \X Nat : e[1] < e[2]}

(* A set of numbers has a least one; and, if it has a bound, a last one.    *)
LEMMA LeastIsThere ==
    ASSUME NEW S \in SUBSET Nat, S # {}
    PROVE  \E m \in S : \A k \in S : m <= k
  <1>1. IsWellFoundedOn(Less, Nat)
    BY NatLessThanWellFounded DEF OpToRel, Less
  <1>2. PICK m \in S : \A k \in S : <<k, m>> \notin Less
    BY <1>1, WFMin
  <1>3. ASSUME NEW k \in S
        PROVE  m <= k
    <2>1. ~ (k < m)
      BY <1>2 DEF Less
    <2> QED
      BY <2>1
  <1> QED
    BY <1>3

LEMMA LastIsThere ==
    ASSUME NEW n \in Nat, NEW S \in SUBSET (0 .. n), S # {}
    PROVE  \E m \in S : \A k \in S : k <= m
  <1> DEFINE T == {k \in 0 .. n : \E x \in S : x = n - k}
  <1>1. T \in SUBSET Nat /\ T # {}
    <2>1. PICK x \in S : x \in 0 .. n
      OBVIOUS
    <2>2. n - x \in 0 .. n /\ x = n - (n - x)
      BY <2>1
    <2>3. n - x \in T
      BY <2>1, <2>2
    <2>4. T \in SUBSET Nat
      OBVIOUS
    <2> QED
      BY <2>3, <2>4
  <1>2. PICK m \in T : \A k \in T : m <= k
    BY <1>1, LeastIsThere
  <1>3. PICK x \in S : x = n - m
    OBVIOUS
  <1>4. ASSUME NEW k \in S
        PROVE  k <= x
    <2>1. n - k \in 0 .. n /\ k = n - (n - k)
      OBVIOUS
    <2>2. m <= n - k
      BY <2>1, <1>2
    <2>3. m \in Nat /\ k \in Nat
      OBVIOUS
    <2> QED
      BY <2>2, <2>3, <1>3
  <1> QED
    BY <1>4

(* A Date holds a time at or before the one it was made from.               *)
LEMMA DateIsBefore ==
    ASSUME NEW t \in Nat
    PROVE  DateOf(t) \in 0 .. t
  <1>1. Grain \in Nat \ {0}
    BY DeltaAssumption DEF DeltaAssumption
  <1>2. t % Grain \in 0 .. t
    BY <1>1
  <1> QED
    BY <1>2 DEF DateOf

-----------------------------------------------------------------------------
(* The page.                                                                *)
Found(found, bound) == DOMAIN found \subseteq Cards /\ \A k \in DOMAIN found : found[k] \in 1 .. bound
Earlier(found, k) == {j \in DOMAIN found : Before(found, j, k)}

LEMMA CardsAreFinite == IsFiniteSet(Cards) /\ Cards \subseteq Nat \ {0} /\ Limit \in Nat \ {0}
BY DeltaAssumption DEF DeltaAssumption

(* The order of the page is total, and what comes before is counted.        *)
LEMMA OrderIsTotal ==
    ASSUME NEW found, NEW bound \in Nat, Found(found, bound), NEW j \in DOMAIN found, NEW k \in DOMAIN found
    PROVE  /\ j = k \/ Before(found, j, k) \/ Before(found, k, j)
           /\ ~Before(found, k, k)
           /\ Before(found, j, k) => Earlier(found, j) \subseteq Earlier(found, k)
  <1>1. j \in Nat /\ k \in Nat /\ \A i \in DOMAIN found : i \in Nat /\ found[i] \in Nat
    <2>1. \A i \in DOMAIN found : i \in Nat
      BY CardsAreFinite DEF Found
    <2>2. \A i \in DOMAIN found : found[i] \in 1 .. bound
      BY DEF Found
    <2>3. 1 .. bound \subseteq Nat
      OBVIOUS
    <2> QED
      BY <2>1, <2>2, <2>3
  <1>2. j = k \/ Before(found, j, k) \/ Before(found, k, j)
    BY <1>1 DEF Before
  <1>3. ~Before(found, k, k)
    BY <1>1 DEF Before
  <1>4. ASSUME NEW i \in DOMAIN found, Before(found, i, j), Before(found, j, k)
        PROVE  Before(found, i, k)
    BY <1>1, <1>4 DEF Before
  <1> QED
    BY <1>2, <1>3, <1>4 DEF Earlier

LEMMA EarlierAreCounted ==
    ASSUME NEW found, NEW bound \in Nat, Found(found, bound), NEW j \in DOMAIN found, NEW k \in DOMAIN found,
           Before(found, j, k)
    PROVE  /\ Cardinality(Earlier(found, j)) \in Nat /\ Cardinality(Earlier(found, k)) \in Nat
           /\ Cardinality(Earlier(found, j)) < Cardinality(Earlier(found, k))
  <1>1. Earlier(found, j) \subseteq Cards /\ Earlier(found, k) \subseteq Cards
    BY DEF Earlier, Found
  <1>2. IsFiniteSet(Earlier(found, j)) /\ IsFiniteSet(Earlier(found, k))
    BY <1>1, CardsAreFinite, FS_Subset
  <1>3. Earlier(found, j) \in SUBSET Earlier(found, k) /\ j \in Earlier(found, k) /\ j \notin Earlier(found, j)
    BY OrderIsTotal DEF Earlier
  <1>4. /\ Cardinality(Earlier(found, j)) <= Cardinality(Earlier(found, k))
        /\ Cardinality(Earlier(found, k)) = Cardinality(Earlier(found, j)) => Earlier(found, k) = Earlier(found, j)
    BY <1>2, <1>3, FS_Subset
  <1> QED
    BY <1>2, <1>3, <1>4, FS_CardinalityType

LEMMA CountType ==
    ASSUME NEW found, NEW bound \in Nat, Found(found, bound), NEW k
    PROVE  Cardinality(Earlier(found, k)) \in 0 .. Cardinality(Cards) /\ Cardinality(Cards) \in Nat
  <1>1. Earlier(found, k) \in SUBSET Cards
    BY DEF Earlier, Found
  <1> QED
    BY <1>1, CardsAreFinite, FS_Subset, FS_CardinalityType

(* A page of what was found has a last card, and everything that it leaves  *)
(* out comes after that.                                                    *)
LEMMA LastIsPassed ==
    ASSUME NEW found, NEW bound \in Nat, Found(found, bound), DOMAIN found # {}
    PROVE  LET page == PageOf(found)
               last == LastOf(found, page)
           IN  /\ page \subseteq DOMAIN found /\ last \in page
               /\ \A k \in DOMAIN found \ page : Before(found, last, k)
  <1> DEFINE page == PageOf(found)
             last == LastOf(found, page)
             count(k) == Cardinality(Earlier(found, k))
  <1>1. page = {k \in DOMAIN found : count(k) < Limit}
    BY DEF PageOf, Earlier
  <1>2. \A k \in DOMAIN found : count(k) \in Nat /\ count(k) <= Cardinality(Cards)
    BY CountType
  <1>3. \A j, k \in DOMAIN found : Before(found, j, k) => count(j) < count(k)
    BY EarlierAreCounted
  <1> HIDE DEF page, count
  <1>4. page # {}
    <2> DEFINE S == {count(k) : k \in DOMAIN found}
    <2>1. S \in SUBSET Nat /\ S # {}
      BY <1>2
    <2>2. PICK m \in S : \A n \in S : m <= n
      BY <2>1, LeastIsThere
    <2>3. PICK k \in DOMAIN found : m = count(k)
      OBVIOUS
    <2>4. ASSUME NEW j \in Earlier(found, k)
          PROVE  FALSE
      <3>1. j \in DOMAIN found /\ count(j) < count(k)
        BY <1>3 DEF Earlier
      <3>2. count(k) <= count(j)
        BY <2>2, <2>3, <3>1
      <3> QED
        BY <1>2, <3>1, <3>2
    <2>5. count(k) = 0
      <3>1. Earlier(found, k) = {}
        BY <2>4
      <3> QED
        BY <3>1, FS_EmptySet DEF count
    <2> QED
      BY <1>1, <2>5, CardsAreFinite
  <1>5. last \in page /\ \A j \in page : j = last \/ Before(found, j, last)
    <2> DEFINE S == {count(k) : k \in page}
    <2>1. S \in SUBSET (0 .. Cardinality(Cards)) /\ S # {} /\ Cardinality(Cards) \in Nat
      BY <1>1, <1>2, <1>4, CountType
    <2>2. PICK m \in S : \A n \in S : n <= m
      BY <2>1, LastIsThere
    <2>3. PICK k \in page : m = count(k)
      OBVIOUS
    <2>4. ASSUME NEW j \in page, j # k
          PROVE  Before(found, j, k)
      <3>1. count(j) <= count(k) /\ count(j) \in Nat /\ count(k) \in Nat /\ j \in DOMAIN found /\ k \in DOMAIN found
        BY <1>1, <1>2, <2>2, <2>3
      <3>2. ~Before(found, k, j)
        BY <1>3, <3>1
      <3> QED
        BY <2>4, <3>1, <3>2, OrderIsTotal
    <2>5. \E i \in page : \A j \in page : j = i \/ Before(found, j, i)
      BY <2>4
    <2> QED
      BY <2>5 DEF LastOf
  <1> HIDE DEF last
  <1>6. ASSUME NEW k \in DOMAIN found \ page
        PROVE  Before(found, last, k)
    <2>1. last \in DOMAIN found /\ count(last) < Limit /\ ~(count(k) < Limit)
      BY <1>1, <1>5
    <2>2. count(last) \in Nat /\ count(k) \in Nat /\ Limit \in Nat
      BY <1>2, <2>1, CardsAreFinite
    <2>3. last # k /\ ~Before(found, k, last)
      BY <1>3, <2>1, <2>2
    <2> QED
      BY <2>1, <2>3, OrderIsTotal
  <1> QED
    BY <1>1, <1>5, <1>6 DEF page, last

(* What ChangesFor finds: each card with a selected row, at the time of the *)
(* last one of its rows.                                                    *)
LEMMA ChangesAreFound ==
    ASSUME NEW c \in Clients, until[c] \in Nat, changedAt \in [Rows -> Nat]
    PROVE  LET found == ChangesFor(c) IN
           /\ Found(found, until[c])
           /\ \A r \in Selected(c) : CardOf[r] \in DOMAIN found
           /\ \A k \in DOMAIN found : \E r \in Selected(c) : CardOf[r] = k /\ changedAt[r] = found[k]
  <1> DEFINE found == ChangesFor(c)
             times(k) == {changedAt[r] : r \in {q \in Selected(c) : CardOf[q] = k}}
  <1>1. DOMAIN found = {CardOf[r] : r \in Selected(c)}
    BY DEF ChangesFor
  <1>2. ASSUME NEW k \in DOMAIN found
        PROVE  found[k] \in times(k)
    <2>1. times(k) \subseteq 0 .. until[c]
      BY DEF Selected
    <2>2. times(k) # {}
      BY <1>1
    <2>3. \E t \in times(k) : \A u \in times(k) : u <= t
      <3> HIDE DEF times
      <3> QED
        BY <2>1, <2>2, LastIsThere
    <2>4. found[k] = CHOOSE t \in times(k) : \A u \in times(k) : u <= t
      BY <1>1 DEF ChangesFor
    <2> HIDE DEF times, found
    <2> QED
      BY <2>3, <2>4
  <1>3. DOMAIN found \subseteq Cards
    BY <1>1, DeltaAssumption DEF DeltaAssumption, Selected
  <1>4. \A k \in DOMAIN found : \E r \in Selected(c) : CardOf[r] = k /\ changedAt[r] = found[k]
    BY <1>2
  <1>5. \A k \in DOMAIN found : found[k] \in 1 .. until[c]
    BY <1>4 DEF Selected
  <1>6. \A r \in Selected(c) : CardOf[r] \in DOMAIN found
    BY <1>1
  <1> HIDE DEF found
  <1> QED
    BY <1>3, <1>4, <1>5, <1>6 DEF Found, found

-----------------------------------------------------------------------------
(* The invariant.                                                           *)

\* What is in flight is past each cursor, or its card is among the crossed.
Ahead ==
    \A c \in Clients, w \in Writers : \A r \in open[w] :
        /\ stamp[w] # 0
        /\ Past(cursor[c], stamp[w], CardOf[r]) \/ CardOf[r] \in crossed[c]

DeltaInv == TypeOK /\ Ahead /\ NothingSkipped

LEMMA DeltaInit == Init => DeltaInv
  <1> SUFFICES ASSUME Init PROVE DeltaInv
    OBVIOUS
  <1>1. TypeOK
    BY DeltaAssumption DEF DeltaAssumption, Init, TypeOK, Times
  <1>2. Ahead
    BY DEF Init, Ahead
  <1>3. NothingSkipped
    <2> SUFFICES ASSUME NEW c \in Clients, NEW k \in stale[c] \ crossed[c]
                 PROVE  \E r \in Rows : CardOf[r] = k /\ changedAt[r] # 0 /\ Past(cursor[c], changedAt[r], k)
      BY DEF NothingSkipped
    <2>1. k \in Cards /\ now # 0 /\ now \in Nat /\ cursor[c].at = 0 /\ \A r \in Rows : changedAt[r] = now
      BY <1>1 DEF Init, TypeOK, Times
    <2>2. PICK r \in Rows : CardOf[r] = k
      BY <2>1, DeltaAssumption DEF DeltaAssumption
    <2> QED
      BY <2>1, <2>2 DEF Past
  <1> QED
    BY <1>1, <1>2, <1>3 DEF DeltaInv

\* A committed row that a cursor has not passed.
Waits(r, cur) == changedAt[r] # 0 /\ Past(cur, changedAt[r], CardOf[r])

(* A page: its cursor is not past its upper bound, and a change that it     *)
(* does not have is past its cursor.                                        *)
LEMMA PageIsSound ==
    ASSUME DeltaInv, NEW c \in Clients, pc[c] = "read", NEW next,
           next = NextCursor(ChangesFor(c), PageOf(ChangesFor(c)), until[c])
    PROVE  /\ next \in [at : 0 .. until[c], id : Cards \cup {0}]
           /\ \A r \in Rows : Waits(r, cursor[c]) /\ CardOf[r] \notin PageOf(ChangesFor(c))
                             => \E q \in Rows : CardOf[q] = CardOf[r] /\ Waits(q, next)
  <1> DEFINE found == ChangesFor(c)
             page == PageOf(found)
             last == LastOf(found, page)
             bound == until[c]
  <1>1. /\ now \in Nat /\ bound \in 0 .. now
        /\ \A r \in Rows : changedAt[r] \in Nat /\ CardOf[r] \in Nat \ {0}
        /\ cursor[c].at \in Nat /\ cursor[c].id \in Nat
        /\ changedAt \in [Rows -> Nat]
    <2>1. CardOf \in [Rows -> Cards] /\ Cards \subseteq Nat \ {0}
      BY DeltaAssumption DEF DeltaAssumption
    <2>2. TypeOK
      BY DEF DeltaInv
    <2>3. now \in Nat /\ bound \in 0 .. now /\ changedAt \in [Rows -> 0 .. now]
          /\ cursor[c] \in [at : 0 .. now, id : Cards \cup {0}]
      BY <2>2 DEF TypeOK, Times
    <2>4. cursor[c].at \in Nat /\ cursor[c].id \in Nat /\ changedAt \in [Rows -> Nat]
      BY <2>1, <2>3
    <2> QED
      BY <2>1, <2>3, <2>4
  <1>2. /\ Found(found, bound)
        /\ \A r \in Selected(c) : CardOf[r] \in DOMAIN found
        /\ \A k \in DOMAIN found : \E r \in Selected(c) : CardOf[r] = k /\ changedAt[r] = found[k]
    BY <1>1, ChangesAreFound
  <1>4. \A k \in DOMAIN found : k \in Nat \ {0} /\ k \in Cards /\ found[k] \in Nat /\ found[k] <= bound
    <2> SUFFICES ASSUME NEW k \in DOMAIN found
                 PROVE  k \in Nat \ {0} /\ k \in Cards /\ found[k] \in Nat /\ found[k] <= bound
      OBVIOUS
    <2>1. found[k] \in 1 .. bound /\ k \in Cards
      BY <1>2 DEF Found
    <2>2. Cards \subseteq Nat \ {0}
      BY CardsAreFinite
    <2> HIDE DEF found
    <2> QED
      BY <2>1, <2>2, <1>1
  <1>5. /\ page \subseteq DOMAIN found
        /\ DOMAIN found # {} => last \in page /\ \A k \in DOMAIN found \ page : Before(found, last, k)
    <2>1. DOMAIN found = {} => page = {}
      BY DEF PageOf
    <2>2. bound \in Nat
      BY <1>1
    <2> HIDE DEF found, bound
    <2> QED
      BY <2>1, <2>2, <1>2, LastIsPassed
  <1>6. next = NextCursor(found, page, bound)
    OBVIOUS
  <1> HIDE DEF found, page, last, bound
  <1>7. ASSUME NEW r \in Rows, Waits(r, cursor[c]), r \notin Selected(c)
        PROVE  bound < changedAt[r]
    BY <1>1, <1>7 DEF Waits, Selected, bound
  <1>8. CASE page # DOMAIN found
    <2>1. /\ last \in DOMAIN found
          /\ \A k \in DOMAIN found \ page : Before(found, last, k)
      BY <1>5, <1>8
    <2>2. DateOf(found[last]) \in Nat /\ DateOf(found[last]) <= found[last]
      BY <2>1, <1>4, DateIsBefore
    <2>3. next = [at |-> DateOf(found[last]), id |-> last]
      BY <1>6, <1>8 DEF NextCursor, last
    <2>4. next \in [at : 0 .. bound, id : Cards \cup {0}]
      BY <2>1, <2>2, <2>3, <1>1, <1>4
    <2>5. ASSUME NEW r \in Rows, Waits(r, cursor[c]), CardOf[r] \notin page
          PROVE  \E q \in Rows : CardOf[q] = CardOf[r] /\ Waits(q, next)
      <3>1. CASE r \notin Selected(c)
        <4>1. bound < changedAt[r]
          BY <1>7, <2>5, <3>1
        <4>2. next.at < changedAt[r]
          BY <4>1, <2>1, <2>2, <2>3, <1>1, <1>4
        <4> QED
          BY <4>2, <2>5 DEF Waits, Past
      <3>2. CASE r \in Selected(c)
        <4>1. CardOf[r] \in DOMAIN found \ page
          BY <2>5, <3>2, <1>2
        <4>2. PICK q \in Rows : CardOf[q] = CardOf[r] /\ changedAt[q] = found[CardOf[r]] /\ changedAt[q] # 0
          BY <4>1, <1>2 DEF Selected
        <4>3. Before(found, last, CardOf[r])
          BY <4>1, <2>1
        <4>4. found[last] \in Nat /\ found[CardOf[r]] \in Nat /\ last \in Nat /\ CardOf[r] \in Nat
          BY <4>1, <2>1, <1>4
        <4>5. Past(next, changedAt[q], CardOf[q])
          BY <4>2, <4>3, <4>4, <2>2, <2>3 DEF Past, Before
        <4> QED
          BY <4>2, <4>5 DEF Waits
      <3> QED
        BY <3>1, <3>2
    <2> QED
      BY <2>4, <2>5 DEF bound, page, found
  <1>9. CASE page = DOMAIN found
    <2>1. next = [at |-> bound,
                  id |-> IF page # {} /\ DateOf(found[last]) = bound THEN last ELSE 0]
      BY <1>6, <1>9 DEF NextCursor, last
    <2>2. page # {} => last \in Cards
      BY <1>4, <1>5, <1>9
    <2>3. next.at = bound /\ next.id \in Cards \cup {0}
      BY <2>1, <2>2
    <2>4. next \in [at : 0 .. bound, id : Cards \cup {0}]
      BY <2>1, <2>3, <1>1
    <2>5. ASSUME NEW r \in Rows, Waits(r, cursor[c]), CardOf[r] \notin page
          PROVE  Waits(r, next)
      <3>1. r \notin Selected(c)
        BY <2>5, <1>2, <1>9
      <3>2. bound < changedAt[r]
        BY <3>1, <1>7, <2>5
      <3> QED
        BY <3>2, <2>3, <2>5 DEF Waits, Past
    <2> QED
      BY <2>4, <2>5 DEF bound, page, found
  <1> QED
    BY <1>8, <1>9

-----------------------------------------------------------------------------
(* The steps.                                                               *)

\* What NothingSkipped says, of one change.
WaitsFor(k, cur) == \E r \in Rows : CardOf[r] = k /\ Waits(r, cur)

LEMMA SkippedIsWaiting == NothingSkipped <=> \A c \in Clients : \A k \in stale[c] \ crossed[c] : WaitsFor(k, cursor[c])
BY DEF NothingSkipped, WaitsFor, Waits

LEMMA TypeStep == DeltaInv /\ [Next]_vars => TypeOK'
  <1> SUFFICES ASSUME DeltaInv, [Next]_vars PROVE TypeOK'
    OBVIOUS
  <1> USE DEF TypeOK, Times
  <1>0. /\ TypeOK /\ now \in Nat /\ MaxTime \in Nat /\ MaxChanges \in Nat
        /\ CardOf \in [Rows -> Cards] /\ Cards \subseteq Nat \ {0}
    BY DeltaAssumption DEF DeltaAssumption, DeltaInv
  <1>1. CASE Tick
    BY <1>0, <1>1 DEF Tick
  <1>2. ASSUME NEW w \in Writers, NEW S \in SUBSET Rows, Write(w, S)
        PROVE  TypeOK'
    BY <1>0, <1>2 DEF Write, CardsOf
  <1>3. ASSUME NEW w \in Writers, Commit(w)
        PROVE  TypeOK'
    BY <1>0, <1>3 DEF Commit, CardsOf
  <1>4. ASSUME NEW w \in Writers, Rollback(w)
        PROVE  TypeOK'
    BY <1>0, <1>4 DEF Rollback
  <1>5. ASSUME NEW c \in Clients, ReadUpperBound(c)
        PROVE  TypeOK'
    <2>1. DateOf(now) \in 0 .. now
      BY <1>0, DateIsBefore
    <2> QED
      BY <1>0, <1>5, <2>1 DEF ReadUpperBound
  <1>6. ASSUME NEW c \in Clients, ReadPage(c)
        PROVE  TypeOK'
    <2>1. /\ cursor'[c] \in [at : 0 .. until[c], id : Cards \cup {0}]
          /\ \A d \in Clients : d # c => cursor'[d] = cursor[d]
          /\ cursor' \in [Clients -> {cursor'[d] : d \in Clients}]
      BY <1>0, <1>6, PageIsSound DEF ReadPage
    <2>2. until[c] \in 0 .. now
      BY <1>0
    <2>3. \A d \in Clients : cursor'[d] \in [at : 0 .. now, id : Cards \cup {0}]
      BY <1>0, <2>1, <2>2
    <2>4. cursor' \in [Clients -> [at : 0 .. now, id : Cards \cup {0}]]
      BY <2>1, <2>3
    <2>5. crossed' \in [Clients -> SUBSET Cards]
      <3>1. Overtaken(c) \subseteq Cards
        BY <1>0 DEF Overtaken, CardsOf
      <3> QED
        BY <1>0, <1>6, <3>1 DEF ReadPage
    <2> QED
      BY <1>0, <1>6, <2>4, <2>5 DEF ReadPage
  <1>7. ASSUME NEW c \in Clients, PageLost(c)
        PROVE  TypeOK'
    BY <1>0, <1>7 DEF PageLost
  <1>8. CASE UNCHANGED vars
    BY <1>0, <1>8 DEF vars
  <1> QED
    BY <1>1, <1>2, <1>3, <1>4, <1>5, <1>6, <1>7, <1>8 DEF Next

LEMMA AheadStep == DeltaInv /\ [Next]_vars => Ahead'
  <1> SUFFICES ASSUME DeltaInv, [Next]_vars PROVE Ahead'
    OBVIOUS
  <1>0. TypeOK /\ Ahead /\ CardOf \in [Rows -> Cards] /\ Cards \subseteq Nat \ {0}
    BY DeltaAssumption DEF DeltaAssumption, DeltaInv
  <1>1. CASE UNCHANGED <<open, stamp, cursor, crossed>>
    BY <1>0, <1>1 DEF Ahead, Past
  <1>2. ASSUME NEW w \in Writers, NEW S \in SUBSET Rows, Write(w, S)
        PROVE  Ahead'
    <2> SUFFICES ASSUME NEW c \in Clients, NEW v \in Writers, NEW q \in open'[v]
                 PROVE  /\ stamp'[v] # 0
                        /\ Past(cursor[c], stamp'[v], CardOf[q]) \/ CardOf[q] \in crossed'[c]
      BY <1>2 DEF Write, Ahead, Past
    <2>1. /\ open'[v] = IF v = w THEN S ELSE open[v]
          /\ stamp'[v] = IF v = w THEN now ELSE stamp[v]
          /\ crossed'[c] = crossed[c] \cup {k \in CardsOf(S) : cursor[c].at = now}
          /\ 0 < now
      BY <1>0, <1>2 DEF Write, TypeOK
    <2>2. CASE v # w
      BY <1>0, <2>1, <2>2 DEF Ahead
    <2>3. CASE v = w
      <3>1. q \in S /\ stamp'[v] = now /\ CardOf[q] \in CardsOf(S)
        BY <2>1, <2>3 DEF CardsOf
      <3>2. cursor[c].at \in 0 .. now /\ now \in Nat
        BY <1>0 DEF TypeOK, Times
      <3>3. cursor[c].at = now => CardOf[q] \in crossed'[c]
        BY <2>1, <3>1
      <3>4. cursor[c].at # now => Past(cursor[c], now, CardOf[q])
        BY <3>2 DEF Past
      <3> QED
        BY <2>1, <3>1, <3>2, <3>3, <3>4
    <2> QED
      BY <2>2, <2>3
  <1>3. ASSUME NEW w \in Writers, Commit(w) \/ Rollback(w)
        PROVE  Ahead'
    <2>1. /\ \A v \in Writers : open'[v] = IF v = w THEN {} ELSE open[v]
          /\ \A v \in Writers : v # w => stamp'[v] = stamp[v]
          /\ UNCHANGED <<cursor, crossed>>
      BY <1>0, <1>3 DEF Commit, Rollback, TypeOK
    <2> QED
      BY <1>0, <2>1 DEF Ahead, Past
  <1>4. ASSUME NEW d \in Clients, ReadPage(d)
        PROVE  Ahead'
    <2>1. /\ cursor'[d] = NextCursor(ChangesFor(d), PageOf(ChangesFor(d)), until[d])
          /\ crossed'[d] = (crossed[d] \ PageOf(ChangesFor(d))) \cup Overtaken(d)
          /\ \A c \in Clients : c # d => cursor'[c] = cursor[c] /\ crossed'[c] = crossed[c]
          /\ UNCHANGED <<open, stamp>>
          /\ pc[d] = "read"
      BY <1>0, <1>4 DEF ReadPage, TypeOK
    <2>2. cursor'[d] \in [at : 0 .. until[d], id : Cards \cup {0}]
      BY <2>1, PageIsSound
    <2>3. ASSUME NEW w \in Writers, NEW q \in open[w]
          PROVE  Past(cursor'[d], stamp[w], CardOf[q]) \/ CardOf[q] \in crossed'[d]
      <3>1. stamp[w] \in Nat /\ until[d] \in Nat
        BY <1>0 DEF TypeOK, Times
      <3>2. CASE stamp[w] <= until[d]
        <4>1. CardOf[q] \in Overtaken(d)
          BY <3>2 DEF Overtaken, CardsOf
        <4> QED
          BY <4>1, <2>1
      <3>3. CASE until[d] < stamp[w]
        BY <2>2, <3>1, <3>3 DEF Past
      <3> QED
        BY <3>1, <3>2, <3>3
    <2>4. ASSUME NEW c \in Clients, NEW w \in Writers, NEW q \in open'[w]
          PROVE  /\ stamp'[w] # 0
                 /\ Past(cursor'[c], stamp'[w], CardOf[q]) \/ CardOf[q] \in crossed'[c]
      <3>1. CASE c = d
        BY <1>0, <2>1, <2>3, <3>1 DEF Ahead
      <3>2. CASE c # d
        BY <1>0, <2>1, <3>2 DEF Ahead
      <3> QED
        BY <3>1, <3>2
    <2> QED
      BY <2>4 DEF Ahead, Past
  <1> QED
    BY <1>1, <1>2, <1>3, <1>4 DEF Next, vars, Tick, ReadUpperBound, PageLost

LEMMA NothingSkippedStep == DeltaInv /\ [Next]_vars => NothingSkipped'
  <1> SUFFICES ASSUME DeltaInv, [Next]_vars, NEW c \in Clients, NEW k \in stale'[c] \ crossed'[c]
               PROVE  WaitsFor(k, cursor[c])'
    BY SkippedIsWaiting DEF NothingSkipped, WaitsFor, Waits
  <1>0. TypeOK /\ Ahead /\ \A d \in Clients : \A j \in stale[d] \ crossed[d] : WaitsFor(j, cursor[d])
    BY SkippedIsWaiting DEF DeltaInv
  <1>1. CASE UNCHANGED <<changedAt, cursor, stale>> /\ crossed[c] \subseteq crossed'[c]
    BY <1>0, <1>1 DEF WaitsFor, Waits, Past
  <1>4. ASSUME NEW w \in Writers, NEW S \in SUBSET Rows, Write(w, S)
        PROVE  WaitsFor(k, cursor[c])'
    BY <1>1, <1>4 DEF Write
  <1>2. ASSUME NEW w \in Writers, Commit(w)
        PROVE  WaitsFor(k, cursor[c])'
    <2>1. /\ \A r \in Rows : changedAt'[r] = IF r \in open[w] THEN stamp[w] ELSE changedAt[r]
          /\ k \in stale[c] \/ \E r \in open[w] : CardOf[r] = k
          /\ UNCHANGED <<cursor, crossed>> /\ k \notin crossed[c]
          /\ open[w] \in SUBSET Rows
      BY <1>0, <1>2 DEF Commit, TypeOK, CardsOf
    <2>5. ASSUME NEW r \in open[w], CardOf[r] = k
          PROVE  Waits(r, cursor[c])'
      <3>1. changedAt'[r] = stamp[w] /\ r \in Rows
        BY <2>1
      <3>2. stamp[w] # 0 /\ Past(cursor[c], stamp[w], CardOf[r])
        BY <1>0, <2>1, <2>5 DEF Ahead
      <3> QED
        BY <2>1, <3>1, <3>2 DEF Waits, Past
    <2>6. CASE \E r \in open[w] : CardOf[r] = k
      BY <2>1, <2>5, <2>6 DEF WaitsFor
    <2>7. CASE k \in stale[c]
      <3>1. PICK r \in Rows : CardOf[r] = k /\ Waits(r, cursor[c])
        BY <1>0, <2>1, <2>7 DEF WaitsFor
      <3>2. CASE r \notin open[w]
        <4>1. Waits(r, cursor[c])'
          BY <3>1, <3>2, <2>1 DEF Waits
        <4> QED
          BY <3>1, <4>1 DEF WaitsFor
      <3>3. CASE r \in open[w]
        BY <3>1, <3>3, <2>6
      <3> QED
        BY <3>2, <3>3
    <2> QED
      BY <2>1, <2>6, <2>7
  <1>3. ASSUME NEW d \in Clients, ReadPage(d)
        PROVE  WaitsFor(k, cursor[c])'
    <2>1. /\ cursor'[d] = NextCursor(ChangesFor(d), PageOf(ChangesFor(d)), until[d])
          /\ c # d => cursor'[c] = cursor[c] /\ k \in stale[c] \ crossed[c]
          /\ c = d => k \in (stale[c] \ crossed[c]) \ PageOf(ChangesFor(d))
          /\ changedAt' = changedAt
          /\ pc[d] = "read"
      BY <1>0, <1>3 DEF ReadPage, TypeOK
    <2>2. PICK r \in Rows : CardOf[r] = k /\ Waits(r, cursor[c])
      BY <1>0, <2>1 DEF WaitsFor
    <2>3. CASE c # d
      BY <2>1, <2>2, <2>3 DEF WaitsFor, Waits
    <2>4. CASE c = d
      <3>1. \E q \in Rows : CardOf[q] = CardOf[r] /\ Waits(q, cursor'[d])
        BY <2>1, <2>2, <2>4, PageIsSound
      <3> QED
        BY <3>1, <2>1, <2>2, <2>4 DEF WaitsFor, Waits
    <2> QED
      BY <2>3, <2>4
  <1> QED
    BY <1>1, <1>2, <1>3, <1>4 DEF Next, vars, Tick, Rollback, ReadUpperBound, PageLost

-----------------------------------------------------------------------------
(* Theorems.                                                                *)

LEMMA DeltaInductive == Spec => []DeltaInv
  <1>1. DeltaInv /\ [Next]_vars => DeltaInv'
    BY TypeStep, AheadStep, NothingSkippedStep DEF DeltaInv
  <1> QED
    BY DeltaInit, <1>1, PTL DEF Spec

(* A cursor never passes a committed change that its device has not been    *)
(* sent, unless the change was in flight when one of the device's pages was *)
(* read: of readChangedCards and createNextCursor, for any page, any grain  *)
(* and any order in which transactions commit.                              *)
THEOREM PagesSkipNothing == Spec => []NothingSkipped
  <1>1. DeltaInv => NothingSkipped
    BY DEF DeltaInv
  <1> QED
    BY <1>1, DeltaInductive, PTL

(* The variables keep their types: a cursor and the upper bound of a page   *)
(* are times that have been, whatever a Date drops of them.                 *)
THEOREM DeltaTypes == Spec => []TypeOK
  <1>1. DeltaInv => TypeOK
    BY DEF DeltaInv
  <1> QED
    BY <1>1, DeltaInductive, PTL
=============================================================================
