------------------------ MODULE CiltExecutionsProofs ------------------------
(***************************************************************************)
(* Proofs about CiltExecutions, for any number of requests, slots and      *)
(* rows: where no request is overtaken between its read and its write, no  *)
(* slot is filled twice, no number is given twice, and what was recorded   *)
(* of an execution stays.                                                  *)
(***************************************************************************)
EXTENDS CiltExecutions, WellFoundedInduction, TLAPS

(***************************************************************************)
(* The largest of some numbers.                                            *)
(***************************************************************************)
Below == {p \in Nat \X Nat : p[1] < p[2]}

LEMMA Smallest ==
  ASSUME NEW S \in SUBSET Nat, S # {}
  PROVE  \E m \in S : \A k \in S : m <= k
  <1>1. IsWellFoundedOn(Below, Nat)
    BY NatLessThanWellFounded DEF OpToRel, Below
  <1>2. PICK m \in S : \A k \in S : <<k, m>> \notin Below
    BY <1>1, WFMin
  <1>3. ASSUME NEW k \in S
        PROVE  m <= k
    <2>1. ~ (k < m)
      BY <1>2 DEF Below
    <2> QED
      BY <2>1
  <1> QED
    BY <1>3

LEMMA LargestIsThere ==
  ASSUME NEW n \in Nat, NEW S \in SUBSET (0 .. n)
  PROVE  /\ Largest(S) \in 0 .. n
         /\ \A m \in S : m <= Largest(S)
  <1> DEFINE T == {k \in Nat : \E x \in S \cup {0} : x = n - k}
  <1>1. n \in T /\ T \in SUBSET Nat
    <2>1. n \in Nat /\ 0 \in S \cup {0} /\ 0 = n - n
      OBVIOUS
    <2> QED
      BY <2>1
  <1>2. PICK m \in T : \A k \in T : m <= k
    BY <1>1, Smallest
  <1>3. PICK x \in S \cup {0} : x = n - m
    BY <1>2
  <1>4. ASSUME NEW k \in S
        PROVE  k <= x
    <2>1. k \in Int /\ n - k \in Nat /\ k = n - (n - k)
      OBVIOUS
    <2>2. m <= n - k
      BY <2>1, <1>2
    <2>3. m \in Nat
      OBVIOUS
    <2> QED
      BY <2>1, <2>2, <2>3, <1>3
  <1>5. \E y \in S \cup {0} : \A k \in S : k <= y
    BY <1>4
  <1>6. Largest(S) \in S \cup {0} /\ \A k \in S : k <= Largest(S)
    BY <1>5, Zenon DEF Largest
  <1>7. S \cup {0} \subseteq 0 .. n
    OBVIOUS
  <1> QED
    BY <1>6, <1>7

(***************************************************************************)
(* Whole seconds.                                                          *)
(***************************************************************************)
LEMMA Parts ==
  ASSUME NEW n \in Int, NEW d \in Nat \ {0}
  PROVE  n \div d \in Int /\ n % d \in 0 .. d - 1 /\ n = d * (n \div d) + (n % d)
  OBVIOUS

\* A multiple of d that is less than d from 0 is 0, one from -d to 2d is 0 or d.
LEMMA SmallMultiple ==
  ASSUME NEW d \in Nat \ {0}, NEW k \in Int
  PROVE  /\ d * k < d => k <= 0
         /\ 0 - d < d * k => k >= 0
         /\ d * k < d + d => k <= 1
  <1>1. ASSUME k >= 1 PROVE d * k >= d
    <2>1. d * (k - 1) >= 0
      BY <1>1
    <2>2. d * (k - 1) = d * k - d
      OBVIOUS
    <2>3. d * k \in Int /\ d * (k - 1) \in Int
      OBVIOUS
    <2> QED
      BY <2>1, <2>2, <2>3
  <1>2. ASSUME k >= 2 PROVE d * k >= d + d
    <2>1. d * (k - 2) >= 0
      BY <1>2
    <2>2. d * (k - 2) = d * k - d - d
      OBVIOUS
    <2>3. d * k \in Int /\ d * (k - 2) \in Int
      OBVIOUS
    <2> QED
      BY <2>1, <2>2, <2>3
  <1>3. ASSUME k <= 0 - 1 PROVE d * k <= 0 - d
    <2>1. d * (0 - 1 - k) >= 0
      BY <1>3
    <2>2. d * (0 - 1 - k) = 0 - d - d * k
      OBVIOUS
    <2>3. d * k \in Int /\ d * (0 - 1 - k) \in Int
      OBVIOUS
    <2> QED
      BY <2>1, <2>2, <2>3
  <1>4. d * k \in Int
    OBVIOUS
  <1> QED
    BY <1>1, <1>2, <1>3, <1>4

\* A stored instant is a second, at most one after those that had passed.
LEMMA StoredIsNear ==
  ASSUME NEW t \in Nat, Second \in Nat \ {0}
  PROVE  Stored(t) \in Nat /\ Stored(t) - t \div Second \in {0, 1}
  <1> DEFINE h == Second \div 2
             q == t \div Second
             m == t % Second
             p == (t + h) \div Second
             n == (t + h) % Second
  <1>1. h \in Nat /\ h <= Second
    OBVIOUS
  <1> HIDE DEF h
  <1>2. q \in Int /\ m \in 0 .. Second - 1 /\ t = Second * q + m
    BY Parts
  <1>3. p \in Int /\ n \in 0 .. Second - 1 /\ t + h = Second * p + n
    <2>1. t + h \in Int
      BY <1>1
    <2> QED
      BY <2>1, Parts
  <1> HIDE DEF q, m, p, n
  <1>4. Second * (p - q) = h + m - n
    <2>1. Second * (p - q) = Second * p - Second * q
      BY <1>2, <1>3
    <2>2. Second * p \in Int /\ Second * q \in Int
      BY <1>2, <1>3
    <2> QED
      BY <2>1, <2>2, <1>1, <1>2, <1>3
  <1>5. p - q \in Int /\ 0 - Second < h + m - n /\ h + m - n < Second + Second
    BY <1>1, <1>2, <1>3
  <1>6. p - q >= 0 /\ p - q <= 1
    BY <1>4, <1>5, SmallMultiple
  <1>7. q >= 0
    <2>1. 0 - Second < Second * q
      <3>1. Second * q \in Int
        BY <1>2
      <3> QED
        BY <1>2, <3>1
    <2> QED
      BY <2>1, <1>2, SmallMultiple
  <1> QED
    BY <1>2, <1>3, <1>6, <1>7 DEF Stored, h, p, q

LEMMA SecondsSincePass ==
  ASSUME NEW t \in Nat, NEW s \in Nat, Second \in Nat \ {0}
  PROVE  SecondsSince(s, t) = t \div Second - s
  <1> DEFINE q == t \div Second
             m == t % Second
             a == t - s * Second
             p == a \div Second
             n == a % Second
  <1>1. q \in Int /\ m \in 0 .. Second - 1 /\ t = Second * q + m
    BY Parts
  <1>2. a \in Int
    OBVIOUS
  <1>3. p \in Int /\ n \in 0 .. Second - 1 /\ a = Second * p + n
    <2> HIDE DEF a
    <2> QED
      BY <1>2, Parts
  <1> HIDE DEF q, m, p, n
  <1>4. Second * (q - s - p) = n - m
    <2>1. Second * (q - s - p) = Second * q - s * Second - Second * p
      BY <1>1, <1>3
    <2>2. Second * p \in Int /\ Second * q \in Int /\ s * Second \in Int
      BY <1>1, <1>3
    <2> QED
      BY <2>1, <2>2, <1>1, <1>3
  <1>5. q - s - p \in Int /\ 0 - Second < n - m /\ n - m < Second
    BY <1>1, <1>3
  <1>6. q - s - p >= 0 /\ q - s - p <= 0
    BY <1>4, <1>5, SmallMultiple
  <1> QED
    BY <1>1, <1>3, <1>6 DEF SecondsSince, a, p, q

\* What a start and a stop store, and what lies between them.
LEMMA MomentsAreSeconds ==
  /\ Moments \subseteq Nat \ {0}
  /\ \A t \in Times : /\ Stored(t) \in Moments
                      /\ \A s \in Nat : /\ SecondsSince(s, t) \in Int
                                        /\ Stored(t) - s - SecondsSince(s, t) \in {0, 1}
  <1>1. Second \in Nat \ {0} /\ Times \subseteq Nat /\ \A t \in Times : Second <= t
    BY ExecutionsAssumption
  <1>2. ASSUME NEW t \in Times
        PROVE  Stored(t) \in Nat \ {0}
    <2> DEFINE q == t \div Second
    <2>1. t \in Nat /\ Stored(t) \in Nat /\ Stored(t) - q \in {0, 1}
      BY <1>1, StoredIsNear
    <2>2. q \in Int /\ t % Second \in 0 .. Second - 1 /\ t = Second * q + (t % Second)
      BY <1>1, Parts
    <2> HIDE DEF q
    <2>3. Second * q > 0
      <3>1. Second * q \in Int /\ Second <= t
        BY <1>1, <2>2
      <3> QED
        BY <1>1, <2>2, <3>1
    <2>4. q # 0
      BY <1>1, <2>3
    <2>5. q >= 0
      <3>1. 0 - Second < Second * q
        <4>1. Second * q \in Int
          BY <1>1, <2>2
        <4> QED
          BY <1>1, <2>3, <4>1
      <3> QED
        BY <1>1, <2>2, <3>1, SmallMultiple
    <2> QED
      BY <2>1, <2>2, <2>4, <2>5
  <1>3. ASSUME NEW t \in Times, NEW s \in Nat
        PROVE  SecondsSince(s, t) \in Int /\ Stored(t) - s - SecondsSince(s, t) \in {0, 1}
    <2> DEFINE q == t \div Second
    <2>1. t \in Nat /\ q \in Int
      BY <1>1
    <2>2. Stored(t) \in Nat /\ Stored(t) - q \in {0, 1} /\ SecondsSince(s, t) = q - s
      BY <1>1, <2>1, StoredIsNear, SecondsSincePass
    <2> HIDE DEF q
    <2> QED
      BY <2>1, <2>2
  <1> QED
    BY <1>2, <1>3 DEF Moments

(***************************************************************************)
(* The inductive invariant.                                                *)
(***************************************************************************)
Pending(r) == req[r].at \in {"put", "load", "write"}

\* The number a request at its insert gives.
NumberOf(r) == IF Filling(r) THEN req[r].number ELSE req[r].copy.number

\* What a request has come to, and what it is for.
Body(r) ==
    /\ At(r, "idle") => req[r].kind = "none"
    /\ req[r].at \in {"find", "number"} => Filling(r)
    /\ Filling(r) /\ req[r].at # "idle" => req[r].todo # <<>>
    /\ At(r, "insert") => NumberOf(r) \in 1 .. Len(execs) + 1
    /\ At(r, "insert") /\ ~ Filling(r) =>
         /\ req[r].kind = "generate" /\ req[r].copy \in ExecutionType
         /\ req[r].copy.time = Now /\ req[r].copy.status = "A" /\ req[r].copy.stop = Null
    /\ At(r, "read") =>
         /\ req[r].id \in Ids
         /\ req[r].kind = "start" => req[r].input \in StartType
         /\ req[r].kind = "stop" => req[r].input \in StopType
         /\ req[r].kind = "update" => req[r].input \in UpdateType
    /\ At(r, "put") => req[r].kind \in {"start", "stop"}
    /\ req[r].at \in {"load", "write"} => req[r].kind \in {"task", "list", "update", "delete"}
    /\ Pending(r) => /\ req[r].id \in Ids /\ req[r].copy \in ExecutionType
                     /\ req[r].copy.number = execs[req[r].id].number

Differing(e, f) == {c \in DOMAIN e : f[c] # e[c]}

\* The copy is what the handler makes of the row as it is now.
Current(r) ==
    LET e == execs[req[r].id]
        f == req[r].copy
    IN  /\ req[r].kind = "start" => MayStart(e) /\ \E d \in StartType : f = Started(e, d)
        /\ req[r].kind = "stop" => MayStop(e) /\ \E d \in StopType : f = Stopped(e, d)
        /\ req[r].kind = "update" => ~ e.deleted /\ ~ f.deleted
        /\ req[r].kind = "delete" => f = [e EXCEPT !.deleted = TRUE]
        /\ Filling(r) => f = e
        /\ At(r, "write") => ~ Filling(r) /\ req[r].columns = Differing(e, f)

\* What a request relies on, as far as nobody has overtaken it: there is no row of its
\* slot, no row of its number, and its row is the one it has read.
SlotIsFree(r) == \A i \in Live : SlotOf(execs[i]) = Head(req[r].todo) => i \in torn["row"] \cup hand
NumberIsFree(r) == \A i \in Live \ torn["row"] : execs[i].number # NumberOf(r)

Sees(r) ==
    /\ req[r].at \in {"number", "insert"} /\ Filling(r) /\ "slot" \notin overtaken[r] => SlotIsFree(r)
    /\ At(r, "insert") /\ "number" \notin overtaken[r] => NumberIsFree(r)
    /\ Pending(r) /\ "row" \notin overtaken[r] => Current(r)

Whole(e) ==
    /\ (e.status = "R") <=> (e.stop # Null)
    /\ e.stop # Null => e.start # Null /\ e.stop - e.start - e.real \in {0, 1}

\* However old, the copy of a row that is not mixed nor edited is whole; and what a save
\* writes makes the row its copy, unless another request writes between its statements.
Copies(r) ==
    /\ Pending(r) /\ req[r].kind # "update" /\ req[r].id \notin torn["columns"] \cup hand
         => Whole(req[r].copy)
    /\ At(r, "write") /\ "columns" \notin overtaken[r]
         => req[r].columns = Differing(execs[req[r].id], req[r].copy)

\* Numbers are never larger than the table, so there is a last one.
Typed == TypeOK /\ \A i \in Ids : execs[i].number <= Len(execs)

IInv ==
    /\ Typed
    /\ \A r \in Requests : Body(r) /\ Sees(r) /\ Copies(r)
    /\ SlotsUnique /\ NumbersUnique /\ CompletedWhole

\* The step of RecordedStays.
Recorded ==
    \A i \in Ids : \A c \in {"start", "stop"} :
        execs[i][c] \notin {Null, execs'[i][c]} => i \in torn'["row"] \cup hand'

LEMMA EndedIsTyped ==
  Ended \in RequestType /\ Ended.at = "idle" /\ Ended.kind = "none"
  BY DEF Ended, New, RequestType

LEMMA InitInvariant == Init => IInv
  <1> SUFFICES ASSUME Init PROVE IInv
    OBVIOUS
  <1>1. Len(execs) = 0 /\ Ids = {} /\ Live = {}
    BY DEF Init, Ids, Live
  <1>2. TypeOK
    BY <1>1, EndedIsTyped DEF Init, TypeOK, Ended, New
  <1>3. \A r \in Requests : Body(r) /\ Sees(r) /\ Copies(r)
    BY EndedIsTyped DEF Init, Body, Sees, Copies, Pending, At, Filling
  <1> QED
    BY <1>1, <1>2, <1>3 DEF IInv, Typed, SlotsUnique, NumbersUnique, CompletedWhole

(***************************************************************************)
(* Rows and requests.                                                      *)
(***************************************************************************)
Mixed(e, f, S) == [c \in DOMAIN e |-> IF c \in S THEN f[c] ELSE e[c]]

LEMMA MixedTyped ==
  ASSUME NEW e \in ExecutionType, NEW f \in ExecutionType, NEW S
  PROVE  /\ Mixed(e, f, S) \in ExecutionType
         /\ \A c \in DOMAIN e : Mixed(e, f, S)[c] = IF c \in S THEN f[c] ELSE e[c]
  BY DEF Mixed, ExecutionType

LEMMA MixedIsCopy ==
  ASSUME NEW e \in ExecutionType, NEW f \in ExecutionType
  PROVE  Mixed(e, f, Differing(e, f)) = f
  <1>1. DOMAIN e = DOMAIN f /\ f = [c \in DOMAIN e |-> f[c]]
    BY DEF ExecutionType
  <1> QED
    BY <1>1 DEF Mixed, Differing

LEMMA AdvancedIsTyped ==
  ASSUME IInv, NEW r \in Requests
  PROVE  /\ Advanced(r) \in RequestType /\ Advanced(r).at \in {"idle", "find"}
         /\ Advanced(r).id = 0
         /\ Advanced(r).at = "find" => Advanced(r).kind \in {"task", "list"} /\ Advanced(r).todo # <<>>
         /\ Advanced(r).at = "idle" => Advanced(r).kind = "none"
  <1>1. req[r] \in RequestType /\ Body(r)
    BY DEF IInv, Typed, TypeOK
  <1>2. CASE ~ Filling(r) \/ Len(req[r].todo) = 1
    <2>1. Advanced(r) = Ended
      BY <1>2 DEF Advanced
    <2> QED
      BY <2>1, EndedIsTyped DEF Ended, New
  <1>3. CASE Filling(r) /\ Len(req[r].todo) # 1
    <2> DEFINE q == req[r]
               p == [New(q.kind, q.user, "find") EXCEPT !.todo = Tail(q.todo)]
    <2>1. Advanced(r) = p
      BY <1>3 DEF Advanced
    <2>2. q.todo \in Seq(Slot) /\ q.todo # <<>> /\ Len(q.todo) # 1
      BY <1>1, <1>3 DEF RequestType, Body, At, Filling
    <2>3. Tail(q.todo) \in Seq(Slot) /\ Tail(q.todo) # <<>>
      <3> DEFINE rest == Tail(q.todo)
      <3>1. Len(q.todo) \in Nat /\ Len(q.todo) # 0
        BY <2>2
      <3>2. rest \in Seq(Slot) /\ Len(rest) = Len(q.todo) - 1
        BY <2>2
      <3> HIDE DEF rest
      <3>3. Len(rest) # 0
        BY <2>2, <3>1, <3>2
      <3>4. rest # <<>>
        BY <3>3
      <3> QED
        BY <3>2, <3>4 DEF rest
    <2>4. p \in RequestType /\ p.at = "find" /\ p.id = 0 /\ p.kind = q.kind /\ p.todo = Tail(q.todo)
      BY <1>1, <2>3 DEF RequestType, New
    <2> QED
      BY <1>3, <2>1, <2>3, <2>4 DEF Filling
  <1> QED
    BY <1>2, <1>3

\* A request that has just gone on relies on nothing.
LEMMA FreshBody ==
  ASSUME NEW r \in Requests, NEW q,
         req'[r] = q, q.at \in {"idle", "find"},
         q.at = "find" => q.kind \in {"task", "list"} /\ q.todo # <<>>,
         q.at = "idle" => q.kind = "none"
  PROVE  (Body(r) /\ Sees(r) /\ Copies(r))'
  BY DEF Body, Sees, Copies, Pending, At, Filling

(***************************************************************************)
(* A step that writes no row.                                              *)
(***************************************************************************)
LEMMA ReadKeeps ==
  ASSUME IInv, NEW r \in Requests, NEW q \in RequestType,
         req' = [req EXCEPT ![r] = q], UNCHANGED <<execs, torn, hand>>,
         q.id \in Ids \cup {0},
         overtaken' = overtaken \/ overtaken' = [overtaken EXCEPT ![r] = {}],
         (Body(r) /\ Sees(r) /\ Copies(r))'
  PROVE  IInv' /\ Recorded
  <1>1. req'[r] = q /\ \A t \in Requests \ {r} : req'[t] = req[t] /\ overtaken'[t] = overtaken[t]
    BY DEF IInv, Typed, TypeOK
  <1>2. execs' = execs /\ torn' = torn /\ hand' = hand /\ Ids' = Ids /\ Live' = Live
    BY DEF Ids, Live
  <1>3. TypeOK'
    <2>1. req' \in [Requests -> RequestType] /\ overtaken' \in [Requests -> SUBSET Aspects]
      BY DEF IInv, Typed, TypeOK
    <2> QED
      BY <1>1, <1>2, <2>1 DEF IInv, Typed, TypeOK
  <1>4. ASSUME NEW t \in Requests, t # r
        PROVE  (Body(t) /\ Sees(t) /\ Copies(t))'
    <2>1. Body(t) /\ Sees(t) /\ req'[t] = req[t] /\ overtaken'[t] = overtaken[t]
      BY <1>1, <1>4 DEF IInv
    <2>2. /\ Filling(t)' = Filling(t) /\ NumberOf(t)' = NumberOf(t) /\ Pending(t)' = Pending(t)
          /\ \A at : At(t, at)' = At(t, at)
      BY <2>1 DEF Filling, NumberOf, Pending, At
    <2>3. Body(t)'
      BY <2>1, <2>2, <1>2 DEF Body
    <2>4. SlotIsFree(t)' = SlotIsFree(t) /\ NumberIsFree(t)' = NumberIsFree(t)
      BY <2>1, <2>2, <1>2 DEF SlotIsFree, NumberIsFree
    <2>5. Current(t) => Current(t)'
      BY <2>1, <2>2, <1>2 DEF Current
    <2>6. Sees(t)'
      BY <2>1, <2>2, <2>4, <2>5 DEF Sees
    <2>7. Copies(t)'
      <3>1. Copies(t)
        BY DEF IInv
      <3> QED
        BY <2>1, <2>2, <3>1, <1>2 DEF Copies
    <2> QED
      BY <2>3, <2>6, <2>7
  <1>5. (SlotsUnique /\ NumbersUnique /\ CompletedWhole)'
    BY <1>2 DEF IInv, SlotsUnique, NumbersUnique, CompletedWhole
  <1>6. Recorded
    BY <1>2 DEF Recorded
  <1> QED
    BY <1>2, <1>3, <1>4, <1>5, <1>6 DEF IInv, Typed

LEMMA FailKeeps ==
  ASSUME IInv, NEW r \in Requests, Fail(r), UNCHANGED <<execs, torn, hand>>,
         overtaken' = overtaken \/ overtaken' = [overtaken EXCEPT ![r] = {}]
  PROVE  IInv' /\ Recorded
  <1>1. req'[r] = Ended
    BY DEF Fail, IInv, Typed, TypeOK
  <1>2. (Body(r) /\ Sees(r) /\ Copies(r))'
    BY <1>1, EndedIsTyped, FreshBody
  <1>3. Ended.id = 0
    BY DEF Ended, New
  <1> QED
    BY <1>2, <1>3, EndedIsTyped, ReadKeeps DEF Fail

LEMMA AdvanceKeeps ==
  ASSUME IInv, NEW r \in Requests, Advance(r), UNCHANGED <<execs, torn, hand>>,
         overtaken' = overtaken \/ overtaken' = [overtaken EXCEPT ![r] = {}]
  PROVE  IInv' /\ Recorded
  <1> DEFINE q == Advanced(r)
  <1> HIDE DEF q
  <1>1. /\ q \in RequestType /\ q.at \in {"idle", "find"} /\ q.id = 0
        /\ q.at = "find" => q.kind \in {"task", "list"} /\ q.todo # <<>>
        /\ q.at = "idle" => q.kind = "none"
    BY AdvancedIsTyped DEF q
  <1>2. req' = [req EXCEPT ![r] = q]
    BY DEF Advance, q
  <1>3. req'[r] = q
    BY <1>2 DEF IInv, Typed, TypeOK
  <1>4. (Body(r) /\ Sees(r) /\ Copies(r))'
    BY <1>1, <1>3, FreshBody
  <1> QED
    BY <1>1, <1>2, <1>4, ReadKeeps

(***************************************************************************)
(* A row is written.                                                       *)
(***************************************************************************)
\* What start, stop and the deletion make of a whole row is whole.
LEMMA HandlersKeepWhole ==
  ASSUME NEW e \in ExecutionType, NEW f, Whole(e),
         \/ MayStart(e) /\ \E d \in StartType : f = Started(e, d)
         \/ MayStop(e) /\ \E d \in StopType : f = Stopped(e, d)
         \/ f = [e EXCEPT !.deleted = TRUE]
  PROVE  Whole(f)
  <1>1. CASE MayStart(e) /\ \E d \in StartType : f = Started(e, d)
    <2>1. PICK d \in StartType : f = Started(e, d)
      BY <1>1
    <2>2. f.stop = e.stop /\ f.status = e.status
      BY <2>1 DEF Started, ExecutionType
    <2>3. e.stop = Null
      BY <1>1 DEF MayStart, Whole
    <2> QED
      BY <2>2, <2>3 DEF Whole
  <1>2. CASE MayStop(e) /\ \E d \in StopType : f = Stopped(e, d)
    <2>1. PICK d \in StopType : f = Stopped(e, d)
      BY <1>2
    <2>2. /\ f.start = e.start /\ f.stop = Stored(d.at) /\ f.real = SecondsSince(e.start, d.at)
          /\ f.status = "R"
      BY <2>1 DEF Stopped, ExecutionType
    <2>3. d.at \in Times /\ e.start \in Nat \ {0}
      BY <1>2, <2>1, MomentsAreSeconds DEF StopType, ExecutionType, MayStop, Null
    <2>4. f.stop \in Nat \ {0} /\ f.stop - f.start - f.real \in {0, 1}
      BY <2>2, <2>3, MomentsAreSeconds
    <2> QED
      BY <2>2, <2>3, <2>4 DEF Whole, Null
  <1>3. CASE f = [e EXCEPT !.deleted = TRUE]
    BY <1>3 DEF Whole, ExecutionType
  <1> QED
    BY <1>1, <1>2, <1>3

\* What a request that nobody has overtaken makes of a row, unless it is an update:
\* the row stays in its slot, and what was recorded stays.
LEMMA WhatIsWritten ==
  ASSUME IInv, NEW r \in Requests, req[r].at \in {"put", "write"}, "row" \notin overtaken[r],
         NEW e, e = execs[req[r].id], NEW f, f = req[r].copy
  PROVE  /\ ~ f.deleted => ~ e.deleted
         /\ req[r].kind # "update" =>
              /\ ~ f.deleted => SlotOf(f) = SlotOf(e)
              /\ e.start # Null => f.start = e.start
              /\ e.stop # Null => f.stop = e.stop
  <1>1. /\ Body(r) /\ Current(r) /\ Pending(r)
        /\ e \in ExecutionType /\ f \in ExecutionType
        /\ ~ Filling(r)
    BY DEF IInv, Typed, TypeOK, Sees, Pending, Body, Current, At, Filling, Ids
  <1>2. req[r].kind \in {"start", "stop", "update", "delete"}
    BY <1>1 DEF Body, At, Filling
  <1>4. CASE req[r].kind = "start"
    <2>1. MayStart(e) /\ \E d \in StartType : f = Started(e, d)
      BY <1>1, <1>4 DEF Current
    <2>2. PICK d \in StartType : f = Started(e, d)
      BY <2>1
    <2>3. f.stop = e.stop /\ f.deleted = e.deleted /\ SlotOf(f) = SlotOf(e)
      BY <1>1, <2>2 DEF Started, ExecutionType, SlotOf
    <2>4. e.start = Null
      BY <2>1 DEF MayStart
    <2> QED
      BY <1>4, <2>3, <2>4
  <1>5. CASE req[r].kind = "stop"
    <2>1. MayStop(e) /\ \E d \in StopType : f = Stopped(e, d)
      BY <1>1, <1>5 DEF Current
    <2>2. PICK d \in StopType : f = Stopped(e, d)
      BY <2>1
    <2>3. f.start = e.start /\ f.deleted = e.deleted /\ SlotOf(f) = SlotOf(e)
      BY <1>1, <2>2 DEF Stopped, ExecutionType, SlotOf
    <2>4. e.stop = Null
      BY <2>1 DEF MayStop
    <2> QED
      BY <1>5, <2>3, <2>4
  <1>6. CASE req[r].kind = "update"
    BY <1>1, <1>6 DEF Current
  <1>7. CASE req[r].kind = "delete"
    <2>1. f = [e EXCEPT !.deleted = TRUE]
      BY <1>1, <1>7 DEF Current
    <2>2. f.start = e.start /\ f.stop = e.stop /\ f.deleted
      BY <1>1, <2>1 DEF ExecutionType
    <2> QED
      BY <1>7, <2>2
  <1> QED
    BY <1>2, <1>4, <1>5, <1>6, <1>7

LEMMA RewriteKeeps ==
  ASSUME IInv, NEW r \in Requests, req[r].at \in {"put", "write"},
         NEW e \in ExecutionType, e.number = execs[req[r].id].number,
         "row" \notin overtaken[r] => e = req[r].copy,
         "columns" \notin overtaken[r] => e = req[r].copy,
         Rewrite(r, req[r].id, e)
  PROVE  IInv' /\ Recorded
  <1> DEFINE i == req[r].id
             q == Advanced(r)
  <1>1. Body(r) /\ i \in Ids /\ execs \in Seq(ExecutionType)
    BY DEF IInv, Typed, TypeOK, Body, Pending
  <1>2. /\ execs' \in Seq(ExecutionType) /\ Len(execs') = Len(execs) /\ Ids' = Ids
        /\ execs'[i] = e /\ \A j \in Ids \ {i} : execs'[j] = execs[j]
    BY <1>1 DEF Rewrite, Ids
  <1>3. /\ \A a \in Aspects : torn[a] \subseteq torn'[a] /\ torn'[a] \subseteq torn[a] \cup {i}
        /\ torn' \in [Aspects -> SUBSET Ids]
        /\ "row" \in overtaken[r] => i \in torn'["row"]
        /\ "columns" \in overtaken[r] => i \in torn'["columns"]
    BY <1>1 DEF Rewrite, Tears, Aspects, IInv, Typed, TypeOK
  <1>4. /\ hand \subseteq hand' /\ hand' \subseteq hand \cup {i}
        /\ req[r].kind = "update" => i \in hand'
    BY DEF Rewrite
  <1>5. /\ q \in RequestType /\ q.at \in {"idle", "find"} /\ q.id = 0
        /\ q.at = "find" => q.kind \in {"task", "list"} /\ q.todo # <<>>
        /\ q.at = "idle" => q.kind = "none"
    BY AdvancedIsTyped
  <1> HIDE DEF q
  <1>6. req' = [req EXCEPT ![r] = q] /\ req \in [Requests -> RequestType]
    BY DEF Rewrite, Advance, q, IInv, Typed, TypeOK
  <1>7. req'[r] = q /\ \A t \in Requests \ {r} : req'[t] = req[t]
    BY <1>6
  <1>8. \A t \in Requests : overtaken'[t] =
          IF t = r THEN {}
          ELSE IF req[t].at \in {"load", "write", "put"} /\ req[t].id = i
          THEN overtaken[t] \cup {"row"} \cup (IF At(t, "write") THEN {"columns"} ELSE {})
          ELSE overtaken[t]
    BY DEF Rewrite, Overtakes
  <1>9. overtaken' \in [Requests -> SUBSET Aspects]
    <2>1. overtaken \in [Requests -> SUBSET Aspects] /\ "row" \in Aspects /\ "columns" \in Aspects
      BY DEF IInv, Typed, TypeOK, Aspects
    <2>2. DOMAIN overtaken' = Requests /\ overtaken' = [t \in Requests |-> overtaken'[t]]
      BY DEF Rewrite, Overtakes
    <2>3. \A t \in Requests : overtaken'[t] \subseteq Aspects
      BY <1>8, <2>1
    <2> QED
      BY <2>2, <2>3
  <1>10. i \notin torn'["row"] =>
           /\ ~ e.deleted => ~ execs[i].deleted
           /\ i \notin hand' =>
                /\ ~ e.deleted => SlotOf(e) = SlotOf(execs[i])
                /\ execs[i].start # Null => e.start = execs[i].start
                /\ execs[i].stop # Null => e.stop = execs[i].stop
    BY <1>3, <1>4, WhatIsWritten
  <1>11. /\ "row" \in Aspects /\ torn["row"] \subseteq torn'["row"]
         /\ \A j \in Live' : /\ j \in Ids
                             /\ j # i => j \in Live /\ execs'[j] = execs[j]
                             /\ j = i /\ i \notin torn'["row"] => i \in Live
                             /\ j = i /\ i \notin torn'["row"] \cup hand' => SlotOf(execs'[i]) = SlotOf(execs[i])
    BY <1>1, <1>2, <1>3, <1>10 DEF Live, Aspects
  <1>12. Typed'
    <2>1. req' \in [Requests -> RequestType]
      BY <1>5, <1>6
    <2>2. \A t \in Requests : req'[t].id \in Ids' \cup {0}
      BY <1>2, <1>5, <1>7 DEF IInv, Typed, TypeOK
    <2>3. hand' \subseteq Ids'
      BY <1>1, <1>2, <1>4 DEF IInv, Typed, TypeOK
    <2>4. TypeOK'
      BY <1>2, <1>3, <1>9, <2>1, <2>2, <2>3 DEF TypeOK
    <2>5. \A j \in Ids' : execs'[j].number <= Len(execs')
      BY <1>2 DEF IInv, Typed
    <2> QED
      BY <2>4, <2>5 DEF Typed
  <1>13. ASSUME NEW t \in Requests, t # r
         PROVE  (Body(t) /\ Sees(t) /\ Copies(t))'
    <2>1. Body(t) /\ Sees(t) /\ req'[t] = req[t]
      BY <1>7, <1>13 DEF IInv
    <2>2. /\ Filling(t)' = Filling(t) /\ NumberOf(t)' = NumberOf(t) /\ Pending(t)' = Pending(t)
          /\ \A at : At(t, at)' = At(t, at)
      BY <2>1 DEF Filling, NumberOf, Pending, At
    <2>3. \A j \in Ids : execs'[j].number = execs[j].number
      BY <1>2
    <2>4. Body(t)'
      BY <2>1, <2>2, <2>3, <1>2 DEF Body
    <2>5. /\ "slot" \notin overtaken'[t] => "slot" \notin overtaken[t]
          /\ "number" \notin overtaken'[t] => "number" \notin overtaken[t]
          /\ "row" \notin overtaken'[t] => "row" \notin overtaken[t] /\ (Pending(t) => req[t].id # i)
          /\ "columns" \notin overtaken'[t] => "columns" \notin overtaken[t] /\ (At(t, "write") => req[t].id # i)
      BY <1>8, <1>13 DEF Pending, At
    <2>6. SlotIsFree(t) => SlotIsFree(t)'
      BY <2>1, <1>4, <1>11 DEF SlotIsFree
    <2>7. NumberIsFree(t) => NumberIsFree(t)'
      BY <2>2, <2>3, <1>11 DEF NumberIsFree
    <2>8. Pending(t) /\ req[t].id # i /\ Current(t) => Current(t)'
      <3>1. Pending(t) /\ req[t].id # i => execs'[req[t].id] = execs[req[t].id]
        BY <2>1, <1>2 DEF Body
      <3> QED
        BY <2>1, <2>2, <3>1 DEF Current
    <2>9. Sees(t)'
      BY <2>1, <2>2, <2>5, <2>6, <2>7, <2>8 DEF Sees
    <2>10. Copies(t)'
      <3>1. Copies(t) /\ torn["columns"] \subseteq torn'["columns"]
        BY <1>3 DEF IInv, Aspects
      <3>2. At(t, "write") /\ req[t].id # i => execs'[req[t].id] = execs[req[t].id]
        BY <2>1, <1>2 DEF Body, Pending, At
      <3> QED
        BY <2>1, <2>2, <2>5, <3>1, <3>2, <1>4 DEF Copies
    <2> QED
      BY <2>4, <2>9, <2>10
  <1>14. (Body(r) /\ Sees(r) /\ Copies(r))'
    BY <1>5, <1>7, FreshBody
  <1>15. SlotsUnique'
    <2> SUFFICES ASSUME NEW j \in Live', NEW k \in Live', j # k,
                        SlotOf(execs'[j]) = SlotOf(execs'[k]), execs'[j].time # Now,
                        {j, k} \cap (torn'["slot"] \cup torn'["row"] \cup hand') = {}
                 PROVE  FALSE
      BY DEF SlotsUnique
    <2>1. /\ j \in Live /\ SlotOf(execs'[j]) = SlotOf(execs[j])
          /\ k \in Live /\ SlotOf(execs'[k]) = SlotOf(execs[k])
      BY <1>11
    <2>2. execs[j].time = execs'[j].time
      BY <2>1 DEF SlotOf
    <2>3. torn["slot"] \subseteq torn'["slot"]
      BY <1>3 DEF Aspects
    <2>4. {j, k} \cap (torn["slot"] \cup torn["row"] \cup hand) = {}
      BY <2>3, <1>4, <1>11
    <2> QED
      BY <2>1, <2>2, <2>4 DEF IInv, SlotsUnique
  <1>16. NumbersUnique'
    <2> SUFFICES ASSUME NEW j \in Live', NEW k \in Live', j # k,
                        execs'[j].number # Null, execs'[j].number = execs'[k].number,
                        {j, k} \cap (torn'["number"] \cup torn'["row"]) = {}
                 PROVE  FALSE
      BY DEF NumbersUnique
    <2>1. j \in Live /\ k \in Live /\ execs'[j].number = execs[j].number /\ execs'[k].number = execs[k].number
      BY <1>2, <1>11
    <2>2. torn["number"] \subseteq torn'["number"]
      BY <1>3 DEF Aspects
    <2> QED
      BY <2>1, <2>2, <1>11 DEF IInv, NumbersUnique
  <1>17. CompletedWhole'
    <2> SUFFICES ASSUME NEW j \in Ids \ (torn'["columns"] \cup hand')
                 PROVE  Whole(execs'[j])
      BY <1>2 DEF CompletedWhole, Whole
    <2>1. j \notin torn["columns"] \cup hand
      BY <1>3, <1>4 DEF Aspects
    <2>2. CASE j # i
      BY <2>1, <2>2, <1>2 DEF IInv, CompletedWhole, Whole
    <2>3. CASE j = i
      <3>1. e = req[r].copy /\ req[r].kind # "update"
        BY <2>3, <1>3, <1>4
      <3>2. Copies(r) /\ Pending(r)
        BY DEF IInv, Pending
      <3> QED
        BY <2>1, <2>3, <3>1, <3>2, <1>2 DEF Copies
    <2> QED
      BY <2>2, <2>3
  <1>18. Recorded
    <2> SUFFICES ASSUME NEW j \in Ids, j \notin torn'["row"] \cup hand'
                 PROVE  /\ execs[j].start \in {Null, execs'[j].start}
                        /\ execs[j].stop \in {Null, execs'[j].stop}
      BY DEF Recorded
    <2> QED
      BY <1>2, <1>10
  <1> QED
    BY <1>12, <1>13, <1>14, <1>15, <1>16, <1>17, <1>18 DEF IInv

\* The next row of the table is inserted.
LEMMA InsertKeeps ==
  ASSUME IInv, NEW r \in Requests, NEW e \in ExecutionType, Insert(r, e),
         e.number \in 0 .. Len(execs) + 1,
         hand' = hand \/ hand' = hand \cup {Len(execs) + 1},
         e.time = Now \/ Len(execs) + 1 \in hand' \/ "slot" \in overtaken[r]
           \/ \A j \in Live : SlotOf(execs[j]) = SlotOf(e) => j \in torn["row"] \cup hand,
         e.number = Null \/ "number" \in overtaken[r]
           \/ \A j \in Live \ torn["row"] : execs[j].number # e.number,
         Len(execs) + 1 \in hand' \/ (e.status = "A" /\ e.stop = Null)
  PROVE  IInv' /\ Recorded
  <1> DEFINE k == Len(execs) + 1
             q == Advanced(r)
  <1>1. execs \in Seq(ExecutionType) /\ Len(execs) \in Nat /\ execs' = Append(execs, e)
    BY DEF Insert, IInv, Typed, TypeOK
  <1>2. /\ execs' \in Seq(ExecutionType) /\ Len(execs') = k /\ Ids' = Ids \cup {k} /\ k \notin Ids
        /\ execs'[k] = e /\ \A j \in Ids : execs'[j] = execs[j]
    BY <1>1 DEF Ids
  <1>3. Live' \subseteq Live \cup {k} /\ \A j \in Live : j \in Ids
    BY <1>2 DEF Live
  <1>4. /\ \A a \in Aspects : torn[a] \subseteq torn'[a] /\ torn'[a] \subseteq torn[a] \cup {k}
        /\ torn' \in [Aspects -> SUBSET Ids']
        /\ "slot" \in overtaken[r] => k \in torn'["slot"]
        /\ "number" \in overtaken[r] => k \in torn'["number"]
    BY <1>2 DEF Insert, Tears, Aspects, IInv, Typed, TypeOK
  <1>5. /\ q \in RequestType /\ q.at \in {"idle", "find"} /\ q.id = 0
        /\ q.at = "find" => q.kind \in {"task", "list"} /\ q.todo # <<>>
        /\ q.at = "idle" => q.kind = "none"
    BY AdvancedIsTyped
  <1> HIDE DEF q
  <1>6. req' = [req EXCEPT ![r] = q] /\ req \in [Requests -> RequestType]
    BY DEF Insert, Advance, q, IInv, Typed, TypeOK
  <1>7. req'[r] = q /\ \A t \in Requests \ {r} : req'[t] = req[t]
    BY <1>6
  <1>8. \A t \in Requests : overtaken'[t] =
          IF t = r THEN {}
          ELSE IF req[t].at \notin {"number", "insert"} THEN overtaken[t]
          ELSE overtaken[t]
               \cup (IF At(t, "insert") THEN {"number"} ELSE {})
               \cup (IF Filling(t) /\ SlotOf(e) = Head(req[t].todo) THEN {"slot"} ELSE {})
    BY DEF Insert, InsertOvertakes
  <1>9. overtaken' \in [Requests -> SUBSET Aspects]
    <2>1. overtaken \in [Requests -> SUBSET Aspects] /\ "number" \in Aspects /\ "slot" \in Aspects
      BY DEF IInv, Typed, TypeOK, Aspects
    <2>2. DOMAIN overtaken' = Requests /\ overtaken' = [t \in Requests |-> overtaken'[t]]
      BY DEF Insert, InsertOvertakes
    <2>3. \A t \in Requests : overtaken'[t] \subseteq Aspects
      BY <1>8, <2>1
    <2> QED
      BY <2>2, <2>3
  <1>10. Typed'
    <2>1. req' \in [Requests -> RequestType]
      BY <1>5, <1>6
    <2>2. \A t \in Requests : req'[t].id \in Ids' \cup {0}
      BY <1>2, <1>5, <1>7 DEF IInv, Typed, TypeOK
    <2>3. hand' \subseteq Ids'
      BY <1>2 DEF IInv, Typed, TypeOK
    <2>4. TypeOK'
      BY <1>2, <1>4, <1>9, <2>1, <2>2, <2>3 DEF TypeOK
    <2>5. ASSUME NEW j \in Ids'
          PROVE  execs'[j].number <= Len(execs')
      <3>1. CASE j = k
        BY <3>1, <1>1, <1>2
      <3>2. CASE j \in Ids
        <4>1. execs[j].number <= Len(execs) /\ execs[j].number \in Nat
          <5>1. execs[j] \in ExecutionType
            BY <3>2, <1>1 DEF Ids
          <5>2. execs[j].number \in Nat
            BY <5>1 DEF ExecutionType
          <5> QED
            BY <5>2, <3>2 DEF IInv, Typed
        <4>2. execs'[j].number = execs[j].number /\ Len(execs') = Len(execs) + 1
          BY <3>2, <1>2
        <4> HIDE DEF k
        <4> QED
          BY <4>1, <4>2, <1>1
      <3> QED
        BY <3>1, <3>2, <1>2
    <2> QED
      BY <2>4, <2>5 DEF Typed
  <1>11. ASSUME NEW t \in Requests, t # r
         PROVE  (Body(t) /\ Sees(t) /\ Copies(t))'
    <2>1. Body(t) /\ Sees(t) /\ req'[t] = req[t]
      BY <1>7, <1>11 DEF IInv
    <2>2. /\ Filling(t)' = Filling(t) /\ NumberOf(t)' = NumberOf(t) /\ Pending(t)' = Pending(t)
          /\ \A at : At(t, at)' = At(t, at)
      BY <2>1 DEF Filling, NumberOf, Pending, At
    <2>3. NumberOf(t) \in 1 .. Len(execs) + 1 => NumberOf(t) \in 1 .. Len(execs') + 1
      BY <1>1, <1>2
    <2>4. Body(t)'
      BY <2>1, <2>2, <2>3, <1>2 DEF Body
    <2>5. /\ "slot" \notin overtaken'[t] /\ req[t].at \in {"number", "insert"} /\ Filling(t) =>
               "slot" \notin overtaken[t] /\ SlotOf(e) # Head(req[t].todo)
          /\ At(t, "insert") => "number" \in overtaken'[t]
          /\ Pending(t) => overtaken'[t] = overtaken[t]
      BY <1>8, <1>11 DEF Pending, At
    <2>6. SlotIsFree(t) /\ SlotOf(e) # Head(req[t].todo) => SlotIsFree(t)'
      <3>1. torn["row"] \subseteq torn'["row"]
        BY <1>4 DEF Aspects
      <3> QED
        BY <2>1, <3>1, <1>2, <1>3 DEF SlotIsFree
    <2>7. Pending(t) /\ Current(t) => Current(t)'
      <3>1. Pending(t) => execs'[req[t].id] = execs[req[t].id]
        BY <2>1, <1>2 DEF Body
      <3> QED
        BY <2>1, <2>2, <3>1 DEF Current
    <2>8. Sees(t)'
      BY <2>1, <2>2, <2>5, <2>6, <2>7 DEF Sees
    <2>9. Copies(t)'
      <3>1. Copies(t) /\ torn["columns"] \subseteq torn'["columns"] /\ hand \subseteq hand'
        BY <1>4 DEF IInv, Aspects
      <3>2. Pending(t) => execs'[req[t].id] = execs[req[t].id]
        BY <2>1, <1>2 DEF Body
      <3>3. At(t, "write") => Pending(t)
        BY DEF At, Pending
      <3> QED
        BY <2>1, <2>2, <2>5, <3>1, <3>2, <3>3 DEF Copies
    <2> QED
      BY <2>4, <2>8, <2>9
  <1>12. (Body(r) /\ Sees(r) /\ Copies(r))'
    BY <1>5, <1>7, FreshBody
  <1>13. /\ torn["slot"] \subseteq torn'["slot"] /\ torn["row"] \subseteq torn'["row"]
         /\ torn["number"] \subseteq torn'["number"] /\ torn["columns"] \subseteq torn'["columns"]
         /\ hand \subseteq hand'
    BY <1>4 DEF Aspects
  <1>14. SlotsUnique'
    <2> SUFFICES ASSUME NEW i \in Live', NEW j \in Live', i # j,
                        SlotOf(execs'[i]) = SlotOf(execs'[j]), execs'[i].time # Now,
                        {i, j} \cap (torn'["slot"] \cup torn'["row"] \cup hand') = {}
                 PROVE  FALSE
      BY DEF SlotsUnique
    <2>1. {i, j} \cap (torn["slot"] \cup torn["row"] \cup hand) = {}
      BY <1>13
    <2>2. execs'[j].time # Now
      BY DEF SlotOf
    <2>3. CASE i \in Live /\ j \in Live
      BY <2>1, <2>3, <1>2, <1>3 DEF IInv, SlotsUnique
    <2>4. CASE i = k \/ j = k
      <3>1. k \notin hand' /\ "slot" \notin overtaken[r] /\ e.time # Now
        BY <2>2, <2>4, <1>2, <1>4
      <3>2. \A x \in Live : SlotOf(execs[x]) = SlotOf(e) => x \in torn["row"] \cup hand
        BY <3>1
      <3> QED
        BY <2>1, <2>4, <3>2, <1>2, <1>3
    <2> QED
      BY <2>3, <2>4, <1>3
  <1>15. NumbersUnique'
    <2> SUFFICES ASSUME NEW i \in Live', NEW j \in Live', i # j,
                        execs'[i].number # Null, execs'[i].number = execs'[j].number,
                        {i, j} \cap (torn'["number"] \cup torn'["row"]) = {}
                 PROVE  FALSE
      BY DEF NumbersUnique
    <2>1. {i, j} \cap (torn["number"] \cup torn["row"]) = {}
      BY <1>13
    <2>2. CASE i \in Live /\ j \in Live
      BY <2>1, <2>2, <1>2, <1>3 DEF IInv, NumbersUnique
    <2>3. CASE i = k \/ j = k
      <3>1. "number" \notin overtaken[r] /\ e.number # Null
        BY <2>3, <1>2, <1>4
      <3>2. \A x \in Live \ torn["row"] : execs[x].number # e.number
        BY <3>1
      <3> QED
        BY <2>1, <2>3, <3>2, <1>2, <1>3
    <2> QED
      BY <2>2, <2>3, <1>3
  <1>16. CompletedWhole'
    <2> SUFFICES ASSUME NEW j \in Ids' \ (torn'["columns"] \cup hand')
                 PROVE  Whole(execs'[j])
      BY DEF CompletedWhole, Whole
    <2>1. CASE j = k
      BY <2>1, <1>2 DEF Whole
    <2>2. CASE j \in Ids
      BY <2>2, <1>2, <1>13 DEF IInv, CompletedWhole, Whole
    <2> QED
      BY <2>1, <2>2, <1>2
  <1>17. Recorded
    BY <1>2 DEF Recorded
  <1> QED
    BY <1>10, <1>11, <1>12, <1>14, <1>15, <1>16, <1>17 DEF IInv

(***************************************************************************)
(* The task and the listings.                                              *)
(***************************************************************************)
LEMMA NumbersFollow ==
  ASSUME IInv
  PROVE  /\ NextNumber \in 1 .. Len(execs) + 1 /\ NextLiveNumber \in 1 .. Len(execs) + 1
         /\ \A i \in Ids : execs[i].number # NextNumber
         /\ \A i \in Live : execs[i].number # NextLiveNumber
  <1>1. Len(execs) \in Nat /\ \A i \in Ids : execs[i].number \in 0 .. Len(execs)
    <2>1. execs \in Seq(ExecutionType)
      BY DEF IInv, Typed, TypeOK
    <2>2. \A i \in Ids : execs[i] \in ExecutionType
      BY <2>1 DEF Ids
    <2>3. \A i \in Ids : execs[i].number \in Nat
      BY <2>2 DEF ExecutionType
    <2> QED
      BY <2>1, <2>3 DEF IInv, Typed
  <1>2. ASSUME NEW I \in SUBSET Ids
        PROVE  /\ Largest({execs[i].number : i \in I}) + 1 \in 1 .. Len(execs) + 1
               /\ \A i \in I : execs[i].number # Largest({execs[i_1].number : i_1 \in I}) + 1
    <2> DEFINE S == {execs[i].number : i \in I}
    <2>1. S \in SUBSET (0 .. Len(execs)) /\ \A i \in I : execs[i].number \in S
      BY <1>1
    <2> HIDE DEF S
    <2>2. Largest(S) \in 0 .. Len(execs) /\ \A m \in S : m <= Largest(S)
      BY <1>1, <2>1, LargestIsThere
    <2>3. Largest(S) + 1 \in 1 .. Len(execs) + 1 /\ \A i \in I : execs[i].number # Largest(S) + 1
      BY <1>1, <2>1, <2>2
    <2> QED
      BY <2>3 DEF S
  <1>3. Ids \in SUBSET Ids /\ Live \in SUBSET Ids
    BY DEF Live
  <1> QED
    BY <1>2, <1>3 DEF NextNumber, NextLiveNumber

LEMMA FilledIsTyped ==
  ASSUME NEW slot \in Slot, NEW n \in Nat
  PROVE  /\ Filled(slot, n) \in ExecutionType /\ Generated(slot, n) \in ExecutionType
         /\ Filled(slot, n).number = n /\ Filled(slot, n).status = "A" /\ Filled(slot, n).stop = Null
         /\ SlotOf(Filled(slot, n)) = slot
         /\ Generated(slot, n).number = n /\ Generated(slot, n).status = "A"
         /\ Generated(slot, n).stop = Null /\ Generated(slot, n).time = slot.time
  <1>1. /\ Filled(slot, n).number = n /\ Filled(slot, n).status = "A" /\ Filled(slot, n).stop = Null
        /\ SlotOf(Filled(slot, n)) = slot
    BY DEF Slot, Filled, SlotOf
  <1>2. Filled(slot, n) \in ExecutionType
    BY DEF Slot, Filled, ExecutionType, Null, Statuses
  <1>3. /\ Generated(slot, n).number = n /\ Generated(slot, n).status = "A"
        /\ Generated(slot, n).stop = Null /\ Generated(slot, n).time = slot.time
    BY DEF Filled, Generated
  <1>4. Generated(slot, n) \in ExecutionType
    BY <1>2 DEF Generated, ExecutionType
  <1> QED
    BY <1>1, <1>2, <1>3, <1>4

LEMMA BeginKeeps ==
  ASSUME IInv, NEW r \in Requests, BeginTask(r) \/ \E u \in Users : BeginList(r, u)
  PROVE  IInv' /\ Recorded
  <1>1. ASSUME NEW k \in {"task", "list"}, NEW u \in Users \cup {None}, NEW todo \in Seq(Slot), todo # <<>>,
               req' = [req EXCEPT ![r] = [New(k, u, "find") EXCEPT !.todo = todo]],
               UNCHANGED <<execs, overtaken, torn, hand>>
        PROVE  IInv' /\ Recorded
    <2> DEFINE q == [New(k, u, "find") EXCEPT !.todo = todo]
    <2>1. q \in RequestType /\ q.at = "find" /\ q.kind = k /\ q.todo = todo /\ q.id = 0
      BY DEF New, RequestType
    <2> HIDE DEF q
    <2>2. req' = [req EXCEPT ![r] = q] /\ req'[r] = q
      BY <1>1 DEF q, IInv, Typed, TypeOK
    <2>3. (Body(r) /\ Sees(r) /\ Copies(r))'
      BY <1>1, <2>1, <2>2, FreshBody
    <2> QED
      BY <1>1, <2>1, <2>2, <2>3, ReadKeeps
  <1>2. CASE BeginTask(r)
    BY <1>1, <1>2, ExecutionsAssumption DEF BeginTask
  <1>3. ASSUME NEW u \in Users, BeginList(r, u)
        PROVE  IInv' /\ Recorded
    <2>1. UserDay[u] \in Seq(Slot)
      BY ExecutionsAssumption
    <2> QED
      BY <1>1, <1>3, <2>1 DEF BeginList
  <1> QED
    BY <1>2, <1>3

LEMMA FindKeeps ==
  ASSUME IInv, NEW r \in Requests, Find(r)
  PROVE  IInv' /\ Recorded
  <1> DEFINE rows == Holding(Head(req[r].todo))
  <1>1. /\ Body(r) /\ Filling(r) /\ req[r] \in RequestType /\ req[r].at = "find" /\ req[r].id \in Ids \cup {0}
        /\ req[r].todo # <<>> /\ UNCHANGED <<execs, overtaken, torn, hand>>
    BY DEF Find, At, IInv, Typed, TypeOK, Body
  <1>2. CASE rows = {} /\ req' = [req EXCEPT ![r].at = "number"]
    <2> DEFINE q == [req[r] EXCEPT !.at = "number"]
    <2>1. q \in RequestType /\ q.at = "number" /\ q.kind = req[r].kind /\ q.todo = req[r].todo /\ q.id = req[r].id
      BY <1>1 DEF RequestType
    <2>2. req' = [req EXCEPT ![r] = q] /\ req'[r] = q
      BY <1>2 DEF IInv, Typed, TypeOK
    <2> HIDE DEF q
    <2>3. Body(r)'
      BY <1>1, <2>1, <2>2 DEF Body, At, Filling, Pending
    <2>4. Sees(r)'
      BY <1>1, <1>2, <2>1, <2>2 DEF Sees, At, Pending, SlotIsFree, Holding, Live, Ids
    <2>5. Copies(r)'
      BY <2>1, <2>2 DEF Copies, At, Pending
    <2> QED
      BY <1>1, <2>1, <2>2, <2>3, <2>4, <2>5, ReadKeeps
  <1>3. CASE Advance(r)
    BY <1>1, <1>3, AdvanceKeeps
  <1>4. ASSUME NEW i \in rows,
               req' = [req EXCEPT ![r].at = "load", ![r].id = i, ![r].copy = execs[i]]
        PROVE  IInv' /\ Recorded
    <2> DEFINE q == [req[r] EXCEPT !.at = "load", !.id = i, !.copy = execs[i]]
    <2>1. i \in Ids /\ execs[i] \in ExecutionType
      <3>1. i \in Ids
        BY <1>4 DEF Holding, Live
      <3> QED
        BY <3>1 DEF Ids, IInv, Typed, TypeOK
    <2>2. /\ q \in RequestType /\ q.at = "load" /\ q.kind = req[r].kind /\ q.todo = req[r].todo
          /\ q.id = i /\ q.copy = execs[i]
      <3> DEFINE e == execs[i]
      <3>1. i \in Nat /\ e \in ExecutionType \cup {None}
        BY <2>1 DEF Ids
      <3> HIDE DEF e
      <3>2. [req[r] EXCEPT !.at = "load", !.id = i, !.copy = e] \in RequestType
        BY <1>1, <3>1 DEF RequestType
      <3>3. q \in RequestType
        BY <3>2 DEF e
      <3> QED
        BY <1>1, <3>3 DEF RequestType
    <2>3. req' = [req EXCEPT ![r] = q] /\ req'[r] = q
      BY <1>4 DEF IInv, Typed, TypeOK
    <2> HIDE DEF q
    <2>4. Ids' = Ids /\ execs' = execs /\ req[r].kind \in {"task", "list"}
      BY <1>1 DEF Ids, Filling
    <2>5. Body(r)'
      BY <1>1, <2>1, <2>2, <2>3, <2>4 DEF Body, At, Filling, Pending
    <2>6. Sees(r)'
      BY <2>2, <2>3, <2>4 DEF Sees, At, Pending, Current
    <2>7. Copies(r)'
      <3>1. i \notin torn["columns"] \cup hand => Whole(execs[i])
        BY <2>1 DEF IInv, CompletedWhole, Whole
      <3> QED
        BY <1>1, <2>2, <2>3, <3>1 DEF Copies, At, Pending
    <2> QED
      BY <1>1, <2>1, <2>2, <2>3, <2>5, <2>6, <2>7, ReadKeeps
  <1> QED
    BY <1>2, <1>3, <1>4 DEF Find

LEMMA TakeNumberKeeps ==
  ASSUME IInv, NEW r \in Requests, TakeNumber(r)
  PROVE  IInv' /\ Recorded
  <1> DEFINE q == [req[r] EXCEPT !.at = "insert", !.number = NextNumber]
  <1>1. /\ Body(r) /\ Sees(r) /\ Filling(r) /\ req[r] \in RequestType /\ req[r].at = "number"
        /\ req[r].id \in Ids \cup {0} /\ req[r].todo # <<>> /\ UNCHANGED <<execs, overtaken, torn, hand>>
    BY DEF TakeNumber, At, IInv, Typed, TypeOK, Body
  <1>2. NextNumber \in 1 .. Len(execs) + 1 /\ NextNumber \in Nat /\ \A i \in Live : execs[i].number # NextNumber
    <2>1. Len(execs) \in Nat
      BY DEF IInv, Typed, TypeOK
    <2> QED
      BY <2>1, NumbersFollow DEF Live
  <1>3. /\ q \in RequestType /\ q.at = "insert" /\ q.kind = req[r].kind /\ q.todo = req[r].todo
        /\ q.id = req[r].id /\ q.number = NextNumber
    BY <1>1, <1>2 DEF RequestType
  <1>4. req' = [req EXCEPT ![r] = q] /\ req'[r] = q
    BY DEF TakeNumber, IInv, Typed, TypeOK
  <1> HIDE DEF q
  <1>5. Filling(r)' /\ NumberOf(r)' = NextNumber /\ Live' = Live /\ execs' = execs
    BY <1>1, <1>3, <1>4 DEF Filling, NumberOf, Live, Ids
  <1>6. Body(r)'
    BY <1>1, <1>2, <1>3, <1>4, <1>5 DEF Body, At, Pending
  <1>7. Sees(r)'
    <2>1. SlotIsFree(r)' = SlotIsFree(r)
      BY <1>1, <1>3, <1>4, <1>5 DEF SlotIsFree
    <2>2. NumberIsFree(r)'
      BY <1>2, <1>5 DEF NumberIsFree
    <2> QED
      BY <1>1, <1>3, <1>4, <2>1, <2>2 DEF Sees, Pending
  <1>8. Copies(r)'
    BY <1>3, <1>4 DEF Copies, At, Pending
  <1> QED
    BY <1>1, <1>3, <1>4, <1>6, <1>7, <1>8, ReadKeeps

LEMMA InsertFilledKeeps ==
  ASSUME IInv, NEW r \in Requests, InsertFilled(r)
  PROVE  IInv' /\ Recorded
  <1> DEFINE slot == Head(req[r].todo)
             e == Filled(slot, req[r].number)
  <1>1. /\ Body(r) /\ Sees(r) /\ req[r] \in RequestType /\ At(r, "insert") /\ Filling(r)
        /\ Insert(r, e) /\ hand' = hand
    BY DEF InsertFilled, IInv, Typed, TypeOK
  <1>2. slot \in Slot /\ req[r].number \in Nat
    BY <1>1 DEF Body, RequestType, At
  <1>3. /\ e \in ExecutionType /\ e.number = req[r].number /\ e.status = "A" /\ e.stop = Null /\ SlotOf(e) = slot
    BY <1>2, FilledIsTyped
  <1> HIDE DEF e
  <1>4. req[r].number \in 0 .. Len(execs) + 1
    BY <1>1 DEF Body, NumberOf
  <1>5. "slot" \in overtaken[r] \/ \A j \in Live : SlotOf(execs[j]) = SlotOf(e) => j \in torn["row"] \cup hand
    BY <1>1, <1>3 DEF Sees, At, SlotIsFree
  <1>6. "number" \in overtaken[r] \/ \A j \in Live \ torn["row"] : execs[j].number # e.number
    BY <1>1, <1>3 DEF Sees, NumberIsFree, NumberOf
  <1> QED
    BY <1>1, <1>3, <1>4, <1>5, <1>6, InsertKeeps

(***************************************************************************)
(* Executions generated by hand and created.                               *)
(***************************************************************************)
LEMMA BeginGenerateKeeps ==
  ASSUME IInv, NEW r \in Requests, NEW u, NEW slot \in ByHand, BeginGenerate(r, u, slot)
  PROVE  IInv' /\ Recorded
  <1> DEFINE e == Generated(slot, NextLiveNumber)
             q == [New("generate", None, "insert") EXCEPT !.copy = e]
  <1>1. slot \in Slot /\ slot.time = Now
    BY ExecutionsAssumption
  <1>2. /\ NextLiveNumber \in 1 .. Len(execs) + 1 /\ NextLiveNumber \in Nat
        /\ \A i \in Live : execs[i].number # NextLiveNumber
    <2>1. Len(execs) \in Nat
      BY DEF IInv, Typed, TypeOK
    <2> QED
      BY <2>1, NumbersFollow
  <1>3. e \in ExecutionType /\ e.number = NextLiveNumber /\ e.status = "A" /\ e.stop = Null /\ e.time = Now
    BY <1>1, <1>2, FilledIsTyped
  <1> HIDE DEF e
  <1>4. q \in RequestType /\ q.at = "insert" /\ q.kind = "generate" /\ q.copy = e /\ q.id = 0
    <2>1. q = [at |-> "insert", kind |-> "generate", user |-> None, todo |-> <<>>, id |-> 0, input |-> None,
               copy |-> e, columns |-> {}, number |-> 0]
      BY DEF New
    <2>2. e \in ExecutionType \cup {None}
      BY <1>3
    <2> HIDE DEF q
    <2>3. q \in RequestType
      BY <2>1, <2>2 DEF RequestType
    <2> QED
      BY <2>1, <2>3
  <1>5. req' = [req EXCEPT ![r] = q] /\ req'[r] = q /\ UNCHANGED <<execs, overtaken, torn, hand>>
    BY DEF BeginGenerate, e, IInv, Typed, TypeOK
  <1> HIDE DEF q
  <1>6. ~ Filling(r)' /\ NumberOf(r)' = NextLiveNumber /\ Live' = Live /\ execs' = execs
    BY <1>3, <1>4, <1>5 DEF Filling, NumberOf, Live, Ids
  <1>7. Body(r)'
    BY <1>2, <1>3, <1>4, <1>5, <1>6 DEF Body, At, Pending
  <1>8. Sees(r)'
    BY <1>2, <1>4, <1>5, <1>6 DEF Sees, At, Pending, NumberIsFree
  <1>9. Copies(r)'
    BY <1>4, <1>5 DEF Copies, At, Pending
  <1> QED
    BY <1>4, <1>5, <1>7, <1>8, <1>9, ReadKeeps

LEMMA InsertGeneratedKeeps ==
  ASSUME IInv, NEW r \in Requests, InsertGenerated(r)
  PROVE  IInv' /\ Recorded
  <1>1. /\ Body(r) /\ Sees(r) /\ At(r, "insert") /\ ~ Filling(r) /\ Insert(r, req[r].copy) /\ hand' = hand
    BY DEF InsertGenerated, IInv, Filling
  <1>2. /\ req[r].copy \in ExecutionType /\ req[r].copy.time = Now /\ req[r].copy.status = "A"
        /\ req[r].copy.stop = Null /\ req[r].copy.number \in 0 .. Len(execs) + 1
    BY <1>1 DEF Body, NumberOf
  <1>3. "number" \in overtaken[r] \/ \A j \in Live \ torn["row"] : execs[j].number # req[r].copy.number
    BY <1>1 DEF Sees, NumberIsFree, NumberOf
  <1> QED
    BY <1>1, <1>2, <1>3, InsertKeeps

LEMMA CreateKeeps ==
  ASSUME IInv, NEW r \in Requests, NEW u, NEW e \in CreateInputs, Create(r, u, e)
  PROVE  IInv' /\ Recorded
  <1>1. e \in ExecutionType /\ e.number = Null /\ Insert(r, e) /\ hand' = hand \cup {Len(execs) + 1}
    BY ExecutionsAssumption DEF Create
  <1>2. e.number \in 0 .. Len(execs) + 1
    BY <1>1 DEF Null, IInv, Typed, TypeOK
  <1> QED
    BY <1>1, <1>2, InsertKeeps

(***************************************************************************)
(* Start, stop, update and delete.                                         *)
(***************************************************************************)
LEMMA AdmitKeeps ==
  ASSUME IInv, NEW r \in Requests, NEW k \in {"start", "stop", "update", "delete"},
         NEW i, NEW d \in StartType \cup StopType \cup UpdateType \cup {None},
         k = "start" => d \in StartType, k = "stop" => d \in StopType, k = "update" => d \in UpdateType,
         Admit(r, k, i, d)
  PROVE  IInv' /\ Recorded
  <1> DEFINE q == [New(k, None, "read") EXCEPT !.id = i, !.input = d]
  <1>1. i \in Ids /\ i \in Nat /\ UNCHANGED <<execs, overtaken, torn, hand>>
    BY DEF Admit, Ids
  <1>2. q \in RequestType /\ q.at = "read" /\ q.kind = k /\ q.id = i /\ q.input = d
    <2> DEFINE p == New(k, None, "read")
    <2>1. p \in RequestType /\ p.at = "read" /\ p.kind = k
      BY DEF New, RequestType
    <2> HIDE DEF p
    <2>2. [p EXCEPT !.id = i, !.input = d] \in RequestType
      BY <1>1, <2>1 DEF RequestType
    <2>3. q \in RequestType
      BY <2>2 DEF p
    <2>4. q.at = "read" /\ q.kind = k /\ q.id = i /\ q.input = d
      BY <2>1 DEF New
    <2> QED
      BY <2>3, <2>4
  <1>3. req' = [req EXCEPT ![r] = q] /\ req'[r] = q
    BY DEF Admit, IInv, Typed, TypeOK
  <1> HIDE DEF q
  <1>4. Ids' = Ids /\ ~ Filling(r)'
    BY <1>1, <1>2, <1>3 DEF Ids, Filling
  <1>5. Body(r)'
    BY <1>1, <1>2, <1>3, <1>4 DEF Body, At, Pending
  <1>6. Sees(r)'
    BY <1>2, <1>3 DEF Sees, At, Pending
  <1>7. Copies(r)'
    BY <1>2, <1>3 DEF Copies, At, Pending
  <1> QED
    BY <1>1, <1>2, <1>3, <1>5, <1>6, <1>7, ReadKeeps

LEMMA CallKeeps ==
  ASSUME IInv, NEW r \in Requests, NEW u, NEW i, Call(r, u, i)
  PROVE  IInv' /\ Recorded
  <1>1. ASSUME NEW d \in StartType, CallStart(r, u, i, d)
        PROVE  IInv' /\ Recorded
    BY <1>1, AdmitKeeps DEF CallStart
  <1>2. ASSUME NEW d \in StopInputs, CallStop(r, u, i, d)
        PROVE  IInv' /\ Recorded
    <2>1. d \in StopType
      BY ExecutionsAssumption
    <2> QED
      BY <1>2, <2>1, AdmitKeeps DEF CallStop
  <1>3. ASSUME NEW d \in UpdateInputs, CallUpdate(r, u, i, d)
        PROVE  IInv' /\ Recorded
    <2>1. d \in UpdateType
      BY ExecutionsAssumption
    <2> QED
      BY <1>3, <2>1, AdmitKeeps DEF CallUpdate
  <1>4. ASSUME CallDelete(r, u, i)
        PROVE  IInv' /\ Recorded
    BY <1>4, AdmitKeeps DEF CallDelete
  <1> QED
    BY <1>1, <1>2, <1>3, <1>4 DEF Call

\* The handler has read its row and holds what it makes of it.
LEMMA HoldsKeeps ==
  ASSUME IInv, NEW r \in Requests, At(r, "read"), UNCHANGED <<execs, overtaken, torn, hand>>,
         NEW at \in {"put", "load"}, NEW f \in ExecutionType, Holds(r, at, f),
         f.number = execs[req[r].id].number,
         at = "put" => req[r].kind \in {"start", "stop"},
         at = "load" => req[r].kind \in {"update", "delete"},
         LET e == execs[req[r].id] IN
         /\ req[r].kind = "start" => MayStart(e) /\ \E d \in StartType : f = Started(e, d)
         /\ req[r].kind = "stop" => MayStop(e) /\ \E d \in StopType : f = Stopped(e, d)
         /\ req[r].kind = "update" => ~ e.deleted /\ ~ f.deleted
         /\ req[r].kind = "delete" => f = [e EXCEPT !.deleted = TRUE]
  PROVE  IInv' /\ Recorded
  <1> DEFINE q == [req[r] EXCEPT !.at = at, !.copy = f, !.input = None]
  <1>1. Body(r) /\ req[r] \in RequestType /\ req[r].id \in Ids
    BY DEF IInv, Typed, TypeOK, Body
  <1>2. q \in RequestType /\ q.at = at /\ q.kind = req[r].kind /\ q.id = req[r].id /\ q.copy = f
    BY <1>1 DEF RequestType
  <1>3. req' = [req EXCEPT ![r] = q] /\ req'[r] = q
    BY DEF Holds, IInv, Typed, TypeOK
  <1> HIDE DEF q
  <1>4. Ids' = Ids /\ execs' = execs /\ ~ Filling(r)'
    BY <1>2, <1>3 DEF Ids, Filling
  <1>5. Body(r)'
    BY <1>1, <1>2, <1>3, <1>4 DEF Body, At, Pending
  <1>6. Current(r)'
    BY <1>2, <1>3, <1>4 DEF Current, At
  <1>7. Sees(r)'
    BY <1>2, <1>3, <1>6 DEF Sees, At, Pending
  <1>8. Copies(r)'
    <2> DEFINE e == execs[req[r].id]
    <2>1. e \in ExecutionType
      BY <1>1 DEF Ids, IInv, Typed, TypeOK
    <2>2. req[r].id \notin torn["columns"] \cup hand => Whole(e)
      BY <1>1 DEF IInv, CompletedWhole, Whole
    <2>3. \/ req[r].kind = "update"
          \/ MayStart(e) /\ \E d \in StartType : f = Started(e, d)
          \/ MayStop(e) /\ \E d \in StopType : f = Stopped(e, d)
          \/ f = [e EXCEPT !.deleted = TRUE]
      OBVIOUS
    <2> HIDE DEF e
    <2>4. req[r].kind # "update" /\ req[r].id \notin torn["columns"] \cup hand => Whole(f)
      BY <2>1, <2>2, <2>3, HandlersKeepWhole
    <2> QED
      BY <1>2, <1>3, <2>4 DEF Copies, At, Pending
  <1> QED
    BY <1>1, <1>2, <1>3, <1>5, <1>7, <1>8, ReadKeeps

LEMMA HandlerReadKeeps ==
  ASSUME IInv, NEW r \in Requests, Read(r)
  PROVE  IInv' /\ Recorded
  <1> DEFINE i == req[r].id
             e == execs[i]
             d == req[r].input
  <1>1. At(r, "read") /\ Body(r) /\ UNCHANGED <<execs, overtaken, torn, hand>>
    BY DEF Read, IInv
  <1>2. i \in Ids /\ e \in ExecutionType
    <2>1. i \in Ids
      BY <1>1 DEF Body
    <2> QED
      BY <2>1 DEF Ids, IInv, Typed, TypeOK
  <1>3. CASE Fail(r)
    BY <1>1, <1>3, FailKeeps
  <1>4. CASE req[r].kind = "start" /\ MayStart(e) /\ Holds(r, "put", Started(e, d))
    <2>1. d \in StartType
      BY <1>1, <1>4 DEF Body
    <2>2. Started(e, d) \in ExecutionType /\ Started(e, d).number = e.number
      <3>1. Stored(d.at) \in Moments
        BY <2>1, MomentsAreSeconds DEF StartType
      <3> QED
        BY <1>2, <3>1 DEF Started, ExecutionType
    <2> QED
      BY <1>1, <1>4, <2>1, <2>2, HoldsKeeps
  <1>5. CASE req[r].kind = "stop" /\ MayStop(e) /\ Holds(r, "put", Stopped(e, d))
    <2>1. d \in StopType
      BY <1>1, <1>5 DEF Body
    <2>2. Stopped(e, d) \in ExecutionType /\ Stopped(e, d).number = e.number
      <3>1. d.at \in Times /\ d.nok \in BOOLEAN /\ d.tag \in Cards \cup {Null, None}
        BY <2>1 DEF StopType
      <3>2. Stored(d.at) \in Moments /\ SecondsSince(e.start, d.at) \in Int
        <4>1. e.start \in Nat
          <5>1. e.start \in Moments \cup {0}
            BY <1>2 DEF ExecutionType, Null
          <5>2. Moments \subseteq Nat \ {0}
            BY MomentsAreSeconds
          <5>3. Moments \cup {0} \subseteq Nat
            BY <5>2
          <5> QED
            BY <5>1, <5>3, Zenon
        <4> QED
          BY <3>1, <4>1, MomentsAreSeconds
      <3> DEFINE tag == IF d.tag = None THEN e.tag ELSE d.tag
                 real == SecondsSince(e.start, d.at)
                 stop == Stored(d.at)
      <3>3. tag \in Cards \cup {Null, None} /\ real \in Int /\ stop \in Moments
        BY <1>2, <3>1, <3>2 DEF ExecutionType
      <3>4. Stopped(e, d) = [e EXCEPT !.stop = stop, !.real = real, !.status = "R", !.nok = d.nok, !.tag = tag]
        BY DEF Stopped
      <3> HIDE DEF tag, real, stop
      <3> DEFINE f == Stopped(e, d)
      <3>5. /\ DOMAIN f = DOMAIN e /\ f = [c \in DOMAIN e |-> f[c]]
            /\ f.stop = stop /\ f.real = real /\ f.status = "R" /\ f.nok = d.nok /\ f.tag = tag
            /\ \A c \in DOMAIN e \ {"stop", "real", "status", "nok", "tag"} : f[c] = e[c]
        BY <1>2, <3>4 DEF ExecutionType
      <3> HIDE DEF f
      <3>6. f \in ExecutionType /\ f.number = e.number
        BY <1>2, <3>1, <3>3, <3>5 DEF ExecutionType, Statuses
      <3> QED
        BY <3>6 DEF f
    <2> QED
      BY <1>1, <1>5, <2>1, <2>2, HoldsKeeps
  <1>6. CASE req[r].kind = "update" /\ ~ e.deleted /\ Holds(r, "load", Edited(e, d))
    <2>1. d \in UpdateType
      BY <1>1, <1>6 DEF Body
    <2>2. d.values \in ExecutionType /\ "number" \notin d.names /\ "deleted" \notin d.names
      BY <2>1 DEF UpdateType, Editable
    <2>3. Edited(e, d) = Mixed(e, d.values, d.names)
      BY DEF Edited, Mixed
    <2>4. {"number", "deleted"} \subseteq DOMAIN e
      BY <1>2 DEF ExecutionType
    <2>5. Edited(e, d) \in ExecutionType /\ Edited(e, d).number = e.number /\ Edited(e, d).deleted = e.deleted
      BY <1>2, <2>2, <2>3, <2>4, MixedTyped
    <2> QED
      BY <1>1, <1>6, <2>5, HoldsKeeps
  <1>7. CASE req[r].kind = "delete" /\ Holds(r, "load", [e EXCEPT !.deleted = TRUE])
    <2>1. [e EXCEPT !.deleted = TRUE] \in ExecutionType /\ [e EXCEPT !.deleted = TRUE].number = e.number
      BY <1>2 DEF ExecutionType
    <2> QED
      BY <1>1, <1>7, <2>1, HoldsKeeps
  <1> QED
    BY <1>3, <1>4, <1>5, <1>6, <1>7 DEF Read, ReadToStart, ReadToStop, ReadToUpdate, ReadToDelete

LEMMA PutKeeps ==
  ASSUME IInv, NEW r \in Requests, Put(r)
  PROVE  IInv' /\ Recorded
  <1>1. req[r].at = "put" /\ Body(r) /\ Rewrite(r, req[r].id, req[r].copy)
    BY DEF Put, At, IInv
  <1>2. req[r].copy \in ExecutionType /\ req[r].copy.number = execs[req[r].id].number
    BY <1>1 DEF Body, Pending
  <1> QED
    BY <1>1, <1>2, RewriteKeeps

LEMMA LoadKeeps ==
  ASSUME IInv, NEW r \in Requests, Load(r)
  PROVE  IInv' /\ Recorded
  <1> DEFINE e == execs[req[r].id]
             f == req[r].copy
             S == Differing(e, f)
  <1>1. /\ req[r].at = "load" /\ Body(r) /\ Sees(r) /\ req[r] \in RequestType
        /\ req[r].id \in Ids /\ f \in ExecutionType /\ f.number = e.number
        /\ UNCHANGED <<execs, torn, hand>>
    BY DEF Load, At, IInv, Typed, TypeOK, Body, Pending
  <1>2. e \in ExecutionType
    BY <1>1 DEF Ids, IInv, Typed, TypeOK
  <1>3. S \subseteq Editable \cup {"number", "deleted"}
    BY <1>2 DEF Differing, ExecutionType, Editable
  <1>4. CASE S = {} /\ Advance(r) /\ Forget(r)
    BY <1>1, <1>4, AdvanceKeeps DEF Forget
  <1>5. CASE S # {} /\ req' = [req EXCEPT ![r].at = "write", ![r].columns = S] /\ overtaken' = overtaken
    <2> DEFINE q == [req[r] EXCEPT !.at = "write", !.columns = S]
    <2>1. /\ q \in RequestType /\ q.at = "write" /\ q.kind = req[r].kind /\ q.id = req[r].id
          /\ q.copy = f /\ q.columns = S /\ q.todo = req[r].todo
      <3> HIDE DEF S
      <3> QED
        BY <1>1, <1>3 DEF RequestType
    <2>2. req' = [req EXCEPT ![r] = q] /\ req'[r] = q
      BY <1>5 DEF IInv, Typed, TypeOK
    <2> HIDE DEF q
    <2>3. Ids' = Ids /\ execs' = execs /\ Filling(r)' = Filling(r) /\ overtaken' = overtaken
      BY <1>1, <1>5, <2>1, <2>2 DEF Ids, Filling
    <2>4. Body(r)'
      BY <1>1, <2>1, <2>2, <2>3 DEF Body, At, Pending
    <2>5. ASSUME "row" \notin overtaken[r]
          PROVE  Current(r)'
      <3>1. Current(r)
        BY <1>1, <2>5 DEF Sees, Pending
      <3>2. ~ Filling(r)
        BY <1>5, <3>1 DEF Current, Differing
      <3> QED
        BY <1>1, <2>1, <2>2, <2>3, <3>1, <3>2 DEF Current, At
    <2>6. Sees(r)'
      BY <2>1, <2>2, <2>3, <2>5 DEF Sees, At, Pending
    <2>7. Copies(r)'
      <3>1. Copies(r) /\ Pending(r)
        BY <1>1 DEF IInv, Pending
      <3> QED
        BY <1>1, <2>1, <2>2, <2>3, <3>1 DEF Copies, At
    <2> QED
      BY <1>1, <1>5, <2>1, <2>2, <2>4, <2>6, <2>7, ReadKeeps
  <1> QED
    BY <1>4, <1>5 DEF Load, Differing

LEMMA WriteKeeps ==
  ASSUME IInv, NEW r \in Requests, Write(r)
  PROVE  IInv' /\ Recorded
  <1> DEFINE i == req[r].id
             f == req[r].copy
             e == Mixed(execs[i], f, req[r].columns)
  <1>1. /\ req[r].at = "write" /\ Body(r) /\ Sees(r) /\ i \in Ids
        /\ f \in ExecutionType /\ f.number = execs[i].number
    BY DEF Write, At, IInv, Body, Pending
  <1>2. execs[i] \in ExecutionType
    BY <1>1 DEF Ids, IInv, Typed, TypeOK
  <1>3. e \in ExecutionType /\ e.number = execs[i].number
    <2>1. "number" \in DOMAIN execs[i]
      BY <1>2 DEF ExecutionType
    <2> QED
      BY <1>1, <1>2, <2>1, MixedTyped
  <1>4. "row" \notin overtaken[r] => e = f
    BY <1>1, <1>2, MixedIsCopy DEF Sees, Pending, Current, At
  <1>5. Rewrite(r, i, e)
    BY DEF Write, Mixed
  <1>6. "columns" \notin overtaken[r] => e = f
    BY <1>1, <1>2, MixedIsCopy DEF IInv, Copies, At
  <1> HIDE DEF e
  <1> QED
    BY <1>1, <1>3, <1>4, <1>5, <1>6, RewriteKeeps

(***************************************************************************)
(* The theorems.                                                           *)
(***************************************************************************)
LEMMA NextKeeps == IInv /\ Next => IInv' /\ Recorded
  <1> SUFFICES ASSUME IInv, NEW r \in Requests,
                      \/ Fill(r)
                      \/ \E u \in Users : Add(r, u) \/ \E i \in Ids : Call(r, u, i)
                      \/ Step(r)
               PROVE  IInv' /\ Recorded
    BY DEF Next
  <1>1. CASE Fill(r)
    BY <1>1, BeginKeeps, FindKeeps, TakeNumberKeeps, InsertFilledKeeps DEF Fill
  <1>2. ASSUME NEW u \in Users, Add(r, u)
        PROVE  IInv' /\ Recorded
    BY <1>2, BeginGenerateKeeps, CreateKeeps DEF Add
  <1>3. ASSUME NEW u \in Users, NEW i \in Ids, Call(r, u, i)
        PROVE  IInv' /\ Recorded
    BY <1>3, CallKeeps
  <1>4. CASE Step(r)
    <2>1. CASE Lose(r)
      BY <2>1, FailKeeps DEF Lose, Forget
    <2> QED
      BY <1>4, <2>1, InsertGeneratedKeeps, HandlerReadKeeps, PutKeeps, LoadKeeps, WriteKeeps DEF Step
  <1> QED
    BY <1>1, <1>2, <1>3, <1>4

LEMMA StutterKeeps == IInv /\ UNCHANGED vars => IInv'
  BY DEF vars, IInv, Typed, TypeOK, Body, Sees, SlotsUnique, NumbersUnique, CompletedWhole, Ids, Live,
         At, Filling, Pending, NumberOf, SlotIsFree, NumberIsFree, Current, Copies

\* The invariant that every step keeps: besides what follows, what each request has
\* come to, and that the slot, the number and the row it relies on are still as it has
\* read them unless somebody has overtaken it.
THEOREM ExecutionsInvariance == Spec => []IInv
  <1>1. IInv /\ [Next]_vars => IInv'
    BY NextKeeps, StutterKeeps
  <1> QED
    BY <1>1, InitInvariant, PTL DEF Spec

\* The columns hold what their types allow, and requests refer to rows that are there.
THEOREM ExecutionTypes == Spec => []TypeOK
  <1>1. IInv => TypeOK
    BY DEF IInv, Typed
  <1> QED
    BY <1>1, ExecutionsInvariance, PTL

\* However many instances run the daily task and list the day, a slot of the plan has one
\* execution and a number belongs to one, unless a request inserted on a search or a
\* number that another had overtaken, or wrote back a row that another had written.
THEOREM PlanIsFilledOnce == Spec => []PlannedOnce
  <1>1. IInv => PlannedOnce
    BY DEF IInv, PlannedOnce
  <1> QED
    BY <1>1, ExecutionsInvariance, PTL

\* An execution is completed exactly when it was stopped, after it was started, and its
\* duration is what lies between the two columns up to the second by which the stop was
\* rounded, however starts, stops, listings and deletions overlap; not so one that a body
\* of update or create wrote, or a save that was overtaken between its two statements.
THEOREM CompletedStaysWhole == Spec => []CompletedWhole
  <1>1. IInv => CompletedWhole
    BY DEF IInv
  <1> QED
    BY <1>1, ExecutionsInvariance, PTL

\* The start and the stop that were recorded are neither changed nor undone by a step of
\* the task, a listing, another start or stop or the deletion, unless through a copy that
\* another request had overtaken.
THEOREM RecordStays == Spec => RecordedStays
  <1>1. IInv /\ [Next]_vars =>
          [\A i \in Ids : \A c \in {"start", "stop"} :
             execs[i][c] \notin {Null, execs'[i][c]} => i \in torn'["row"] \cup hand']_vars
    BY NextKeeps DEF Recorded
  <1> QED
    BY <1>1, ExecutionsInvariance, PTL DEF Spec, RecordedStays
=============================================================================
