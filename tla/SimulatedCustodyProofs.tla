----------------------- MODULE SimulatedCustodyProofs -----------------------
(***************************************************************************)
(* Proofs about SimulatedCustody, for any number of users, of events and   *)
(* of failed syncs: the types, what the self join returns, and which of    *)
(* the injected gaps and cycles the detectors find, miss or make up.       *)
(***************************************************************************)
EXTENDS SimulatedCustody, FiniteSetTheorems, SequenceTheorems, WellFoundedInduction, TLAPS

(* A set of numbers that is not empty has a least one: what an induction   *)
(* needs, as a fact about sets.                                            *)
LEMMA Least ==
    ASSUME NEW S \in SUBSET Nat, S # {}
    PROVE  \E m \in S : \A x \in S : m =< x
<1>1. PICK m \in S : \A x \in S : ~(<<x, m>> \in OpToRel(<, Nat))
  <2> HIDE DEF OpToRel
  <2> QED
    BY NatLessThanWellFounded, WFMin
<1>2. ASSUME NEW x \in S PROVE ~(x < m)
  BY <1>1, <1>2 DEF OpToRel
<1>3. \A x \in S : x \in Nat
  OBVIOUS
<1> QED
  BY <1>2, <1>3

-----------------------------------------------------------------------------
(* The chain sorted by time, of any events. *)

LEMMA PrecedesOrders ==
    ASSUME NEW a, NEW b, NEW c, NEW reverse \in BOOLEAN,
           a.ts \in Nat, b.ts \in Nat, c.ts \in Nat, a.id \in Nat, b.id \in Nat, c.id \in Nat
    PROVE  /\ ~Precedes(a, a, reverse)
           /\ Precedes(a, b, reverse) /\ Precedes(b, c, reverse) => Precedes(a, c, reverse)
           /\ a.id # b.id => Precedes(a, b, reverse) \/ Precedes(b, a, reverse)
BY DEF Precedes

(* ByTime puts each event once, in the order of the timestamps, if no two  *)
(* events have one id: the positions are as many as the events, and no two *)
(* events have the same.                                                   *)
LEMMA Ordered ==
    ASSUME NEW S, IsFiniteSet(S), NEW reverse \in BOOLEAN,
           \A e \in S : e.ts \in Nat /\ e.id \in Nat,
           \A a, b \in S : a.id = b.id => a = b
    PROVE  LET chain == ByTime(S, reverse)  n == Cardinality(S) IN
           /\ n \in Nat
           /\ chain \in Seq(S) /\ Len(chain) = n /\ DOMAIN chain = 1 .. n
           /\ \A i \in 1 .. n : chain[i] \in S
           /\ \A i, j \in 1 .. n : i < j => Precedes(chain[i], chain[j], reverse)
           /\ \A e \in S : \E i \in 1 .. n : chain[i] = e
<1> DEFINE n == Cardinality(S)
           Before(e) == {x \in S : Precedes(x, e, reverse)}
           position == [e \in S |-> Cardinality(Before(e)) + 1]
           chain == [k \in 1 .. n |-> CHOOSE e \in S : Cardinality(Before(e)) + 1 = k]
<1>1. n \in Nat
  BY FS_CardinalityType
<1>2. ASSUME NEW e \in S PROVE position[e] \in 1 .. n
  <2>1. Before(e) \in SUBSET S /\ e \notin Before(e)
    BY PrecedesOrders
  <2> HIDE DEF Before
  <2>2. /\ IsFiniteSet(Before(e)) /\ Cardinality(Before(e)) =< n
        /\ Cardinality(Before(e)) # n
    BY <2>1, FS_Subset
  <2>3. Cardinality(Before(e)) \in Nat
    BY <2>2, FS_CardinalityType
  <2> HIDE DEF n
  <2> QED
    BY <1>1, <2>2, <2>3
<1>3. ASSUME NEW a \in S, NEW b \in S, Precedes(a, b, reverse)
      PROVE  position[a] < position[b]
  <2>1. Before(a) \in SUBSET Before(b)
    BY <1>3, PrecedesOrders
  <2>2. a \in Before(b) /\ a \notin Before(a) /\ Before(b) \in SUBSET S
    BY <1>3, PrecedesOrders
  <2>3. position[a] \in 1 .. n /\ position[b] \in 1 .. n
    BY <1>2
  <2> HIDE DEF Before, n
  <2>4. IsFiniteSet(Before(b))
    BY <2>2, FS_Subset
  <2>5. Cardinality(Before(a)) =< Cardinality(Before(b)) /\ Cardinality(Before(a)) # Cardinality(Before(b))
    BY <2>1, <2>2, <2>4, FS_Subset
  <2>6. IsFiniteSet(Before(a))
    BY <2>1, <2>4, FS_Subset
  <2>7. Cardinality(Before(a)) \in Nat /\ Cardinality(Before(b)) \in Nat
    BY <2>4, <2>6, FS_CardinalityType
  <2> QED
    BY <2>5, <2>7
<1>4. \A a, b \in S : position[a] = position[b] => a = b
  <2> SUFFICES ASSUME NEW a \in S, NEW b \in S, a # b PROVE position[a] # position[b]
    OBVIOUS
  <2>1. Precedes(a, b, reverse) \/ Precedes(b, a, reverse)
    BY PrecedesOrders
  <2>2. position[a] \in 1 .. n /\ position[b] \in 1 .. n
    BY <1>2
  <2> HIDE DEF position, n
  <2> QED
    BY <1>1, <1>3, <2>1, <2>2
<1>5. \A k \in 1 .. n : \E e \in S : position[e] = k
  <2>1. position \in [S -> 1 .. n]
    BY <1>2
  <2>2. IsFiniteSet(1 .. n) /\ Cardinality(1 .. n) = n
    BY <1>1, FS_Interval
  <2> HIDE DEF position
  <2>3. position \in Injection(S, 1 .. n)
    BY <1>4, <2>1 DEF Injection, IsInjective
  <2>4. position \in Surjection(S, 1 .. n)
    BY <2>2, <2>3, FS_Injection
  <2> QED
    BY <2>4 DEF Surjection
<1>6. \A k \in 1 .. n : chain[k] \in S /\ position[chain[k]] = k
  BY <1>5
<1>9. ByTime(S, reverse) = chain
  BY DEF ByTime
<1> HIDE DEF position
<1>7. \A e \in S : chain[position[e]] = e
  BY <1>2, <1>4, <1>6
<1>8. ASSUME NEW i \in 1 .. n, NEW j \in 1 .. n, i < j
      PROVE  Precedes(chain[i], chain[j], reverse)
  <2>1. chain[i] \in S /\ chain[j] \in S /\ position[chain[i]] = i /\ position[chain[j]] = j
    BY <1>6
  <2>2. chain[i] # chain[j] /\ ~(position[chain[j]] < position[chain[i]])
    <3> HIDE DEF chain, n
    <3> QED BY <1>1, <1>8, <2>1
  <2>3. ~Precedes(chain[j], chain[i], reverse)
    BY <1>3, <2>1, <2>2
  <2> HIDE DEF chain
  <2> QED
    BY <2>1, <2>2, <2>3, PrecedesOrders
<1>10. chain \in [1 .. n -> S]
  BY <1>6
<1> HIDE DEF n, chain
<1>11. chain \in Seq(S) /\ Len(chain) = n /\ DOMAIN chain = 1 .. n
  BY <1>1, <1>10
<1>12. \A e \in S : \E i \in 1 .. n : chain[i] = e
  BY <1>2, <1>7
<1> QED
  BY <1>1, <1>6, <1>8, <1>9, <1>11, <1>12 DEF n

(* Some event has the last timestamp. *)
LEMMA LastEvent ==
    ASSUME NEW S, IsFiniteSet(S), S # {},
           \A e \in S : e.ts \in Nat /\ e.id \in Nat,
           \A a, b \in S : a.id = b.id => a = b
    PROVE  \E last \in S : \A e \in S : e.ts =< last.ts
<1> DEFINE chain == ByTime(S, FALSE)
           n == Cardinality(S)
<1>1. /\ n \in Nat /\ \A i \in 1 .. n : chain[i] \in S
      /\ \A i, j \in 1 .. n : i < j => Precedes(chain[i], chain[j], FALSE)
      /\ \A e \in S : \E i \in 1 .. n : chain[i] = e
  BY Ordered
<1> HIDE DEF chain, n
<1>2. n # 0 /\ n \in 1 .. n
  BY <1>1
<1>3. ASSUME NEW e \in S PROVE e.ts =< chain[n].ts
  <2>1. PICK i \in 1 .. n : chain[i] = e
    BY <1>1
  <2>2. CASE i = n
    BY <2>1, <2>2
  <2>3. CASE i < n
    <3>1. Precedes(chain[i], chain[n], FALSE)
      BY <1>1, <1>2, <2>3
    <3>2. chain[n] \in S
      BY <1>1, <1>2
    <3> QED
      BY <2>1, <3>1, <3>2 DEF Precedes
  <2> QED
    BY <1>1, <2>2, <2>3
<1> QED
  BY <1>1, <1>2, <1>3

(* The events of a sequence in which each has an id of its own are as many *)
(* as its places.                                                          *)
LEMMA ElementsOf ==
    ASSUME NEW S, NEW s \in Seq(S), \A i, j \in DOMAIN s : s[i].id = s[j].id => i = j
    PROVE  /\ IsFiniteSet(Elements(s)) /\ Cardinality(Elements(s)) = Len(s)
           /\ \A a, b \in Elements(s) : a.id = b.id => a = b
<1>1. DOMAIN s = 1 .. Len(s) /\ Len(s) \in Nat
  OBVIOUS
<1>2. IsFiniteSet(1 .. Len(s)) /\ Cardinality(1 .. Len(s)) = Len(s)
  BY <1>1, FS_Interval
<1> DEFINE f == [i \in 1 .. Len(s) |-> s[i]]
<1>3. f \in Surjection(1 .. Len(s), Elements(s))
  BY <1>1 DEF Surjection, Elements
<1>4. f \in Injection(1 .. Len(s), Elements(s))
  <2>1. \A i, j \in 1 .. Len(s) : f[i] = f[j] => i = j
    BY <1>1
  <2>2. f \in [1 .. Len(s) -> Elements(s)]
    BY <1>1 DEF Elements
  <2> HIDE DEF f
  <2> QED
    BY <2>1, <2>2 DEF Injection, IsInjective
<1> HIDE DEF f
<1>5. IsFiniteSet(Elements(s)) /\ Cardinality(Elements(s)) = Cardinality(1 .. Len(s))
  BY <1>2, <1>3, <1>4, FS_Surjection
<1>6. \A a, b \in Elements(s) : a.id = b.id => a = b
  BY DEF Elements
<1> QED
  BY <1>2, <1>5, <1>6

(* What comes next in the chain is the next event: the steps of the chain  *)
(* are the pairs of events with no event between them.                     *)
LEMMA NextEvent ==
    ASSUME NEW S, IsFiniteSet(S), NEW reverse \in BOOLEAN,
           \A e \in S : e.ts \in Nat /\ e.id \in Nat,
           \A a, b \in S : a.id = b.id => a = b,
           NEW a \in S, NEW b \in S, Precedes(a, b, reverse),
           \A e \in S : ~(Precedes(a, e, reverse) /\ Precedes(e, b, reverse))
    PROVE  \E p \in Steps(ByTime(S, reverse)) :
              ByTime(S, reverse)[p] = a /\ ByTime(S, reverse)[p + 1] = b
<1> DEFINE chain == ByTime(S, reverse)
           n == Cardinality(S)
           Before(x, y) == Precedes(x, y, reverse)
<1>1. /\ n \in Nat /\ Len(chain) = n
      /\ \A k \in 1 .. n : chain[k] \in S
      /\ \A k, l \in 1 .. n : k < l => Before(chain[k], chain[l])
      /\ \A e \in S : \E k \in 1 .. n : chain[k] = e
  BY Ordered
<1>2. Before(a, b) /\ ~Before(a, a) /\ ~Before(b, a)
  BY PrecedesOrders
<1>3. \A e \in S : ~(Before(a, e) /\ Before(e, b))
  OBVIOUS
<1> HIDE DEF chain, n, Before
<1>4. PICK p \in 1 .. n, q \in 1 .. n : chain[p] = a /\ chain[q] = b
  BY <1>1
<1>5. p < q
  <2>1. p # q
    BY <1>2, <1>4
  <2>2. ~(q < p)
    BY <1>1, <1>2, <1>4
  <2> QED
    BY <1>1, <2>1, <2>2
<1>6. p + 1 \in 1 .. n /\ p \in 1 .. n - 1
  BY <1>1, <1>5
<1>7. p + 1 = q
  <2>1. ASSUME p + 1 < q PROVE FALSE
    <3>1. p < p + 1
      BY <1>1
    <3>2. chain[p + 1] \in S /\ Before(a, chain[p + 1]) /\ Before(chain[p + 1], b)
      BY <1>1, <1>4, <1>6, <2>1, <3>1
    <3> QED
      BY <1>3, <3>2
  <2> QED
    BY <1>1, <1>5, <2>1
<1>8. p \in Steps(chain)
  BY <1>1, <1>6 DEF Steps
<1> QED
  BY <1>4, <1>7, <1>8 DEF chain

LEMMA NoneBetween ==
    ASSUME NEW S, IsFiniteSet(S), NEW reverse \in BOOLEAN,
           \A e \in S : e.ts \in Nat /\ e.id \in Nat,
           \A a, b \in S : a.id = b.id => a = b,
           NEW i \in Steps(ByTime(S, reverse))
    PROVE  LET a == ByTime(S, reverse)[i]  b == ByTime(S, reverse)[i + 1] IN
           /\ a \in S /\ b \in S /\ Precedes(a, b, reverse)
           /\ \A e \in S : ~(Precedes(a, e, reverse) /\ Precedes(e, b, reverse))
<1> DEFINE chain == ByTime(S, reverse)
           n == Cardinality(S)
           Before(x, y) == Precedes(x, y, reverse)
<1>1. /\ n \in Nat /\ Len(chain) = n
      /\ \A k \in 1 .. n : chain[k] \in S
      /\ \A k, l \in 1 .. n : k < l => Before(chain[k], chain[l])
      /\ \A e \in S : \E k \in 1 .. n : chain[k] = e
  BY Ordered
<1>2. \A x, y \in S : Before(x, y) => ~Before(y, x)
  BY PrecedesOrders
<1>3. \A x \in S : ~Before(x, x)
  BY PrecedesOrders
<1>4. i \in 1 .. Len(chain) - 1
  BY DEF Steps
<1> HIDE DEF chain, n, Before
<1>5. i \in 1 .. n /\ i + 1 \in 1 .. n /\ i < i + 1
  BY <1>1, <1>4
<1>6. chain[i] \in S /\ chain[i + 1] \in S /\ Before(chain[i], chain[i + 1])
  BY <1>1, <1>5
<1>7. ASSUME NEW e \in S, Before(chain[i], e), Before(e, chain[i + 1]) PROVE FALSE
  <2>1. PICK k \in 1 .. n : chain[k] = e
    BY <1>1
  <2>2. k # i /\ k # i + 1
    BY <1>3, <1>7, <2>1
  <2>3. ~(k < i)
    BY <1>1, <1>2, <1>5, <1>6, <1>7, <2>1
  <2>4. ~(i + 1 < k)
    BY <1>1, <1>2, <1>5, <1>6, <1>7, <2>1
  <2> QED
    BY <1>1, <1>5, <2>2, <2>3, <2>4
<1> QED
  BY <1>6, <1>7 DEF chain, Before

-----------------------------------------------------------------------------
(* The rows, the chain and its gaps. *)

(* The last timestamp is that of a row. *)
LEMMA SomeRow ==
    ASSUME rows \in Seq(Row), rows # <<>>, \A i \in DOMAIN rows : rows[i].id = i
    PROVE  /\ LastTime \in Nat
           /\ \A i \in DOMAIN rows : rows[i] \in Row /\ rows[i].ts =< LastTime
           /\ \E i \in DOMAIN rows : rows[i].ts = LastTime
<1> DEFINE S == Elements(rows)
<1>1. \A i \in DOMAIN rows : rows[i] \in Row
  OBVIOUS
<1>2. 1 \in DOMAIN rows
  OBVIOUS
<1>3. IsFiniteSet(S) /\ S # {} /\ \A a, b \in S : a.id = b.id => a = b
  <2>1. \A i, j \in DOMAIN rows : rows[i].id = rows[j].id => i = j
    OBVIOUS
  <2>2. IsFiniteSet(S) /\ \A a, b \in S : a.id = b.id => a = b
    BY <2>1, ElementsOf
  <2> QED
    BY <1>2, <2>2 DEF Elements
<1>4. \A e \in S : e.ts \in Nat /\ e.id \in Nat
  BY <1>1 DEF Elements, Row
<1>5. PICK last \in S : \A e \in S : e.ts =< last.ts
  <2> HIDE DEF S
  <2> QED
    BY <1>3, <1>4, LastEvent
<1>6. Range(rows) = S
  BY DEF Range, Elements
<1>7. LastTime \in {e.ts : e \in S} /\ \A e \in S : e.ts =< LastTime
  <2> HIDE DEF S
  <2> QED
    BY <1>5, <1>6 DEF LastTime
<1> QED
  BY <1>1, <1>4, <1>7 DEF Elements

LEMMA Remainder ==
    ASSUME NEW c \in Nat, c > 0, NEW i \in Nat
    PROVE  i % c \in 0 .. c - 1
OBVIOUS

(* Rows that are numbered on from those there are. *)
LEMMA Appended ==
    ASSUME rows \in Seq(Row), NEW new \in Seq(Row),
           \A i \in DOMAIN rows : rows[i].id = i,
           \A i \in DOMAIN new : new[i].id = Len(rows) + i
    PROVE  /\ rows \o new \in Seq(Row)
           /\ \A i \in DOMAIN (rows \o new) : (rows \o new)[i].id = i
           /\ Len(rows) =< Len(rows \o new)
           /\ \A i \in DOMAIN rows : (rows \o new)[i] = rows[i]
<1> DEFINE R == Row
<1>1. rows \in Seq(R) /\ new \in Seq(R)
  OBVIOUS
<1> HIDE DEF R
<1>2. /\ rows \o new \in Seq(R) /\ Len(rows) \in Nat /\ Len(new) \in Nat
      /\ Len(rows \o new) = Len(rows) + Len(new)
      /\ DOMAIN (rows \o new) = 1 .. Len(rows) + Len(new)
      /\ DOMAIN rows = 1 .. Len(rows) /\ DOMAIN new = 1 .. Len(new)
  BY <1>1
<1>3. \A i \in 1 .. Len(rows) + Len(new) :
         (rows \o new)[i] = IF i =< Len(rows) THEN rows[i] ELSE new[i - Len(rows)]
  BY <1>1
<1>4. ASSUME NEW i \in 1 .. Len(rows) + Len(new) PROVE (rows \o new)[i].id = i
  <2>1. CASE i =< Len(rows)
    BY <1>2, <1>3, <2>1
  <2>2. CASE ~(i =< Len(rows))
    <3>1. i - Len(rows) \in DOMAIN new
      BY <1>2, <2>2
    <3>2. new[i - Len(rows)].id = Len(rows) + (i - Len(rows))
      BY <3>1
    <3> QED
      BY <1>2, <1>3, <2>2, <3>2
  <2> QED
    BY <2>1, <2>2
<1>5. \A i \in DOMAIN rows : (rows \o new)[i] = rows[i]
  BY <1>2, <1>3
<1>6. rows \o new \in Seq(Row)
  BY <1>2 DEF R
<1> QED
  BY <1>2, <1>4, <1>5, <1>6

LEMMA NewRows ==
    ASSUME rows \in Seq(Row), NEW k \in Nat, NEW from \in User, NEW to \in User, NEW ts \in Nat,
           NEW kind \in Kind
    PROVE  /\ NewRow(k, from, to, ts, kind) \in Row
           /\ NewRow(k, from, to, ts, kind).id = Len(rows) + k
           /\ NewRow(k, from, to, ts, kind).from = from /\ NewRow(k, from, to, ts, kind).to = to
           /\ NewRow(k, from, to, ts, kind).ts = ts /\ NewRow(k, from, to, ts, kind).kind = kind
<1>1. Len(rows) \in Nat
  OBVIOUS
<1> QED
  BY <1>1 DEF NewRow, Row

LEMMA Copies ==
    ASSUME NEW r \in Row
    PROVE  FirstCopy(r) \in Event /\ SecondCopy(r) \in Event
BY DEF FirstCopy, SecondCopy, Copy, Row, Event

-----------------------------------------------------------------------------
(* Once there are events, there are all of them, and the second giver is   *)
(* the first recipient: the users take turns, and rows are only appended.  *)
ChainInv ==
    IF pc = "custody" THEN rows = <<>>
    ELSE /\ rows # <<>>
         /\ Events > 1 => Len(rows) > 1 /\ rows[2].from = rows[1].to

SimInv == TypeOK /\ ChainInv

(* Numbers of which each is at least the one before are sorted. *)
LEMMA Sorted ==
    ASSUME NEW n \in Nat, NEW f \in [1 .. n -> Nat], \A i \in 1 .. n - 1 : f[i] =< f[i + 1]
    PROVE  \A i, j \in 1 .. n : i =< j => f[i] =< f[j]
<1> SUFFICES ASSUME NEW i \in 1 .. n, NEW l \in 1 .. n, i =< l, ~(f[i] =< f[l]) PROVE FALSE
  OBVIOUS
<1> DEFINE Lower == {j \in i .. n : ~(f[i] =< f[j])}
<1>1. Lower \in SUBSET Nat /\ l \in Lower
  OBVIOUS
<1>2. PICK m \in Lower : \A j \in Lower : m =< j
  <2> HIDE DEF Lower
  <2> QED
    BY <1>1, Least
<1>3. m \in i .. n /\ ~(f[i] =< f[m]) /\ f[i] \in Nat /\ f[m] \in Nat
  OBVIOUS
<1>4. m # i
  BY <1>3
<1>5. m - 1 \in i .. n /\ m - 1 \in 1 .. n - 1
  BY <1>3, <1>4
<1>6. m - 1 \notin Lower
  BY <1>2, <1>3
<1>7. f[i] =< f[m - 1] /\ f[m - 1] \in Nat
  BY <1>5, <1>6
<1>8. f[m - 1] =< f[m]
  <2>1. f[m - 1] =< f[(m - 1) + 1] /\ (m - 1) + 1 = m
    BY <1>5
  <2> QED
    BY <2>1
<1> QED
  BY <1>3, <1>7, <1>8

(* The chain that is created: sorted, and handed from user to user.        *)
LEMMA CustodyRows ==
    ASSUME SimInv, CreateCustodyEvents
    PROVE  /\ rows' \in Seq(Row) /\ DOMAIN rows' = 1 .. Events /\ Len(rows') = Events
           /\ \A i \in 1 .. Events : rows'[i].id = i /\ rows'[i].kind = "custody"
           /\ \A i, j \in 1 .. Events : i =< j => rows'[i].ts =< rows'[j].ts
           /\ \A i \in 1 .. Events - 1 : rows'[i].to = rows'[i + 1].from
<1>1. PICK pool \in [1 .. Actors -> User], time \in [1 .. Events -> 1 .. MaxTime] :
         /\ \A i \in 1 .. Events - 1 : time[i] =< time[i + 1]
         /\ rows' = [i \in 1 .. Events |->
                    NewRow(i, pool[((i - 1) % Actors) + 1], pool[(i % Actors) + 1], time[i],
                           "custody")]
  BY DEF CreateCustodyEvents
<1>2. Actors \in Nat /\ Actors > 0 /\ Events \in Nat /\ Events # 0 /\ MaxTime \in Nat
  BY SimulatedAssumption, FS_CardinalityType
<1> DEFINE Actor(i) == pool[(i % Actors) + 1]
<1>3. \A i \in Nat : Actor(i) \in User
  <2>1. ASSUME NEW i \in Nat PROVE Actor(i) \in User
    <3>1. i % Actors \in 0 .. Actors - 1
      BY <1>2, Remainder
    <3>2. (i % Actors) + 1 \in 1 .. Actors
      BY <1>2, <3>1
    <3> QED
      BY <3>2
  <2> QED
    BY <2>1
<1>4. rows' = [i \in 1 .. Events |-> NewRow(i, Actor(i - 1), Actor(i), time[i], "custody")]
  BY <1>1
<1>5. rows \in Seq(Row) /\ rows = <<>> /\ Len(rows) = 0
  BY DEF SimInv, TypeOK, ChainInv, CreateCustodyEvents
<1> HIDE DEF Actor
<1>6. ASSUME NEW i \in 1 .. Events
      PROVE  /\ rows'[i] \in Row /\ rows'[i].id = i
             /\ rows'[i].from = Actor(i - 1) /\ rows'[i].to = Actor(i)
             /\ rows'[i].ts = time[i] /\ rows'[i].kind = "custody"
  <2>1. i \in Nat /\ i - 1 \in Nat /\ time[i] \in Nat /\ "custody" \in Kind
    BY <1>2 DEF Kind
  <2>2. Actor(i - 1) \in User /\ Actor(i) \in User
    BY <1>3, <2>1
  <2>3. rows'[i] = NewRow(i, Actor(i - 1), Actor(i), time[i], "custody")
    BY <1>4
  <2> QED
    BY <1>5, <2>1, <2>2, <2>3, NewRows
<1>7. rows' \in Seq(Row) /\ DOMAIN rows' = 1 .. Events /\ Len(rows') = Events
  <2> DEFINE R == Row
  <2>1. rows' \in [1 .. Events -> R]
    BY <1>4, <1>6
  <2> HIDE DEF R
  <2>2. rows' \in Seq(R) /\ DOMAIN rows' = 1 .. Events /\ Len(rows') = Events
    BY <1>2, <2>1
  <2> QED
    BY <2>2 DEF R
<1>8. \A i, j \in 1 .. Events : i =< j => rows'[i].ts =< rows'[j].ts
  <2>1. time \in [1 .. Events -> Nat] /\ Events \in Nat
    BY <1>2
  <2>2. \A i, j \in 1 .. Events : i =< j => time[i] =< time[j]
    BY <1>1, <2>1, Sorted
  <2> QED
    BY <1>6, <2>2
<1>9. ASSUME NEW i \in 1 .. Events - 1 PROVE rows'[i].to = rows'[i + 1].from
  <2>1. i \in 1 .. Events /\ i + 1 \in 1 .. Events /\ (i + 1) - 1 = i
    BY <1>2
  <2>2. rows'[i].to = Actor(i) /\ rows'[i + 1].from = Actor((i + 1) - 1)
    BY <1>6, <2>1
  <2> QED
    BY <2>1, <2>2
<1> QED
  BY <1>6, <1>7, <1>8, <1>9

LEMMA CustodyCreated == SimInv /\ CreateCustodyEvents => SimInv'
<1> SUFFICES ASSUME SimInv, CreateCustodyEvents PROVE SimInv'
  OBVIOUS
<1>1. Events \in Nat /\ Events # 0
  BY SimulatedAssumption
<1>2. /\ rows' \in Seq(Row) /\ DOMAIN rows' = 1 .. Events /\ Len(rows') = Events
      /\ \A i \in 1 .. Events : rows'[i].id = i
      /\ \A i \in 1 .. Events - 1 : rows'[i].to = rows'[i + 1].from
  BY CustodyRows
<1>3. Events > 1 => rows'[2].from = rows'[1].to
  <2>1. Events > 1 => 1 \in 1 .. Events - 1 /\ 1 + 1 = 2
    BY <1>1
  <2> QED
    BY <1>2, <2>1
<1>4. ChainInv'
  <2>1. rows' # <<>> /\ (Events > 1 => Len(rows') > 1)
    BY <1>1, <1>2
  <2>2. pc' = "sync"
    BY DEF CreateCustodyEvents
  <2> QED
    BY <1>3, <2>1, <2>2 DEF ChainInv
<1>5. TypeOK'
  BY <1>2 DEF SimInv, TypeOK, CreateCustodyEvents
<1> QED
  BY <1>4, <1>5 DEF SimInv

(* An injection whose rows are numbered on keeps the chain. *)
LEMMA Injected ==
    ASSUME SimInv, pc # "custody", NEW new \in Seq(Row), NEW next,
           next \in {"copyGap", "copyCycle", "copyInsider"}, Inject(new, next),
           \A i \in DOMAIN new : new[i].id = Len(rows) + i,
           broken' \in BOOLEAN, cyclic' \in BOOLEAN
    PROVE  SimInv'
<1>1. rows \in Seq(Row) /\ \A i \in DOMAIN rows : rows[i].id = i
  BY DEF SimInv, TypeOK
<1>2. rows' = rows \o new /\ pending' = new /\ pc' = next /\ UNCHANGED <<graph, failures>>
  BY DEF Inject
<1>3. /\ rows' \in Seq(Row) /\ \A i \in DOMAIN rows' : rows'[i].id = i
      /\ Len(rows) =< Len(rows') /\ \A i \in DOMAIN rows : rows'[i] = rows[i]
  BY <1>1, <1>2, Appended
<1>4. TypeOK'
  BY <1>2, <1>3 DEF SimInv, TypeOK
<1>5. rows # <<>> /\ (Events > 1 => Len(rows) > 1 /\ rows[2].from = rows[1].to)
  BY DEF SimInv, ChainInv
<1>6. /\ Len(rows) \in Nat /\ Len(rows) # 0 /\ DOMAIN rows = 1 .. Len(rows) /\ Len(rows') \in Nat
  BY <1>1, <1>3, <1>5
<1>7. rows' # <<>> /\ (Events > 1 => Len(rows') > 1)
  BY <1>3, <1>5, <1>6
<1>8. Events > 1 => rows'[2].from = rows'[1].to
  BY <1>3, <1>5, <1>6
<1>9. pc' # "custody"
  BY <1>2
<1> QED
  BY <1>4, <1>7, <1>8, <1>9 DEF SimInv, ChainInv

LEMMA GapInjected == SimInv /\ InjectBrokenChain => SimInv'
<1> SUFFICES ASSUME SimInv, InjectBrokenChain PROVE SimInv'
  OBVIOUS
<1>1. pc = "break" /\ rows \in Seq(Row) /\ rows # <<>>
     /\ \A i \in DOMAIN rows : rows[i].id = i
  BY DEF InjectBrokenChain, SimInv, TypeOK, ChainInv
<1>2. PICK from \in User, to \in User, d \in 1 .. MaxDelay :
         /\ Inject(<<NewRow(1, from, to, LastTime + d, "gap")>>, "copyGap")
         /\ broken' = TRUE /\ cyclic' = cyclic
  BY DEF InjectBrokenChain
<1> DEFINE r == NewRow(1, from, to, LastTime + d, "gap")
<1>3. r \in Row /\ r.id = Len(rows) + 1
  <2>1. LastTime + d \in Nat
    BY <1>1, SomeRow, SimulatedAssumption
  <2>2. "gap" \in Kind /\ 1 \in Nat /\ 2 \in Nat /\ 3 \in Nat
    BY DEF Kind
  <2> QED
    BY <1>1, <1>2, <2>1, <2>2, NewRows
<1>4. Inject(<<r>>, "copyGap")
  BY <1>2
<1> HIDE DEF r
<1>5. <<r>> \in Seq(Row) /\ \A i \in DOMAIN <<r>> : <<r>>[i].id = Len(rows) + i
  BY <1>3
<1>6. broken' \in BOOLEAN /\ cyclic' \in BOOLEAN
  BY <1>2 DEF SimInv, TypeOK
<1> QED
  BY <1>1, <1>4, <1>5, <1>6, Injected

LEMMA CycleInjected == SimInv /\ InjectCycle => SimInv'
<1> SUFFICES ASSUME SimInv, InjectCycle PROVE SimInv'
  OBVIOUS
<1>1. pc = "cycle" /\ rows \in Seq(Row) /\ rows # <<>>
     /\ \A i \in DOMAIN rows : rows[i].id = i
  BY DEF InjectCycle, SimInv, TypeOK, ChainInv
<1>2. PICK a \in User, b \in User :
         Inject(CycleRows(a, b), "copyCycle") /\ cyclic' = TRUE /\ broken' = broken
  BY DEF InjectCycle
<1> DEFINE r1 == NewRow(1, a, b, LastTime + 1, "cycle")
           r2 == NewRow(2, b, a, LastTime + 2, "cycle")
           r3 == NewRow(3, a, b, LastTime + 3, "cycle")
<1>3. /\ r1 \in Row /\ r1.id = Len(rows) + 1
      /\ r2 \in Row /\ r2.id = Len(rows) + 2
      /\ r3 \in Row /\ r3.id = Len(rows) + 3
  <2>1. LastTime + 1 \in Nat /\ LastTime + 2 \in Nat /\ LastTime + 3 \in Nat
    BY <1>1, SomeRow
  <2>2. "cycle" \in Kind /\ 1 \in Nat /\ 2 \in Nat /\ 3 \in Nat
    BY DEF Kind
  <2>3. r1 \in Row /\ r1.id = Len(rows) + 1
    <3> DEFINE t == LastTime + 1
    <3>1. t \in Nat
      BY <2>1
    <3> HIDE DEF t
    <3>2. NewRow(1, a, b, t, "cycle") \in Row /\ NewRow(1, a, b, t, "cycle").id = Len(rows) + 1
      BY <1>1, <2>2, <3>1, NewRows
    <3> QED
      BY <3>2 DEF t
  <2>4. r2 \in Row /\ r2.id = Len(rows) + 2
    <3> DEFINE t == LastTime + 2
    <3>1. t \in Nat
      BY <2>1
    <3> HIDE DEF t
    <3>2. NewRow(2, b, a, t, "cycle") \in Row /\ NewRow(2, b, a, t, "cycle").id = Len(rows) + 2
      BY <1>1, <2>2, <3>1, NewRows
    <3> QED
      BY <3>2 DEF t
  <2>5. r3 \in Row /\ r3.id = Len(rows) + 3
    <3> DEFINE t == LastTime + 3
    <3>1. t \in Nat
      BY <2>1
    <3> HIDE DEF t
    <3>2. NewRow(3, a, b, t, "cycle") \in Row /\ NewRow(3, a, b, t, "cycle").id = Len(rows) + 3
      BY <1>1, <2>2, <3>1, NewRows
    <3> QED
      BY <3>2 DEF t
  <2> QED
    BY <2>3, <2>4, <2>5
<1>4. CycleRows(a, b) = <<r1, r2, r3>>
  BY DEF CycleRows
<1> HIDE DEF r1, r2, r3
<1>5. /\ <<r1, r2, r3>> \in Seq(Row)
      /\ \A i \in DOMAIN <<r1, r2, r3>> : <<r1, r2, r3>>[i].id = Len(rows) + i
  BY <1>3
<1>6. broken' \in BOOLEAN /\ cyclic' \in BOOLEAN
  BY <1>2 DEF SimInv, TypeOK
<1> QED
  BY <1>1, <1>2, <1>4, <1>5, <1>6, Injected

LEMMA InsiderInjected == SimInv /\ InjectInsider => SimInv'
<1> SUFFICES ASSUME SimInv, InjectInsider PROVE SimInv'
  OBVIOUS
<1>1. pc = "insider" /\ rows \in Seq(Row)
  BY DEF InjectInsider, SimInv, TypeOK
<1>2. PICK u \in User, to \in User, t \in 1 .. MaxTime + MaxDelay :
         Inject(<<NewRow(1, u, to, t, "insider")>>, "copyInsider") /\ UNCHANGED <<broken, cyclic>>
  BY DEF InjectInsider
<1> DEFINE r == NewRow(1, u, to, t, "insider")
<1>3. r \in Row /\ r.id = Len(rows) + 1
  <2>1. t \in Nat
    BY SimulatedAssumption
  <2>2. "insider" \in Kind /\ 1 \in Nat /\ 2 \in Nat /\ 3 \in Nat
    BY DEF Kind
  <2> QED
    BY <1>1, <1>2, <2>1, <2>2, NewRows
<1>4. Inject(<<r>>, "copyInsider")
  BY <1>2
<1> HIDE DEF r
<1>5. <<r>> \in Seq(Row) /\ \A i \in DOMAIN <<r>> : <<r>>[i].id = Len(rows) + i
  BY <1>3
<1>6. broken' \in BOOLEAN /\ cyclic' \in BOOLEAN
  BY <1>2 DEF SimInv, TypeOK
<1> QED
  BY <1>1, <1>4, <1>5, <1>6, Injected

(* The copies. *)
LEMMA FirstCopies ==
    ASSUME rows \in Seq(Row), NEW k \in Nat, k =< Len(rows)
    PROVE  [i \in 1 .. k |-> FirstCopy(rows[i])] \in Seq(Event)
<1> DEFINE E == Event
           f == [i \in 1 .. k |-> FirstCopy(rows[i])]
<1>1. \A i \in 1 .. k : rows[i] \in Row
  OBVIOUS
<1>2. \A i \in 1 .. k : FirstCopy(rows[i]) \in E
  BY <1>1, Copies
<1> HIDE DEF E
<1>3. f \in Seq(E)
  BY <1>2
<1> QED
  BY <1>3 DEF E

LEMMA SecondCopies ==
    ASSUME pending \in Seq(Row), graph.events \in Seq(Event), NEW n \in Nat, n =< Len(pending)
    PROVE  MirrorRows(n) \in Seq(Event)
<1> DEFINE E == Event
           f == [i \in 1 .. n |-> SecondCopy(pending[i])]
<1>1. \A i \in 1 .. n : pending[i] \in Row
  OBVIOUS
<1>2. \A i \in 1 .. n : SecondCopy(pending[i]) \in E
  BY <1>1, Copies
<1>3. MirrorRows(n) = graph.events \o (IF graph.node THEN f ELSE <<>>)
  BY DEF MirrorRows
<1>4. graph.events \in Seq(E)
  OBVIOUS
<1> HIDE DEF E
<1>5. f \in Seq(E)
  BY <1>2
<1> HIDE DEF f
<1>6. MirrorRows(n) \in Seq(E)
  BY <1>3, <1>4, <1>5
<1> QED
  BY <1>6 DEF E

Graph == [node: BOOLEAN, linked: BOOLEAN, events: Seq(Event)]

LEMMA FirstSynced == SimInv /\ SyncNeo4j => SimInv'
<1> SUFFICES ASSUME SimInv, SyncNeo4j PROVE SimInv'
  OBVIOUS
<1>1. rows \in Seq(Row) /\ graph \in Graph /\ failures \in 0 .. MaxFailures /\ MaxFailures \in Nat
  BY SimulatedAssumption DEF SimInv, TypeOK, Graph
<1>2. ASSUME NEW k \in Nat, k =< Len(rows),
             graph' = [graph EXCEPT !.node = TRUE, !.events = [i \in 1 .. k |-> FirstCopy(rows[i])]]
      PROVE  graph' \in Graph
  BY <1>1, <1>2, FirstCopies DEF Graph
<1>3. Len(rows) \in Nat /\ DOMAIN rows = 1 .. Len(rows)
  BY <1>1
<1>4. ASSUME graph' \in Graph, failures' \in 0 .. MaxFailures PROVE SimInv'
  <2>1. TypeOK'
    BY <1>4 DEF SimInv, TypeOK, SyncNeo4j, Graph
  <2> QED
    BY <2>1 DEF SimInv, ChainInv, SyncNeo4j
<1>5. CASE /\ graph' = [graph EXCEPT !.node = TRUE,
                                       !.events = [i \in DOMAIN rows |-> FirstCopy(rows[i])]]
           /\ failures' = failures
  <2>1. graph' = [graph EXCEPT !.node = TRUE,
                               !.events = [i \in 1 .. Len(rows) |-> FirstCopy(rows[i])]]
    BY <1>3, <1>5
  <2> QED
    <3> DEFINE n == Len(rows)
    <3>1. graph' \in Graph
      <4>1. n \in Nat /\ n =< Len(rows)
        BY <1>3
      <4>2. graph' = [graph EXCEPT !.node = TRUE, !.events = [i \in 1 .. n |-> FirstCopy(rows[i])]]
        BY <2>1
      <4> HIDE DEF n
      <4> QED
        BY <1>2, <4>1, <4>2
    <3>2. failures' \in 0 .. MaxFailures
      BY <1>1, <1>5
    <3> QED
      BY <1>4, <3>1, <3>2
<1>6. CASE /\ failures < MaxFailures /\ failures' = failures + 1
           /\ \/ UNCHANGED graph
              \/ \E k \in 0 .. Len(rows) - 1 :
                    graph' = [graph EXCEPT !.node = TRUE,
                                           !.events = [i \in 1 .. k |-> FirstCopy(rows[i])]]
  <2>1. failures < MaxFailures /\ failures' = failures + 1
    BY <1>6
  <2>2. failures' \in 0 .. MaxFailures
    BY <1>1, <2>1
  <2>3. ASSUME NEW k \in 0 .. Len(rows) - 1,
               graph' = [graph EXCEPT !.node = TRUE,
                                      !.events = [i \in 1 .. k |-> FirstCopy(rows[i])]]
        PROVE  graph' \in Graph
    <3>1. k \in Nat /\ k =< Len(rows)
      BY <1>3
    <3> QED
      BY <1>2, <2>3, <3>1
  <2>4. graph' \in Graph
    BY <1>1, <1>6, <2>3
  <2> QED
    BY <1>4, <2>2, <2>4
<1> QED
  BY <1>5, <1>6 DEF SyncNeo4j

LEMMA InjectionSynced == SimInv /\ Neo4jSyncCocRows => SimInv'
<1> SUFFICES ASSUME SimInv, Neo4jSyncCocRows PROVE SimInv'
  OBVIOUS
<1>1. /\ pending \in Seq(Row) /\ graph \in Graph /\ graph.events \in Seq(Event)
      /\ failures \in 0 .. MaxFailures /\ MaxFailures \in Nat
  BY SimulatedAssumption DEF SimInv, TypeOK, Graph
<1>2. ASSUME NEW n \in Nat, n =< Len(pending), graph' = [graph EXCEPT !.events = MirrorRows(n)]
      PROVE  graph' \in Graph
  BY <1>1, <1>2, SecondCopies DEF Graph
<1>3. Len(pending) \in Nat
  BY <1>1
<1>4. graph' \in Graph
  BY <1>2, <1>3 DEF Neo4jSyncCocRows
<1>5. failures' \in 0 .. MaxFailures
  BY <1>1 DEF Neo4jSyncCocRows
<1>6. pending' \in Seq(Row)
  BY DEF Neo4jSyncCocRows
<1>7. pc \in {"copyGap", "copyCycle", "copyInsider"} /\ pc' \in {"cycle", "insider", "over"}
  BY DEF Neo4jSyncCocRows
<1>8. TypeOK'
  BY <1>4, <1>5, <1>6, <1>7 DEF SimInv, TypeOK, Neo4jSyncCocRows, Graph
<1> QED
  BY <1>7, <1>8 DEF SimInv, ChainInv, Neo4jSyncCocRows

LEMMA SimulationInductive == SimInv /\ [Next]_vars => SimInv'
<1> SUFFICES ASSUME SimInv, [Next]_vars PROVE SimInv'
  OBVIOUS
<1>1. CASE NotDrawn
  <2>1. pc # "custody" /\ pc' \in {"cycle", "insider", "over"}
    BY <1>1 DEF NotDrawn
  <2> QED
    BY <1>1, <2>1 DEF NotDrawn, SimInv, TypeOK, ChainInv
<1>2. CASE UNCHANGED vars
  BY <1>2 DEF vars, SimInv, TypeOK, ChainInv
<1> QED
  BY <1>1, <1>2, CustodyCreated, GapInjected, CycleInjected, InsiderInjected, FirstSynced,
     InjectionSynced
     DEF Next

LEMMA SimulationHolds == Spec => []SimInv
<1>1. ASSUME Init PROVE SimInv
  <2>1. failures \in 0 .. MaxFailures /\ rows = <<>> /\ pending = <<>>
    BY <1>1, SimulatedAssumption DEF Init
  <2>2. graph \in Graph
    BY <1>1 DEF Init, Graph
  <2>3. rows \in Seq(Row) /\ pending \in Seq(Row) /\ DOMAIN rows = {}
    <3> DEFINE R == Row
    <3> HIDE DEF R
    <3>1. rows \in Seq(R) /\ pending \in Seq(R) /\ DOMAIN rows = {}
      BY <2>1
    <3> QED
      BY <3>1 DEF R
  <2>4. TypeOK
    BY <1>1, <2>1, <2>2, <2>3 DEF Init, TypeOK, Graph
  <2> QED
    BY <1>1, <2>1, <2>4 DEF Init, SimInv, ChainInv
<1> QED
  BY <1>1, SimulationInductive, PTL DEF Spec

(* Every variable keeps its type, and the rows are numbered in the order   *)
(* in which they were committed.                                           *)
THEOREM TypeCorrect == Spec => []TypeOK
<1>1. SimInv => TypeOK
  BY DEF SimInv
<1> QED
  BY <1>1, SimulationHolds, PTL

(* The self join of cyber_experiments.py, meant to find cycles, returns    *)
(* every simulated item of two events or more, with a cycle or without,    *)
(* whatever is injected and however many users there are.                  *)
THEOREM SelfJoinCorrect == Spec => []SelfJoinReturnsEverything
<1>1. SimInv => SelfJoinReturnsEverything
  <2> SUFFICES ASSUME SimInv, rows # <<>>, Events > 1 PROVE SelfJoin(rows)
    BY DEF SelfJoinReturnsEverything
  <2>1. rows \in Seq(Row) /\ Len(rows) > 1 /\ rows[2].from = rows[1].to
    BY DEF SimInv, TypeOK, ChainInv
  <2>2. 1 \in DOMAIN rows /\ 2 \in DOMAIN rows
    BY <2>1
  <2> QED
    BY <2>1, <2>2 DEF SelfJoin
<1> QED
  BY <1>1, SimulationHolds, PTL

-----------------------------------------------------------------------------
(* The rows: the chain, then the row of the gap, the three of the cycle    *)
(* and that of the insider, as far as they were drawn.                     *)
BeforeGap   == {"custody", "sync", "break"}
BeforeCycle == BeforeGap \cup {"copyGap", "cycle"}
Copying     == {"copyGap", "copyCycle", "copyInsider"}

CycleAt(c) ==
    /\ c \in DOMAIN rows /\ c + 2 \in DOMAIN rows
    /\ \A i \in DOMAIN rows : rows[i].kind = "cycle" <=> i \in {c, c + 1, c + 2}
    /\ rows[c].from = rows[c + 1].to /\ rows[c + 1].from = rows[c].to
    /\ rows[c + 2].from = rows[c].from /\ rows[c + 2].to = rows[c].to

CustodyOK ==
    /\ pc # "custody" => Events =< Len(rows)
    /\ \A i \in DOMAIN rows : rows[i].kind = "custody" <=> i =< Events
    /\ \A i, j \in 1 .. Events : i =< j /\ j \in DOMAIN rows => rows[i].ts =< rows[j].ts
    /\ \A i \in 1 .. Events - 1 : i + 1 \in DOMAIN rows => rows[i].to = rows[i + 1].from

GapOK ==
    /\ \A i \in DOMAIN rows : rows[i].kind = "gap" => i = Events + 1 /\ broken
    /\ broken => /\ Events + 1 \in DOMAIN rows /\ rows[Events + 1].kind = "gap"
                 /\ rows[Events].ts < rows[Events + 1].ts
                 /\ \E j \in 1 .. Events : /\ rows[j].ts = rows[Events].ts
                                           /\ rows[Events + 1].from # rows[j].to

CycleOK ==
    /\ \A i \in DOMAIN rows : rows[i].kind = "cycle" => cyclic
    /\ \A i, j \in DOMAIN rows :
          rows[i].kind = "cycle" /\ rows[j].kind \in {"custody", "gap"} => rows[j].ts < rows[i].ts
    /\ cyclic => \E c \in DOMAIN rows : CycleAt(c)

StageOK ==
    /\ pc \in BeforeGap => ~broken /\ Len(rows) =< Events
    /\ pc \in BeforeCycle => ~cyclic
    /\ pc \notin {"copyInsider", "over"} => \A i \in DOMAIN rows : rows[i].kind # "insider"

RowsInv == CustodyOK /\ GapOK /\ CycleOK /\ StageOK

(* After an injection: the old rows, then the new ones.                    *)
LEMMA Grown ==
    ASSUME SimInv, pc # "custody", NEW new \in Seq(Row), rows' = rows \o new
    PROVE  /\ Len(rows) \in Nat /\ Len(new) \in Nat /\ Len(rows') = Len(rows) + Len(new)
           /\ DOMAIN rows = 1 .. Len(rows) /\ DOMAIN rows' = 1 .. Len(rows) + Len(new)
           /\ \A i \in 1 .. Len(rows) : rows'[i] = rows[i]
           /\ \A i \in 1 .. Len(new) : rows'[Len(rows) + i] = new[i]
<1> DEFINE R == Row
<1>1. rows \in Seq(R) /\ new \in Seq(R)
  BY DEF SimInv, TypeOK
<1> HIDE DEF R
<1>2. /\ Len(rows) \in Nat /\ Len(new) \in Nat /\ Len(rows \o new) = Len(rows) + Len(new)
      /\ DOMAIN rows = 1 .. Len(rows) /\ DOMAIN (rows \o new) = 1 .. Len(rows) + Len(new)
  BY <1>1
<1>3. \A i \in 1 .. Len(rows) + Len(new) :
         (rows \o new)[i] = IF i =< Len(rows) THEN rows[i] ELSE new[i - Len(rows)]
  BY <1>1
<1>4. \A i \in 1 .. Len(rows) : (rows \o new)[i] = rows[i]
  BY <1>2, <1>3
<1>5. ASSUME NEW i \in 1 .. Len(new) PROVE (rows \o new)[Len(rows) + i] = new[i]
  <2>1. /\ Len(rows) + i \in 1 .. Len(rows) + Len(new)
        /\ ~(Len(rows) + i =< Len(rows)) /\ (Len(rows) + i) - Len(rows) = i
    BY <1>2
  <2> QED
    BY <1>3, <2>1
<1> QED
  BY <1>2, <1>4, <1>5

(* The chain itself is as it was.                                          *)
LEMMA CustodyKept ==
    ASSUME SimInv, RowsInv, pc # "custody", NEW new \in Seq(Row), rows' = rows \o new,
           \A i \in DOMAIN new : new[i].kind # "custody"
    PROVE  CustodyOK'
<1>1. /\ Len(rows) \in Nat /\ Len(new) \in Nat /\ Len(rows') = Len(rows) + Len(new)
      /\ DOMAIN rows = 1 .. Len(rows) /\ DOMAIN rows' = 1 .. Len(rows) + Len(new)
      /\ \A i \in 1 .. Len(rows) : rows'[i] = rows[i]
      /\ \A i \in 1 .. Len(new) : rows'[Len(rows) + i] = new[i]
  BY Grown
<1>2. Events \in Nat /\ Events =< Len(rows) /\ DOMAIN new = 1 .. Len(new)
  BY SimulatedAssumption DEF RowsInv, CustodyOK
<1>3. ASSUME NEW i \in DOMAIN rows' PROVE rows'[i].kind = "custody" <=> i =< Events
  <2>1. CASE i =< Len(rows)
    BY <1>1, <2>1 DEF RowsInv, CustodyOK
  <2>2. CASE ~(i =< Len(rows))
    <3>1. i - Len(rows) \in DOMAIN new /\ Len(rows) + (i - Len(rows)) = i
      BY <1>1, <1>2, <2>2
    <3>2. rows'[i] = new[i - Len(rows)]
      BY <1>1, <1>2, <3>1
    <3> QED
      BY <1>1, <1>2, <2>2, <3>1, <3>2
  <2> QED
    BY <2>1, <2>2
<1>4. \A i \in 1 .. Events : i \in DOMAIN rows /\ rows'[i] = rows[i]
  BY <1>1, <1>2
<1>5. \A i, j \in 1 .. Events : i =< j /\ j \in DOMAIN rows' => rows'[i].ts =< rows'[j].ts
  BY <1>4 DEF RowsInv, CustodyOK
<1>6. ASSUME NEW i \in 1 .. Events - 1 PROVE rows'[i].to = rows'[i + 1].from
  <2>1. i \in 1 .. Events /\ i + 1 \in 1 .. Events
    BY <1>2
  <2> QED
    BY <1>4, <2>1 DEF RowsInv, CustodyOK
<1>7. Events =< Len(rows')
  BY <1>1, <1>2
<1> QED
  BY <1>3, <1>5, <1>6, <1>7 DEF CustodyOK

LEMMA RowsCreated == SimInv /\ RowsInv /\ CreateCustodyEvents => RowsInv'
<1> SUFFICES ASSUME SimInv, RowsInv, CreateCustodyEvents PROVE RowsInv'
  OBVIOUS
<1>1. Events \in Nat /\ Events # 0
  BY SimulatedAssumption
<1>2. /\ DOMAIN rows' = 1 .. Events /\ Len(rows') = Events
      /\ \A i \in 1 .. Events : rows'[i].kind = "custody"
      /\ \A i, j \in 1 .. Events : i =< j => rows'[i].ts =< rows'[j].ts
      /\ \A i \in 1 .. Events - 1 : rows'[i].to = rows'[i + 1].from
  BY CustodyRows
<1>3. pc = "custody" /\ pc' = "sync" /\ UNCHANGED <<broken, cyclic>>
  BY DEF CreateCustodyEvents
<1>4. ~broken /\ ~cyclic
  BY <1>3 DEF RowsInv, StageOK, BeforeGap, BeforeCycle
<1>5. CustodyOK'
  BY <1>1, <1>2 DEF CustodyOK
<1>6. GapOK' /\ CycleOK' /\ StageOK'
  BY <1>1, <1>2, <1>3, <1>4 DEF GapOK, CycleOK, StageOK
<1> QED
  BY <1>5, <1>6 DEF RowsInv

LEMMA RowsWithGap == SimInv /\ RowsInv /\ InjectBrokenChain => RowsInv'
<1> SUFFICES ASSUME SimInv, RowsInv, InjectBrokenChain PROVE RowsInv'
  OBVIOUS
<1> DEFINE n == Len(rows)
<1>1. /\ pc = "break" /\ rows \in Seq(Row) /\ rows # <<>>
      /\ \A i \in DOMAIN rows : rows[i].id = i
  BY DEF InjectBrokenChain, SimInv, TypeOK, ChainInv
<1>2. PICK l \in DOMAIN rows, from \in User, to \in User, d \in 1 .. MaxDelay :
         /\ rows[l].ts = LastTime /\ from # rows[l].to
         /\ Inject(<<NewRow(1, from, to, LastTime + d, "gap")>>, "copyGap")
         /\ broken' = TRUE /\ cyclic' = cyclic
  BY DEF InjectBrokenChain
<1> DEFINE new == NewRow(1, from, to, LastTime + d, "gap")
<1>3. /\ LastTime \in Nat /\ \A i \in DOMAIN rows : rows[i] \in Row /\ rows[i].ts =< LastTime
  BY <1>1, SomeRow
<1>4. /\ new \in Row /\ new.kind = "gap" /\ new.from = from /\ new.ts = LastTime + d
      /\ LastTime < LastTime + d
  <2>1. LastTime + d \in Nat /\ LastTime < LastTime + d
    BY <1>3, SimulatedAssumption
  <2>2. "gap" \in Kind /\ 1 \in Nat
    BY DEF Kind
  <2>3. new \in Row
    BY <1>1, <2>1, <2>2, NewRows
  <2>4. new.kind = "gap" /\ new.from = from /\ new.ts = LastTime + d
    BY DEF NewRow
  <2> QED
    BY <2>1, <2>3, <2>4
<1>5. rows' = rows \o <<new>> /\ pc' = "copyGap" /\ broken' = TRUE /\ cyclic' = cyclic
  BY <1>2 DEF Inject
<1>6. from # rows[l].to /\ rows[l].ts = LastTime
  BY <1>2
<1> HIDE DEF new
<1>7. <<new>> \in Seq(Row) /\ Len(<<new>>) = 1 /\ DOMAIN <<new>> = {1} /\ <<new>>[1] = new
  BY <1>4
<1>8. /\ n \in Nat /\ DOMAIN rows = 1 .. n /\ DOMAIN rows' = 1 .. n + 1
      /\ \A i \in 1 .. n : rows'[i] = rows[i]
      /\ rows'[n + 1] = new
  <2>1. pc # "custody"
    BY <1>1
  <2> QED
    BY <1>5, <1>7, <2>1, Grown
<1>9. /\ n = Events /\ ~cyclic /\ \A i \in DOMAIN rows : rows[i].kind # "insider"
      /\ Events \in Nat /\ Events # 0
  <2>1. Events =< n /\ n =< Events
    BY <1>1 DEF RowsInv, CustodyOK, StageOK, BeforeGap
  <2>2. Events \in Nat /\ Events # 0
    BY SimulatedAssumption
  <2>3. n = Events
    <3> HIDE DEF n
    <3> QED
      BY <1>8, <2>1, <2>2
  <2>4. ~cyclic /\ \A i \in DOMAIN rows : rows[i].kind # "insider"
    BY <1>1 DEF RowsInv, StageOK, BeforeCycle, BeforeGap
  <2> QED
    BY <2>2, <2>3, <2>4
<1>10. CustodyOK'
  BY <1>1, <1>4, <1>5, <1>7, CustodyKept
<1>11. \A i \in DOMAIN rows : rows[i].kind = "custody"
  BY <1>8, <1>9 DEF RowsInv, CustodyOK
<1> HIDE DEF n
<1>12. rows[Events].ts = LastTime
  <2>1. l \in 1 .. Events /\ Events \in 1 .. Events /\ l =< Events /\ Events \in DOMAIN rows
    BY <1>8, <1>9
  <2>2. rows[l].ts =< rows[Events].ts /\ rows[Events].ts =< LastTime /\ rows[Events].ts \in Nat
    BY <1>3, <2>1 DEF RowsInv, CustodyOK, Row
  <2> QED
    BY <1>3, <1>6, <2>2
<1>13. GapOK'
  <2>1. \A i \in DOMAIN rows' : i = Events + 1 \/ rows'[i].kind = "custody"
    BY <1>8, <1>9, <1>11
  <2>2. /\ Events + 1 \in DOMAIN rows' /\ rows'[Events + 1] = new /\ Events \in 1 .. Events
        /\ rows'[Events] = rows[Events] /\ l \in 1 .. Events /\ rows'[l] = rows[l]
    BY <1>8, <1>9
  <2> QED
    BY <1>4, <1>5, <1>6, <1>12, <2>1, <2>2 DEF GapOK
<1>14. CycleOK' /\ StageOK'
  <2>1. \A i \in DOMAIN rows' : rows'[i].kind \in {"custody", "gap"}
    <3>1. \A i \in DOMAIN rows' : i = n + 1 \/ i \in DOMAIN rows
      BY <1>8
    <3> QED
      BY <1>4, <1>8, <1>11, <3>1
  <2> QED
    BY <1>5, <1>9, <2>1 DEF CycleOK, StageOK, BeforeGap, BeforeCycle
<1> QED
  BY <1>10, <1>13, <1>14 DEF RowsInv

(* A gap that is there stays.                                              *)
LEMMA GapKept ==
    ASSUME SimInv, RowsInv, pc # "custody", NEW new \in Seq(Row), rows' = rows \o new,
           broken' = broken, \A i \in DOMAIN new : new[i].kind # "gap"
    PROVE  GapOK'
<1>1. /\ Len(rows) \in Nat /\ Len(new) \in Nat /\ Len(rows') = Len(rows) + Len(new)
      /\ DOMAIN rows = 1 .. Len(rows) /\ DOMAIN rows' = 1 .. Len(rows) + Len(new)
      /\ \A i \in 1 .. Len(rows) : rows'[i] = rows[i]
      /\ \A i \in 1 .. Len(new) : rows'[Len(rows) + i] = new[i]
  BY Grown
<1>2. DOMAIN new = 1 .. Len(new) /\ Events \in Nat /\ Events # 0
  BY SimulatedAssumption
<1>3. ASSUME NEW i \in DOMAIN rows', rows'[i].kind = "gap" PROVE i = Events + 1 /\ broken'
  <2>1. CASE i =< Len(rows)
    BY <1>1, <1>3, <2>1 DEF RowsInv, GapOK
  <2>2. CASE ~(i =< Len(rows))
    <3>1. i - Len(rows) \in DOMAIN new /\ Len(rows) + (i - Len(rows)) = i
      BY <1>1, <1>2, <2>2
    <3> QED
      BY <1>1, <1>2, <1>3, <3>1
  <2> QED
    BY <2>1, <2>2
<1>4. ASSUME broken
      PROVE  /\ Events + 1 \in DOMAIN rows'
             /\ \A i \in 1 .. Events + 1 : rows'[i] = rows[i]
             /\ Events \in 1 .. Events + 1 /\ Events + 1 \in 1 .. Events + 1
             /\ \A j \in 1 .. Events : j \in 1 .. Events + 1
  <2>1. Events + 1 \in 1 .. Len(rows)
    BY <1>1, <1>4 DEF RowsInv, GapOK
  <2> QED
    BY <1>1, <1>2, <2>1
<1> QED
  BY <1>3, <1>4 DEF RowsInv, GapOK

LEMMA RowsWithCycle == SimInv /\ RowsInv /\ InjectCycle => RowsInv'
<1> SUFFICES ASSUME SimInv, RowsInv, InjectCycle PROVE RowsInv'
  OBVIOUS
<1> DEFINE n == Len(rows)
<1>1. /\ pc = "cycle" /\ rows \in Seq(Row) /\ rows # <<>>
      /\ \A i \in DOMAIN rows : rows[i].id = i
  BY DEF InjectCycle, SimInv, TypeOK, ChainInv
<1>2. PICK a \in User, b \in User :
         Inject(CycleRows(a, b), "copyCycle") /\ cyclic' = TRUE /\ broken' = broken
  BY DEF InjectCycle
<1> DEFINE r1 == NewRow(1, a, b, LastTime + 1, "cycle")
           r2 == NewRow(2, b, a, LastTime + 2, "cycle")
           r3 == NewRow(3, a, b, LastTime + 3, "cycle")
<1>3. /\ LastTime \in Nat /\ \A i \in DOMAIN rows : rows[i] \in Row /\ rows[i].ts =< LastTime
  BY <1>1, SomeRow
<1>4. /\ r1 \in Row /\ r1.kind = "cycle" /\ r1.from = a /\ r1.to = b /\ LastTime < r1.ts
      /\ r2 \in Row /\ r2.kind = "cycle" /\ r2.from = b /\ r2.to = a /\ LastTime < r2.ts
      /\ r3 \in Row /\ r3.kind = "cycle" /\ r3.from = a /\ r3.to = b /\ LastTime < r3.ts
  <2>1. "cycle" \in Kind
    BY DEF Kind
  <2>2. ASSUME NEW k \in 1 .. 3, NEW x \in User, NEW y \in User
        PROVE  LET r == NewRow(k, x, y, LastTime + k, "cycle") IN
               r \in Row /\ r.kind = "cycle" /\ r.from = x /\ r.to = y /\ LastTime < r.ts
    <3> DEFINE t == LastTime + k
    <3>1. t \in Nat /\ LastTime < t /\ k \in Nat
      BY <1>3
    <3> HIDE DEF t
    <3>2. LET r == NewRow(k, x, y, t, "cycle") IN
          r \in Row /\ r.kind = "cycle" /\ r.from = x /\ r.to = y /\ r.ts = t
      <4>1. NewRow(k, x, y, t, "cycle") \in Row
        BY <1>1, <2>1, <3>1, NewRows
      <4> QED
        BY <4>1 DEF NewRow
    <3> QED
      BY <3>1, <3>2 DEF t
  <2> QED
    BY <2>2
<1>5. rows' = rows \o <<r1, r2, r3>> /\ pc' = "copyCycle" /\ cyclic' = TRUE /\ broken' = broken
  BY <1>2 DEF Inject, CycleRows
<1> HIDE DEF r1, r2, r3
<1> DEFINE new == <<r1, r2, r3>>
<1>6. /\ new \in Seq(Row) /\ Len(new) = 3 /\ DOMAIN new = 1 .. 3
      /\ new[1] = r1 /\ new[2] = r2 /\ new[3] = r3
  BY <1>4
<1>7. \A i \in DOMAIN new : new[i].kind = "cycle" /\ LastTime < new[i].ts
  BY <1>4, <1>6
<1>8. rows' = rows \o new
  BY <1>5
<1> HIDE DEF new
<1>9. /\ n \in Nat /\ DOMAIN rows = 1 .. n /\ DOMAIN rows' = 1 .. n + 3
      /\ \A i \in 1 .. n : rows'[i] = rows[i]
      /\ \A i \in 1 .. 3 : rows'[n + i] = new[i]
  <2>1. pc # "custody"
    BY <1>1
  <2> QED
    BY <1>6, <1>8, <2>1, Grown
<1>10. /\ ~cyclic /\ \A i \in DOMAIN rows : rows[i].kind # "insider" /\ rows[i].kind # "cycle"
  BY <1>1 DEF RowsInv, StageOK, CycleOK, BeforeCycle
<1>11. CustodyOK' /\ GapOK'
  <2>1. pc # "custody" /\ \A i \in DOMAIN new : new[i].kind # "custody" /\ new[i].kind # "gap"
    BY <1>1, <1>7
  <2> QED
    BY <1>5, <1>6, <1>8, <2>1, CustodyKept, GapKept
<1> HIDE DEF n
<1>12. ASSUME NEW i \in DOMAIN rows'
       PROVE  \/ i \in 1 .. n /\ rows'[i] = rows[i] /\ rows[i].ts =< LastTime /\ rows[i].ts \in Nat
                 /\ rows'[i].kind \notin {"insider", "cycle"} /\ i \notin {n + 1, n + 2, n + 3}
              \/ i \in {n + 1, n + 2, n + 3} /\ rows'[i].kind = "cycle" /\ LastTime < rows'[i].ts
  <2>1. CASE i \in 1 .. n
    BY <1>3, <1>9, <1>10, <2>1 DEF Row
  <2>2. CASE i \notin 1 .. n
    <3>1. i - n \in 1 .. 3 /\ n + (i - n) = i /\ i \in {n + 1, n + 2, n + 3}
      BY <1>9, <2>2
    <3>2. rows'[i] = new[i - n]
      BY <1>9, <3>1
    <3> QED
      BY <1>6, <1>7, <3>1, <3>2
  <2> QED
    BY <2>1, <2>2
<1>13. PICK c \in Nat : c = n + 1
  BY <1>9
<1>14. c \in DOMAIN rows' /\ CycleAt(c)'
  <2>1. /\ c = n + 1 /\ c + 1 = n + 2 /\ c + 2 = n + 3
        /\ n + 1 \in DOMAIN rows' /\ n + 3 \in DOMAIN rows'
    BY <1>9, <1>13
  <2>2. rows'[n + 1] = r1 /\ rows'[n + 2] = r2 /\ rows'[n + 3] = r3
    BY <1>6, <1>9
  <2>3. ASSUME NEW i \in DOMAIN rows' PROVE rows'[i].kind = "cycle" <=> i \in {n + 1, n + 2, n + 3}
    BY <1>12
  <2> QED
    BY <1>4, <2>1, <2>2, <2>3 DEF CycleAt
<1>15. CycleOK'
  <2>1. ASSUME NEW i \in DOMAIN rows', NEW j \in DOMAIN rows', rows'[i].kind = "cycle",
               rows'[j].kind \in {"custody", "gap"}
        PROVE  rows'[j].ts < rows'[i].ts
    <3>1. LastTime < rows'[i].ts
      BY <1>12, <2>1
    <3>2. rows'[j].ts =< LastTime /\ rows'[j].ts \in Nat
      BY <1>12, <2>1
    <3>3. rows'[i].ts \in Nat
      <4>1. \A k \in DOMAIN new : new[k] \in Row
        BY <1>6
      <4>2. \A k \in DOMAIN new : new[k].ts \in Nat
        BY <4>1 DEF Row
      <4>3. i - n \in 1 .. 3 /\ n + (i - n) = i
        BY <1>9, <1>12, <2>1
      <4> QED
        BY <1>6, <1>9, <4>2, <4>3
    <3> QED
      BY <1>3, <3>1, <3>2, <3>3
  <2> QED
    BY <1>5, <1>14, <2>1 DEF CycleOK
<1>16. StageOK'
  BY <1>5, <1>12 DEF StageOK, BeforeGap, BeforeCycle
<1> QED
  BY <1>11, <1>15, <1>16 DEF RowsInv

LEMMA RowsWithInsider == SimInv /\ RowsInv /\ InjectInsider => RowsInv'
<1> SUFFICES ASSUME SimInv, RowsInv, InjectInsider PROVE RowsInv'
  OBVIOUS
<1> DEFINE n == Len(rows)
<1>1. pc = "insider" /\ rows \in Seq(Row)
  BY DEF InjectInsider, SimInv, TypeOK
<1>2. PICK u \in User, to \in User, t \in 1 .. MaxTime + MaxDelay :
         Inject(<<NewRow(1, u, to, t, "insider")>>, "copyInsider") /\ UNCHANGED <<broken, cyclic>>
  BY DEF InjectInsider
<1> DEFINE new == NewRow(1, u, to, t, "insider")
<1>3. new \in Row /\ new.kind = "insider"
  <2>1. t \in Nat
    BY SimulatedAssumption
  <2>2. "insider" \in Kind /\ 1 \in Nat
    BY DEF Kind
  <2>3. new \in Row
    BY <1>1, <2>1, <2>2, NewRows
  <2>4. new.kind = "insider"
    BY DEF NewRow
  <2> QED
    BY <2>3, <2>4
<1>4. rows' = rows \o <<new>> /\ pc' = "copyInsider" /\ broken' = broken /\ cyclic' = cyclic
  BY <1>2 DEF Inject
<1> HIDE DEF new
<1>5. /\ <<new>> \in Seq(Row) /\ Len(<<new>>) = 1
      /\ \A i \in DOMAIN <<new>> : <<new>>[i].kind = "insider"
  BY <1>3
<1>6. pc # "custody"
  BY <1>1
<1>7. /\ n \in Nat /\ DOMAIN rows = 1 .. n /\ DOMAIN rows' = 1 .. n + 1
      /\ \A i \in 1 .. n : rows'[i] = rows[i]
      /\ rows'[n + 1] = new
  BY <1>4, <1>5, <1>6, Grown
<1>8. CustodyOK' /\ GapOK'
  <2>1. \A i \in DOMAIN <<new>> : <<new>>[i].kind # "custody" /\ <<new>>[i].kind # "gap"
    BY <1>5
  <2> QED
    BY <1>4, <1>5, <1>6, <2>1, CustodyKept, GapKept
<1> HIDE DEF n
<1>9. ASSUME NEW i \in DOMAIN rows', rows'[i].kind # "insider"
      PROVE  i \in DOMAIN rows /\ rows'[i] = rows[i]
  BY <1>3, <1>7, <1>9
<1>10. ASSUME NEW c \in DOMAIN rows, CycleAt(c) PROVE c \in DOMAIN rows' /\ CycleAt(c)'
  <2>1. c + 2 \in 1 .. n /\ c \in 1 .. n /\ c + 1 \in 1 .. n
    BY <1>7, <1>10 DEF CycleAt
  <2>2. /\ rows'[c] = rows[c] /\ rows'[c + 1] = rows[c + 1] /\ rows'[c + 2] = rows[c + 2]
        /\ c \in DOMAIN rows' /\ c + 2 \in DOMAIN rows'
    BY <1>7, <2>1
  <2>3. ASSUME NEW i \in DOMAIN rows' PROVE rows'[i].kind = "cycle" <=> i \in {c, c + 1, c + 2}
    <3>1. CASE i \in 1 .. n
      BY <1>7, <1>10, <3>1 DEF CycleAt
    <3>2. CASE i = n + 1
      BY <1>3, <1>7, <2>1, <3>2
    <3> QED
      BY <1>7, <3>1, <3>2
  <2> QED
    BY <1>10, <2>2, <2>3 DEF CycleAt
<1>11. CycleOK'
  BY <1>4, <1>9, <1>10 DEF RowsInv, CycleOK
<1>12. StageOK'
  BY <1>4 DEF StageOK, BeforeGap, BeforeCycle
<1> QED
  BY <1>8, <1>11, <1>12 DEF RowsInv

LEMMA RowsHold == Spec => []RowsInv
<1>1. Init => RowsInv
  <2> SUFFICES ASSUME Init PROVE RowsInv
    OBVIOUS
  <2>1. /\ rows = <<>> /\ DOMAIN rows = {} /\ Len(rows) = 0 /\ Events \in Nat
        /\ ~broken /\ ~cyclic /\ pc = "custody"
    BY SimulatedAssumption DEF Init
  <2> QED
    BY <2>1 DEF RowsInv, CustodyOK, GapOK, CycleOK, StageOK
<1>2. ASSUME SimInv, RowsInv, [Next]_vars PROVE RowsInv'
  <2>1. CASE SyncNeo4j \/ Neo4jSyncCocRows \/ NotDrawn \/ UNCHANGED vars
    <3>1. rows' = rows /\ broken' = broken /\ cyclic' = cyclic
      BY <2>1 DEF SyncNeo4j, Neo4jSyncCocRows, NotDrawn, vars
    <3>2. /\ pc' # "custody" => pc # "custody"
          /\ pc' \in BeforeGap => pc \in BeforeGap
          /\ pc' \in BeforeCycle => pc \in BeforeCycle
          /\ pc' \notin {"copyInsider", "over"} => pc \notin {"copyInsider", "over"}
      BY <1>2, <2>1 DEF SyncNeo4j, Neo4jSyncCocRows, NotDrawn, vars, BeforeGap, BeforeCycle
    <3>3. CustodyOK' /\ GapOK' /\ CycleOK'
      BY <1>2, <3>1, <3>2 DEF RowsInv, CustodyOK, GapOK, CycleOK, CycleAt
    <3>4. pc' \in {"over", "copyInsider"} \/ \A i \in DOMAIN rows : rows[i].kind # "insider"
      BY <1>2, <3>2 DEF RowsInv, StageOK
    <3>5. StageOK'
      BY <1>2, <3>1, <3>2, <3>4 DEF RowsInv, StageOK
    <3> QED
      BY <3>3, <3>5 DEF RowsInv
  <2> QED
    BY <1>2, <2>1, RowsCreated, RowsWithGap, RowsWithCycle, RowsWithInsider DEF Next
<1> QED
  BY <1>1, <1>2, SimulationHolds, PTL DEF Spec

-----------------------------------------------------------------------------
(* The graph: each event is a copy of a row, with its giver unless it is   *)
(* of the first sync; an injection is copied from its first row on.        *)
Base == Len(rows) - Len(pending)

CopyOK(k) ==
    LET e == graph.events[k] IN
    /\ e.id \in 1 .. Base
    /\ e.to = rows[e.id].to /\ e.ts = rows[e.id].ts /\ e.kind = rows[e.id].kind
    /\ e.from = IF e.kind = "custody" THEN None ELSE rows[e.id].from

CopiedIds == {graph.events[k].id : k \in DOMAIN graph.events}

PendingOK ==
    /\ Base >= 0
    /\ \A i \in DOMAIN pending : pending[i] = rows[Base + i] /\ pending[i].kind # "custody"
    /\ pending # <<>> => Base >= 1 /\ rows[Base].kind # rows[Base + 1].kind
    /\ pc \notin Copying => pending = <<>>

CopyInv ==
    /\ \A k \in DOMAIN graph.events : CopyOK(k)
    /\ \A k, l \in DOMAIN graph.events : graph.events[k].id = graph.events[l].id => k = l
    /\ PendingOK
    /\ \A i \in CopiedIds : i > 1 /\ rows[i - 1].kind = rows[i].kind => i - 1 \in CopiedIds
    /\ pc \in {"custody", "sync"} => graph.events = <<>>

LEMMA Sequences ==
    ASSUME SimInv
    PROVE  /\ rows \in Seq(Row) /\ Len(rows) \in Nat /\ DOMAIN rows = 1 .. Len(rows)
           /\ \A i \in DOMAIN rows : rows[i] \in Row /\ rows[i].id = i
           /\ pending \in Seq(Row) /\ Len(pending) \in Nat /\ DOMAIN pending = 1 .. Len(pending)
           /\ graph \in Graph /\ graph.events \in Seq(Event)
           /\ Len(graph.events) \in Nat /\ DOMAIN graph.events = 1 .. Len(graph.events)
           /\ \A k \in DOMAIN graph.events : graph.events[k] \in Event
<1> DEFINE R == Row
           E == Event
<1>1. rows \in Seq(R) /\ pending \in Seq(R) /\ graph.events \in Seq(E) /\ graph \in Graph
      /\ \A i \in DOMAIN rows : rows[i].id = i
  BY DEF SimInv, TypeOK, Graph
<1> HIDE DEF R, E
<1>2. /\ Len(rows) \in Nat /\ DOMAIN rows = 1 .. Len(rows)
      /\ Len(pending) \in Nat /\ DOMAIN pending = 1 .. Len(pending)
      /\ Len(graph.events) \in Nat /\ DOMAIN graph.events = 1 .. Len(graph.events)
  BY <1>1
<1>3. \A i \in DOMAIN rows : rows[i] \in R
  BY <1>1
<1>4. \A k \in DOMAIN graph.events : graph.events[k] \in E
  BY <1>1
<1> QED
  BY <1>1, <1>2, <1>3, <1>4 DEF R, E

(* An injection announces its rows, none of which is copied yet.           *)
LEMMA CopiesAnnounced ==
    ASSUME SimInv, CopyInv, pc \notin Copying, pc # "custody", NEW new \in Seq(Row), NEW next,
           Inject(new, next), next \in Copying, new # <<>>,
           \A i \in DOMAIN new : new[i].kind # "custody", rows # <<>>,
           rows[Len(rows)].kind # new[1].kind
    PROVE  CopyInv'
<1>1. rows' = rows \o new /\ pending' = new /\ pc' = next /\ graph' = graph
  BY DEF Inject
<1>2. /\ Len(rows) \in Nat /\ Len(new) \in Nat /\ Len(rows') = Len(rows) + Len(new)
      /\ DOMAIN rows = 1 .. Len(rows) /\ DOMAIN rows' = 1 .. Len(rows) + Len(new)
      /\ \A i \in 1 .. Len(rows) : rows'[i] = rows[i]
      /\ \A i \in 1 .. Len(new) : rows'[Len(rows) + i] = new[i]
  BY <1>1, Grown
<1>3. pending = <<>> /\ Base = Len(rows)
  BY <1>2 DEF CopyInv, PendingOK, Base
<1>4. Base' = Len(rows)
  BY <1>1, <1>2 DEF Base
<1>5. Len(rows) # 0 /\ Len(new) # 0 /\ DOMAIN new = 1 .. Len(new)
  <2> DEFINE R == Row
  <2>1. rows \in Seq(R) /\ new \in Seq(R)
    BY DEF SimInv, TypeOK
  <2> HIDE DEF R
  <2> QED
    BY <2>1
<1>6. ASSUME NEW k \in DOMAIN graph.events PROVE CopyOK(k)' /\ graph.events[k].id \in 1 .. Len(rows)
  <2>1. CopyOK(k)
    BY DEF CopyInv
  <2> QED
    BY <1>1, <1>2, <1>3, <1>4, <2>1 DEF CopyOK
<1>7. PendingOK'
  <2>1. Len(rows) + 1 \in 1 .. Len(rows) + Len(new) /\ Len(rows) \in 1 .. Len(rows) /\ 1 \in 1 .. Len(new)
    BY <1>2, <1>5
  <2>2. rows'[Len(rows)] = rows[Len(rows)] /\ rows'[Len(rows) + 1] = new[1]
    BY <1>2, <2>1
  <2> QED
    BY <1>1, <1>2, <1>4, <1>5, <2>1, <2>2 DEF PendingOK
<1>8. CopiedIds' = CopiedIds /\ CopiedIds \subseteq 1 .. Len(rows)
  BY <1>1, <1>6 DEF CopiedIds
<1>9. ASSUME NEW i \in CopiedIds', i > 1, rows'[i - 1].kind = rows'[i].kind
      PROVE  i - 1 \in CopiedIds'
  <2>1. i \in CopiedIds /\ i \in 1 .. Len(rows) /\ i - 1 \in 1 .. Len(rows)
    BY <1>2, <1>8, <1>9
  <2> QED
    BY <1>2, <1>8, <1>9, <2>1 DEF CopyInv
<1> QED
  BY <1>1, <1>6, <1>7, <1>9 DEF CopyInv, Copying

(* The first sync copies the chain, or the first of its events.            *)
LEMMA CopiesOfChain ==
    ASSUME SimInv, RowsInv, CopyInv, SyncNeo4j
    PROVE  CopyInv'
<1>1. /\ rows \in Seq(Row) /\ Len(rows) \in Nat /\ DOMAIN rows = 1 .. Len(rows)
      /\ \A i \in DOMAIN rows : rows[i] \in Row /\ rows[i].id = i
      /\ graph \in Graph
  BY Sequences
<1>2. /\ pc = "sync" /\ pc' = "break" /\ rows' = rows /\ pending' = pending
      /\ graph.events = <<>> /\ pending = <<>>
  BY DEF SyncNeo4j, CopyInv, PendingOK, Copying
<1>3. \A i \in DOMAIN rows : rows[i].kind = "custody"
  BY <1>1, <1>2, SimulatedAssumption DEF RowsInv, StageOK, CustodyOK, BeforeGap
<1>4. Base' = Len(rows) /\ PendingOK'
  <2>1. Len(pending) = 0 /\ DOMAIN pending = {}
    BY <1>2
  <2> QED
    BY <1>1, <1>2, <2>1 DEF PendingOK, Base
<1>5. CASE graph' = graph
  <2>1. graph'.events = <<>> /\ DOMAIN graph'.events = {} /\ CopiedIds' = {}
    BY <1>2, <1>5 DEF CopiedIds
  <2> QED
    BY <1>4, <2>1 DEF CopyInv
<1>6. ASSUME NEW n \in Nat, n =< Len(rows),
             graph' = [graph EXCEPT !.node = TRUE, !.events = [i \in 1 .. n |-> FirstCopy(rows[i])]]
      PROVE  CopyInv'
  <2>1. graph'.events = [i \in 1 .. n |-> FirstCopy(rows[i])]
    BY <1>1, <1>6 DEF Graph
  <2>2. DOMAIN graph'.events = 1 .. n
    BY <2>1
  <2>3. ASSUME NEW k \in 1 .. n
        PROVE  /\ k \in DOMAIN rows /\ graph'.events[k] = FirstCopy(rows[k])
               /\ graph'.events[k].id = k /\ graph'.events[k].kind = "custody"
               /\ graph'.events[k].to = rows[k].to /\ graph'.events[k].ts = rows[k].ts
               /\ graph'.events[k].from = None /\ rows[k].kind = "custody"
    <3>1. k \in DOMAIN rows
      BY <1>1, <1>6
    <3>2. graph'.events[k] = FirstCopy(rows[k])
      BY <2>1
    <3> QED
      BY <1>1, <1>3, <3>1, <3>2 DEF FirstCopy, Copy
  <2>4. ASSUME NEW k \in DOMAIN graph'.events PROVE CopyOK(k)'
    BY <1>1, <1>2, <1>4, <2>2, <2>3 DEF CopyOK
  <2>5. CopiedIds' = 1 .. n
    BY <2>2, <2>3 DEF CopiedIds
  <2>6. \A i \in 1 .. n : i > 1 => i - 1 \in 1 .. n
    BY <1>6
  <2> QED
    BY <1>2, <1>4, <2>2, <2>3, <2>4, <2>5, <2>6 DEF CopyInv
<1>7. CASE graph' = [graph EXCEPT !.node = TRUE, !.events = [i \in DOMAIN rows |-> FirstCopy(rows[i])]]
  <2> DEFINE n == Len(rows)
  <2>1. n \in Nat /\ n =< Len(rows)
    BY <1>1
  <2>2. graph' = [graph EXCEPT !.node = TRUE, !.events = [i \in 1 .. n |-> FirstCopy(rows[i])]]
    BY <1>1, <1>7
  <2> HIDE DEF n
  <2> QED
    BY <1>6, <2>1, <2>2
<1>8. CASE \E k \in 0 .. Len(rows) - 1 :
              graph' = [graph EXCEPT !.node = TRUE,
                                     !.events = [i \in 1 .. k |-> FirstCopy(rows[i])]]
  <2>1. \A k \in 0 .. Len(rows) - 1 : k \in Nat /\ k =< Len(rows)
    BY <1>1
  <2> QED
    BY <1>6, <1>8, <2>1
<1> QED
  BY <1>5, <1>7, <1>8 DEF SyncNeo4j

(* What is announced is copied, or the first rows of it, or nothing.       *)
LEMMA CopiesOfInjection ==
    ASSUME SimInv, CopyInv, Neo4jSyncCocRows
    PROVE  CopyInv'
<1>1. /\ Len(rows) \in Nat /\ DOMAIN rows = 1 .. Len(rows)
      /\ \A i \in DOMAIN rows : rows[i] \in Row /\ rows[i].id = i
      /\ Len(pending) \in Nat /\ DOMAIN pending = 1 .. Len(pending)
      /\ graph \in Graph /\ graph.events \in Seq(Event)
      /\ Len(graph.events) \in Nat /\ DOMAIN graph.events = 1 .. Len(graph.events)
  BY Sequences
<1>2. /\ rows' = rows /\ pending' = <<>> /\ pc' \in {"cycle", "insider", "over"}
      /\ pc' \notin Copying
  BY DEF Neo4jSyncCocRows, Copying
<1>3. Base' = Len(rows) /\ PendingOK'
  <2>1. Len(<<>>) = 0 /\ DOMAIN <<>> = {}
    OBVIOUS
  <2> QED
    BY <1>1, <1>2, <2>1 DEF PendingOK, Base
<1>4. Base \in Nat /\ Base + Len(pending) = Len(rows)
  BY <1>1 DEF CopyInv, PendingOK, Base
<1>5. PICK n \in 0 .. Len(pending) : graph' = [graph EXCEPT !.events = MirrorRows(n)]
  <2>1. \A n \in 0 .. Len(pending) - 1 : n \in 0 .. Len(pending)
    BY <1>1
  <2>2. Len(pending) \in 0 .. Len(pending)
    BY <1>1
  <2> QED
    BY <2>1, <2>2 DEF Neo4jSyncCocRows
<1>6. graph'.events = MirrorRows(n)
  BY <1>1, <1>5 DEF Graph
<1> DEFINE L == Len(graph.events)
           f == [i \in 1 .. n |-> SecondCopy(pending[i])]
           m == IF graph.node THEN n ELSE 0
<1>7. /\ DOMAIN graph'.events = 1 .. L + m /\ m \in 0 .. Len(pending)
      /\ \A k \in 1 .. L : graph'.events[k] = graph.events[k]
      /\ \A k \in 1 .. m : graph'.events[L + k] = SecondCopy(pending[k])
  <2> DEFINE E == Event
  <2>1. graph.events \in Seq(E) /\ \A i \in 1 .. n : SecondCopy(pending[i]) \in E
    <3>1. \A i \in 1 .. n : pending[i] \in Row
      BY <1>1, Sequences
    <3> QED
      BY <1>1, <3>1, Copies
  <2> HIDE DEF E
  <2>2. CASE graph.node
    <3>1. f \in Seq(E) /\ Len(f) = n /\ DOMAIN f = 1 .. n /\ n \in Nat
      BY <1>1, <2>1
    <3>2. \A k \in 1 .. n : f[k] = SecondCopy(pending[k])
      OBVIOUS
    <3>3. graph'.events = graph.events \o f
      BY <1>6, <2>2 DEF MirrorRows
    <3> HIDE DEF f
    <3>4. DOMAIN (graph.events \o f) = 1 .. L + n
      BY <1>1, <2>1, <3>1
    <3>5. \A k \in 1 .. L + n :
             (graph.events \o f)[k] = IF k =< L THEN graph.events[k] ELSE f[k - L]
      BY <2>1, <3>1
    <3>6. \A k \in 1 .. L : (graph.events \o f)[k] = graph.events[k]
      BY <1>1, <3>1, <3>5
    <3>7. ASSUME NEW k \in 1 .. n PROVE (graph.events \o f)[L + k] = f[k]
      <4>1. L + k \in 1 .. L + n /\ ~(L + k =< L) /\ (L + k) - L = k
        BY <1>1
      <4> QED
        BY <3>5, <4>1
    <3> QED
      BY <2>2, <3>1, <3>2, <3>3, <3>4, <3>6, <3>7
  <2>3. CASE ~graph.node
    <3>1. graph'.events = graph.events
      <4>1. graph'.events = graph.events \o <<>>
        BY <1>6, <2>3 DEF MirrorRows
      <4> QED
        BY <2>1, <4>1
    <3> QED
      BY <1>1, <2>3, <3>1
  <2> QED
    BY <2>2, <2>3
<1> HIDE DEF L, m, f
<1>8. ASSUME NEW k \in 1 .. m
      PROVE  /\ k \in DOMAIN pending /\ Base + k \in DOMAIN rows /\ pending[k] = rows[Base + k]
             /\ graph'.events[L + k].id = Base + k
             /\ graph'.events[L + k].to = rows[Base + k].to
             /\ graph'.events[L + k].ts = rows[Base + k].ts
             /\ graph'.events[L + k].kind = rows[Base + k].kind
             /\ graph'.events[L + k].from = rows[Base + k].from
             /\ rows[Base + k].kind # "custody"
  <2>1. k \in DOMAIN pending /\ Base + k \in DOMAIN rows
    BY <1>1, <1>4, <1>7
  <2>2. pending[k] = rows[Base + k] /\ pending[k].kind # "custody"
    BY <2>1 DEF CopyInv, PendingOK
  <2>3. graph'.events[L + k] = SecondCopy(pending[k]) /\ rows[Base + k].id = Base + k
    BY <1>1, <1>7, <2>1
  <2> QED
    BY <2>1, <2>2, <2>3 DEF SecondCopy, Copy
<1>9. L \in Nat /\ m \in Nat /\ m =< Len(pending) /\ DOMAIN graph.events = 1 .. L
  BY <1>1, <1>7 DEF L
<1>10. ASSUME NEW k \in 1 .. L + m
       PROVE  \/ k \in 1 .. L
              \/ k - L \in 1 .. m /\ L + (k - L) = k
  BY <1>9
<1>11. ASSUME NEW k \in 1 .. L
       PROVE  /\ CopyOK(k)' /\ graph'.events[k].id = graph.events[k].id
              /\ graph'.events[k].id \in 1 .. Base
  <2>1. CopyOK(k) /\ graph'.events[k] = graph.events[k]
    BY <1>7, <1>9 DEF CopyInv
  <2> QED
    BY <1>1, <1>2, <1>3, <1>4, <2>1 DEF CopyOK
<1>12. ASSUME NEW k \in DOMAIN graph'.events PROVE CopyOK(k)'
  <2>1. CASE k \in 1 .. L
    BY <1>11, <2>1
  <2>2. CASE k - L \in 1 .. m /\ L + (k - L) = k
    BY <1>1, <1>2, <1>3, <1>8, <2>2 DEF CopyOK
  <2> QED
    BY <1>7, <1>10, <2>1, <2>2
<1>13. ASSUME NEW k \in DOMAIN graph'.events, NEW l \in DOMAIN graph'.events,
              graph'.events[k].id = graph'.events[l].id
       PROVE  k = l
  <2>1. CASE k \in 1 .. L /\ l \in 1 .. L
    BY <1>9, <1>11, <1>13, <2>1 DEF CopyInv
  <2>2. CASE k \in 1 .. L /\ l - L \in 1 .. m /\ L + (l - L) = l
    BY <1>4, <1>8, <1>11, <1>13, <2>2
  <2>3. CASE l \in 1 .. L /\ k - L \in 1 .. m /\ L + (k - L) = k
    BY <1>4, <1>8, <1>11, <1>13, <2>3
  <2>4. CASE k - L \in 1 .. m /\ L + (k - L) = k /\ l - L \in 1 .. m /\ L + (l - L) = l
    <3>1. graph'.events[k].id = Base + (k - L) /\ graph'.events[l].id = Base + (l - L)
      BY <1>8, <2>4
    <3>2. k \in 1 .. L + m /\ l \in 1 .. L + m
      BY <1>7
    <3>3. k \in Nat /\ l \in Nat
      BY <1>9, <3>2
    <3>4. Base + (k - L) = Base + (l - L)
      BY <1>13, <3>1
    <3> HIDE DEF Base
    <3> QED
      BY <1>4, <1>9, <3>3, <3>4
  <2> QED
    BY <1>7, <1>10, <2>1, <2>2, <2>3, <2>4
<1>14. CopiedIds' = CopiedIds \cup {Base + k : k \in 1 .. m} /\ CopiedIds \subseteq 1 .. Base
  <2>1. CopiedIds \subseteq 1 .. Base /\ CopiedIds \subseteq CopiedIds'
    <3>1. \A k \in 1 .. L : k \in 1 .. L + m
      BY <1>9
    <3> QED
      BY <1>7, <1>9, <1>11, <3>1 DEF CopiedIds
  <2>2. {Base + k : k \in 1 .. m} \subseteq CopiedIds'
    <3>1. \A k \in 1 .. m : L + k \in 1 .. L + m
      BY <1>9
    <3> QED
      BY <1>7, <1>8, <3>1 DEF CopiedIds
  <2>3. CopiedIds' \subseteq CopiedIds \cup {Base + k : k \in 1 .. m}
    <3> SUFFICES ASSUME NEW k \in DOMAIN graph'.events
                 PROVE  graph'.events[k].id \in CopiedIds \cup {Base + j : j \in 1 .. m}
      BY DEF CopiedIds
    <3>1. CASE k \in 1 .. L
      BY <1>9, <1>11, <3>1 DEF CopiedIds
    <3>2. CASE k - L \in 1 .. m /\ L + (k - L) = k
      BY <1>8, <3>2
    <3> QED
      BY <1>7, <1>10, <3>1, <3>2
  <2> QED
    BY <2>1, <2>2, <2>3
<1>15. ASSUME NEW i \in CopiedIds', i > 1, rows'[i - 1].kind = rows'[i].kind
       PROVE  i - 1 \in CopiedIds'
  <2>1. CASE i \in CopiedIds
    BY <1>2, <1>14, <1>15, <2>1 DEF CopyInv
  <2>2. ASSUME NEW k \in 1 .. m, i = Base + k PROVE i - 1 \in CopiedIds'
    <3>1. k # 1
      <4>1. pending # <<>>
        BY <1>8
      <4>2. rows[Base].kind # rows[Base + 1].kind
        BY <4>1 DEF CopyInv, PendingOK
      <4>3. k = 1 => i - 1 = Base /\ i = Base + 1
        BY <1>4, <2>2
      <4> QED
        BY <1>2, <1>15, <4>2, <4>3
    <3>2. k - 1 \in 1 .. m /\ i - 1 = Base + (k - 1)
      BY <1>4, <1>9, <2>2, <3>1
    <3> QED
      BY <1>14, <3>2
  <2> QED
    BY <1>14, <1>15, <2>1, <2>2
<1>16. pc' \notin {"custody", "sync"}
  BY <1>2
<1> QED
  BY <1>3, <1>12, <1>13, <1>15, <1>16 DEF CopyInv

LEMMA CopiesHold == Spec => []CopyInv
<1>1. Init => CopyInv
  <2> SUFFICES ASSUME Init PROVE CopyInv
    OBVIOUS
  <2>1. /\ graph.events = <<>> /\ rows = <<>> /\ pending = <<>> /\ Len(<<>>) = 0 /\ DOMAIN <<>> = {}
    BY DEF Init
  <2>2. CopiedIds = {} /\ Base = 0
    BY <2>1 DEF CopiedIds, Base
  <2> QED
    BY <2>1, <2>2 DEF CopyInv, PendingOK
<1>2. ASSUME SimInv, RowsInv, CopyInv, [Next]_vars PROVE CopyInv'
  <2> USE <1>2
  <2>1. /\ rows \in Seq(Row) /\ Len(rows) \in Nat /\ DOMAIN rows = 1 .. Len(rows)
    BY Sequences
  <2>2. CASE CreateCustodyEvents
    <3>1. /\ pc = "custody" /\ pc' = "sync" /\ graph' = graph /\ pending' = pending
          /\ graph.events = <<>> /\ pending = <<>>
      BY <2>2 DEF CreateCustodyEvents, CopyInv, PendingOK, Copying
    <3>2. Len(rows') = Events /\ Events \in Nat
      BY <2>2, CustodyRows, SimulatedAssumption
    <3>3. graph'.events = <<>> /\ DOMAIN graph'.events = {} /\ CopiedIds' = {} /\ Base' >= 0
          /\ DOMAIN pending' = {}
      BY <3>1, <3>2 DEF CopiedIds, Base
    <3> QED
      BY <3>1, <3>3 DEF CopyInv, PendingOK
  <2>3. CASE InjectBrokenChain
    <3>1. PICK from \in User, to \in User, d \in 1 .. MaxDelay :
             Inject(<<NewRow(1, from, to, LastTime + d, "gap")>>, "copyGap")
      BY <2>3 DEF InjectBrokenChain
    <3> DEFINE r == NewRow(1, from, to, LastTime + d, "gap")
    <3>2. pc = "break" /\ rows # <<>> /\ \A i \in DOMAIN rows : rows[i].id = i
      BY <2>3 DEF InjectBrokenChain, SimInv, ChainInv, TypeOK
    <3>3. r \in Row /\ r.kind = "gap"
      <4>1. LastTime + d \in Nat /\ "gap" \in Kind /\ 1 \in Nat
        BY <2>1, <3>2, SomeRow, SimulatedAssumption DEF Kind
      <4>2. r \in Row
        BY <2>1, <4>1, NewRows
      <4> QED
        BY <4>2 DEF NewRow
    <3>4. Inject(<<r>>, "copyGap")
      BY <3>1
    <3> HIDE DEF r
    <3>5. /\ <<r>> \in Seq(Row) /\ <<r>> # <<>> /\ <<r>>[1] = r
          /\ \A i \in DOMAIN <<r>> : <<r>>[i].kind # "custody"
      BY <3>3
    <3>6. rows[Len(rows)].kind # <<r>>[1].kind
      <4>1. Len(rows) \in DOMAIN rows
        BY <2>1, <3>2
      <4>2. rows[Len(rows)].kind = "custody"
        BY <2>1, <3>2, <4>1 DEF RowsInv, StageOK, BeforeGap, CustodyOK
      <4> QED
        BY <3>3, <3>5, <4>2
    <3>7. pc \notin Copying /\ pc # "custody" /\ "copyGap" \in Copying
      BY <3>2 DEF Copying
    <3> QED
      BY <3>2, <3>4, <3>5, <3>6, <3>7, CopiesAnnounced
  <2>4. CASE InjectCycle
    <3>1. PICK a \in User, b \in User : Inject(CycleRows(a, b), "copyCycle")
      BY <2>4 DEF InjectCycle
    <3> DEFINE Step(k, x, y) == NewRow(k, x, y, LastTime + k, "cycle")
               r1 == Step(1, a, b)
               r2 == Step(2, b, a)
               r3 == Step(3, a, b)
    <3>2. pc = "cycle" /\ rows # <<>> /\ \A i \in DOMAIN rows : rows[i].id = i
      BY <2>4 DEF InjectCycle, SimInv, ChainInv, TypeOK
    <3>3. /\ r1 \in Row /\ r1.kind = "cycle"
          /\ r2 \in Row /\ r2.kind = "cycle"
          /\ r3 \in Row /\ r3.kind = "cycle"
      <4>1. ASSUME NEW k \in 1 .. 3, NEW x \in User, NEW y \in User
            PROVE  Step(k, x, y) \in Row /\ Step(k, x, y).kind = "cycle"
        <5> DEFINE t == LastTime + k
        <5>1. t \in Nat /\ k \in Nat /\ "cycle" \in Kind
          BY <2>1, <3>2, SomeRow DEF Kind
        <5> HIDE DEF t
        <5>2. NewRow(k, x, y, t, "cycle") \in Row
          BY <2>1, <5>1, NewRows
        <5>3. NewRow(k, x, y, t, "cycle").kind = "cycle"
          BY DEF NewRow
        <5> QED
          BY <5>2, <5>3 DEF t
      <4> HIDE DEF Step
      <4> QED
        BY <4>1
    <3>4. Inject(<<r1, r2, r3>>, "copyCycle")
      BY <3>1 DEF CycleRows
    <3> HIDE DEF r1, r2, r3
    <3> DEFINE new == <<r1, r2, r3>>
    <3>5. new \in Seq(Row) /\ new # <<>> /\ new[1] = r1 /\ \A i \in DOMAIN new : new[i].kind = "cycle"
      BY <3>3
    <3>6. rows[Len(rows)].kind # "cycle"
      <4>1. Len(rows) \in DOMAIN rows
        BY <2>1, <3>2
      <4> QED
        BY <3>2, <4>1 DEF RowsInv, StageOK, BeforeCycle, CycleOK
    <3>7. pc \notin Copying /\ pc # "custody" /\ "copyCycle" \in Copying
      BY <3>2 DEF Copying
    <3>8. Inject(new, "copyCycle")
      BY <3>4
    <3> HIDE DEF new
    <3> QED
      BY <3>2, <3>3, <3>5, <3>6, <3>7, <3>8, CopiesAnnounced
  <2>5. CASE InjectInsider
    <3>1. PICK u \in User, to \in User, t \in 1 .. MaxTime + MaxDelay :
             Inject(<<NewRow(1, u, to, t, "insider")>>, "copyInsider")
      BY <2>5 DEF InjectInsider
    <3> DEFINE r == NewRow(1, u, to, t, "insider")
    <3>2. pc = "insider" /\ rows # <<>>
      BY <2>5 DEF InjectInsider, SimInv, ChainInv
    <3>3. r \in Row /\ r.kind = "insider"
      <4>1. t \in Nat /\ "insider" \in Kind /\ 1 \in Nat
        BY SimulatedAssumption DEF Kind
      <4>2. r \in Row
        BY <2>1, <4>1, NewRows
      <4> QED
        BY <4>2 DEF NewRow
    <3>4. Inject(<<r>>, "copyInsider")
      BY <3>1
    <3> HIDE DEF r
    <3>5. /\ <<r>> \in Seq(Row) /\ <<r>> # <<>> /\ <<r>>[1] = r
          /\ \A i \in DOMAIN <<r>> : <<r>>[i].kind # "custody"
      BY <3>3
    <3>6. rows[Len(rows)].kind # <<r>>[1].kind
      <4>1. Len(rows) \in DOMAIN rows
        BY <2>1, <3>2
      <4> QED
        BY <3>2, <3>3, <3>5, <4>1 DEF RowsInv, StageOK
    <3>7. pc \notin Copying /\ pc # "custody" /\ "copyInsider" \in Copying
      BY <3>2 DEF Copying
    <3> QED
      BY <3>2, <3>4, <3>5, <3>6, <3>7, CopiesAnnounced
  <2>6. CASE NotDrawn \/ UNCHANGED vars
    <3>1. /\ rows' = rows /\ graph' = graph /\ pending' = pending
          /\ pc' \in {"custody", "sync"} => pc \in {"custody", "sync"}
          /\ pc' \notin Copying => pc \notin Copying
      BY <2>6 DEF NotDrawn, vars, Copying
    <3> QED
      BY <3>1 DEF CopyInv, CopyOK, PendingOK, CopiedIds, Base
  <2> QED
    BY <2>2, <2>3, <2>4, <2>5, <2>6, CopiesOfChain, CopiesOfInjection DEF Next
<1> QED
  BY <1>1, <1>2, SimulationHolds, RowsHold, PTL DEF Spec

-----------------------------------------------------------------------------
(* Which gaps and cycles are found. *)

LEMMA TwoElements ==
    ASSUME NEW S, IsFiniteSet(S), NEW a \in S, NEW b \in S, a # b
    PROVE  Cardinality(S) > 1
<1>1. Cardinality(S) \in Nat
  BY FS_CardinalityType
<1>2. Cardinality(S) # 0
  BY FS_EmptySet
<1>3. Cardinality(S) # 1
  BY FS_Singleton
<1> QED
  BY <1>1, <1>2, <1>3

(* Of three, two and more are not in one set, three not in a set of two.   *)
LEMMA OfThree ==
    ASSUME NEW x, NEW y, NEW z, NEW S \in SUBSET {x, y, z}
    PROVE  /\ Cardinality(S) > 1 => y \in S \/ (x \in S /\ z \in S)
           /\ Cardinality(S) > 2 => x \in S /\ y \in S /\ z \in S
<1>1. \A u, v : IsFiniteSet({u, v}) /\ Cardinality({u, v}) \in Nat /\ Cardinality({u, v}) =< 2
  <2> TAKE u, v
  <2>1. IsFiniteSet({u}) /\ Cardinality({u}) = 1
    BY FS_Singleton
  <2>2. /\ IsFiniteSet({u} \cup {v})
        /\ Cardinality({u} \cup {v}) = IF v \in {u} THEN Cardinality({u}) ELSE Cardinality({u}) + 1
    BY <2>1, FS_AddElement
  <2>3. {u} \cup {v} = {u, v}
    OBVIOUS
  <2>4. Cardinality({u, v}) = 1 \/ Cardinality({u, v}) = 2
    BY <2>1, <2>2, <2>3
  <2>5. IsFiniteSet({u, v})
    BY <2>2, <2>3
  <2> QED
    BY <2>4, <2>5
<1>2. ASSUME NEW u, NEW v, S \subseteq {u, v} PROVE ~(Cardinality(S) > 2)
  <2>1. Cardinality(S) =< Cardinality({u, v}) /\ IsFiniteSet(S)
    BY <1>1, <1>2, FS_Subset
  <2>2. Cardinality(S) \in Nat
    BY <2>1, FS_CardinalityType
  <2>3. \A m, n \in Nat : m =< n /\ n =< 2 => ~(m > 2)
    OBVIOUS
  <2>4. Cardinality({u, v}) \in Nat /\ Cardinality({u, v}) =< 2
    BY <1>1
  <2> QED
    BY <2>1, <2>2, <2>3, <2>4
<1>3. ASSUME NEW u, S \subseteq {u} PROVE ~(Cardinality(S) > 1)
  <2>1. Cardinality(S) =< Cardinality({u}) /\ IsFiniteSet(S) /\ Cardinality({u}) = 1
    BY <1>3, FS_Singleton, FS_Subset
  <2>2. Cardinality(S) \in Nat
    BY <2>1, FS_CardinalityType
  <2> QED
    BY <2>1, <2>2
<1>4. ~(y \in S \/ (x \in S /\ z \in S)) => S \subseteq {x} \/ S \subseteq {z}
  OBVIOUS
<1>5. ~(x \in S /\ y \in S /\ z \in S) => S \subseteq {x, y} \/ S \subseteq {y, z} \/ S \subseteq {x, z}
  OBVIOUS
<1> QED
  BY <1>2, <1>3, <1>4, <1>5

LEMMA RowsAreEvents ==
    ASSUME SimInv
    PROVE  /\ IsFiniteSet(Elements(rows))
           /\ \A e \in Elements(rows) : e.ts \in Nat /\ e.id \in Nat
           /\ \A a, b \in Elements(rows) : a.id = b.id => a = b
           /\ \A i \in DOMAIN rows : rows[i] \in Elements(rows) /\ rows[i].ts \in Nat
                                     /\ rows[i].kind \in Kind
<1>1. /\ rows \in Seq(Row)
      /\ \A i \in DOMAIN rows : rows[i] \in Row /\ rows[i].id = i
  BY Sequences
<1>2. \A i, j \in DOMAIN rows : rows[i].id = rows[j].id => i = j
  BY <1>1
<1>3. IsFiniteSet(Elements(rows)) /\ \A a, b \in Elements(rows) : a.id = b.id => a = b
  BY <1>1, <1>2, ElementsOf
<1>4. \A i \in DOMAIN rows : rows[i].ts \in Nat /\ rows[i].id \in Nat /\ rows[i].kind \in Kind
  BY <1>1 DEF Row
<1> QED
  BY <1>3, <1>4 DEF Elements

(* The end of the chain and the time of the gap.                           *)
LEMMA Ends ==
    ASSUME SimInv, RowsInv, pc # "custody"
    PROVE  /\ Events \in DOMAIN rows /\ Events \in Nat /\ EndOfChain = rows[Events].ts
           /\ \A i \in 1 .. Events : i \in DOMAIN rows /\ rows[i].kind = "custody"
                                     /\ rows[i].ts \in Nat /\ rows[i].ts =< EndOfChain
           /\ broken => /\ Events + 1 \in DOMAIN rows /\ rows[Events + 1].kind = "gap"
                        /\ GapTime = rows[Events + 1].ts /\ EndOfChain < GapTime
<1>1. /\ Len(rows) \in Nat /\ DOMAIN rows = 1 .. Len(rows)
      /\ Events \in Nat /\ Events # 0 /\ Events =< Len(rows)
  BY Sequences, SimulatedAssumption DEF RowsInv, CustodyOK
<1>2. Events \in DOMAIN rows /\ Events \in 1 .. Events
  BY <1>1
<1>3. ASSUME NEW i \in 1 .. Events
      PROVE  /\ i \in DOMAIN rows /\ rows[i].kind = "custody" /\ rows[i].ts \in Nat
             /\ rows[i].ts =< rows[Events].ts
  <2>1. i \in DOMAIN rows /\ i =< Events
    BY <1>1
  <2> QED
    BY <1>2, <2>1, RowsAreEvents DEF RowsInv, CustodyOK
<1>4. \A i \in DOMAIN rows : rows[i].kind = "custody" => i \in 1 .. Events
  BY <1>1 DEF RowsInv, CustodyOK
<1>5. /\ rows[Events].ts \in Times("custody")
      /\ \A t \in Times("custody") : t =< rows[Events].ts /\ t \in Nat
  BY <1>2, <1>3, <1>4 DEF Times
<1>6. EndOfChain = rows[Events].ts
  <2>1. EndOfChain \in Times("custody") /\ \A s \in Times("custody") : s =< EndOfChain
    BY <1>5 DEF EndOfChain
  <2> QED
    BY <1>5, <2>1
<1>7. ASSUME broken
      PROVE  /\ Events + 1 \in DOMAIN rows /\ rows[Events + 1].kind = "gap"
             /\ GapTime = rows[Events + 1].ts /\ rows[Events].ts < rows[Events + 1].ts
  <2>1. /\ Events + 1 \in DOMAIN rows /\ rows[Events + 1].kind = "gap"
        /\ rows[Events].ts < rows[Events + 1].ts
    BY <1>7 DEF RowsInv, GapOK
  <2>2. Times("gap") = {rows[Events + 1].ts}
    BY <2>1 DEF Times, RowsInv, GapOK
  <2>3. GapTime \in Times("gap")
    BY <2>2 DEF GapTime
  <2> QED
    BY <2>1, <2>2, <2>3
<1> QED
  BY <1>1, <1>2, <1>3, <1>6, <1>7

(* No row is strictly between the last of the chain and the gap, but those *)
(* of insiders.                                                            *)
LEMMA NothingBetween ==
    ASSUME SimInv, RowsInv, broken, NEW i \in DOMAIN rows, EndOfChain < rows[i].ts,
           rows[i].ts < GapTime
    PROVE  rows[i].ts \in Times("insider")
<1>1. pc # "custody"
  BY DEF RowsInv, StageOK, BeforeGap
<1>2. /\ Len(rows) \in Nat /\ DOMAIN rows = 1 .. Len(rows)
      /\ rows[i].ts \in Nat /\ rows[i].kind \in Kind
  BY Sequences, RowsAreEvents
<1>3. /\ \A j \in 1 .. Events : rows[j].ts =< EndOfChain /\ rows[j].ts \in Nat
      /\ Events \in Nat /\ Events \in DOMAIN rows /\ EndOfChain = rows[Events].ts
      /\ Events + 1 \in DOMAIN rows /\ rows[Events + 1].kind = "gap"
      /\ GapTime = rows[Events + 1].ts
  BY <1>1, Ends
<1>4. EndOfChain \in Nat /\ GapTime \in Nat
  BY <1>3, RowsAreEvents
<1>5. rows[i].kind # "custody"
  <2>1. i \in 1 .. Events => FALSE
    BY <1>2, <1>3, <1>4
  <2> QED
    BY <1>2, <1>3, <2>1 DEF RowsInv, CustodyOK
<1>6. rows[i].kind # "gap"
  BY <1>2, <1>3, <1>4 DEF RowsInv, GapOK
<1>7. rows[i].kind # "cycle"
  <2>1. rows[i].kind = "cycle" => GapTime < rows[i].ts
    BY <1>3 DEF RowsInv, CycleOK
  <2> QED
    BY <1>2, <1>4, <2>1
<1> QED
  BY <1>2, <1>5, <1>6, <1>7 DEF Times, Kind

(* The row of the gap comes right after the last row of the chain, if that *)
(* is the only row of its time and no insider is in between.               *)
LEMMA GapFollows ==
    ASSUME SimInv, RowsInv, broken, NEW reverse \in BOOLEAN,
           \A t \in Times("insider") : ~(EndOfChain =< t /\ t =< GapTime),
           \A i \in 1 .. Events : rows[i].ts = EndOfChain => i = Events
    PROVE  /\ Events \in DOMAIN rows /\ Events + 1 \in DOMAIN rows
           /\ rows[Events + 1].kind = "gap" /\ rows[Events].to # rows[Events + 1].from
           /\ Precedes(rows[Events], rows[Events + 1], reverse)
           /\ \A i \in DOMAIN rows : ~(/\ Precedes(rows[Events], rows[i], reverse)
                                      /\ Precedes(rows[i], rows[Events + 1], reverse))
<1> DEFINE S == Elements(rows)
           a == rows[Events]
           b == rows[Events + 1]
<1>1. pc # "custody"
  BY DEF RowsInv, StageOK, BeforeGap
<1>2. /\ Events \in DOMAIN rows /\ EndOfChain = a.ts /\ Events \in Nat
      /\ \A i \in 1 .. Events : rows[i].ts \in Nat /\ rows[i].ts =< EndOfChain
      /\ Events + 1 \in DOMAIN rows /\ GapTime = b.ts /\ EndOfChain < GapTime
  BY <1>1, Ends
<1>3. /\ IsFiniteSet(S)
      /\ \A e \in S : e.ts \in Nat /\ e.id \in Nat
      /\ \A x, y \in S : x.id = y.id => x = y
      /\ \A i \in DOMAIN rows : rows[i] \in S /\ rows[i].ts \in Nat /\ rows[i].kind \in Kind
  BY RowsAreEvents
<1>4. a \in S /\ b \in S /\ a.ts \in Nat /\ b.ts \in Nat
  BY <1>2, <1>3
<1>5. Precedes(a, b, reverse)
  BY <1>2 DEF Precedes
<1>6. a.to # b.from
  BY <1>2 DEF RowsInv, GapOK
<1>7. Len(rows) \in Nat /\ DOMAIN rows = 1 .. Len(rows)
  BY Sequences
<1>8. ASSUME NEW i \in DOMAIN rows, Precedes(a, rows[i], reverse), Precedes(rows[i], b, reverse)
      PROVE  FALSE
  <2>1. rows[i] \in S /\ rows[i].ts \in Nat
    BY <1>3
  <2>2. i # Events /\ i # Events + 1
    BY <1>3, <1>4, <1>8, PrecedesOrders
  <2>3. a.ts =< rows[i].ts /\ rows[i].ts =< b.ts
    BY <1>4, <1>8, <2>1 DEF Precedes
  <2>4. rows[i].ts \notin Times("insider")
    BY <1>2, <2>3
  <2>5. ~(i =< Events)
    <3>1. i =< Events => i \in 1 .. Events
      BY <1>7
    <3> QED
      BY <1>2, <1>4, <2>1, <2>2, <2>3, <3>1
  <2>6. rows[i].kind # "custody" /\ rows[i].kind # "gap" /\ rows[i].kind # "insider"
    BY <2>2, <2>4, <2>5 DEF RowsInv, CustodyOK, GapOK, Times
  <2>7. rows[i].kind = "cycle"
    BY <1>3, <2>6 DEF Kind
  <2>8. b.ts < rows[i].ts
    BY <1>2, <2>7 DEF RowsInv, CycleOK, GapOK
  <2> QED
    BY <1>4, <2>1, <2>3, <2>8
<1>9. b.kind = "gap"
  BY <1>1, Ends
<1> QED
  BY <1>2, <1>5, <1>6, <1>8, <1>9

(* An event of the gap's that follows one of which it breaks the chain is  *)
(* shown by a detector of gaps, and by the one that wants both users.      *)
LEMMA GapIsShown ==
    ASSUME NEW S, IsFiniteSet(S), NEW reverse \in BOOLEAN,
           \A e \in S : e.ts \in Nat /\ e.id \in Nat,
           \A a, b \in S : a.id = b.id => a = b,
           NEW a \in S, NEW b \in S, Precedes(a, b, reverse),
           \A e \in S : ~(Precedes(a, e, reverse) /\ Precedes(e, b, reverse)),
           a.to # b.from, a.to # None, b.from # None, b.kind = "gap"
    PROVE  /\ Gaps(ByTime(S, reverse)) # {}
           /\ \E k \in GapAnomalies(ByTime(S, reverse)) : ByTime(S, reverse)[k + 1].kind = "gap"
<1>1. PICK p \in Steps(ByTime(S, reverse)) :
         ByTime(S, reverse)[p] = a /\ ByTime(S, reverse)[p + 1] = b
  BY NextEvent
<1>2. p \in Gaps(ByTime(S, reverse))
  BY <1>1 DEF Gaps
<1>3. p \in GapAnomalies(ByTime(S, reverse))
  BY <1>1, <1>2 DEF GapAnomalies
<1> QED
  BY <1>1, <1>2, <1>3

(* So are the rows of a gap, and the copies of its two ends.               *)
LEMMA GapOfRows ==
    ASSUME SimInv, RowsInv, broken, NEW reverse \in BOOLEAN,
           \A t \in Times("insider") : ~(EndOfChain =< t /\ t =< GapTime),
           \A i \in 1 .. Events : rows[i].ts = EndOfChain => i = Events
    PROVE  LET chain == SqlChain(reverse) IN
           /\ Gaps(chain) # {}
           /\ \E k \in GapAnomalies(chain) : chain[k + 1].kind = "gap"
<1> DEFINE S == Elements(rows)
           a == rows[Events]
           b == rows[Events + 1]
<1>1. /\ Events \in DOMAIN rows /\ Events + 1 \in DOMAIN rows
      /\ b.kind = "gap" /\ a.to # b.from /\ Precedes(a, b, reverse)
      /\ \A i \in DOMAIN rows : ~(Precedes(a, rows[i], reverse) /\ Precedes(rows[i], b, reverse))
  BY GapFollows
<1>2. /\ IsFiniteSet(S)
      /\ \A e \in S : e.ts \in Nat /\ e.id \in Nat
      /\ \A x, y \in S : x.id = y.id => x = y
      /\ a \in S /\ b \in S
  BY <1>1, RowsAreEvents
<1>3. a.to # None /\ b.from # None
  BY <1>1, Sequences, ReadersAssumption DEF Row
<1>4. \A e \in S : ~(Precedes(a, e, reverse) /\ Precedes(e, b, reverse))
  BY <1>1 DEF Elements
<1>5. SqlChain(reverse) = ByTime(S, reverse)
  BY DEF SqlChain
<1> HIDE DEF a, b, S
<1> QED
  BY <1>1, <1>2, <1>3, <1>4, <1>5, GapIsShown

LEMMA GapIsSeen ==
    ASSUME SimInv, RowsInv, broken, NEW reverse \in BOOLEAN,
           \A t \in Times("insider") : ~(EndOfChain =< t /\ t =< GapTime),
           \A i \in 1 .. Events : rows[i].ts = EndOfChain => i = Events
    PROVE  LeadGap(reverse)
BY GapOfRows DEF LeadGap

(* The window function misses an injected gap only for a reason.           *)
THEOREM MissesCorrect == Spec => []GapsAreMissedForAReason
<1>1. ASSUME SimInv, RowsInv PROVE GapsAreMissedForAReason
  <2> SUFFICES ASSUME broken,
                      \A t \in Times("insider") : ~(EndOfChain =< t /\ t =< GapTime),
                      ~\E i, j \in DOMAIN rows :
                          i # j /\ rows[i].kind = "custody" /\ rows[j].kind = "custody"
                                /\ rows[i].ts = EndOfChain /\ rows[j].ts = EndOfChain,
                      NEW reverse \in BOOLEAN
               PROVE  LeadGap(reverse)
    BY DEF GapsAreMissedForAReason
  <2>1. pc # "custody"
    BY <1>1 DEF RowsInv, StageOK, BeforeGap
  <2>2. /\ Events \in DOMAIN rows /\ EndOfChain = rows[Events].ts /\ Events \in 1 .. Events
        /\ \A i \in 1 .. Events : i \in DOMAIN rows /\ rows[i].kind = "custody"
    BY <1>1, <2>1, Ends, SimulatedAssumption
  <2>3. \A i \in 1 .. Events : rows[i].ts = EndOfChain => i = Events
    BY <2>2
  <2> QED
    BY <1>1, <2>3, GapIsSeen
<1> QED
  BY <1>1, SimulationHolds, RowsHold, PTL

LEMMA CopiesAreEvents ==
    ASSUME SimInv, CopyInv
    PROVE  /\ IsFiniteSet(Elements(graph.events))
           /\ \A e \in Elements(graph.events) : e.ts \in Nat /\ e.id \in Nat
           /\ \A a, b \in Elements(graph.events) : a.id = b.id => a = b
           /\ \A e \in Elements(graph.events) :
                 /\ e.id \in DOMAIN rows
                 /\ e.to = rows[e.id].to /\ e.ts = rows[e.id].ts /\ e.kind = rows[e.id].kind
                 /\ e.from = IF e.kind = "custody" THEN None ELSE rows[e.id].from
<1>1. /\ graph.events \in Seq(Event) /\ \A k \in DOMAIN graph.events : graph.events[k] \in Event
      /\ Len(rows) \in Nat /\ DOMAIN rows = 1 .. Len(rows)
      /\ Len(pending) \in Nat
  BY Sequences
<1>2. IsFiniteSet(Elements(graph.events))
      /\ \A a, b \in Elements(graph.events) : a.id = b.id => a = b
  BY <1>1, ElementsOf DEF CopyInv
<1>3. \A e \in Elements(graph.events) : e.ts \in Nat /\ e.id \in Nat
  BY <1>1 DEF Elements, Event
<1>4. Base \in Nat /\ 1 .. Base \subseteq DOMAIN rows
  <2>1. Base >= 0 /\ Base = Len(rows) - Len(pending)
    BY DEF CopyInv, PendingOK, Base
  <2> HIDE DEF Base
  <2> QED
    BY <1>1, <2>1
<1>5. \A k \in DOMAIN graph.events : CopyOK(k)
  BY DEF CopyInv
<1> QED
  BY <1>2, <1>3, <1>4, <1>5 DEF Elements, CopyOK

(* What is copied is found.                                                *)
THEOREM FoundCorrect == Spec => []CopiesAreFound
<1>1. ASSUME SimInv, RowsInv, CopyInv, broken,
             \A i \in DOMAIN rows : rows[i].kind = "gap" \/ rows[i].ts = EndOfChain => Copied(i),
             ~\E t \in Times("insider") : EndOfChain < t /\ t < GapTime
      PROVE  GraphGap
  <2>1. pc # "custody"
    BY <1>1 DEF RowsInv, StageOK, BeforeGap
  <2>2. /\ Events \in DOMAIN rows /\ EndOfChain = rows[Events].ts
        /\ \A i \in 1 .. Events : i \in DOMAIN rows
        /\ Events + 1 \in DOMAIN rows /\ rows[Events + 1].kind = "gap"
        /\ GapTime = rows[Events + 1].ts /\ EndOfChain < GapTime
    BY <1>1, <2>1, Ends
  <2>3. PICK j \in 1 .. Events :
           rows[j].ts = rows[Events].ts /\ rows[Events + 1].from # rows[j].to
    BY <1>1 DEF RowsInv, GapOK
  <2>4. \A i \in DOMAIN rows : rows[i] \in Row /\ rows[i].id = i
    BY <1>1, Sequences
  <2>5. PICK k \in DOMAIN graph.events : graph.events[k].id = j
    BY <1>1, <2>2, <2>3, <2>4 DEF Copied
  <2>6. PICK l \in DOMAIN graph.events : graph.events[l].id = Events + 1
    BY <1>1, <2>2, <2>4 DEF Copied
  <2>7. ASSUME NEW m \in DOMAIN graph.events
        PROVE  LET e == graph.events[m] IN
               /\ e.id \in DOMAIN rows
               /\ e.to = rows[e.id].to /\ e.ts = rows[e.id].ts /\ e.kind = rows[e.id].kind
               /\ e.from = IF e.kind = "custody" THEN None ELSE rows[e.id].from
    BY <1>1, CopiesAreEvents DEF Elements
  <2>8. /\ graph.events[k].ts = EndOfChain /\ graph.events[k].to = rows[j].to
        /\ graph.events[l].ts = GapTime /\ graph.events[l].from = rows[Events + 1].from
    BY <2>2, <2>3, <2>5, <2>6, <2>7
  <2>9. graph.events[l].from # None
    BY <2>2, <2>4, <2>8, ReadersAssumption DEF Row
  <2>10. ASSUME NEW m \in DOMAIN graph.events, EndOfChain < graph.events[m].ts,
                graph.events[m].ts < GapTime
         PROVE  FALSE
    <3>1. graph.events[m].ts \in Times("insider")
      BY <1>1, <2>7, <2>10, NothingBetween
    <3> QED
      BY <1>1, <2>10, <3>1
  <2> QED
    BY <2>2, <2>3, <2>8, <2>9, <2>10 DEF GraphGap
<1>2. ASSUME SimInv, RowsInv, CopyInv, cyclic
      PROVE  LET copied == {i \in DOMAIN rows : rows[i].kind = "cycle" /\ Copied(i)} IN
             /\ SelfJoin(rows) /\ ReceivedTwice(rows)
             /\ Cardinality(copied) > 1 => SelfJoin(graph.events)
             /\ Cardinality(copied) > 2 => ReceivedTwice(graph.events)
  <2> DEFINE copied == {i \in DOMAIN rows : rows[i].kind = "cycle" /\ Copied(i)}
  <2>1. PICK c \in DOMAIN rows : CycleAt(c)
    BY <1>2 DEF RowsInv, CycleOK
  <2>2. /\ Len(rows) \in Nat /\ DOMAIN rows = 1 .. Len(rows)
        /\ \A i \in DOMAIN rows : rows[i] \in Row /\ rows[i].id = i
        /\ Len(graph.events) \in Nat /\ DOMAIN graph.events = 1 .. Len(graph.events)
    BY <1>2, Sequences
  <2>3. /\ c \in DOMAIN rows /\ c + 1 \in DOMAIN rows /\ c + 2 \in DOMAIN rows
        /\ c # c + 1 /\ c # c + 2 /\ c + 1 # c + 2
        /\ (c + 1) - 1 = c /\ (c + 2) - 1 = c + 1 /\ c + 1 > 1 /\ c + 2 > 1
    <3>1. c \in DOMAIN rows /\ c + 2 \in DOMAIN rows
      BY <2>1 DEF CycleAt
    <3>2. c \in Nat /\ c > 0 /\ c + 1 \in DOMAIN rows
      BY <2>2, <3>1
    <3> QED
      BY <3>1, <3>2
  <2>4. /\ rows[c].from = rows[c + 1].to /\ rows[c + 1].from = rows[c + 2].to
        /\ rows[c + 2].to = rows[c].to /\ rows[c].to \in User
        /\ \A i \in DOMAIN rows : rows[i].kind = "cycle" <=> i \in {c, c + 1, c + 2}
    BY <2>1, <2>2 DEF CycleAt, Row
  <2>5. SelfJoin(rows)
    BY <2>3, <2>4 DEF SelfJoin
  <2>6. IsFiniteSet(DOMAIN rows) /\ IsFiniteSet(DOMAIN graph.events)
    <3>1. \A n \in Nat : IsFiniteSet(1 .. n)
      BY FS_Interval
    <3> QED
      BY <2>2, <3>1
  <2>7. ReceivedTwice(rows)
    <3> DEFINE R == Received(rows, rows[c].to)
    <3>1. c \in R /\ c + 2 \in R /\ R \in SUBSET DOMAIN rows
      BY <2>3, <2>4 DEF Received
    <3> HIDE DEF R
    <3>2. Cardinality(R) > 1
      BY <2>3, <2>6, <3>1, FS_Subset, TwoElements
    <3> QED
      BY <2>4, <3>2 DEF ReceivedTwice, R
  <2>8. ASSUME NEW i \in DOMAIN rows, rows[i].kind = "cycle"
        PROVE  Copied(i) <=> \E k \in DOMAIN graph.events :
                                /\ graph.events[k].id = i
                                /\ graph.events[k].from = rows[i].from
                                /\ graph.events[k].to = rows[i].to
    <3>1. ASSUME NEW k \in DOMAIN graph.events, graph.events[k].id = i
          PROVE  graph.events[k].from = rows[i].from /\ graph.events[k].to = rows[i].to
      BY <1>2, <2>8, <3>1, CopiesAreEvents DEF Elements
    <3> QED
      BY <2>2, <3>1 DEF Copied
  <2>9. copied \in SUBSET {c, c + 1, c + 2}
    BY <2>4
  <2>10. ASSUME NEW i \in {c + 1, c + 2}, i \in copied PROVE i - 1 \in copied
    <3>1. i - 1 \in DOMAIN rows /\ rows[i - 1].kind = rows[i].kind /\ rows[i].kind = "cycle" /\ i > 1
          /\ i \in DOMAIN rows
      BY <2>3, <2>4
    <3>2. i \in CopiedIds
      BY <2>2, <2>10 DEF Copied, CopiedIds
    <3>3. i - 1 \in CopiedIds
      BY <1>2, <3>1, <3>2 DEF CopyInv
    <3> QED
      BY <2>2, <3>1, <3>3 DEF Copied, CopiedIds
  <2>11. c \in copied \/ c + 1 \in copied \/ c + 2 \in copied => c \in copied
    BY <2>3, <2>10
  <2>12. c + 2 \in copied => c + 1 \in copied
    BY <2>3, <2>10
  <2>13. \A i \in copied : i \in DOMAIN rows /\ rows[i].kind = "cycle" /\ Copied(i)
    OBVIOUS
  <2> HIDE DEF copied
  <2>14. ASSUME Cardinality(copied) > 1 PROVE SelfJoin(graph.events)
    <3>1. c \in copied /\ c + 1 \in copied
      BY <2>9, <2>11, <2>12, <2>14, OfThree
    <3>2. PICK k \in DOMAIN graph.events :
             graph.events[k].id = c /\ graph.events[k].from = rows[c].from
      BY <2>8, <2>13, <3>1
    <3>3. PICK l \in DOMAIN graph.events :
             graph.events[l].id = c + 1 /\ graph.events[l].to = rows[c + 1].to
      BY <2>8, <2>13, <3>1
    <3> QED
      BY <2>3, <2>4, <3>2, <3>3 DEF SelfJoin
  <2>15. ASSUME Cardinality(copied) > 2 PROVE ReceivedTwice(graph.events)
    <3>1. c \in copied /\ c + 2 \in copied
      BY <2>9, <2>15, OfThree
    <3>2. PICK k \in DOMAIN graph.events :
             graph.events[k].id = c /\ graph.events[k].to = rows[c].to
      BY <2>8, <2>13, <3>1
    <3>3. PICK l \in DOMAIN graph.events :
             graph.events[l].id = c + 2 /\ graph.events[l].to = rows[c + 2].to
      BY <2>8, <2>13, <3>1
    <3> DEFINE R == Received(graph.events, rows[c].to)
    <3>4. k \in R /\ l \in R /\ k # l /\ R \in SUBSET DOMAIN graph.events
      BY <2>3, <2>4, <3>2, <3>3 DEF Received
    <3> HIDE DEF R
    <3>5. Cardinality(R) > 1
      BY <2>6, <3>4, FS_Subset, TwoElements
    <3> QED
      BY <2>4, <3>5 DEF ReceivedTwice, R
  <2> QED
    BY <2>5, <2>7, <2>14, <2>15 DEF copied
<1>3. SimInv /\ RowsInv /\ CopyInv => CopiesAreFound
  BY <1>1, <1>2 DEF CopiesAreFound, CyberExperiment2, RunCyberExperiment2
<1> QED
  BY <1>3, SimulationHolds, RowsHold, CopiesHold, PTL

(* As many times as events: no two events of the chain have one time.      *)
LEMMA TimesDiffer ==
    ASSUME SimInv, RowsInv, Cardinality(Times("custody")) = Events
    PROVE  /\ pc # "custody"
           /\ \A i, j \in 1 .. Events : rows[i].ts = rows[j].ts => i = j
<1>1. Events \in Nat /\ Events # 0
  BY SimulatedAssumption
<1>2. pc # "custody"
  <2>1. pc = "custody" => Times("custody") = {}
    BY DEF SimInv, ChainInv, Times
  <2> QED
    BY <1>1, <2>1, FS_EmptySet
<1> DEFINE f == [i \in 1 .. Events |-> rows[i].ts]
<1>3. f \in Surjection(1 .. Events, Times("custody"))
  <2>1. \A i \in 1 .. Events : i \in DOMAIN rows /\ rows[i].kind = "custody"
    BY <1>2, Ends
  <2>2. \A i \in DOMAIN rows : rows[i].kind = "custody" => i \in 1 .. Events
    BY Sequences, <1>1 DEF RowsInv, CustodyOK
  <2>3. f \in [1 .. Events -> Times("custody")]
    BY <2>1 DEF Times
  <2>4. \A t \in Times("custody") : \E i \in 1 .. Events : f[i] = t
    BY <2>2 DEF Times
  <2> HIDE DEF f
  <2> QED
    BY <2>3, <2>4 DEF Surjection
<1>4. IsFiniteSet(1 .. Events) /\ Cardinality(1 .. Events) = Events
  BY <1>1, FS_Interval
<1>5. f \in Injection(1 .. Events, Times("custody"))
  <2> HIDE DEF f
  <2> QED
    BY <1>3, <1>4, FS_SurjSameCardinalityImpliesInj
<1>6. \A i, j \in 1 .. Events : f[i] = f[j] => i = j
  <2> HIDE DEF f
  <2> QED
    BY <1>5 DEF Injection, IsInjective
<1> QED
  BY <1>2, <1>6

(* The chain of the anomaly endpoint, when its query ends.                 *)
LEMMA WholeChainIsShown ==
    ASSUME SimInv, CopyInv, graph.events # <<>>
    PROVE  FullChain(SqlChain(FALSE), graph, Len(graph.events))
              = ByTime(Elements(graph.events), FALSE)
<1> DEFINE S == Elements(graph.events)
           chain == ByTime(S, FALSE)
           n == Len(graph.events)
<1>1. /\ IsFiniteSet(S)
      /\ \A e \in S : e.ts \in Nat /\ e.id \in Nat
      /\ \A a, b \in S : a.id = b.id => a = b
  BY CopiesAreEvents
<1>2. n \in Nat /\ n # 0 /\ DOMAIN graph.events = 1 .. n
  BY Sequences
<1>3. Cardinality(S) = n
  <2> DEFINE f == [k \in 1 .. n |-> graph.events[k]]
  <2>1. \A k, l \in 1 .. n : graph.events[k] = graph.events[l] => k = l
    BY <1>2 DEF CopyInv
  <2>2. f \in [1 .. n -> S] /\ \A e \in S : \E k \in 1 .. n : f[k] = e
    BY <1>2 DEF Elements
  <2>3. \A k, l \in 1 .. n : f[k] = f[l] => k = l
    BY <2>1
  <2>4. IsFiniteSet(1 .. n) /\ Cardinality(1 .. n) = n
    BY <1>2, FS_Interval
  <2> HIDE DEF f, S, n
  <2>5. f \in Bijection(1 .. n, S)
    BY <2>2, <2>3 DEF Bijection, Injection, Surjection, IsInjective
  <2>6. ExistsBijection(1 .. n, S)
    BY <2>5 DEF ExistsBijection
  <2> QED
    BY <2>4, <2>6, FS_Bijection
<1>4. chain \in Seq(S) /\ Len(chain) = n
  <2> HIDE DEF S, n
  <2> QED
    BY <1>1, <1>3, Ordered
<1>5. FullChain(SqlChain(FALSE), graph, n) = SubSeq(chain, 1, n)
  BY <1>2 DEF FullChain
<1> HIDE DEF chain, S, n
<1>6. SubSeq(chain, 1, Len(chain)) = chain
  BY <1>4, SubSeqFull
<1> QED
  BY <1>4, <1>5, <1>6 DEF chain, S, n

LEMMA GapOfCopies ==
    ASSUME SimInv, RowsInv, CopyInv, broken,
           \A t \in Times("insider") : ~(EndOfChain =< t /\ t =< GapTime),
           \A i \in 1 .. Events : rows[i].ts = EndOfChain => i = Events,
           Copied(Events), Copied(Events + 1)
    PROVE  LET chain == ByTime(Elements(graph.events), FALSE) IN
           \E k \in GapAnomalies(chain) : chain[k + 1].kind = "gap"
<1> DEFINE S == Elements(graph.events)
<1>1. /\ Events \in DOMAIN rows /\ Events + 1 \in DOMAIN rows
      /\ rows[Events + 1].kind = "gap" /\ rows[Events].to # rows[Events + 1].from
      /\ Precedes(rows[Events], rows[Events + 1], FALSE)
      /\ \A i \in DOMAIN rows : ~(/\ Precedes(rows[Events], rows[i], FALSE)
                                 /\ Precedes(rows[i], rows[Events + 1], FALSE))
  BY GapFollows
<1>2. /\ IsFiniteSet(S)
      /\ \A e \in S : e.ts \in Nat /\ e.id \in Nat
      /\ \A x, y \in S : x.id = y.id => x = y
      /\ \A e \in S :
            /\ e.id \in DOMAIN rows
            /\ e.to = rows[e.id].to /\ e.ts = rows[e.id].ts /\ e.kind = rows[e.id].kind
            /\ e.from = IF e.kind = "custody" THEN None ELSE rows[e.id].from
  BY CopiesAreEvents
<1>3. \A i \in DOMAIN rows : rows[i] \in Row /\ rows[i].id = i
  BY Sequences
<1>4. PICK a \in S, b \in S : a.id = Events /\ b.id = Events + 1
  BY <1>1, <1>3 DEF Copied, Elements
<1>5. \A x, y \in S : Precedes(x, y, FALSE) <=> Precedes(rows[x.id], rows[y.id], FALSE)
  BY <1>2, <1>3 DEF Precedes
<1> HIDE DEF S
<1>6. b.kind = "gap" /\ b.from = rows[Events + 1].from /\ a.to = rows[Events].to
  BY <1>1, <1>2, <1>4
<1>7. a.to # None /\ b.from # None /\ a.to # b.from
  BY <1>1, <1>3, <1>6, ReadersAssumption DEF Row
<1>8. /\ Precedes(a, b, FALSE)
      /\ \A e \in S : ~(Precedes(a, e, FALSE) /\ Precedes(e, b, FALSE))
  <2>1. Precedes(a, b, FALSE)
    BY <1>1, <1>4, <1>5
  <2>2. ASSUME NEW e \in S, Precedes(a, e, FALSE), Precedes(e, b, FALSE) PROVE FALSE
    <3>1. Precedes(rows[Events], rows[e.id], FALSE) /\ Precedes(rows[e.id], rows[Events + 1], FALSE)
      BY <1>4, <1>5, <2>2
    <3>2. e.id \in DOMAIN rows
      BY <1>2
    <3> QED
      BY <1>1, <3>1, <3>2
  <2> QED
    BY <2>1, <2>2
<1>9. \E k \in GapAnomalies(ByTime(S, FALSE)) : ByTime(S, FALSE)[k + 1].kind = "gap"
  BY <1>2, <1>6, <1>7, <1>8, GapIsShown
<1> QED
  BY <1>9 DEF S

(* The custody view has injected events only, and no gap of theirs; its    *)
(* fallback has the gap, and the anomaly endpoint if its ends are copied.  *)
THEOREM ViewCorrect == Spec => []ViewMissesInjectedGaps
<1> DEFINE T == {e \in Elements(graph.events) : IsTransfer(e)}
           chain == ByTime(T, FALSE)
           n == Cardinality(T)
<1>1. ASSUME SimInv, CopyInv
      PROVE  /\ n \in Nat /\ Len(chain) = n /\ DOMAIN chain = 1 .. n
             /\ \A i \in 1 .. n : chain[i] \in T
             /\ \A i, j \in 1 .. n : i < j => Precedes(chain[i], chain[j], FALSE)
             /\ \A e \in T : e.ts \in Nat /\ e.id \in Nat
             /\ \A a, b \in T : a.id = b.id => a = b
  <2>1. /\ IsFiniteSet(Elements(graph.events))
        /\ \A e \in Elements(graph.events) : e.ts \in Nat /\ e.id \in Nat
        /\ \A a, b \in Elements(graph.events) : a.id = b.id => a = b
    BY <1>1, CopiesAreEvents
  <2>2. T \in SUBSET Elements(graph.events)
    OBVIOUS
  <2>3. IsFiniteSet(T)
    BY <2>1, <2>2, FS_Subset
  <2>4. /\ \A e \in T : e.ts \in Nat /\ e.id \in Nat
        /\ \A a, b \in T : a.id = b.id => a = b
    BY <2>1, <2>2
  <2> HIDE DEF T
  <2> QED
    BY <2>3, <2>4, Ordered
<1>2. ASSUME SimInv, CopyInv, NEW e \in T
      PROVE  /\ e.kind # "custody" /\ e.id \in DOMAIN rows /\ e.kind = rows[e.id].kind
  <2>1. e \in Elements(graph.events) /\ e.from # None
    BY <1>2 DEF IsTransfer
  <2> QED
    BY <1>2, <2>1, CopiesAreEvents
<1>3. NeoChain(graph) = IF graph.linked THEN chain ELSE <<>>
  BY DEF NeoChain
<1>4. ASSUME SimInv, CopyInv, NEW i \in DOMAIN NeoChain(graph)
      PROVE  NeoChain(graph)[i].kind # "custody"
  <2>1. graph.linked /\ NeoChain(graph) = chain
    <3>1. DOMAIN <<>> = {}
      OBVIOUS
    <3> HIDE DEF chain
    <3> QED
      BY <1>3, <1>4, <3>1
  <2> HIDE DEF chain, T
  <2>2. chain[i] \in T
    BY <1>1, <1>4, <2>1
  <2> QED
    BY <1>2, <1>4, <2>1, <2>2
<1>5. ASSUME SimInv, RowsInv, CopyInv, ~cyclic, Times("insider") = {}
      PROVE  Gaps(NeoChain(graph)) = {}
  <2>1. ASSUME NEW e \in T PROVE e.id = Events + 1
    <3>1. e.kind # "custody" /\ e.id \in DOMAIN rows /\ e.kind = rows[e.id].kind
      BY <1>2, <1>5, <2>1
    <3>2. rows[e.id].kind # "cycle"
      BY <1>5, <3>1 DEF RowsInv, CycleOK
    <3>3. rows[e.id].kind # "insider"
      BY <1>5, <3>1 DEF Times
    <3>4. rows[e.id].kind = "gap"
      BY <1>5, <3>1, <3>2, <3>3, RowsAreEvents DEF Kind
    <3> QED
      BY <1>5, <3>1, <3>4 DEF RowsInv, GapOK
  <2> HIDE DEF chain, T, n
  <2>2. ~(1 < n)
    <3>1. ASSUME 1 < n PROVE FALSE
      <4>1. 1 \in 1 .. n /\ 2 \in 1 .. n /\ 1 < 2
        BY <1>1, <1>5, <3>1
      <4>2. chain[1] \in T /\ chain[2] \in T /\ Precedes(chain[1], chain[2], FALSE)
        BY <1>1, <1>5, <4>1
      <4>3. chain[1] = chain[2]
        BY <1>1, <1>5, <2>1, <4>2
      <4> QED
        BY <1>1, <1>5, <4>2, <4>3, PrecedesOrders
    <3> QED
      BY <3>1
  <2>3. Steps(chain) = {} /\ Steps(<<>>) = {}
    BY <1>1, <1>5, <2>2 DEF Steps
  <2> QED
    BY <1>3, <2>3 DEF Gaps
<1>6. ASSUME SimInv, RowsInv, CopyInv, broken, Times("insider") = {},
             Cardinality(Times("custody")) = Events
      PROVE  /\ Gaps(SqlChain(FALSE)) # {}
             /\ \A read \in {0, Len(graph.events)} :
                   read = 0 \/ (Copied(Events) /\ Copied(Events + 1)) =>
                      LET full == FullChain(SqlChain(FALSE), graph, read) IN
                      \E k \in GapAnomalies(full) : full[k + 1].kind = "gap"
  <2>1. pc # "custody" /\ \A i, j \in 1 .. Events : rows[i].ts = rows[j].ts => i = j
    BY <1>6, TimesDiffer
  <2>2. EndOfChain = rows[Events].ts /\ Events \in 1 .. Events
    BY <1>6, <2>1, Ends, SimulatedAssumption
  <2>3. /\ \A i \in 1 .. Events : rows[i].ts = EndOfChain => i = Events
        /\ \A t \in Times("insider") : ~(EndOfChain =< t /\ t =< GapTime)
    BY <1>6, <2>1, <2>2
  <2>4. LET full == SqlChain(FALSE) IN
        /\ Gaps(full) # {}
        /\ \E k \in GapAnomalies(full) : full[k + 1].kind = "gap"
    BY <1>6, <2>3, GapOfRows
  <2>5. FullChain(SqlChain(FALSE), graph, 0) = SqlChain(FALSE)
    BY DEF FullChain
  <2>6. ASSUME Copied(Events), Copied(Events + 1)
        PROVE  LET full == FullChain(SqlChain(FALSE), graph, Len(graph.events)) IN
               \E k \in GapAnomalies(full) : full[k + 1].kind = "gap"
    <3>1. graph.events # <<>>
      BY <2>6 DEF Copied
    <3>2. FullChain(SqlChain(FALSE), graph, Len(graph.events))
             = ByTime(Elements(graph.events), FALSE)
      BY <1>6, <3>1, WholeChainIsShown
    <3>3. LET full == ByTime(Elements(graph.events), FALSE) IN
          \E k \in GapAnomalies(full) : full[k + 1].kind = "gap"
      BY <1>6, <2>3, <2>6, GapOfCopies
    <3> QED
      BY <3>2, <3>3
  <2> QED
    BY <2>4, <2>5, <2>6
<1> HIDE DEF T, chain, n
<1>7. SimInv /\ RowsInv /\ CopyInv => ViewMissesInjectedGaps
  BY <1>4, <1>5, <1>6 DEF ViewMissesInjectedGaps, ViewGaps
<1> QED
  BY <1>7, SimulationHolds, RowsHold, CopiesHold, PTL

(* An item without an injected gap is counted for a cause.                 *)
THEOREM CausesCorrect == Spec => []FalseGapsHaveACause
<1>1. ASSUME SimInv, RowsInv, ~broken, ~cyclic, Times("insider") = {},
             Cardinality(Times("custody")) = Events, NEW reverse \in BOOLEAN, LeadGap(reverse)
      PROVE  FALSE
  <2> DEFINE S == Elements(rows)
  <2>1. pc # "custody" /\ \A i, j \in 1 .. Events : rows[i].ts = rows[j].ts => i = j
    BY <1>1, TimesDiffer
  <2>2. /\ IsFiniteSet(S)
        /\ \A e \in S : e.ts \in Nat /\ e.id \in Nat
        /\ \A x, y \in S : x.id = y.id => x = y
        /\ \A i \in DOMAIN rows : rows[i] \in S /\ rows[i].ts \in Nat /\ rows[i].kind \in Kind
    BY <1>1, RowsAreEvents
  <2>3. Len(rows) \in Nat /\ DOMAIN rows = 1 .. Len(rows)
    BY <1>1, Sequences
  <2>4. ASSUME NEW i \in DOMAIN rows PROVE i \in 1 .. Events
    <3>1. rows[i].kind = "custody"
      <4>1. rows[i].kind # "gap"
        BY <1>1 DEF RowsInv, GapOK
      <4>2. rows[i].kind # "cycle"
        BY <1>1 DEF RowsInv, CycleOK
      <4>3. rows[i].kind # "insider"
        BY <1>1 DEF Times
      <4> QED
        BY <2>2, <4>1, <4>2, <4>3 DEF Kind
    <3> QED
      BY <1>1, <2>3, <3>1 DEF RowsInv, CustodyOK
  <2>5. PICK i \in Steps(ByTime(S, reverse)) :
           ByTime(S, reverse)[i].to # ByTime(S, reverse)[i + 1].from
    BY <1>1 DEF LeadGap, Gaps, SqlChain
  <2> DEFINE a == ByTime(S, reverse)[i]
             b == ByTime(S, reverse)[i + 1]
  <2>6. /\ a \in S /\ b \in S /\ Precedes(a, b, reverse)
        /\ \A e \in S : ~(Precedes(a, e, reverse) /\ Precedes(e, b, reverse))
    <3> HIDE DEF S
    <3> QED
      BY <2>2, NoneBetween
  <2>7. PICK p \in DOMAIN rows, q \in DOMAIN rows : rows[p] = a /\ rows[q] = b
    BY <2>6 DEF Elements
  <2>8. a.to # b.from
    BY <2>5
  <2> HIDE DEF a, b, S
  <2>9. p \in 1 .. Events /\ q \in 1 .. Events /\ Events \in Nat
    BY <2>4, SimulatedAssumption
  <2>10. rows[p].ts =< rows[q].ts /\ rows[p].ts \in Nat /\ rows[q].ts \in Nat
    BY <2>2, <2>6, <2>7 DEF Precedes
  <2>11. p < q
    <3>1. p # q
      BY <2>2, <2>6, <2>7, PrecedesOrders
    <3>2. q < p => rows[q].ts =< rows[p].ts
      BY <1>1, <2>9 DEF RowsInv, CustodyOK
    <3> QED
      BY <2>1, <2>9, <2>10, <3>1, <3>2
  <2>12. p + 1 \in 1 .. Events /\ p \in 1 .. Events - 1 /\ p + 1 =< q /\ p =< p + 1
    BY <2>9, <2>11
  <2>13. p + 1 \in DOMAIN rows
    BY <2>3, <2>12
  <2>14. rows[p].to = rows[p + 1].from
    BY <1>1, <2>12, <2>13 DEF RowsInv, CustodyOK
  <2>15. p + 1 # q
    BY <2>7, <2>8, <2>14
  <2>16. rows[p].ts < rows[p + 1].ts /\ rows[p + 1].ts < rows[q].ts
    <3>1. rows[p].ts =< rows[p + 1].ts /\ rows[p + 1].ts =< rows[q].ts
      BY <1>1, <2>9, <2>12, <2>13 DEF RowsInv, CustodyOK
    <3>2. rows[p].ts # rows[p + 1].ts /\ rows[p + 1].ts # rows[q].ts
      <4>1. p # p + 1
        BY <2>9
      <4> QED
        BY <2>1, <2>9, <2>12, <2>15, <4>1
    <3> QED
      BY <2>2, <2>10, <2>13, <3>1, <3>2
  <2>17. Precedes(a, rows[p + 1], reverse) /\ Precedes(rows[p + 1], b, reverse)
    BY <2>7, <2>16 DEF Precedes
  <2> QED
    BY <2>2, <2>6, <2>13, <2>17
<1>2. SimInv /\ RowsInv => FalseGapsHaveACause
  BY <1>1 DEF FalseGapsHaveACause, RunExperiment2, CyberExperiment2, SimInv, TypeOK
<1> QED
  BY <1>2, SimulationHolds, RowsHold, PTL

=============================================================================
