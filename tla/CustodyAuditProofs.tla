-------------------------- MODULE CustodyAuditProofs --------------------------
(***************************************************************************)
(* Proofs about CustodyAudit, for any users, workers and kinds of failure  *)
(* and any number of transfers, seals and reports.                         *)
(***************************************************************************)
EXTENDS CustodyAudit, FiniteSetTheorems, SequenceTheorems, WellFoundedInduction, TLAPS

-----------------------------------------------------------------------------
(* The chain sorted by time, of any events. *)

LEMMA PrecedesOrders ==
    ASSUME NEW a, NEW b, NEW c, NEW reverse \in BOOLEAN,
           a.ts \in Nat, b.ts \in Nat, c.ts \in Nat, a.id \in Nat, b.id \in Nat, c.id \in Nat
    PROVE  /\ ~Precedes(a, a, reverse)
           /\ Precedes(a, b, reverse) /\ Precedes(b, c, reverse) => Precedes(a, c, reverse)
           /\ a.id # b.id => Precedes(a, b, reverse) \/ Precedes(b, a, reverse)
BY DEF Precedes

(* ByTime puts each event once, in the order of the timestamps, if no two  *)
(* events have one id: the positions are as many as the events, and no two *)
(* events have the same.                                                   *)
LEMMA Ordered ==
    ASSUME NEW S, IsFiniteSet(S), NEW reverse \in BOOLEAN,
           \A e \in S : e.ts \in Nat /\ e.id \in Nat,
           \A a, b \in S : a.id = b.id => a = b
    PROVE  LET chain == ByTime(S, reverse)  n == Cardinality(S) IN
           /\ n \in Nat
           /\ chain \in Seq(S) /\ Len(chain) = n /\ DOMAIN chain = 1 .. n
           /\ \A i \in 1 .. n : chain[i] \in S
           /\ \A i, j \in 1 .. n : i < j => Precedes(chain[i], chain[j], reverse)
           /\ \A e \in S : \E i \in 1 .. n : chain[i] = e
<1> DEFINE n == Cardinality(S)
           Before(e) == {x \in S : Precedes(x, e, reverse)}
           position == [e \in S |-> Cardinality(Before(e)) + 1]
           chain == [k \in 1 .. n |-> CHOOSE e \in S : Cardinality(Before(e)) + 1 = k]
<1>1. n \in Nat
  BY FS_CardinalityType
<1>2. ASSUME NEW e \in S PROVE position[e] \in 1 .. n
  <2>1. Before(e) \in SUBSET S /\ e \notin Before(e)
    BY PrecedesOrders
  <2> HIDE DEF Before
  <2>2. /\ IsFiniteSet(Before(e)) /\ Cardinality(Before(e)) =< n
        /\ Cardinality(Before(e)) # n
    BY <2>1, FS_Subset
  <2>3. Cardinality(Before(e)) \in Nat
    BY <2>2, FS_CardinalityType
  <2> HIDE DEF n
  <2> QED
    BY <1>1, <2>2, <2>3
<1>3. ASSUME NEW a \in S, NEW b \in S, Precedes(a, b, reverse)
      PROVE  position[a] < position[b]
  <2>1. Before(a) \in SUBSET Before(b)
    BY <1>3, PrecedesOrders
  <2>2. a \in Before(b) /\ a \notin Before(a) /\ Before(b) \in SUBSET S
    BY <1>3, PrecedesOrders
  <2>3. position[a] \in 1 .. n /\ position[b] \in 1 .. n
    BY <1>2
  <2> HIDE DEF Before, n
  <2>4. IsFiniteSet(Before(b))
    BY <2>2, FS_Subset
  <2>5. Cardinality(Before(a)) =< Cardinality(Before(b)) /\ Cardinality(Before(a)) # Cardinality(Before(b))
    BY <2>1, <2>2, <2>4, FS_Subset
  <2>6. IsFiniteSet(Before(a))
    BY <2>1, <2>4, FS_Subset
  <2>7. Cardinality(Before(a)) \in Nat /\ Cardinality(Before(b)) \in Nat
    BY <2>4, <2>6, FS_CardinalityType
  <2> QED
    BY <2>5, <2>7
<1>4. \A a, b \in S : position[a] = position[b] => a = b
  <2> SUFFICES ASSUME NEW a \in S, NEW b \in S, a # b PROVE position[a] # position[b]
    OBVIOUS
  <2>1. Precedes(a, b, reverse) \/ Precedes(b, a, reverse)
    BY PrecedesOrders
  <2>2. position[a] \in 1 .. n /\ position[b] \in 1 .. n
    BY <1>2
  <2> HIDE DEF position, n
  <2> QED
    BY <1>1, <1>3, <2>1, <2>2
<1>5. \A k \in 1 .. n : \E e \in S : position[e] = k
  <2>1. position \in [S -> 1 .. n]
    BY <1>2
  <2>2. IsFiniteSet(1 .. n) /\ Cardinality(1 .. n) = n
    BY <1>1, FS_Interval
  <2> HIDE DEF position
  <2>3. position \in Injection(S, 1 .. n)
    BY <1>4, <2>1 DEF Injection, IsInjective
  <2>4. position \in Surjection(S, 1 .. n)
    BY <2>2, <2>3, FS_Injection
  <2> QED
    BY <2>4 DEF Surjection
<1>6. \A k \in 1 .. n : chain[k] \in S /\ position[chain[k]] = k
  BY <1>5
<1>9. ByTime(S, reverse) = chain
  BY DEF ByTime
<1> HIDE DEF position
<1>7. \A e \in S : chain[position[e]] = e
  BY <1>2, <1>4, <1>6
<1>8. ASSUME NEW i \in 1 .. n, NEW j \in 1 .. n, i < j
      PROVE  Precedes(chain[i], chain[j], reverse)
  <2>1. chain[i] \in S /\ chain[j] \in S /\ position[chain[i]] = i /\ position[chain[j]] = j
    BY <1>6
  <2>2. chain[i] # chain[j] /\ ~(position[chain[j]] < position[chain[i]])
    <3> HIDE DEF chain, n
    <3> QED BY <1>1, <1>8, <2>1
  <2>3. ~Precedes(chain[j], chain[i], reverse)
    BY <1>3, <2>1, <2>2
  <2> HIDE DEF chain
  <2> QED
    BY <2>1, <2>2, <2>3, PrecedesOrders
<1>10. chain \in [1 .. n -> S]
  BY <1>6
<1> HIDE DEF n, chain
<1>11. chain \in Seq(S) /\ Len(chain) = n /\ DOMAIN chain = 1 .. n
  BY <1>1, <1>10
<1>12. \A e \in S : \E i \in 1 .. n : chain[i] = e
  BY <1>2, <1>7
<1> QED
  BY <1>1, <1>6, <1>8, <1>9, <1>11, <1>12 DEF n

(* The events of a sequence in which each has an id of its own are as many *)
(* as its places.                                                          *)
LEMMA ElementsOf ==
    ASSUME NEW S, NEW s \in Seq(S), \A i, j \in DOMAIN s : s[i].id = s[j].id => i = j
    PROVE  /\ IsFiniteSet(Elements(s)) /\ Cardinality(Elements(s)) = Len(s)
           /\ \A a, b \in Elements(s) : a.id = b.id => a = b
<1>1. DOMAIN s = 1 .. Len(s) /\ Len(s) \in Nat
  OBVIOUS
<1>2. IsFiniteSet(1 .. Len(s)) /\ Cardinality(1 .. Len(s)) = Len(s)
  BY <1>1, FS_Interval
<1> DEFINE f == [i \in 1 .. Len(s) |-> s[i]]
<1>3. f \in Surjection(1 .. Len(s), Elements(s))
  BY <1>1 DEF Surjection, Elements
<1>4. f \in Injection(1 .. Len(s), Elements(s))
  <2>1. \A i, j \in 1 .. Len(s) : f[i] = f[j] => i = j
    BY <1>1
  <2>2. f \in [1 .. Len(s) -> Elements(s)]
    BY <1>1 DEF Elements
  <2> HIDE DEF f
  <2> QED
    BY <2>1, <2>2 DEF Injection, IsInjective
<1> HIDE DEF f
<1>5. IsFiniteSet(Elements(s)) /\ Cardinality(Elements(s)) = Cardinality(1 .. Len(s))
  BY <1>2, <1>3, <1>4, FS_Surjection
<1>6. \A a, b \in Elements(s) : a.id = b.id => a = b
  BY DEF Elements
<1> QED
  BY <1>2, <1>5, <1>6

(* Two events of a part of the events, next to each other in the chain of  *)
(* the part, are next to each other in the chain of all, or what comes     *)
(* next in that chain is between them and not of the part.                 *)
LEMMA NextInChain ==
    ASSUME NEW S, IsFiniteSet(S), NEW T \in SUBSET S, NEW reverse \in BOOLEAN,
           \A e \in S : e.ts \in Nat /\ e.id \in Nat,
           \A a, b \in S : a.id = b.id => a = b,
           NEW i \in 1 .. Cardinality(T) - 1
    PROVE  LET full == ByTime(S, reverse)  chain == ByTime(T, reverse) IN
           \E p \in 1 .. Cardinality(S) - 1 :
              /\ full[p] = chain[i]
              /\ \/ full[p + 1] = chain[i + 1]
                 \/ /\ full[p + 1] \in S \ T
                    /\ Precedes(chain[i], full[p + 1], reverse)
                    /\ Precedes(full[p + 1], chain[i + 1], reverse)
<1> DEFINE full == ByTime(S, reverse)
           chain == ByTime(T, reverse)
           n == Cardinality(S)
           m == Cardinality(T)
           Before(a, b) == Precedes(a, b, reverse)
<1>1. IsFiniteSet(T)
  BY FS_Subset
<1>2. /\ n \in Nat /\ \A k \in 1 .. n : full[k] \in S
      /\ \A k, l \in 1 .. n : k < l => Before(full[k], full[l])
      /\ \A e \in S : \E k \in 1 .. n : full[k] = e
  BY Ordered, SMTT(60)
<1>3. /\ m \in Nat /\ \A k \in 1 .. m : chain[k] \in T
      /\ \A k, l \in 1 .. m : k < l => Before(chain[k], chain[l])
      /\ \A e \in T : \E k \in 1 .. m : chain[k] = e
  BY <1>1, Ordered
<1>4. \A a, b, c \in S :
         /\ ~Before(a, a)
         /\ Before(a, b) => ~Before(b, a)
         /\ Before(a, b) /\ Before(b, c) => Before(a, c)
  BY PrecedesOrders
<1>5. i \in 1 .. m - 1
  OBVIOUS
<1> HIDE DEF full, chain, n, m, Before
<1>6. /\ i \in 1 .. m /\ i + 1 \in 1 .. m
      /\ Before(chain[i], chain[i + 1]) /\ chain[i] \in S /\ chain[i + 1] \in S
  BY <1>3, <1>5
<1>7. PICK p \in 1 .. n, q \in 1 .. n : full[p] = chain[i] /\ full[q] = chain[i + 1]
  BY <1>2, <1>6
<1>8. p < q
  <2>1. CASE p = q
    BY <1>4, <1>6, <1>7, <2>1
  <2>2. CASE q < p
    BY <1>2, <1>4, <1>6, <1>7, <2>2
  <2> QED
    BY <1>2, <2>1, <2>2
<1>9. p \in 1 .. n - 1 /\ p + 1 \in 1 .. n
  BY <1>2, <1>8
<1>10. CASE p + 1 = q
  BY <1>7, <1>9, <1>10 DEF full, chain, n
<1>11. CASE p + 1 # q
  <2>1. p < p + 1 /\ p + 1 < q
    BY <1>2, <1>8, <1>11
  <2>2. Before(chain[i], full[p + 1]) /\ Before(full[p + 1], chain[i + 1])
    BY <1>2, <1>7, <1>9, <2>1
  <2>3. full[p + 1] \in S
    BY <1>2, <1>9
  <2>4. ASSUME full[p + 1] \in T PROVE FALSE
    <3>1. PICK k \in 1 .. m : chain[k] = full[p + 1]
      BY <1>3, <2>4
    <3>2. k # i /\ k # i + 1
      BY <1>4, <1>6, <2>2, <3>1
    <3>3. CASE k < i
      BY <1>3, <1>4, <1>6, <2>2, <2>3, <3>1, <3>3
    <3>4. CASE i + 1 < k
      BY <1>3, <1>4, <1>6, <2>2, <2>3, <3>1, <3>4
    <3> QED
      BY <1>3, <1>5, <3>2, <3>3, <3>4
  <2> QED
    BY <1>7, <1>9, <2>2, <2>3, <2>4 DEF full, chain, n, Before
<1> QED
  BY <1>10, <1>11

-----------------------------------------------------------------------------
(* The rules of the anomaly endpoint. *)

(* A set of numbers that is not empty has a least one: what an induction   *)
(* needs, as a fact about sets.                                            *)
LEMMA Least ==
    ASSUME NEW S \in SUBSET Nat, S # {}
    PROVE  \E m \in S : \A x \in S : m =< x
<1>1. PICK m \in S : \A x \in S : ~(<<x, m>> \in OpToRel(<, Nat))
  <2> HIDE DEF OpToRel
  <2> QED
    BY NatLessThanWellFounded, WFMin
<1>2. ASSUME NEW x \in S PROVE ~(x < m)
  BY <1>1, <1>2 DEF OpToRel
<1>3. \A x \in S : x \in Nat
  OBVIOUS
<1> QED
  BY <1>2, <1>3

(* Where the cycle rule of the anomaly endpoint reports step i, the step   *)
(* before it is a gap: the giver of step i has received the evidence, but  *)
(* not in step i - 1.                                                      *)
LEMMA CyclesFollowGaps ==
    ASSUME NEW S, NEW chain \in Seq(S), NEW i \in CycleAnomalies(chain)
    PROVE  i - 1 \in Gaps(chain)
<1> DEFINE earlier == Received(chain, chain[i].from) \cap 1 .. i
<1>1. i \in 1 .. Len(chain) /\ Len(chain) \in Nat /\ DOMAIN chain = 1 .. Len(chain)
  BY DEF CycleAnomalies
<1>2. PICK j \in earlier : j < i - 1
  BY DEF CycleAnomalies
<1>3. j \in 1 .. i
  BY <1>2
<1>4. i - 1 \in Steps(chain) /\ i - 1 \in DOMAIN chain /\ i - 1 \in 1 .. i
  BY <1>1, <1>2, <1>3 DEF Steps
<1>5. i - 1 \notin earlier
  BY <1>4 DEF CycleAnomalies
<1>6. chain[i - 1].to # chain[(i - 1) + 1].from
  BY <1>1, <1>4, <1>5 DEF Received
<1> QED
  BY <1>4, <1>6 DEF Gaps

(* One step of the loop of rule 3. *)
Named(chain) == UNION {StepsNamed(chain, i) : i \in CycleAnomalies(chain)}
UsersAt(chain, i) == {chain[i].from, chain[i].to}
Flag(chain, i, before) ==
    IF /\ Exchanged(chain, i)
       /\ UsersAt(chain, i) \cap (Named(chain) \cup UNION {UsersAt(chain, j) : j \in before}) = {}
    THEN before \cup {i}
    ELSE before

LEMMA ExchangesDef ==
    ASSUME NEW chain
    PROVE  Exchanges(chain) =
             (CHOOSE f : f = [i \in 0 .. Len(chain) |-> IF i = 0 THEN {} ELSE Flag(chain, i, f[i - 1])])[Len(chain)]
BY DEF Exchanges, Flag, Named, UsersAt

LEMMA FlagsExist ==
    ASSUME NEW chain, NEW n \in Nat
    PROVE  \E f : f = [i \in 0 .. n |-> IF i = 0 THEN {} ELSE Flag(chain, i, f[i - 1])]
<1> DEFINE Flags(f, k) ==
              f = [i \in 0 .. k |-> IF i = 0 THEN {} ELSE Flag(chain, i, f[i - 1])]
           Missing == {k \in Nat : ~\E f : Flags(f, k)}
<1>1. ASSUME Missing # {} PROVE FALSE
  <2>1. PICK m \in Missing : \A k \in Missing : m =< k
    <3> HIDE DEF Missing
    <3>1. Missing \in SUBSET Nat
      BY DEF Missing
    <3> QED
      BY <1>1, <3>1, Least
  <2>2. m \in Nat
    OBVIOUS
  <2>3. m # 0
    <3>1. Flags([i \in 0 .. 0 |-> {}], 0)
      OBVIOUS
    <3> QED
      BY <3>1
  <2>4. m - 1 \in Nat /\ m - 1 \notin Missing
    <3> HIDE DEF Missing
    <3> QED
      BY <2>1, <2>2, <2>3
  <2>5. PICK g : Flags(g, m - 1)
    BY <2>4
  <2> DEFINE h == [i \in 0 .. m |-> IF i < m THEN g[i] ELSE Flag(chain, m, g[m - 1])]
  <2>6. ASSUME NEW i \in 0 .. m
        PROVE  h[i] = IF i = 0 THEN {} ELSE Flag(chain, i, h[i - 1])
    <3>1. CASE i < m
      <4>1. i \in 0 .. m - 1
        BY <2>2, <3>1
      <4>2. g[i] = IF i = 0 THEN {} ELSE Flag(chain, i, g[i - 1])
        BY <2>5, <4>1
      <4>3. i # 0 => i - 1 \in 0 .. m /\ i - 1 < m
        BY <2>2
      <4> QED
        BY <3>1, <4>2, <4>3
    <3>2. CASE i = m
      <4>1. m - 1 \in 0 .. m /\ m - 1 < m /\ ~(m < m)
        BY <2>2, <2>3
      <4> QED
        BY <2>3, <3>2, <4>1
    <3> QED
      BY <2>2, <3>1, <3>2
  <2>7. Flags(h, m)
    BY <2>6
  <2> QED
    BY <2>7
<1> QED
  BY <1>1

(* An exchange is flagged, unless it is dropped for something that is      *)
(* reported.                                                               *)
LEMMA SomethingIsReported ==
    ASSUME NEW chain, Len(chain) \in Nat, NEW i \in 1 .. Len(chain), Exchanged(chain, i)
    PROVE  CycleAnomalies(chain) \cup Exchanges(chain) # {}
<1> SUFFICES ASSUME CycleAnomalies(chain) = {} PROVE Exchanges(chain) # {}
  OBVIOUS
<1> DEFINE n == Len(chain)
           Flags(f) == f = [k \in 0 .. n |-> IF k = 0 THEN {} ELSE Flag(chain, k, f[k - 1])]
           flagged == CHOOSE f : Flags(f)
           Empty == {k \in i .. n : flagged[k] = {}}
<1>1. Flags(flagged)
  <2>1. \E f : Flags(f)
    BY FlagsExist
  <2> HIDE DEF Flags
  <2> QED
    BY <2>1
<1>2. Exchanges(chain) = flagged[n]
  BY ExchangesDef
<1> HIDE DEF flagged
<1> HIDE DEF n
<1>3. n \in Nat /\ i \in 1 .. n
  BY DEF n
<1>6. ASSUME NEW k \in 1 .. n PROVE flagged[k] = Flag(chain, k, flagged[k - 1])
  <2>1. k \in 0 .. n /\ k # 0
    BY <1>3
  <2> QED
    BY <1>1, <2>1
<1>4. ASSUME Empty # {} PROVE FALSE
  <2>1. PICK m \in Empty : \A k \in Empty : m =< k
    <3>1. Empty \in SUBSET Nat
      BY <1>3
    <3> HIDE DEF Empty
    <3> QED
      BY <1>4, <3>1, Least
  <2>2. m \in i .. n /\ m \in 1 .. n /\ flagged[m] = {}
    BY <1>3
  <2>3. flagged[m - 1] = {}
    BY <1>6, <2>2 DEF Flag
  <2>4. m = i
    <3>1. m - 1 \notin Empty
      BY <2>1, <2>2
    <3> QED
      BY <1>3, <2>2, <2>3, <3>1
  <2>5. Named(chain) = {}
    BY DEF Named
  <2>6. Flag(chain, m, {}) = {m}
    BY <2>4, <2>5 DEF Flag
  <2> QED
    BY <1>6, <2>2, <2>3, <2>6
<1>5. n \in i .. n
  BY <1>3
<1> QED
  BY <1>2, <1>4, <1>5

-----------------------------------------------------------------------------
(* A sequence with one element inserted: it has the old elements and the   *)
(* new one, and no others.                                                 *)
LEMMA Insertion ==
    ASSUME NEW S, NEW s \in Seq(S), NEW k \in 0 .. Len(s), NEW e \in S
    PROVE  LET t == InsertAt(s, k + 1, e) IN
           /\ t \in Seq(S)
           /\ \A i \in DOMAIN s : \E j \in DOMAIN t : t[j] = s[i]
           /\ \E j \in DOMAIN t : t[j] = e
           /\ DOMAIN t = 1 .. Len(s) + 1 /\ t[k + 1] = e
           /\ \A j \in 1 .. k : t[j] = s[j]
           /\ \A j \in k + 2 .. Len(s) + 1 : t[j] = s[j - 1]
<1>1. Len(s) \in Nat /\ k \in Nat /\ k =< Len(s) /\ DOMAIN s = 1 .. Len(s)
  OBVIOUS
<1>split. k = Len(s) \/ k < Len(s)
  <2>1. \A m, n \in Nat : m =< n => m = n \/ m < n
    OBVIOUS
  <2> QED
    BY <1>1, <2>1
<1> DEFINE a == SubSeq(s, 1, k)
           b == SubSeq(s, k + 1, Len(s))
           t == InsertAt(s, k + 1, e)
<1>2. /\ a \in Seq(S) /\ Len(a) = k
      /\ \A i \in 1 .. k : a[i] = s[i]
  BY <1>1, SubSeqProperties
<1>3. b \in Seq(S) /\ Len(b) = Len(s) - k
  <2>1. /\ b \in Seq(S)
        /\ Len(b) = IF k + 1 =< Len(s) THEN Len(s) - (k + 1) + 1 ELSE 0
    <3>1. k + 1 \in Int /\ Len(s) \in Int /\ \A i \in k + 1 .. Len(s) : s[i] \in S
      BY <1>1
    <3> QED
      BY <3>1, SubSeqProperties
  <2>2. CASE k = Len(s)
    BY <1>1, <2>1, <2>2
  <2>3. CASE k < Len(s)
    <3>1. k + 1 =< Len(s) /\ Len(s) - (k + 1) + 1 = Len(s) - k
      BY <1>1, <2>3
    <3> QED
      BY <2>1, <3>1
  <2> QED
    BY <1>split, <2>2, <2>3
<1>4. ASSUME NEW i \in 1 .. Len(s) - k PROVE b[i] = s[k + i]
  <2>1. b[i] = s[k + 1 + i - 1]
    BY <1>1, SubSeqProperties
  <2>2. k + 1 + i - 1 = k + i
    BY <1>1
  <2> QED
    BY <2>1, <2>2
<1>5. t = a \o <<e>> \o b
  <2>1. (k + 1) - 1 = k
    BY <1>1
  <2> QED
    BY <2>1 DEF InsertAt
<1> DEFINE c == a \o <<e>>
<1> HIDE DEF a, b, t
<1>6. /\ c \in Seq(S) /\ Len(c) = k + 1
      /\ c[k + 1] = e
      /\ \A i \in 1 .. k : c[i] = s[i]
  BY <1>1, <1>2
<1>7. t = c \o b
  BY <1>5
<1> HIDE DEF c
<1>8. t \in Seq(S) /\ Len(t) = Len(s) + 1 /\ DOMAIN t = 1 .. Len(s) + 1
  <2>1. t \in Seq(S) /\ Len(t) = Len(c) + Len(b)
    BY <1>3, <1>6, <1>7, ConcatProperties
  <2> QED
    BY <1>1, <1>3, <1>6, <2>1
<1>9. ASSUME NEW i \in DOMAIN s PROVE \E j \in DOMAIN t : t[j] = s[i]
  <2>1. CASE i =< k
    <3>1. t[i] = c[i] /\ c[i] = s[i] /\ i \in DOMAIN t
      BY <1>1, <1>3, <1>6, <1>7, <1>8, <2>1, ConcatProperties
    <3> QED
      BY <3>1
  <2>2. CASE i > k
    <3>1. i + 1 \in DOMAIN t /\ i - k \in 1 .. Len(s) - k
      BY <1>1, <1>8, <2>2
    <3>2. t[i + 1] = b[(i + 1) - (k + 1)]
      BY <1>1, <1>3, <1>6, <1>7, <2>2, ConcatProperties
    <3>3. (i + 1) - (k + 1) = i - k /\ k + (i - k) = i
      BY <1>1
    <3>4. b[i - k] = s[k + (i - k)]
      BY <1>4, <3>1
    <3> QED
      BY <3>1, <3>2, <3>3, <3>4
  <2> QED
    BY <1>1, <2>1, <2>2
<1>10. t[k + 1] = e /\ k + 1 \in DOMAIN t
  BY <1>1, <1>3, <1>6, <1>7, <1>8, ConcatProperties
<1>11. ASSUME NEW j \in 1 .. k PROVE t[j] = s[j]
  BY <1>1, <1>3, <1>6, <1>7, ConcatProperties
<1>12. ASSUME NEW j \in k + 2 .. Len(s) + 1 PROVE t[j] = s[j - 1]
  <2>1. j - (k + 1) \in 1 .. Len(s) - k /\ k + (j - (k + 1)) = j - 1
    BY <1>1
  <2>2. t[j] = b[j - (k + 1)]
    BY <1>1, <1>3, <1>6, <1>7, <2>1, ConcatProperties
  <2> QED
    BY <1>4, <2>1, <2>2
<1> QED
  BY <1>8, <1>9, <1>10, <1>11, <1>12 DEF t

(* The writes of the upload and of a verification to Neo4j.                *)
NeoAdds ==
    NeoAddEvidence \/ NeoAddUploaded \/ \E u \in Verifiers : NeoAddVerification(u)

(* Every variable keeps its type, and the local variables of a request are *)
(* those of the step it has reached.                                       *)
THEOREM TypeCorrect == Spec => []TypeOK
<1> USE ReadersAssumption, AuditAssumption DEF FaultKind, TransferSteps, SealSteps, ReportSteps
<1>1. Init => TypeOK
  <2> SUFFICES ASSUME Init PROVE TypeOK
    OBVIOUS
  <2>1. \A w \in Worker : JobOK(w)
    BY DEF Init, JobOK
  <2>2. graph \in Graph
    BY DEF Init, Graph
  <2>3. faults \subseteq FaultKind
    BY DEF Init
  <2>4. rows \in Seq(Row)
    BY DEF Init
  <2>5. pc \in [Worker -> {"idle"} \cup TransferSteps \cup SealSteps \cup ReportSteps]
    BY DEF Init
  <2>6. DOMAIN job = Worker
    BY DEF Init
  <2>7. \A p \in overlaps : p \subseteq 1 .. begun
    BY DEF Init
  <2>8. begun \in Nat /\ stamped \in Nat /\ seals \in Nat
    BY DEF Init
  <2>9. sealed \in BOOLEAN
    BY DEF Init
  <2> QED
    BY <2>1, <2>2, <2>3, <2>4, <2>5, <2>6, <2>7, <2>8, <2>9 DEF TypeOK
<1>2. ASSUME TypeOK, [Next]_vars PROVE TypeOK'
  <2> USE <1>2 DEF TypeOK, postgres, history, Goto, Respond, MayFail
  <2>1. ASSUME NEW w \in Worker, NEW u \in User, BeginTransfer(w, u) PROVE TypeOK'
    <3>1. job'[w] \in Event /\ job'[w].id = begun'
      BY <2>1 DEF BeginTransfer, Event
    <3>2. \A v \in Worker : JobOK(v)'
      BY <2>1, <3>1 DEF BeginTransfer, JobOK
    <3>3. \A v \in Worker : pc[v] \in TransferSteps => job[v].id \in 1 .. begun'
      BY <2>1 DEF BeginTransfer, JobOK
    <3>4. \A p \in overlaps' : p \subseteq 1 .. begun'
      BY <2>1, <3>3 DEF BeginTransfer
    <3>5. /\ pc' \in [Worker -> {"idle"} \cup TransferSteps \cup SealSteps \cup ReportSteps]
          /\ DOMAIN job' = Worker /\ begun' \in Nat
      BY <2>1 DEF BeginTransfer
    <3> QED
      BY <2>1, <3>2, <3>4, <3>5 DEF BeginTransfer
  <2>2. ASSUME NEW w \in Worker, ReadHolder(w) PROVE TypeOK'
    <3>1. Holder \in User
      <4>1. CASE rows = <<>>
        BY <4>1 DEF Holder
      <4>2. CASE rows # <<>>
        <5>1. Len(rows) \in 1 .. Len(rows)
          BY <4>2, EmptySeq, LenProperties
        <5>2. rows[Len(rows)] \in Row
          BY <5>1, ElementOfSeq
        <5> QED
          BY <4>2, <5>2 DEF Holder, Row
      <4> QED
        BY <4>1, <4>2
    <3>2. job[w] \in Event /\ job[w].to \in User /\ job[w].id \in 1 .. begun
      BY <2>2 DEF ReadHolder, JobOK, Event
    <3>3. /\ [job[w] EXCEPT !.from = Holder] \in Row
          /\ [job[w] EXCEPT !.from = Holder].id = job[w].id
      BY <3>1, <3>2 DEF Event, Row
    <3>4. ASSUME sealed PROVE \A v \in Worker : JobOK(v)'
      BY <2>2, <3>4 DEF ReadHolder, JobOK
    <3>5. ASSUME ~sealed PROVE \A v \in Worker : JobOK(v)'
      <4>1. /\ job' = [job EXCEPT ![w].from = Holder]
            /\ pc' = [pc EXCEPT ![w] = "commit"] /\ begun' = begun
        BY <2>2, <3>5 DEF ReadHolder
      <4>2. job'[w] = [job[w] EXCEPT !.from = Holder]
        BY <4>1
      <4>3. JobOK(w)'
        BY <3>2, <3>3, <4>1, <4>2 DEF JobOK
      <4>4. ASSUME NEW v \in Worker \ {w} PROVE JobOK(v)'
        BY <4>1 DEF JobOK
      <4> QED
        BY <4>3, <4>4
    <3>6. \A v \in Worker : JobOK(v)'
      BY <3>4, <3>5
    <3> QED
      BY <2>2, <3>6 DEF ReadHolder
  <2>3. ASSUME NEW w \in Worker, CommitTransfer(w) PROVE TypeOK'
    <3>1. job[w] \in Row
      BY <2>3 DEF CommitTransfer, JobOK
    <3>2. rows' \in Seq(Row)
      BY <2>3, <3>1, Insertion DEF CommitTransfer
    <3>3. \A v \in Worker : JobOK(v)'
      BY <2>3 DEF CommitTransfer, JobOK
    <3> QED
      BY <2>3, <3>2, <3>3 DEF CommitTransfer
  <2>4. ASSUME NEW w \in Worker, TransferFails(w) PROVE TypeOK'
    <3>1. \A v \in Worker : JobOK(v)'
      BY <2>4 DEF TransferFails, JobOK
    <3> QED
      BY <2>4, <3>1 DEF TransferFails
  <2>5. ASSUME NEW w \in Worker, Stamp(w) PROVE TypeOK'
    <3>1. job'[w] \in Row /\ job'[w].id = job[w].id
      <4>1. job[w] \in Row /\ stamped' \in Nat
        BY <2>5 DEF Stamp, JobOK
      <4>2. job'[w] = [job[w] EXCEPT !.ts = stamped']
        BY <2>5 DEF Stamp
      <4> QED
        BY <4>1, <4>2 DEF Row
    <3>2. \A v \in Worker : JobOK(v)'
      BY <2>5, <3>1 DEF Stamp, JobOK
    <3> QED
      BY <2>5, <3>2 DEF Stamp
  <2>6. ASSUME NEW w \in Worker, GraphCustody(w) PROVE TypeOK'
    <3>1. job[w] \in Event
      BY <2>6 DEF GraphCustody, JobOK, Row, Event
    <3>2. graph' \in Graph
      <4>1. NeoCreate(job[w])
        BY <2>6 DEF GraphCustody
      <4>2. Append(graph.events, job[w]) \in Seq(Event)
        BY <3>1 DEF Graph
      <4>3. graph \in Graph
        OBVIOUS
      <4> HIDE <1>2
      <4> QED
        BY <4>1, <4>2, <4>3 DEF NeoCreate, Graph
    <3>3. \A v \in Worker : JobOK(v)'
      BY <2>6 DEF GraphCustody, JobOK
    <3> QED
      BY <2>6, <3>2, <3>3 DEF GraphCustody
  <2>7. ASSUME NEW w \in Worker, ChangeSeal(w) PROVE TypeOK'
    <3>1. \A v \in Worker : JobOK(v)'
      BY <2>7 DEF ChangeSeal, JobOK
    <3> QED
      BY <2>7, <3>1 DEF ChangeSeal
  <2>8. ASSUME NEW w \in Worker, NEW u \in Sealers, StampSeal(w, u) PROVE TypeOK'
    <3>1. job'[w] \in Event
      BY <2>8 DEF StampSeal, Event
    <3>2. \A v \in Worker : JobOK(v)'
      BY <2>8, <3>1 DEF StampSeal, JobOK
    <3> QED
      BY <2>8, <3>2 DEF StampSeal
  <2>9. ASSUME NEW w \in Worker, GraphSeal(w) PROVE TypeOK'
    <3>1. job[w] \in Event
      BY <2>9 DEF GraphSeal, JobOK
    <3>2. graph' \in Graph
      <4>1. NeoCreate(job[w])
        BY <2>9 DEF GraphSeal
      <4>2. Append(graph.events, job[w]) \in Seq(Event)
        BY <3>1 DEF Graph
      <4>3. graph \in Graph
        OBVIOUS
      <4> HIDE <1>2
      <4> QED
        BY <4>1, <4>2, <4>3 DEF NeoCreate, Graph
    <3>3. \A v \in Worker : JobOK(v)'
      BY <2>9 DEF GraphSeal, JobOK
    <3> QED
      BY <2>9, <3>2, <3>3 DEF GraphSeal
  <2>10. ASSUME NEW w \in Worker, CountRows(w) PROVE TypeOK'
    <3>1. \A v \in Worker : JobOK(v)'
      BY <2>10 DEF CountRows, JobOK, Report
    <3> QED
      BY <2>10, <3>1 DEF CountRows
  <2>11. ASSUME NEW w \in Worker, ListRows(w) PROVE TypeOK'
    <3>1. job[w] \in Report
      BY <2>11 DEF ListRows, JobOK
    <3>2. job'[w] = [job[w] EXCEPT !.listed = rows]
      BY <2>11 DEF ListRows
    <3>3. job'[w] \in Report
      BY <3>1, <3>2 DEF Report
    <3>4. \A v \in Worker : JobOK(v)'
      BY <2>11, <3>3 DEF ListRows, JobOK
    <3> QED
      BY <2>11, <3>4 DEF ListRows
  <2>12. ASSUME NEW w \in Worker, ShowReport(w) PROVE TypeOK'
    <3>1. \A v \in Worker : JobOK(v)'
      BY <2>12 DEF ShowReport, JobOK
    <3> QED
      BY <2>12, <3>1 DEF ShowReport
  <2>13. ASSUME NEW w \in Worker, Crash(w) PROVE TypeOK'
    <3>1. \A v \in Worker : JobOK(v)'
      BY <2>13 DEF Crash, JobOK
    <3> QED
      BY <2>13, <3>1 DEF Crash
  <2>14. CASE NeoAdds
    <3>1. graph' \in Graph
      <4>1. graph \in Graph /\ graph.verified \in Seq(Verifiers)
        BY DEF Graph
      <4>2. \A u \in Verifiers : Append(graph.verified, u) \in Seq(Verifiers)
        BY <4>1, AppendProperties
      <4> HIDE <1>2 DEF TypeOK
      <4> QED
        <5>1. CASE \E u \in Verifiers : NeoAddVerification(u)
          <6>1. PICK u \in Verifiers : graph' = [graph EXCEPT !.verified = Append(@, u)]
            BY <5>1 DEF NeoAddVerification
          <6> QED
            BY <4>1, <4>2, <6>1 DEF Graph
        <5>2. CASE NeoAddEvidence
          BY <4>1, <5>2 DEF NeoAddEvidence, Graph
        <5>3. CASE NeoAddUploaded
          BY <4>1, <5>3 DEF NeoAddUploaded, Graph
        <5> QED
          BY <2>14, <5>1, <5>2, <5>3 DEF NeoAdds
    <3>2. UNCHANGED <<postgres, stamped, pc, job, history>>
      BY <2>14 DEF NeoAdds, NeoAddEvidence, NeoAddUploaded, NeoAddVerification
    <3>3. \A v \in Worker : JobOK(v)'
      BY <3>2 DEF JobOK
    <3> QED
      BY <3>1, <3>2, <3>3
  <2>15. CASE UNCHANGED vars
    <3>1. \A v \in Worker : JobOK(v)'
      BY <2>15 DEF vars, JobOK
    <3> QED
      BY <2>15, <3>1 DEF vars
  <2> HIDE DEF TypeOK
  <2> QED
    BY <2>1, <2>2, <2>3, <2>4, <2>5, <2>6, <2>7, <2>8, <2>9, <2>10, <2>11, <2>12,
       <2>13, <2>14, <2>15 DEF Next, Continue, NeoAdds
<1> QED
  BY <1>1, <1>2, PTL DEF Spec

(* They add to the graph, but no event, and leave everything else alone.   *)
LEMMA GraphGrows ==
    ASSUME TypeOK, NeoAdds
    PROVE  /\ UNCHANGED <<begun, stamped, sealed, rows, pc, job, faults, seals, overlaps>>
           /\ graph'.events = graph.events
           /\ (graph.linked <=> graph.node) => (graph'.linked <=> graph'.node)
<1>1. graph \in Graph
  BY DEF TypeOK
<1> QED
  BY <1>1 DEF Graph, NeoAdds, NeoAddEvidence, NeoAddUploaded, NeoAddVerification,
     postgres, history

(* In every reachable state the cycle rule of the anomaly endpoint tells   *)
(* of the rows of coc_logs nothing the gap rule has not told.              *)
THEOREM CyclesCorrect == Spec => []CyclesNeedGaps
<1>1. TypeOK => CyclesNeedGaps
  BY CyclesFollowGaps DEF TypeOK, CyclesNeedGaps
<1> QED
  BY <1>1, TypeCorrect, PTL

-----------------------------------------------------------------------------
(* The rows a report has counted are there when it lists them.             *)
IdsIn(chain) == {chain[i].id : i \in DOMAIN chain}

ReportOf(w) ==
    /\ pc[w] = "list" => IdsIn(job[w].counted) \subseteq IdsIn(rows)
    /\ pc[w] = "answer" => IdsIn(job[w].counted) \subseteq IdsIn(job[w].listed)

ReportInv == \A w \in Worker : ReportOf(w)

(* No row is lost when one is inserted. *)
LEMMA InsertionKeepsIds ==
    ASSUME NEW s \in Seq(Row), NEW k \in 0 .. Len(s), NEW e \in Row
    PROVE  IdsIn(s) \subseteq IdsIn(InsertAt(s, k + 1, e))
<1> DEFINE t == InsertAt(s, k + 1, e)
<1>1. LET u == InsertAt(s, k + 1, e) IN
      /\ u \in Seq(Row)
      /\ \A i \in DOMAIN s : \E j \in DOMAIN u : u[j] = s[i]
      /\ \E j \in DOMAIN u : u[j] = e
  BY Insertion
<1>2. \A i \in DOMAIN s : \E j \in DOMAIN t : t[j] = s[i]
  BY <1>1
<1> HIDE DEF t
<1>3. IdsIn(s) \subseteq IdsIn(t)
  BY <1>2 DEF IdsIn
<1> QED
  BY <1>3 DEF t

(* What it says of one request is kept by a step in which no row is lost   *)
(* and the request, if it is at "list" or "answer", was there before, with *)
(* the same local variables.                                               *)
LEMMA ReportKept ==
    ASSUME NEW v \in Worker, ReportOf(v), IdsIn(rows) \subseteq IdsIn(rows'),
           pc'[v] \in ReportSteps => pc'[v] = pc[v] /\ job'[v] = job[v]
    PROVE  ReportOf(v)'
<1> SUFFICES ASSUME pc'[v] \in ReportSteps
             PROVE  /\ pc'[v] = "list" => IdsIn(job'[v].counted) \subseteq IdsIn(rows')
                    /\ pc'[v] = "answer" => IdsIn(job'[v].counted) \subseteq IdsIn(job'[v].listed)
  BY DEF ReportOf, ReportSteps, IdsIn
<1>1. pc'[v] = pc[v] /\ job'[v] = job[v]
  OBVIOUS
<1> QED
  BY <1>1 DEF ReportOf

(* The report lists every row it has counted.                              *)
THEOREM ReportsCorrect == Spec => []ReportListsWhatItCounts
<1>1. Init => ReportInv
  BY DEF Init, ReportInv, ReportOf
<1>2. ASSUME TypeOK, ReportInv, [Next]_vars PROVE ReportInv'
  <2> USE <1>2 DEF postgres, history, Goto, Respond
  <2>1. pc \in [Worker -> {"idle"} \cup TransferSteps \cup SealSteps \cup ReportSteps]
        /\ DOMAIN job = Worker
    BY DEF TypeOK
  <2>2. ASSUME NEW w \in Worker, CommitTransfer(w) PROVE ReportInv'
    <3>1. \A v \in Worker : pc'[v] \in ReportSteps => pc'[v] = pc[v] /\ job'[v] = job[v]
      BY <2>1, <2>2 DEF CommitTransfer, ReportSteps
    <3>2. IdsIn(rows) \subseteq IdsIn(rows')
      <4>1. rows \in Seq(Row) /\ job[w] \in Row
        BY <2>2 DEF CommitTransfer, TypeOK, JobOK, TransferSteps
      <4> QED
        BY <2>2, <4>1, InsertionKeepsIds DEF CommitTransfer
    <3> QED
      BY <3>1, <3>2, ReportKept DEF ReportInv
  <2>3. ASSUME NEW w \in Worker, CountRows(w) PROVE ReportInv'
    <3>1. /\ rows' = rows /\ job'[w].counted = rows /\ pc'[w] = "list"
          /\ \A v \in Worker \ {w} : pc'[v] = pc[v] /\ job'[v] = job[v]
      BY <2>1, <2>3 DEF CountRows
    <3>2. ReportOf(w)'
      BY <3>1 DEF ReportOf, IdsIn
    <3>3. ASSUME NEW v \in Worker \ {w} PROVE ReportOf(v)'
      BY <3>1, ReportKept DEF ReportInv
    <3> QED
      BY <3>2, <3>3 DEF ReportInv
  <2>4. ASSUME NEW w \in Worker, ListRows(w) PROVE ReportInv'
    <3>1. job[w] \in Report /\ job'[w] = [job[w] EXCEPT !.listed = rows]
      BY <2>1, <2>4 DEF ListRows, TypeOK, JobOK, ReportSteps
    <3>2. job'[w].counted = job[w].counted /\ job'[w].listed = rows
      BY <3>1 DEF Report
    <3>3. /\ rows' = rows /\ pc[w] = "list" /\ pc'[w] = "answer"
          /\ \A v \in Worker \ {w} : pc'[v] = pc[v] /\ job'[v] = job[v]
      BY <2>1, <2>4 DEF ListRows
    <3>4. IdsIn(job'[w].counted) \subseteq IdsIn(job'[w].listed)
      BY <3>2, <3>3 DEF ReportInv, ReportOf
    <3>5. ReportOf(w)'
      BY <3>3, <3>4 DEF ReportOf, IdsIn
    <3>6. ASSUME NEW v \in Worker \ {w} PROVE ReportOf(v)'
      BY <3>3, ReportKept DEF ReportInv
    <3> QED
      BY <3>5, <3>6 DEF ReportInv
  <2>5. ASSUME \/ NeoAdds \/ UNCHANGED vars
               \/ \E w \in Worker :
                     \/ \E u \in User : BeginTransfer(w, u)
                     \/ ReadHolder(w) \/ TransferFails(w) \/ Stamp(w) \/ GraphCustody(w)
                     \/ ChangeSeal(w) \/ (\E u \in Sealers : StampSeal(w, u)) \/ GraphSeal(w)
                     \/ ShowReport(w) \/ Crash(w)
        PROVE  ReportInv'
    <3>1. /\ rows' = rows
          /\ \A v \in Worker : pc'[v] \in ReportSteps => pc'[v] = pc[v] /\ job'[v] = job[v]
      BY <2>1, <2>5, GraphGrows DEF ReportSteps, vars, BeginTransfer, ReadHolder,
         TransferFails, Stamp, GraphCustody, ChangeSeal, StampSeal, GraphSeal, ShowReport, Crash
    <3>2. IdsIn(rows) \subseteq IdsIn(rows')
      BY <3>1
    <3> QED
      BY <3>1, <3>2, ReportKept DEF ReportInv
  <2> QED
    BY <2>2, <2>3, <2>4, <2>5 DEF Next, Continue, NeoAdds
<1>3. ReportInv => ReportListsWhatItCounts
  BY DEF ReportInv, ReportOf, ReportListsWhatItCounts, IdsIn
<1> QED
  BY <1>1, <1>2, <1>3, TypeCorrect, PTL DEF Spec

-----------------------------------------------------------------------------
(* The events of the graph.  A request between the commit and its event    *)
(* has its row; two transfers, each shown or about to be, have two ids;    *)
(* whatever began while a request was served overlaps with it; and the     *)
(* order of the stamps differs from that of the ids only in an overlap.    *)
Transfers == {i \in DOMAIN graph.events : graph.events[i].to # None}

HasRow(table, e) ==
    \E k \in DOMAIN table : table[k].id = e.id /\ table[k].from = e.from /\ table[k].to = e.to

InOrder(pairs, x, y) == x.ts < y.ts /\ y.id < x.id => {x.id, y.id} \in pairs

ShownOK(i) ==
    LET e == graph.events[i] IN
    HasRow(rows, e) /\ e.id \in 1 .. begun /\ e.ts =< stamped

TwoShownOK(i, j) ==
    LET e == graph.events[i]  f == graph.events[j] IN
    e.id # f.id /\ InOrder(overlaps, e, f)

ServedOK(w) ==
    /\ pc[w] = "graphSeal" => job[w].to = None
    /\ pc[w] \in {"stamp", "graph"} => HasRow(rows, job[w])
    /\ pc[w] = "graph" => job[w].ts =< stamped
    /\ pc[w] \in TransferSteps =>
          \A n \in job[w].id + 1 .. begun : {job[w].id, n} \in overlaps

ServedAndShownOK(w, i) ==
    LET e == graph.events[i] IN
    /\ pc[w] \in TransferSteps => e.id # job[w].id
    /\ pc[w] = "graph" => InOrder(overlaps, e, job[w]) /\ InOrder(overlaps, job[w], e)

TwoServedOK(v, w) ==
    /\ pc[v] \in TransferSteps /\ pc[w] \in TransferSteps => job[v].id # job[w].id
    /\ pc[v] = "graph" /\ pc[w] = "graph" => InOrder(overlaps, job[v], job[w])

EventInv ==
    /\ \A i \in Transfers : ShownOK(i)
    /\ \A i, j \in Transfers : i # j => TwoShownOK(i, j)
    /\ \A w \in Worker : ServedOK(w)
    /\ \A w \in Worker, i \in Transfers : ServedAndShownOK(w, i)
    /\ \A v, w \in Worker : v # w => TwoServedOK(v, w)

(* An inserted row is in the table, and no row is lost.                    *)
LEMMA InsertionKeepsRows ==
    ASSUME NEW s \in Seq(Row), NEW k \in 0 .. Len(s), NEW e \in Row
    PROVE  /\ HasRow(InsertAt(s, k + 1, e), e)
           /\ \A f : HasRow(s, f) => HasRow(InsertAt(s, k + 1, e), f)
<1> DEFINE t == InsertAt(s, k + 1, e)
<1>1. LET u == InsertAt(s, k + 1, e) IN
      /\ u \in Seq(Row)
      /\ \A i \in DOMAIN s : \E j \in DOMAIN u : u[j] = s[i]
      /\ \E j \in DOMAIN u : u[j] = e
  BY Insertion
<1>2. /\ \A i \in DOMAIN s : \E j \in DOMAIN t : t[j] = s[i]
      /\ \E j \in DOMAIN t : t[j] = e
  BY <1>1
<1> HIDE DEF t
<1>3. HasRow(t, e) /\ \A f : HasRow(s, f) => HasRow(t, f)
  BY <1>2 DEF HasRow
<1> QED
  BY <1>3 DEF t

LEMMA StampsAreNumbers ==
    ASSUME TypeOK, NEW i \in Transfers
    PROVE  graph.events[i].ts \in Nat
<1>1. graph.events \in Seq(Event) /\ i \in 1 .. Len(graph.events)
  BY DEF TypeOK, Transfers, Graph
<1>2. graph.events[i] \in Event
  BY <1>1, ElementOfSeq
<1> QED
  BY <1>2 DEF Event

(* The invariant is kept by a step that leaves the events, the overlaps    *)
(* and the ids alone, loses no row and moves each request as one of those  *)
(* moves that are not a stamp.                                             *)
LEMMA EventsKept ==
    ASSUME EventInv, TypeOK,
           graph'.events = graph.events, overlaps' = overlaps, begun' = begun,
           stamped' \in Nat, stamped =< stamped',
           \A e : HasRow(rows, e) => HasRow(rows', e),
           \A v \in Worker :
              \/ pc'[v] \notin TransferSteps \cup {"graphSeal"}
              \/ pc'[v] = pc[v] /\ job'[v] = job[v]
              \/ pc[v] \in TransferSteps /\ pc'[v] = "commit" /\ job'[v].id = job[v].id
              \/ /\ pc[v] \in TransferSteps /\ pc'[v] = "stamp" /\ job'[v] = job[v]
                 /\ HasRow(rows', job[v])
              \/ pc'[v] = "graphSeal" /\ job'[v].to = None
    PROVE  EventInv'
<1>1. Transfers' = Transfers
  BY DEF Transfers
<1>2. ASSUME NEW i \in Transfers PROVE ShownOK(i)'
  <2>1. ShownOK(i)
    BY DEF EventInv
  <2>2. stamped \in Nat
    BY DEF TypeOK
  <2>3. graph.events[i].ts \in Nat
    BY StampsAreNumbers
  <2> QED
    BY <2>1, <2>2, <2>3 DEF ShownOK
<1>3. ASSUME NEW i \in Transfers, NEW j \in Transfers, i # j PROVE TwoShownOK(i, j)'
  <2>1. TwoShownOK(i, j)
    BY <1>3 DEF EventInv
  <2> QED
    BY <2>1 DEF TwoShownOK
<1>4. ASSUME NEW v \in Worker PROVE ServedOK(v)'
  <2>1. ServedOK(v)
    BY DEF EventInv
  <2>2. pc[v] = "graph" => job[v].ts \in Nat /\ stamped \in Nat
    BY DEF TypeOK, JobOK, TransferSteps, Row
  <2>3. pc'[v] \in TransferSteps => pc[v] \in TransferSteps /\ job'[v].id = job[v].id
    BY DEF TransferSteps
  <2>4. pc'[v] \in TransferSteps =>
           \A n \in job'[v].id + 1 .. begun' : {job'[v].id, n} \in overlaps'
    BY <2>1, <2>3 DEF ServedOK
  <2>5. pc'[v] = "graph" => pc[v] = "graph" /\ job'[v] = job[v]
    BY DEF TransferSteps
  <2>6. pc'[v] = "graph" => job'[v].ts =< stamped' /\ HasRow(rows', job'[v])
    BY <2>1, <2>2, <2>5 DEF ServedOK
  <2>7. pc'[v] = "stamp" => HasRow(rows', job'[v])
    BY <2>1 DEF ServedOK, TransferSteps
  <2>8. pc'[v] = "graphSeal" => job'[v].to = None
    BY <2>1 DEF ServedOK, TransferSteps
  <2> QED
    BY <2>4, <2>6, <2>7, <2>8 DEF ServedOK
<1>5. ASSUME NEW v \in Worker, NEW i \in Transfers PROVE ServedAndShownOK(v, i)'
  <2>1. ServedAndShownOK(v, i)
    BY DEF EventInv
  <2> QED
    BY <2>1 DEF ServedAndShownOK, TransferSteps
<1>6. ASSUME NEW v \in Worker, NEW w \in Worker, v # w PROVE TwoServedOK(v, w)'
  <2>1. TwoServedOK(v, w)
    BY <1>6 DEF EventInv
  <2>2. pc'[v] \in TransferSteps => pc[v] \in TransferSteps /\ job'[v].id = job[v].id
    BY DEF TransferSteps
  <2>3. pc'[w] \in TransferSteps => pc[w] \in TransferSteps /\ job'[w].id = job[w].id
    BY DEF TransferSteps
  <2>4. /\ pc'[v] = "graph" => pc[v] = "graph" /\ job'[v] = job[v]
        /\ pc'[w] = "graph" => pc[w] = "graph" /\ job'[w] = job[w]
    BY DEF TransferSteps
  <2> QED
    BY <2>1, <2>2, <2>3, <2>4 DEF TwoServedOK
<1> QED
  BY <1>1, <1>2, <1>3, <1>4, <1>5, <1>6 DEF EventInv

(* An event is appended: a step of the mirror, whose request is over.      *)
LEMMA EventAppended ==
    ASSUME EventInv, TypeOK, NEW w \in Worker, pc[w] \in {"graph", "graphSeal"},
           graph'.events = Append(graph.events, job[w]), Respond(w),
           UNCHANGED <<rows, begun, stamped, overlaps>>
    PROVE  EventInv'
<1> DEFINE n == Len(graph.events)
           new == {k \in {n + 1} : job[w].to # None}
<1>1. /\ graph.events \in Seq(Event) /\ n \in Nat /\ DOMAIN graph.events = 1 .. n
      /\ stamped \in Nat /\ begun \in Nat
  BY DEF TypeOK, Graph
<1>2. job[w] \in Event
  BY DEF TypeOK, JobOK, TransferSteps, Row, Event
<1>3. /\ DOMAIN graph'.events = 1 .. n + 1 /\ graph'.events[n + 1] = job[w]
      /\ \A i \in 1 .. n : graph'.events[i] = graph.events[i]
  BY <1>1, <1>2
<1>4. Transfers' = Transfers \cup new
  BY <1>1, <1>3 DEF Transfers
<1>5. new # {} => pc[w] = "graph"
  BY DEF EventInv, ServedOK
<1>6. /\ pc'[w] = "idle"
      /\ \A v \in Worker \ {w} : pc'[v] = pc[v] /\ job'[v] = job[v]
  BY DEF Respond, TypeOK
<1>7. Transfers \subseteq 1 .. n /\ n + 1 \notin Transfers
  BY <1>1 DEF Transfers
<1> HIDE DEF n
<1>8. ASSUME NEW i \in Transfers' PROVE ShownOK(i)'
  <2>1. CASE i \in Transfers
    BY <1>3, <1>7, <2>1 DEF EventInv, ShownOK
  <2>2. CASE i = n + 1 /\ pc[w] = "graph"
    <3>1. HasRow(rows, job[w]) /\ job[w].ts =< stamped
      BY <2>2 DEF EventInv, ServedOK
    <3>2. job[w].id \in 1 .. begun
      BY <2>2 DEF TypeOK, JobOK, TransferSteps
    <3> QED
      BY <1>3, <2>2, <3>1, <3>2 DEF ShownOK
  <2> QED
    BY <1>4, <1>5, <2>1, <2>2
<1>9. ASSUME NEW i \in Transfers', NEW j \in Transfers', i # j PROVE TwoShownOK(i, j)'
  <2>1. CASE i \in Transfers /\ j \in Transfers
    BY <1>3, <1>7, <1>9, <2>1 DEF EventInv, TwoShownOK
  <2>2. CASE i \in Transfers /\ j = n + 1 /\ pc[w] = "graph"
    <3>1. ServedAndShownOK(w, i)
      BY <2>2 DEF EventInv
    <3> QED
      BY <1>3, <1>7, <2>2, <3>1 DEF ServedAndShownOK, TwoShownOK, TransferSteps
  <2>3. CASE i = n + 1 /\ j \in Transfers /\ pc[w] = "graph"
    <3>1. ServedAndShownOK(w, j)
      BY <2>3 DEF EventInv
    <3> QED
      BY <1>3, <1>7, <2>3, <3>1 DEF ServedAndShownOK, TwoShownOK, TransferSteps
  <2> QED
    BY <1>4, <1>5, <1>9, <2>1, <2>2, <2>3
<1>10. ASSUME NEW v \in Worker PROVE ServedOK(v)'
  <2>1. CASE v = w
    BY <1>6, <2>1 DEF ServedOK, TransferSteps
  <2>2. CASE v # w
    BY <1>6, <2>2 DEF EventInv, ServedOK
  <2> QED
    BY <2>1, <2>2
<1>11. ASSUME NEW v \in Worker, NEW i \in Transfers' PROVE ServedAndShownOK(v, i)'
  <2>1. CASE v = w
    BY <1>6, <2>1 DEF ServedAndShownOK, TransferSteps
  <2>2. CASE v # w /\ i \in Transfers
    <3>1. ServedAndShownOK(v, i)
      BY <2>2 DEF EventInv
    <3> QED
      BY <1>3, <1>6, <1>7, <2>2, <3>1 DEF ServedAndShownOK
  <2>3. CASE v # w /\ i = n + 1 /\ pc[w] = "graph"
    <3>1. TwoServedOK(v, w) /\ TwoServedOK(w, v)
      BY <2>3 DEF EventInv
    <3> QED
      BY <1>3, <1>6, <2>3, <3>1 DEF ServedAndShownOK, TwoServedOK, TransferSteps
  <2> QED
    BY <1>4, <1>5, <2>1, <2>2, <2>3
<1>12. ASSUME NEW v \in Worker, NEW x \in Worker, v # x PROVE TwoServedOK(v, x)'
  <2>1. TwoServedOK(v, x)
    BY <1>12 DEF EventInv
  <2> QED
    BY <1>6, <1>12, <2>1 DEF TwoServedOK, TransferSteps
<1> QED
  BY <1>8, <1>9, <1>10, <1>11, <1>12 DEF EventInv

LEMMA EventsCorrect == Spec => []EventInv
<1> USE ReadersAssumption, AuditAssumption
<1>1. Init => EventInv
  <2> SUFFICES ASSUME Init PROVE EventInv
    OBVIOUS
  <2>1. Transfers = {}
    BY DEF Init, Transfers
  <2>2. \A w \in Worker : pc[w] = "idle"
    BY DEF Init
  <2> QED
    BY <2>1, <2>2 DEF EventInv, ServedOK, TwoServedOK, TransferSteps
<1>2. ASSUME TypeOK, EventInv, [Next]_vars PROVE EventInv'
  <2> USE <1>2 DEF postgres, history, Goto
  <2>1. /\ pc \in [Worker -> {"idle"} \cup TransferSteps \cup SealSteps \cup ReportSteps]
        /\ DOMAIN job = Worker
        /\ begun \in Nat /\ stamped \in Nat
    BY DEF TypeOK
  <2>2. ASSUME NEW w \in Worker, NEW u \in User, BeginTransfer(w, u) PROVE EventInv'
    <3> DEFINE id == begun + 1
    <3>1. /\ pc'[w] = "readHolder" /\ job'[w].id = id
          /\ \A v \in Worker \ {w} : pc'[v] = pc[v] /\ job'[v] = job[v]
          /\ graph' = graph /\ rows' = rows /\ stamped' = stamped /\ begun' = id
      BY <2>1, <2>2 DEF BeginTransfer
    <3>2. overlaps \subseteq overlaps'
      BY <2>2 DEF BeginTransfer
    <3>3. \A v \in Worker : pc[v] \in TransferSteps => {id, job[v].id} \in overlaps'
      BY <2>2 DEF BeginTransfer
    <3>4. \A v \in Worker : pc[v] \in TransferSteps => job[v].id \in 1 .. begun
      BY DEF TypeOK, JobOK
    <3>5. Transfers' = Transfers
      BY <3>1 DEF Transfers
    <3>6. \A i \in Transfers : ShownOK(i)' /\ graph.events[i].id \in 1 .. begun
      BY <2>1, <3>1 DEF EventInv, ShownOK
    <3>7. \A i, j \in Transfers : i # j => TwoShownOK(i, j)'
      BY <3>1, <3>2 DEF EventInv, TwoShownOK, InOrder
    <3>8. ASSUME NEW v \in Worker PROVE ServedOK(v)'
      <4>1. CASE v = w
        BY <2>1, <3>1, <4>1 DEF ServedOK, TransferSteps
      <4>2. CASE v # w
        <5>1. ServedOK(v) /\ pc'[v] = pc[v] /\ job'[v] = job[v]
          BY <3>1, <4>2 DEF EventInv
        <5>2. pc[v] \in TransferSteps =>
                 \A n \in job[v].id + 1 .. id : {job[v].id, n} \in overlaps'
          <6> SUFFICES ASSUME pc[v] \in TransferSteps, NEW n \in job[v].id + 1 .. id
                       PROVE  {job[v].id, n} \in overlaps'
            OBVIOUS
          <6>1. CASE n = id
            BY <3>3, <6>1
          <6>2. CASE n # id
            BY <2>1, <3>2, <3>4, <5>1, <6>2 DEF ServedOK
          <6> QED
            BY <6>1, <6>2
        <5> QED
          BY <3>1, <5>1, <5>2 DEF ServedOK
      <4> QED
        BY <4>1, <4>2
    <3>9. ASSUME NEW v \in Worker, NEW i \in Transfers PROVE ServedAndShownOK(v, i)'
      <4>1. CASE v = w
        BY <2>1, <3>1, <3>6, <4>1 DEF ServedAndShownOK
      <4>2. CASE v # w
        BY <3>1, <3>2, <4>2 DEF EventInv, ServedAndShownOK, InOrder
      <4> QED
        BY <4>1, <4>2
    <3>10. ASSUME NEW v \in Worker, NEW x \in Worker, v # x PROVE TwoServedOK(v, x)'
      <4>1. CASE v = w
        BY <2>1, <3>1, <3>4, <3>10, <4>1 DEF TwoServedOK
      <4>2. CASE x = w
        BY <2>1, <3>1, <3>4, <3>10, <4>2 DEF TwoServedOK
      <4>3. CASE v # w /\ x # w
        BY <3>1, <3>2, <3>10, <4>3 DEF EventInv, TwoServedOK, InOrder
      <4> QED
        BY <4>1, <4>2, <4>3
    <3> QED
      BY <3>5, <3>6, <3>7, <3>8, <3>9, <3>10 DEF EventInv
  <2>3. ASSUME NEW w \in Worker, CommitTransfer(w) PROVE EventInv'
    <3>1. rows \in Seq(Row) /\ job[w] \in Row
      BY <2>3 DEF CommitTransfer, TypeOK, JobOK, TransferSteps
    <3>2. HasRow(rows', job[w]) /\ \A e : HasRow(rows, e) => HasRow(rows', e)
      BY <2>3, <3>1, InsertionKeepsRows DEF CommitTransfer
    <3>3. /\ graph' = graph /\ overlaps' = overlaps /\ begun' = begun /\ stamped' = stamped
          /\ \A v \in Worker \ {w} : pc'[v] = pc[v] /\ job'[v] = job[v]
          /\ \/ pc[w] \in TransferSteps /\ pc'[w] = "stamp" /\ job'[w] = job[w]
             \/ pc'[w] = "idle"
      BY <2>1, <2>3 DEF CommitTransfer, Respond, TransferSteps
    <3> QED
      BY <2>1, <3>2, <3>3, EventsKept DEF TransferSteps
  <2>4. ASSUME NEW w \in Worker, Stamp(w) PROVE EventInv'
    <3>1. /\ pc[w] = "stamp" /\ pc'[w] = "graph"
          /\ \A v \in Worker \ {w} : pc'[v] = pc[v] /\ job'[v] = job[v]
          /\ job'[w] = [job[w] EXCEPT !.ts = stamped']
          /\ stamped' = stamped + 1
          /\ graph' = graph /\ rows' = rows /\ begun' = begun /\ overlaps' = overlaps
      BY <2>1, <2>4 DEF Stamp
    <3>2. job[w] \in Row /\ job[w].id \in 1 .. begun
      BY <3>1 DEF TypeOK, JobOK, TransferSteps
    <3>3. /\ job'[w].id = job[w].id /\ job'[w].from = job[w].from
          /\ job'[w].to = job[w].to /\ job'[w].ts = stamped + 1
      BY <3>1, <3>2 DEF Row
    <3>4. Transfers' = Transfers
      BY <3>1 DEF Transfers
    <3>5. \A i \in Transfers : ShownOK(i) /\ graph.events[i].ts \in Nat
      BY StampsAreNumbers DEF EventInv
    <3>6. \A i \in Transfers : ShownOK(i)'
      BY <2>1, <3>1, <3>5 DEF ShownOK
    <3>7. \A i, j \in Transfers : i # j => TwoShownOK(i, j)'
      BY <3>1 DEF EventInv, TwoShownOK
    <3>8. \A n \in job[w].id + 1 .. begun : {job[w].id, n} \in overlaps
      BY <3>1 DEF EventInv, ServedOK, TransferSteps
    <3>9. \A v \in Worker : pc[v] = "graph" =>
             job[v].ts \in Nat /\ job[v].ts =< stamped /\ job[v].id \in 1 .. begun
      BY DEF EventInv, ServedOK, TypeOK, JobOK, TransferSteps, Row
    <3>10. ASSUME NEW v \in Worker PROVE ServedOK(v)'
      <4>1. CASE v = w
        <5>1. HasRow(rows, job[w])
          BY <3>1 DEF EventInv, ServedOK
        <5>2. HasRow(rows, job'[w])
          BY <3>3, <5>1 DEF HasRow
        <5>3. HasRow(rows', job'[w]) /\ job'[w].ts =< stamped'
          BY <2>1, <3>1, <3>3, <5>2
        <5>4. \A n \in job'[w].id + 1 .. begun' : {job'[w].id, n} \in overlaps'
          BY <3>1, <3>3, <3>8
        <5> QED
          BY <3>1, <4>1, <5>3, <5>4 DEF ServedOK
      <4>2. CASE v # w
        BY <2>1, <3>1, <3>9, <4>2 DEF EventInv, ServedOK
      <4> QED
        BY <4>1, <4>2
    <3>11. ASSUME NEW v \in Worker, NEW i \in Transfers PROVE ServedAndShownOK(v, i)'
      <4>1. CASE v = w
        <5>1. graph.events[i].id # job[w].id
          BY <3>1 DEF EventInv, ServedAndShownOK, TransferSteps
        <5>2. InOrder(overlaps, graph.events[i], job'[w])
          <6> SUFFICES ASSUME job[w].id < graph.events[i].id
                       PROVE  {graph.events[i].id, job[w].id} \in overlaps
            BY <3>3 DEF InOrder
          <6>1. graph.events[i].id \in job[w].id + 1 .. begun
            BY <2>1, <3>2, <3>5 DEF ShownOK
          <6> QED
            BY <3>8, <6>1
        <5>3. InOrder(overlaps, job'[w], graph.events[i])
          BY <2>1, <3>3, <3>5 DEF ShownOK, InOrder
        <5> QED
          BY <3>1, <3>3, <4>1, <5>1, <5>2, <5>3 DEF ServedAndShownOK
      <4>2. CASE v # w
        BY <3>1, <4>2 DEF EventInv, ServedAndShownOK
      <4> QED
        BY <4>1, <4>2
    <3>12. ASSUME NEW v \in Worker, NEW x \in Worker, v # x PROVE TwoServedOK(v, x)'
      <4>1. TwoServedOK(v, x)
        BY <3>12 DEF EventInv
      <4>2. CASE v = w /\ pc[x] = "graph"
        <5>1. InOrder(overlaps, job'[w], job[x])
          BY <2>1, <3>3, <3>9, <4>2 DEF InOrder
        <5> QED
          BY <3>1, <3>3, <3>12, <4>1, <4>2, <5>1 DEF TwoServedOK, TransferSteps
      <4>3. CASE x = w /\ pc[v] = "graph"
        <5>1. InOrder(overlaps, job[v], job'[w])
          <6> SUFFICES ASSUME job[w].id < job[v].id
                       PROVE  {job[v].id, job[w].id} \in overlaps
            BY <3>3 DEF InOrder
          <6>1. job[v].id \in job[w].id + 1 .. begun
            BY <2>1, <3>2, <3>9, <4>3
          <6> QED
            BY <3>8, <6>1
        <5> QED
          BY <3>1, <3>3, <3>12, <4>1, <4>3, <5>1 DEF TwoServedOK, TransferSteps
      <4>4. CASE ~(v = w /\ pc[x] = "graph") /\ ~(x = w /\ pc[v] = "graph")
        BY <3>1, <3>3, <3>12, <4>1, <4>4 DEF TwoServedOK, TransferSteps
      <4> QED
        BY <4>2, <4>3, <4>4
    <3> QED
      BY <3>4, <3>6, <3>7, <3>10, <3>11, <3>12 DEF EventInv
  <2>5. ASSUME NEW w \in Worker, GraphCustody(w) \/ GraphSeal(w) PROVE EventInv'
    <3>1. /\ pc[w] \in {"graph", "graphSeal"} /\ Respond(w)
          /\ UNCHANGED <<rows, begun, stamped, overlaps>>
          /\ \/ graph'.events = Append(graph.events, job[w])
             \/ graph'.events = graph.events
      <4>1. graph \in Graph
        BY DEF TypeOK
      <4> QED
        BY <2>5, <4>1 DEF GraphCustody, GraphSeal, NeoCreate, Graph
    <3>2. CASE graph'.events = Append(graph.events, job[w])
      BY <3>1, <3>2, EventAppended
    <3>3. CASE graph'.events = graph.events
      <4>1. pc'[w] = "idle" /\ \A v \in Worker \ {w} : pc'[v] = pc[v] /\ job'[v] = job[v]
        BY <2>1, <3>1 DEF Respond
      <4> QED
        BY <2>1, <3>1, <3>3, <4>1, EventsKept DEF TransferSteps
    <3> QED
      BY <3>1, <3>2, <3>3
  <2>6. ASSUME \/ NeoAdds \/ UNCHANGED vars
               \/ \E w \in Worker :
                     \/ ReadHolder(w) \/ TransferFails(w)
                     \/ ChangeSeal(w) \/ (\E u \in Sealers : StampSeal(w, u))
                     \/ CountRows(w) \/ ListRows(w) \/ ShowReport(w) \/ Crash(w)
        PROVE  EventInv'
    <3>1. /\ graph'.events = graph.events /\ rows' = rows
          /\ overlaps' = overlaps /\ begun' = begun
      <4>1. graph \in Graph
        BY DEF TypeOK
      <4> QED
        BY <2>6, <4>1, GraphGrows DEF vars, ReadHolder, TransferFails, ChangeSeal,
           StampSeal, CountRows, ListRows, ShowReport, Crash
    <3>2. stamped' \in Nat /\ stamped =< stamped'
      BY <2>1, <2>6, GraphGrows DEF vars, ReadHolder, TransferFails, ChangeSeal,
         StampSeal, CountRows, ListRows, ShowReport, Crash
    <3>3. ASSUME NEW v \in Worker
          PROVE  \/ pc'[v] \notin TransferSteps \cup {"graphSeal"}
                 \/ pc'[v] = pc[v] /\ job'[v] = job[v]
                 \/ pc[v] \in TransferSteps /\ pc'[v] = "commit" /\ job'[v].id = job[v].id
                 \/ pc'[v] = "graphSeal" /\ job'[v].to = None
      <4>1. CASE \E w \in Worker : ReadHolder(w)
        <5>1. PICK w \in Worker : ReadHolder(w)
          BY <4>1
        <5>2. job[w] \in Event
          BY <5>1 DEF ReadHolder, TypeOK, JobOK
        <5>3. [job[w] EXCEPT !.from = Holder].id = job[w].id
          BY <5>2 DEF Event
        <5> QED
          BY <2>1, <5>1, <5>3 DEF ReadHolder, Respond, TransferSteps
      <4>2. CASE \E w \in Worker, u \in Sealers : StampSeal(w, u)
        BY <2>1, <4>2 DEF StampSeal
      <4>3. CASE \/ NeoAdds \/ UNCHANGED vars
                 \/ \E w \in Worker : \/ TransferFails(w) \/ ChangeSeal(w) \/ CountRows(w)
                                      \/ ListRows(w) \/ ShowReport(w) \/ Crash(w)
        BY <2>1, <4>3, GraphGrows DEF vars, TransferFails, ChangeSeal, CountRows,
           ListRows, ShowReport, Crash, Respond, TransferSteps
      <4> QED
        BY <2>6, <4>1, <4>2, <4>3
    <3> QED
      BY <3>1, <3>2, <3>3, EventsKept
  <2> QED
    BY <2>2, <2>3, <2>4, <2>5, <2>6 DEF Next, Continue, NeoAdds
<1> QED
  BY <1>1, <1>2, TypeCorrect, PTL DEF Spec

(* The transfers of the graph are rows of coc_logs, each once, and out of  *)
(* their order only where two requests were served at the same time.       *)
THEOREM MirrorCorrect == Spec => []EventsFollowRows
<1>1. EventInv => EventsFollowRows
  BY DEF EventInv, EventsFollowRows, Transfers, ShownOK, TwoShownOK, HasRow, InOrder
<1> QED
  BY <1>1, EventsCorrect, PTL

-----------------------------------------------------------------------------
(* The rows have ids of their own, and so has each request that has not    *)
(* committed yet.                                                          *)
RowInv ==
    /\ begun =< MaxRows
    /\ \A i \in DOMAIN rows : rows[i].id \in 1 .. begun
    /\ \A i, j \in DOMAIN rows : rows[i].id = rows[j].id => i = j
    /\ \A w \in Worker : pc[w] \in {"readHolder", "commit"} =>
          \A i \in DOMAIN rows : rows[i].id # job[w].id

(* A step that leaves the rows alone keeps this.                           *)
LEMMA RowsUntouched ==
    ASSUME RowInv, rows' = rows, begun' = begun,
           \A v \in Worker :
              \/ pc'[v] \notin {"readHolder", "commit"}
              \/ pc[v] \in {"readHolder", "commit"} /\ job'[v].id = job[v].id
    PROVE  RowInv'
BY DEF RowInv

LEMMA PlacesAfterInsertion ==
    ASSUME NEW s \in Seq(Row), NEW k \in 0 .. Len(s), NEW e \in Row
    PROVE  /\ DOMAIN InsertAt(s, k + 1, e) = 1 .. Len(s) + 1
           /\ InsertAt(s, k + 1, e)[k + 1] = e
           /\ \A j \in 1 .. k : InsertAt(s, k + 1, e)[j] = s[j]
           /\ \A j \in k + 2 .. Len(s) + 1 : InsertAt(s, k + 1, e)[j] = s[j - 1]
<1> DEFINE t == InsertAt(s, k + 1, e)
<1>1. DOMAIN t = 1 .. Len(s) + 1
  BY Insertion, SMTT(30)
<1>2. t[k + 1] = e
  BY Insertion, SMTT(30)
<1>3. \A j \in 1 .. k : t[j] = s[j]
  BY Insertion, SMTT(30)
<1>4. \A j \in k + 2 .. Len(s) + 1 : t[j] = s[j - 1]
  BY Insertion, SMTT(30)
<1> QED
  BY <1>1, <1>2, <1>3, <1>4

(* The insertion of a row with an id of its own keeps this.                *)
LEMMA RowInserted ==
    ASSUME RowInv, TypeOK, NEW k \in 0 .. Len(rows), NEW e \in Row,
           rows' = InsertAt(rows, k + 1, e), e.id \in 1 .. begun, begun' = begun,
           \A i \in DOMAIN rows : rows[i].id # e.id,
           \A v \in Worker : pc'[v] \in {"readHolder", "commit"} =>
              pc[v] = pc'[v] /\ job'[v] = job[v] /\ job[v].id # e.id
    PROVE  RowInv'
<1>1. rows \in Seq(Row) /\ Len(rows) \in Nat /\ DOMAIN rows = 1 .. Len(rows)
  BY DEF TypeOK
<1>2. /\ DOMAIN rows' = 1 .. Len(rows) + 1 /\ rows'[k + 1] = e
      /\ \A j \in 1 .. k : rows'[j] = rows[j]
      /\ \A j \in k + 2 .. Len(rows) + 1 : rows'[j] = rows[j - 1]
  <2>1. /\ DOMAIN InsertAt(rows, k + 1, e) = 1 .. Len(rows) + 1
        /\ InsertAt(rows, k + 1, e)[k + 1] = e
        /\ \A j \in 1 .. k : InsertAt(rows, k + 1, e)[j] = rows[j]
        /\ \A j \in k + 2 .. Len(rows) + 1 : InsertAt(rows, k + 1, e)[j] = rows[j - 1]
    BY <1>1, PlacesAfterInsertion
  <2> QED
    BY <2>1
<1> DEFINE Old(j) == IF j < k + 1 THEN j ELSE j - 1
<1>3. ASSUME NEW j \in DOMAIN rows', j # k + 1
      PROVE  Old(j) \in DOMAIN rows /\ rows'[j] = rows[Old(j)]
  <2>1. CASE j < k + 1
    BY <1>1, <1>2, <2>1
  <2>2. CASE k + 1 < j
    BY <1>1, <1>2, <2>2
  <2> QED
    BY <1>1, <1>2, <1>3, <2>1, <2>2
<1>4. ASSUME NEW i \in DOMAIN rows', NEW j \in DOMAIN rows', i # k + 1, j # k + 1,
             Old(i) = Old(j)
      PROVE  i = j
  BY <1>1, <1>2, <1>4
<1> HIDE DEF Old
<1>5. \A i \in DOMAIN rows' : rows'[i].id \in 1 .. begun
  BY <1>2, <1>3 DEF RowInv
<1>6. ASSUME NEW i \in DOMAIN rows', NEW j \in DOMAIN rows', rows'[i].id = rows'[j].id
      PROVE  i = j
  <2>1. CASE i # k + 1 /\ j # k + 1
    BY <1>3, <1>4, <1>6, <2>1 DEF RowInv
  <2>2. CASE i = k + 1 /\ j # k + 1
    BY <1>2, <1>3, <1>6, <2>2
  <2>3. CASE i # k + 1 /\ j = k + 1
    BY <1>2, <1>3, <1>6, <2>3
  <2> QED
    BY <2>1, <2>2, <2>3
<1>7. ASSUME NEW w \in Worker, pc'[w] \in {"readHolder", "commit"}, NEW i \in DOMAIN rows'
      PROVE  rows'[i].id # job'[w].id
  BY <1>2, <1>3, <1>7 DEF RowInv
<1>8. begun' =< MaxRows
  BY DEF RowInv
<1> QED
  BY <1>5, <1>6, <1>7, <1>8 DEF RowInv

LEMMA RowsCorrect == Spec => []RowInv
<1> USE AuditAssumption
<1>1. Init => RowInv
  BY DEF Init, RowInv
<1>2. ASSUME TypeOK, EventInv, RowInv, [Next]_vars PROVE RowInv'
  <2> USE <1>2 DEF postgres, history, Goto
  <2>1. /\ pc \in [Worker -> {"idle"} \cup TransferSteps \cup SealSteps \cup ReportSteps]
        /\ DOMAIN job = Worker
        /\ begun \in Nat
    BY DEF TypeOK
  <2>2. ASSUME NEW w \in Worker, NEW u \in User, BeginTransfer(w, u) PROVE RowInv'
    <3>1. /\ job'[w].id = begun + 1 /\ begun' = begun + 1 /\ begun < MaxRows /\ rows' = rows
          /\ \A v \in Worker \ {w} : pc'[v] = pc[v] /\ job'[v] = job[v]
      BY <2>1, <2>2 DEF BeginTransfer
    <3> QED
      BY <2>1, <3>1 DEF RowInv
  <2>3. ASSUME NEW w \in Worker, CommitTransfer(w) PROVE RowInv'
    <3>1. PICK k \in 0 .. Len(rows) : rows' = InsertAt(rows, k + 1, job[w])
      BY <2>3 DEF CommitTransfer
    <3>2. job[w] \in Row /\ job[w].id \in 1 .. begun /\ pc[w] = "commit"
      BY <2>3 DEF CommitTransfer, TypeOK, JobOK, TransferSteps
    <3>3. \A i \in DOMAIN rows : rows[i].id # job[w].id
      BY <3>2 DEF RowInv
    <3>4. /\ pc'[w] \in {"stamp", "idle"}
          /\ \A v \in Worker \ {w} : pc'[v] = pc[v] /\ job'[v] = job[v]
          /\ begun' = begun
      BY <2>1, <2>3 DEF CommitTransfer, Respond
    <3>5. ASSUME NEW v \in Worker, pc'[v] \in {"readHolder", "commit"}
          PROVE  pc[v] = pc'[v] /\ job'[v] = job[v] /\ job[v].id # job[w].id
      <4>1. v # w
        BY <3>4, <3>5
      <4>2. TwoServedOK(v, w)
        BY <4>1 DEF EventInv
      <4> QED
        BY <3>2, <3>4, <3>5, <4>1, <4>2 DEF TwoServedOK, TransferSteps
    <3> QED
      BY <3>1, <3>2, <3>3, <3>4, <3>5, RowInserted
  <2>4. ASSUME \/ NeoAdds \/ UNCHANGED vars
               \/ \E w \in Worker :
                     \/ ReadHolder(w) \/ TransferFails(w) \/ Stamp(w)
                     \/ GraphCustody(w) \/ ChangeSeal(w) \/ (\E u \in Sealers : StampSeal(w, u))
                     \/ GraphSeal(w) \/ CountRows(w) \/ ListRows(w) \/ ShowReport(w) \/ Crash(w)
        PROVE  RowInv'
    <3>1. rows' = rows /\ begun' = begun
      BY <2>4, GraphGrows DEF vars, ReadHolder, TransferFails, Stamp, GraphCustody,
         ChangeSeal, StampSeal, GraphSeal, CountRows, ListRows, ShowReport, Crash
    <3>2. ASSUME NEW v \in Worker
          PROVE  \/ pc'[v] \notin {"readHolder", "commit"}
                 \/ pc[v] \in {"readHolder", "commit"} /\ job'[v].id = job[v].id
      <4>1. CASE \E w \in Worker : ReadHolder(w)
        <5>1. PICK w \in Worker : ReadHolder(w)
          BY <4>1
        <5>2. job[w] \in Event
          BY <5>1 DEF ReadHolder, TypeOK, JobOK
        <5>3. [job[w] EXCEPT !.from = Holder].id = job[w].id
          BY <5>2 DEF Event
        <5> QED
          BY <2>1, <5>1, <5>3 DEF ReadHolder, Respond
      <4>2. CASE \/ NeoAdds \/ UNCHANGED vars
                 \/ \E w \in Worker :
                     \/ TransferFails(w) \/ Stamp(w)
                     \/ GraphCustody(w) \/ ChangeSeal(w) \/ (\E u \in Sealers : StampSeal(w, u))
                     \/ GraphSeal(w) \/ CountRows(w) \/ ListRows(w) \/ ShowReport(w) \/ Crash(w)
        BY <2>1, <4>2, GraphGrows DEF vars, TransferFails, Stamp, GraphCustody,
           ChangeSeal, StampSeal, GraphSeal, CountRows, ListRows, ShowReport, Crash, Respond
      <4> QED
        BY <2>4, <4>1, <4>2
    <3> QED
      BY <3>1, <3>2, RowsUntouched
  <2> QED
    BY <2>2, <2>3, <2>4 DEF Next, Continue, NeoAdds
<1> QED
  BY <1>1, <1>2, TypeCorrect, EventsCorrect, PTL DEF Spec

-----------------------------------------------------------------------------
(* Each event and each request about to write one has a stamp of its own;  *)
(* the id of a seal is beyond those of the transfers.                      *)
Writing(w) == pc[w] \in {"graph", "graphSeal"}

StampedOK(i) ==
    LET e == graph.events[i] IN
    /\ e.ts \in 1 .. stamped /\ e.from # None
    /\ e.to = None => e.id = MaxRows + e.ts

WritingOK(w) ==
    Writing(w) =>
        /\ job[w].ts \in 1 .. stamped /\ job[w].from # None
        /\ pc[w] = "graphSeal" => job[w].id = MaxRows + job[w].ts
        /\ \A i \in DOMAIN graph.events : graph.events[i].ts # job[w].ts

StampInv ==
    /\ graph.linked <=> graph.node
    /\ \A i \in DOMAIN graph.events : StampedOK(i)
    /\ \A i, j \in DOMAIN graph.events : graph.events[i].ts = graph.events[j].ts => i = j
    /\ \A w \in Worker : WritingOK(w)
    /\ \A v, w \in Worker : v # w /\ Writing(v) /\ Writing(w) => job[v].ts # job[w].ts

(* A step that neither stamps nor writes an event keeps this.              *)
LEMMA StampsUntouched ==
    ASSUME StampInv, graph'.events = graph.events, stamped' = stamped,
           graph'.linked <=> graph'.node,
           \A v \in Worker : Writing(v)' => pc'[v] = pc[v] /\ job'[v] = job[v]
    PROVE  StampInv'
<1>1. \A v \in Worker : Writing(v)' => Writing(v) /\ pc'[v] = pc[v] /\ job'[v] = job[v]
  BY DEF Writing
<1>2. \A i \in DOMAIN graph'.events : StampedOK(i)'
  BY DEF StampInv, StampedOK
<1>3. ASSUME NEW v \in Worker PROVE WritingOK(v)'
  BY <1>1 DEF StampInv, WritingOK
<1>4. \A v, w \in Worker : v # w /\ Writing(v)' /\ Writing(w)' => job'[v].ts # job'[w].ts
  BY <1>1 DEF StampInv
<1>5. \A i, j \in DOMAIN graph'.events : graph'.events[i].ts = graph'.events[j].ts => i = j
  BY DEF StampInv
<1> QED
  BY <1>2, <1>3, <1>4, <1>5 DEF StampInv

(* A request reads the clock: no event and no other request has its stamp. *)
LEMMA StampTaken ==
    ASSUME StampInv, TypeOK, NEW w \in Worker,
           graph' = graph, stamped' = stamped + 1,
           \A v \in Worker \ {w} : pc'[v] = pc[v] /\ job'[v] = job[v],
           Writing(w)' => /\ job'[w].ts = stamped' /\ job'[w].from # None
                          /\ pc'[w] = "graphSeal" => job'[w].id = MaxRows + stamped'
    PROVE  StampInv'
<1>1. stamped \in Nat
  BY DEF TypeOK
<1>2. \A i \in DOMAIN graph'.events : StampedOK(i)'
  BY <1>1 DEF StampInv, StampedOK
<1>3. ASSUME NEW i \in DOMAIN graph.events PROVE graph.events[i].ts \in 1 .. stamped
  BY DEF StampInv, StampedOK
<1>4. ASSUME NEW v \in Worker PROVE WritingOK(v)'
  <2>1. CASE v = w
    <3>1. \A i \in DOMAIN graph.events : graph.events[i].ts # stamped + 1
      BY <1>1, <1>3
    <3>2. stamped + 1 \in 1 .. stamped + 1
      BY <1>1
    <3> QED
      BY <2>1, <3>1, <3>2 DEF WritingOK
  <2>2. CASE v # w
    <3>1. WritingOK(v)
      BY DEF StampInv
    <3> QED
      BY <1>1, <2>2, <3>1 DEF WritingOK, Writing
  <2> QED
    BY <2>1, <2>2
<1>5. ASSUME NEW v \in Worker, v # w, Writing(v)' PROVE Writing(v) /\ job'[v].ts \in 1 .. stamped
  BY <1>5 DEF StampInv, WritingOK, Writing
<1>6. ASSUME NEW v \in Worker, NEW x \in Worker, v # x, Writing(v)', Writing(x)'
      PROVE  job'[v].ts # job'[x].ts
  <2>1. CASE v = w
    BY <1>1, <1>5, <1>6, <2>1
  <2>2. CASE x = w
    BY <1>1, <1>5, <1>6, <2>2
  <2>3. CASE v # w /\ x # w
    BY <1>5, <1>6, <2>3 DEF StampInv
  <2> QED
    BY <2>1, <2>2, <2>3
<1>7. /\ graph'.linked <=> graph'.node
      /\ \A i, j \in DOMAIN graph'.events : graph'.events[i].ts = graph'.events[j].ts => i = j
  BY DEF StampInv
<1> QED
  BY <1>2, <1>4, <1>6, <1>7 DEF StampInv

(* A request writes its event and is over.                                 *)
LEMMA StampWritten ==
    ASSUME StampInv, EventInv, TypeOK, NEW w \in Worker, Writing(w),
           graph' = [graph EXCEPT !.events = Append(@, job[w])], Respond(w), stamped' = stamped
    PROVE  StampInv'
<1> DEFINE n == Len(graph.events)
<1>1. /\ graph \in Graph
      /\ graph.events \in Seq(Event) /\ n \in Nat /\ DOMAIN graph.events = 1 .. n
      /\ stamped \in Nat
  BY DEF TypeOK, Graph
<1>2. graph'.events = Append(graph.events, job[w])
      /\ graph'.linked = graph.linked /\ graph'.node = graph.node
  BY <1>1
<1>3. /\ DOMAIN graph'.events = 1 .. n + 1 /\ graph'.events[n + 1] = job[w]
      /\ \A i \in 1 .. n : graph'.events[i] = graph.events[i]
  BY <1>1, <1>2
<1> HIDE DEF n
<1>4. /\ ~Writing(w)'
      /\ \A v \in Worker \ {w} : pc'[v] = pc[v] /\ job'[v] = job[v]
  BY DEF Respond, TypeOK, Writing
<1>5. WritingOK(w)
  BY DEF StampInv
<1>6. pc[w] = "graph" => job[w].to # None
  <2>1. pc[w] = "graph" => job[w] \in Row
    BY DEF TypeOK, JobOK, TransferSteps
  <2> QED
    BY <2>1, ReadersAssumption DEF Row
<1>7. ASSUME NEW i \in DOMAIN graph'.events PROVE StampedOK(i)'
  <2>1. CASE i \in 1 .. n
    <3>1. StampedOK(i)
      BY <1>1, <2>1 DEF StampInv
    <3> QED
      BY <1>3, <2>1, <3>1 DEF StampedOK
  <2>2. CASE i = n + 1
    BY <1>3, <1>5, <1>6, <2>2 DEF WritingOK, Writing, StampedOK
  <2> QED
    BY <1>1, <1>3, <2>1, <2>2
<1>8. ASSUME NEW i \in DOMAIN graph'.events, NEW j \in DOMAIN graph'.events,
             graph'.events[i].ts = graph'.events[j].ts
      PROVE  i = j
  <2>1. \A k \in 1 .. n : graph'.events[k].ts # job[w].ts
    BY <1>1, <1>3, <1>5 DEF WritingOK
  <2>2. CASE i \in 1 .. n /\ j \in 1 .. n
    BY <1>1, <1>3, <1>8, <2>2 DEF StampInv
  <2>3. CASE i \in 1 .. n /\ j = n + 1
    BY <1>3, <1>8, <2>1, <2>3
  <2>4. CASE i = n + 1 /\ j \in 1 .. n
    BY <1>3, <1>8, <2>1, <2>4
  <2> QED
    BY <1>1, <1>3, <2>2, <2>3, <2>4
<1>9. ASSUME NEW v \in Worker PROVE WritingOK(v)'
  <2>1. CASE v = w
    BY <1>4, <2>1 DEF WritingOK
  <2>2. CASE v # w
    <3>1. WritingOK(v) /\ (Writing(v) => job[v].ts # job[w].ts)
      BY <2>2 DEF StampInv
    <3>2. Writing(v)' => Writing(v)
      BY <1>4, <2>2 DEF Writing
    <3>3. Writing(v)' => \A i \in 1 .. n + 1 : graph'.events[i].ts # job[v].ts
      BY <1>1, <1>3, <3>1, <3>2 DEF WritingOK
    <3> QED
      BY <1>3, <1>4, <2>2, <3>1, <3>2, <3>3 DEF WritingOK
  <2> QED
    BY <2>1, <2>2
<1>10. \A v, x \in Worker : v # x /\ Writing(v)' /\ Writing(x)' => job'[v].ts # job'[x].ts
  BY <1>4 DEF StampInv, Writing
<1> QED
  BY <1>2, <1>7, <1>8, <1>9, <1>10 DEF StampInv

LEMMA StampsCorrect == Spec => []StampInv
<1> USE ReadersAssumption, AuditAssumption
<1>1. Init => StampInv
  BY DEF Init, StampInv, WritingOK, Writing
<1>2. ASSUME TypeOK, EventInv, StampInv, [Next]_vars PROVE StampInv'
  <2> USE <1>2 DEF postgres, history, Goto
  <2>1. /\ pc \in [Worker -> {"idle"} \cup TransferSteps \cup SealSteps \cup ReportSteps]
        /\ DOMAIN job = Worker
        /\ graph \in Graph
        /\ stamped \in Nat
    BY DEF TypeOK
  <2>2. ASSUME NEW w \in Worker, Stamp(w) PROVE StampInv'
    <3>1. job[w] \in Row /\ job'[w] = [job[w] EXCEPT !.ts = stamped'] /\ pc'[w] = "graph"
      BY <2>1, <2>2 DEF Stamp, TypeOK, JobOK, TransferSteps
    <3>2. job'[w].ts = stamped' /\ job'[w].from # None
      BY <3>1 DEF Row
    <3>3. /\ graph' = graph /\ stamped' = stamped + 1
          /\ \A v \in Worker \ {w} : pc'[v] = pc[v] /\ job'[v] = job[v]
      BY <2>1, <2>2 DEF Stamp
    <3> QED
      BY <3>1, <3>2, <3>3, StampTaken
  <2>3. ASSUME NEW w \in Worker, NEW u \in Sealers, StampSeal(w, u) PROVE StampInv'
    <3>1. /\ job'[w] = [id |-> MaxRows + stamped', from |-> u, to |-> None, ts |-> stamped']
          /\ graph' = graph /\ stamped' = stamped + 1
          /\ \A v \in Worker \ {w} : pc'[v] = pc[v] /\ job'[v] = job[v]
      BY <2>1, <2>3 DEF StampSeal
    <3>2. u # None
      OBVIOUS
    <3> QED
      BY <3>1, <3>2, StampTaken
  <2>4. ASSUME NEW w \in Worker, GraphCustody(w) \/ GraphSeal(w) PROVE StampInv'
    <3>1. Writing(w) /\ Respond(w) /\ stamped' = stamped
      BY <2>4 DEF GraphCustody, GraphSeal, Writing
    <3>2. CASE graph' = [graph EXCEPT !.events = Append(@, job[w])]
      BY <3>1, <3>2, StampWritten
    <3>3. CASE graph' = graph
      <4>1. \A v \in Worker : Writing(v)' => pc'[v] = pc[v] /\ job'[v] = job[v]
        BY <2>1, <3>1 DEF Respond, Writing
      <4>2. graph'.linked <=> graph'.node
        BY <3>3 DEF StampInv
      <4> QED
        BY <3>1, <3>3, <4>1, <4>2, StampsUntouched
    <3> QED
      BY <2>4, <3>2, <3>3 DEF GraphCustody, GraphSeal, NeoCreate
  <2>5. ASSUME \/ NeoAdds \/ UNCHANGED vars
               \/ \E w \in Worker :
                     \/ \E u \in User : BeginTransfer(w, u)
                     \/ ReadHolder(w) \/ CommitTransfer(w) \/ TransferFails(w) \/ ChangeSeal(w)
                     \/ CountRows(w) \/ ListRows(w) \/ ShowReport(w) \/ Crash(w)
        PROVE  StampInv'
    <3>1. graph'.events = graph.events /\ stamped' = stamped
      BY <2>1, <2>5, GraphGrows DEF vars, BeginTransfer, ReadHolder, CommitTransfer,
         TransferFails, ChangeSeal, CountRows, ListRows, ShowReport, Crash
    <3>2. graph'.linked <=> graph'.node
      BY <2>1, <2>5, GraphGrows DEF StampInv, vars, BeginTransfer, ReadHolder,
         CommitTransfer, TransferFails, ChangeSeal, CountRows, ListRows, ShowReport, Crash
    <3>3. \A v \in Worker : Writing(v)' => pc'[v] = pc[v] /\ job'[v] = job[v]
      BY <2>1, <2>5, GraphGrows DEF Writing, vars, BeginTransfer, ReadHolder,
         CommitTransfer, TransferFails, ChangeSeal, CountRows, ListRows, ShowReport, Crash, Respond
    <3> QED
      BY <3>1, <3>2, <3>3, StampsUntouched
  <2> QED
    BY <2>2, <2>3, <2>4, <2>5 DEF Next, Continue, NeoAdds
<1> QED
  BY <1>1, <1>2, TypeCorrect, EventsCorrect, PTL DEF Spec

-----------------------------------------------------------------------------
(* What the readers are given: events with ids and stamps of their own, of *)
(* which those with a recipient are transfers, and each transfer a row.    *)
ReaderInv == TypeOK /\ EventInv /\ RowInv /\ StampInv

Shown     == Elements(graph.events)
ShownRows == {e \in Shown : IsTransfer(e)}

LEMMA EventsAreShown ==
    ASSUME ReaderInv
    PROVE  /\ graph.events \in Seq(Event) /\ DOMAIN graph.events = 1 .. Len(graph.events)
           /\ \A i \in DOMAIN graph.events : graph.events[i] \in Event
           /\ \A i, j \in DOMAIN graph.events : graph.events[i].id = graph.events[j].id => i = j
           /\ IsFiniteSet(Shown) /\ Cardinality(Shown) = Len(graph.events)
           /\ \A e \in Shown : e.ts \in Nat /\ e.id \in Nat
           /\ \A a, b \in Shown : a.id = b.id => a = b
           /\ \A a, b \in Shown : a.ts = b.ts => a = b
           /\ ShownRows \in SUBSET Shown /\ IsFiniteSet(ShownRows)
           /\ \A e \in Shown : IsTransfer(e) <=> e.to # None
           /\ \A e \in ShownRows : HasRow(rows, e)
<1> USE AuditAssumption
<1>1. graph.events \in Seq(Event) /\ DOMAIN graph.events = 1 .. Len(graph.events)
  BY DEF ReaderInv, TypeOK, Graph
<1>2. \A i \in DOMAIN graph.events : graph.events[i] \in Event
  BY <1>1, ElementOfSeq
<1>3. ASSUME NEW i \in DOMAIN graph.events, NEW j \in DOMAIN graph.events,
             graph.events[i].id = graph.events[j].id
      PROVE  i = j
  <2>0. begun \in Nat /\ begun =< MaxRows /\ stamped \in Nat
    BY DEF ReaderInv, TypeOK, RowInv
  <2>1. CASE graph.events[i].to # None /\ graph.events[j].to # None
    BY <1>3, <2>1 DEF ReaderInv, EventInv, Transfers, TwoShownOK
  <2>2. ASSUME NEW k \in DOMAIN graph.events, graph.events[k].to = None
        PROVE  graph.events[k].id = MaxRows + graph.events[k].ts /\ graph.events[k].ts \in 1 .. stamped
    BY <2>2 DEF ReaderInv, StampInv, StampedOK
  <2>3. ASSUME NEW k \in DOMAIN graph.events, graph.events[k].to # None
        PROVE  graph.events[k].id \in 1 .. begun
    BY <2>3 DEF ReaderInv, EventInv, Transfers, ShownOK
  <2>4. CASE graph.events[i].to = None /\ graph.events[j].to = None
    <3>1. graph.events[i].ts = graph.events[j].ts
      BY <1>3, <2>0, <2>2, <2>4
    <3> QED
      BY <3>1 DEF ReaderInv, StampInv
  <2>5. CASE graph.events[i].to = None /\ graph.events[j].to # None
    BY <1>3, <2>0, <2>2, <2>3, <2>5
  <2>6. CASE graph.events[i].to # None /\ graph.events[j].to = None
    BY <1>3, <2>0, <2>2, <2>3, <2>6
  <2> QED
    BY <2>1, <2>4, <2>5, <2>6
<1>4. /\ IsFiniteSet(Shown) /\ Cardinality(Shown) = Len(graph.events)
      /\ \A a, b \in Shown : a.id = b.id => a = b
  BY <1>1, <1>3, ElementsOf DEF Shown
<1>5. \A e \in Shown : e.ts \in Nat /\ e.id \in Nat
  BY <1>2 DEF Shown, Elements, Event
<1>6. \A a, b \in Shown : a.ts = b.ts => a = b
  BY DEF ReaderInv, StampInv, Shown, Elements
<1>7. ShownRows \in SUBSET Shown /\ IsFiniteSet(ShownRows)
  BY <1>4, FS_Subset DEF ShownRows
<1>8. \A e \in Shown : IsTransfer(e) <=> e.to # None
  BY DEF ReaderInv, StampInv, StampedOK, Shown, Elements, IsTransfer
<1>9. \A e \in ShownRows : HasRow(rows, e)
  BY DEF ShownRows, Shown, Elements, IsTransfer, ReaderInv, EventInv, Transfers, ShownOK
<1> QED
  BY <1>1, <1>2, <1>3, <1>4, <1>5, <1>6, <1>7, <1>8, <1>9

(* The chain of the graph, as the readers get it.                          *)
LEMMA ChainIsShown ==
    ASSUME ReaderInv, graph.linked
    PROVE  /\ Chain = ByTime(ShownRows, FALSE)
           /\ Len(Chain) = Cardinality(ShownRows) /\ DOMAIN Chain = 1 .. Len(Chain)
           /\ Len(Chain) \in Nat
           /\ \A i \in DOMAIN Chain : Chain[i] \in ShownRows
           /\ \A e \in ShownRows : \E i \in DOMAIN Chain : Chain[i] = e
<1>1. Chain = ByTime(ShownRows, FALSE)
  BY DEF Chain, NeoChain, ShownRows, Shown
<1>2. /\ IsFiniteSet(ShownRows) /\ \A e \in ShownRows : e.ts \in Nat /\ e.id \in Nat
      /\ \A a, b \in ShownRows : a.id = b.id => a = b
  BY EventsAreShown
<1> HIDE DEF Chain
<1>3. LET chain == ByTime(ShownRows, FALSE)  n == Cardinality(ShownRows) IN
      /\ n \in Nat
      /\ chain \in Seq(ShownRows) /\ Len(chain) = n /\ DOMAIN chain = 1 .. n
      /\ \A i \in 1 .. n : chain[i] \in ShownRows
      /\ \A i, j \in 1 .. n : i < j => Precedes(chain[i], chain[j], FALSE)
      /\ \A e \in ShownRows : \E i \in 1 .. n : chain[i] = e
  BY <1>2, Ordered
<1> QED
  BY <1>1, <1>3

LEMMA NoChain ==
    ASSUME ~graph.linked
    PROVE  Chain = <<>> /\ DOMAIN Chain = {} /\ Steps(Chain) = {}
BY DEF Chain, NeoChain, Steps

(* An event of the chain that has the id of a row has its users.           *)
LEMMA ChainHasRows ==
    ASSUME ReaderInv, NEW i \in DOMAIN Chain, NEW k \in DOMAIN rows, Chain[i].id = rows[k].id
    PROVE  /\ Chain[i].from = rows[k].from /\ Chain[i].to = rows[k].to
           /\ Chain[i].from # None /\ Chain[i].to # None
<1>1. graph.linked
  BY NoChain
<1>2. Chain[i] \in ShownRows
  BY <1>1, ChainIsShown
<1>3. HasRow(rows, Chain[i]) /\ IsTransfer(Chain[i])
  BY <1>2, EventsAreShown DEF ShownRows
<1>4. \A m, n \in DOMAIN rows : rows[m].id = rows[n].id => m = n
  BY DEF ReaderInv, RowInv
<1> QED
  BY <1>3, <1>4 DEF HasRow, IsTransfer

LEMMA ReadersSeeThis == Spec => []ReaderInv
BY TypeCorrect, EventsCorrect, RowsCorrect, StampsCorrect, PTL DEF ReaderInv

-----------------------------------------------------------------------------
(* Users who hand the evidence to each other and back are reported.        *)
THEOREM ExchangesCorrect == Spec => []ExchangesAreReported
<1>1. ASSUME TypeOK, NEW i \in DOMAIN rows, NEW j \in DOMAIN rows, i < j,
             rows[i].from = rows[j].to, rows[i].to = rows[j].from
      PROVE  CycleAnomalies(rows) \cup Exchanges(rows) # {}
  <2>1. Len(rows) \in Nat /\ DOMAIN rows = 1 .. Len(rows)
    BY <1>1 DEF TypeOK
  <2>2. i \in 1 .. j - 1
    BY <1>1, <2>1
  <2>3. Exchanged(rows, j)
    BY <1>1, <2>2 DEF Exchanged
  <2> QED
    BY <2>1, <2>3, SomethingIsReported
<1>2. TypeOK => ExchangesAreReported
  BY <1>1 DEF ExchangesAreReported
<1> QED
  BY <1>2, TypeCorrect, PTL

(* A query of the full chain that ends returns every event, in the order of*)
(* the stamps, or the rows.                                                *)
LEMMA WholeChainIsShown ==
    ASSUME ReaderInv
    PROVE  /\ Shown = {} => WholeChain(rows, graph) = rows
           /\ Shown # {} => WholeChain(rows, graph) = ByTime(Shown, FALSE)
<1>1. /\ graph.events \in Seq(Event) /\ DOMAIN graph.events = 1 .. Len(graph.events)
      /\ IsFiniteSet(Shown) /\ Cardinality(Shown) = Len(graph.events)
      /\ \A e \in Shown : e.ts \in Nat /\ e.id \in Nat
      /\ \A a, b \in Shown : a.id = b.id => a = b
  BY EventsAreShown
<1> DEFINE chain == ByTime(Shown, FALSE)
<1>2. chain \in Seq(Shown) /\ Len(chain) = Len(graph.events)
  BY <1>1, Ordered
<1>3. Shown = {} <=> Len(graph.events) = 0
  <2>1. Len(graph.events) \in Nat
    BY <1>1
  <2>2. \A n \in Nat : 1 .. n = {} <=> n = 0
    <3> SUFFICES ASSUME NEW n \in Nat, n # 0 PROVE 1 \in 1 .. n
      OBVIOUS
    <3> QED OBVIOUS
  <2>3. 1 .. Len(graph.events) = {} <=> Len(graph.events) = 0
    BY <2>1, <2>2
  <2> QED
    <3>1. Shown = {} <=> DOMAIN graph.events = {}
      BY DEF Shown, Elements
    <3> QED
      BY <1>1, <2>3, <3>1
<1>4. WholeChain(rows, graph)
         = IF Len(graph.events) = 0 THEN rows ELSE SubSeq(chain, 1, Len(graph.events))
  BY DEF WholeChain, FullChain, Shown
<1> HIDE DEF chain
<1>5. SubSeq(chain, 1, Len(chain)) = chain
  BY <1>2, SubSeqFull
<1> QED
  BY <1>2, <1>3, <1>4, <1>5 DEF chain

(* A gap of the graph's chain that the endpoint does not show is split by  *)
(* a seal.                                                                 *)
THEOREM SealsCorrect == Spec => []OnlySealsHideGaps
<1>1. ASSUME ReaderInv, NEW i \in Gaps(Chain)
      PROVE  LET full == WholeChain(rows, graph) IN
             \/ \E k \in GapAnomalies(full) : full[k].id = Chain[i].id
             \/ \E k \in DOMAIN full :
                   /\ full[k].to = None
                   /\ Chain[i].ts < full[k].ts /\ full[k].ts < Chain[i + 1].ts
  <2> DEFINE full == ByTime(Shown, FALSE)
             n == Cardinality(Shown)
  <2>1. graph.linked /\ i \in Steps(Chain) /\ Chain[i].to # Chain[i + 1].from
    BY <1>1, NoChain DEF Gaps
  <2>2. /\ Chain = ByTime(ShownRows, FALSE)
        /\ Len(Chain) = Cardinality(ShownRows) /\ DOMAIN Chain = 1 .. Len(Chain)
        /\ Len(Chain) \in Nat
        /\ \A k \in DOMAIN Chain : Chain[k] \in ShownRows
    BY <1>1, <2>1, ChainIsShown
  <2>3. i \in 1 .. Len(Chain) - 1 /\ i \in DOMAIN Chain /\ i + 1 \in DOMAIN Chain
    <3>1. \A m \in Nat : i \in 1 .. m - 1 => i \in 1 .. m /\ i + 1 \in 1 .. m
      OBVIOUS
    <3>2. i \in 1 .. Len(Chain) - 1
      BY <2>1 DEF Steps
    <3> QED
      BY <2>2, <3>1, <3>2
  <2>4. Chain[i] \in ShownRows /\ Chain[i + 1] \in ShownRows
    BY <2>2, <2>3
  <2>5. /\ IsFiniteSet(Shown) /\ ShownRows \in SUBSET Shown
        /\ \A e \in Shown : e.ts \in Nat /\ e.id \in Nat
        /\ \A a, b \in Shown : a.id = b.id => a = b
        /\ \A a, b \in Shown : a.ts = b.ts => a = b
        /\ \A e \in Shown : IsTransfer(e) <=> e.to # None
    BY <1>1, EventsAreShown
  <2>6. PICK p \in 1 .. n - 1 :
           /\ full[p] = Chain[i]
           /\ \/ full[p + 1] = Chain[i + 1]
              \/ /\ full[p + 1] \in Shown \ ShownRows
                 /\ Precedes(Chain[i], full[p + 1], FALSE)
                 /\ Precedes(full[p + 1], Chain[i + 1], FALSE)
    <3> DEFINE chain == ByTime(ShownRows, FALSE)
    <3>1. i \in 1 .. Cardinality(ShownRows) - 1
      BY <2>2, <2>3
    <3> HIDE DEF chain
    <3>2. \E p \in 1 .. n - 1 :
             /\ full[p] = chain[i]
             /\ \/ full[p + 1] = chain[i + 1]
                \/ /\ full[p + 1] \in Shown \ ShownRows
                   /\ Precedes(chain[i], full[p + 1], FALSE)
                   /\ Precedes(full[p + 1], chain[i + 1], FALSE)
      BY <2>5, <3>1, NextInChain DEF chain
    <3>3. Chain = chain
      BY <2>2 DEF chain
    <3> QED
      BY <3>2, <3>3
  <2>7. n \in Nat /\ Len(full) = n /\ DOMAIN full = 1 .. n
    BY <2>5, Ordered
  <2>8. WholeChain(rows, graph) = full
    BY <1>1, <2>4, <2>5, WholeChainIsShown
  <2> HIDE DEF full, n
  <2>9. p \in DOMAIN full /\ p + 1 \in DOMAIN full /\ p \in Steps(full)
    BY <2>7 DEF Steps
  <2>10. Chain[i].to # None /\ Chain[i].from # None /\ Chain[i + 1].from # None
    BY <2>4 DEF ShownRows, IsTransfer
  <2>11. CASE full[p + 1] = Chain[i + 1]
    <3>1. p \in GapAnomalies(full)
      BY <2>1, <2>6, <2>9, <2>10, <2>11 DEF GapAnomalies, Gaps
    <3> QED
      BY <2>6, <2>8, <3>1
  <2>12. CASE /\ full[p + 1] \in Shown \ ShownRows
              /\ Precedes(Chain[i], full[p + 1], FALSE)
              /\ Precedes(full[p + 1], Chain[i + 1], FALSE)
    <3>1. full[p + 1].to = None
      BY <2>5, <2>12 DEF ShownRows
    <3>2. Chain[i].ts # full[p + 1].ts /\ full[p + 1].ts # Chain[i + 1].ts
      BY <2>4, <2>5, <2>12
    <3>3. Chain[i].ts < full[p + 1].ts /\ full[p + 1].ts < Chain[i + 1].ts
      BY <2>12, <3>2 DEF Precedes
    <3> QED
      BY <2>8, <2>9, <3>1, <3>3
  <2> QED
    BY <2>6, <2>11, <2>12
<1>2. ReaderInv => OnlySealsHideGaps
  BY <1>1 DEF OnlySealsHideGaps
<1> QED
  BY <1>2, ReadersSeeThis, PTL

(* An event of the chain that has the id of a row is an event of the graph *)
(* with its users.                                                         *)
LEMMA MirroredIsShown ==
    ASSUME ReaderInv, NEW r \in Elements(rows), r.id \in Mirrored
    PROVE  \E n \in DOMAIN graph.events :
              /\ graph.events[n].id = r.id /\ graph.events[n].from = r.from
              /\ graph.events[n].to = r.to
<1>1. PICK c \in DOMAIN Chain : Chain[c].id = r.id
  BY DEF Mirrored
<1>2. PICK i \in DOMAIN rows : rows[i] = r
  BY DEF Elements
<1>3. graph.linked
  BY NoChain
<1>4. Chain[c] \in Shown
  BY <1>3, ChainIsShown, EventsAreShown
<1>5. Chain[c].from = r.from /\ Chain[c].to = r.to
  BY <1>1, <1>2, ChainHasRows
<1> QED
  BY <1>1, <1>4, <1>5 DEF Shown, Elements

(* What the full chain leaves out is not in the graph, or comes after what *)
(* was read of it.                                                         *)
LEMMA ChainOmits ==
    ASSUME ReaderInv, NEW r \in Elements(rows), NEW read \in 0 .. Len(graph.events),
           \A k \in DOMAIN FullChain(rows, graph, read) : FullChain(rows, graph, read)[k].id # r.id
    PROVE  /\ read > 0
           /\ \/ r.id \notin Mirrored
              \/ \E e \in Elements(graph.events) :
                    /\ e.id = r.id
                    /\ \A k \in DOMAIN FullChain(rows, graph, read) :
                          FullChain(rows, graph, read)[k].ts < e.ts
<1> DEFINE chain == ByTime(Shown, FALSE)
           full == FullChain(rows, graph, read)
<1>1. read # 0
  BY DEF FullChain, Elements
<1>2. /\ graph.events \in Seq(Event)
      /\ IsFiniteSet(Shown) /\ Cardinality(Shown) = Len(graph.events)
      /\ \A e \in Shown : e.ts \in Nat /\ e.id \in Nat
      /\ \A a, b \in Shown : a.id = b.id => a = b
      /\ \A a, b \in Shown : a.ts = b.ts => a = b
  BY EventsAreShown
<1>3. /\ chain \in Seq(Shown) /\ Len(chain) = Len(graph.events)
      /\ Len(graph.events) \in Nat
      /\ \A i \in 1 .. Len(graph.events) : chain[i] \in Shown
      /\ \A i, j \in 1 .. Len(graph.events) : i < j => Precedes(chain[i], chain[j], FALSE)
      /\ \A e \in Shown : \E i \in 1 .. Len(graph.events) : chain[i] = e
  <2> DEFINE n == Cardinality(Shown)
  <2>1. /\ n \in Nat
        /\ chain \in Seq(Shown) /\ Len(chain) = n
        /\ \A i \in 1 .. n : chain[i] \in Shown
        /\ \A i, j \in 1 .. n : i < j => Precedes(chain[i], chain[j], FALSE)
        /\ \A e \in Shown : \E i \in 1 .. n : chain[i] = e
    BY <1>2, Ordered, ZenonT(30)
  <2> QED
    BY <1>2, <2>1
<1>4. full = SubSeq(chain, 1, read)
  BY <1>1 DEF FullChain, Shown
<1> HIDE DEF chain, full
<1>5. read \in 1 .. Len(graph.events) /\ read > 0
  BY <1>1, <1>3
<1>6. DOMAIN full = 1 .. read /\ \A k \in 1 .. read : full[k] = chain[k]
  <2>1. /\ SubSeq(chain, 1, read) \in Seq(Shown)
        /\ Len(SubSeq(chain, 1, read)) = IF 1 =< read THEN read - 1 + 1 ELSE 0
        /\ \A i \in 1 .. read - 1 + 1 : SubSeq(chain, 1, read)[i] = chain[1 + i - 1]
    BY <1>3, <1>5, SubSeqProperties
  <2>2. Len(full) = read /\ full \in Seq(Shown)
    BY <1>4, <1>5, <2>1
  <2>3. \A k \in 1 .. read : full[k] = chain[k]
    BY <1>4, <1>5, <2>1
  <2> QED
    BY <2>2, <2>3
<1>7. ASSUME r.id \in Mirrored
      PROVE  \E e \in Elements(graph.events) :
                e.id = r.id /\ \A k \in DOMAIN full : full[k].ts < e.ts
  <2>1. PICK e \in Shown : e.id = r.id
    BY <1>7, MirroredIsShown DEF Shown, Elements
  <2>2. PICK j \in 1 .. Len(graph.events) : chain[j] = e
    BY <1>3
  <2>3. ~(j =< read)
    <3>1. \A k \in DOMAIN full : full[k].id # r.id
      BY DEF full
    <3>2. j \notin 1 .. read
      BY <1>6, <2>1, <2>2, <3>1
    <3> QED
      BY <1>3, <1>5, <3>2
  <2>4. ASSUME NEW k \in 1 .. read PROVE full[k].ts < e.ts
    <3>1. k \in 1 .. Len(graph.events) /\ k < j
      BY <1>3, <1>5, <2>3, SMTT(40)
    <3>2. Precedes(full[k], e, FALSE) /\ full[k] \in Shown
      BY <1>3, <1>6, <2>2, <3>1
    <3>3. full[k].ts # e.ts
      <4>1. full[k].ts = e.ts => full[k] = e
        BY <1>2, <3>2
      <4>2. ~Precedes(e, e, FALSE)
        BY <1>2 DEF Precedes
      <4> QED
        BY <3>2, <4>1, <4>2
    <3> QED
      BY <3>2, <3>3 DEF Precedes
  <2> QED
    BY <1>6, <2>1, <2>4 DEF Shown
<1> QED
  BY <1>5, <1>7 DEF full

(* What a row leaves in the graph its users have sent or received.         *)
LEMMA NetworkOmits ==
    ASSUME ReaderInv, NEW r \in Elements(rows), NEW answered \in 0 .. 2
    PROVE  LET taker == Network(rows, graph, r.to, answered)
               giver == Network(rows, graph, r.from, answered)
               Has(u) == \E e \in Elements(graph.events) : u \in {e.from, e.to}
           IN  /\ r.id \notin taker.received =>
                     \/ r.id \notin Mirrored /\ Has(r.to)
                     \/ answered = 1 /\ Sent(graph.events, r.to) # {}
               /\ r.id \notin giver.sent =>
                     r.id \notin Mirrored /\ answered > 0 /\ Has(r.from)
<1> DEFINE Has(u) == \E e \in Elements(graph.events) : u \in {e.from, e.to}
<1>1. r.id \in Got(rows, r.to) /\ r.id \in Sent(rows, r.from)
  BY DEF Elements, Got, Sent, Received
<1>2. \A u : Sent(graph.events, u) \cup Got(graph.events, u) # {} => Has(u)
  BY DEF Elements, Got, Sent, Received
<1>3. r.id \in Mirrored => r.id \in Got(graph.events, r.to) /\ r.id \in Sent(graph.events, r.from)
  BY MirroredIsShown DEF Got, Sent, Received
<1> HIDE DEF Has
<1>4. answered \in {0, 1, 2}
  OBVIOUS
<1>5. ASSUME r.id \notin Network(rows, graph, r.to, answered).received
      PROVE  \/ r.id \notin Mirrored /\ Has(r.to)
             \/ answered = 1 /\ Sent(graph.events, r.to) # {}
  <2>1. CASE answered = 0
    BY <1>1, <1>5, <2>1 DEF Network
  <2>2. CASE answered = 1
    BY <1>1, <1>5, <2>2 DEF Network
  <2>3. CASE answered = 2
    BY <1>1, <1>2, <1>3, <1>5, <2>3 DEF Network
  <2> QED
    BY <1>4, <2>1, <2>2, <2>3
<1>6. ASSUME r.id \notin Network(rows, graph, r.from, answered).sent
      PROVE  r.id \notin Mirrored /\ answered > 0 /\ Has(r.from)
  <2>1. CASE answered = 0
    BY <1>1, <1>6, <2>1 DEF Network
  <2>2. CASE answered = 1
    BY <1>1, <1>2, <1>3, <1>6, <2>2 DEF Network
  <2>3. CASE answered = 2
    BY <1>1, <1>2, <1>3, <1>6, <2>3 DEF Network
  <2> QED
    BY <1>4, <2>1, <2>2, <2>3
<1> QED
  BY <1>5, <1>6 DEF Has

(* What the full chain or the network of a user leaves out of PostgreSQL is*)
(* not mirrored, while the graph has other events of them, or follows what *)
(* was read before the query raised.                                       *)
THEOREM OmissionsCorrect == Spec => []OmissionsHaveACause
<1>1. ReaderInv => OmissionsHaveACause
  BY ChainOmits, NetworkOmits DEF OmissionsHaveACause
<1> QED
  BY <1>1, ReadersSeeThis, PTL

(* The custody view and the anomaly endpoint agree on the gaps of a graph  *)
(* that holds every row in order and nothing else, and a receiver it shows *)
(* twice has received twice.                                               *)
THEOREM ReadersCorrect == Spec => []ReadersAgree
<1>1. ASSUME ReaderInv, Ids(Chain) = Ids(rows)
      PROVE  /\ DOMAIN Chain = DOMAIN rows
             /\ \A i \in DOMAIN Chain : /\ Chain[i].id = rows[i].id
                                        /\ Chain[i].from = rows[i].from /\ Chain[i].to = rows[i].to
                                        /\ Chain[i].from # None /\ Chain[i].to # None
             /\ Len(Chain) \in Nat /\ Len(Chain) = Len(rows)
             /\ Steps(Chain) = Steps(rows) /\ Gaps(Chain) = Gaps(rows)
             /\ \A i \in Steps(Chain) : i \in DOMAIN Chain /\ i + 1 \in DOMAIN Chain
  <2>1. DOMAIN Chain = DOMAIN rows /\ \A i \in DOMAIN Chain : Chain[i].id = rows[i].id
    BY <1>1 DEF Ids
  <2>2. \A i \in DOMAIN Chain : /\ Chain[i].from = rows[i].from /\ Chain[i].to = rows[i].to
                                /\ Chain[i].from # None /\ Chain[i].to # None
    BY <1>1, <2>1, ChainHasRows
  <2>3. Len(Chain) \in Nat /\ DOMAIN Chain = 1 .. Len(Chain)
    BY <1>1, ChainIsShown, NoChain
  <2>4. Len(rows) \in Nat /\ DOMAIN rows = 1 .. Len(rows)
    BY <1>1 DEF ReaderInv, TypeOK
  <2>5. Len(Chain) = Len(rows)
    <3>1. \A m, n \in Nat : 1 .. m = 1 .. n => m = n
      <4>1. ASSUME NEW m \in Nat, NEW n \in Nat, 1 .. m = 1 .. n, m < n PROVE FALSE
        <5>1. n \in 1 .. n /\ n \notin 1 .. m
          BY <4>1
        <5> QED
          BY <4>1, <5>1
      <4>2. \A m, n \in Nat : m < n \/ n < m \/ m = n
        OBVIOUS
      <4> QED
        BY <4>1, <4>2
    <3> QED
      BY <2>1, <2>3, <2>4, <3>1
  <2>6. \A i \in Steps(Chain) : i \in DOMAIN Chain /\ i + 1 \in DOMAIN Chain
    BY <2>3 DEF Steps
  <2>7. Steps(Chain) = Steps(rows)
    BY <2>5 DEF Steps
  <2>8. Gaps(Chain) = Gaps(rows)
    BY <2>2, <2>6, <2>7 DEF Gaps
  <2> QED
    BY <2>1, <2>2, <2>3, <2>5, <2>6, <2>7, <2>8
<1>2. ASSUME ReaderInv, Ids(Chain) = Ids(rows), Len(graph.events) = Len(Chain)
      PROVE  GapAnomalies(WholeChain(rows, graph)) = Gaps(rows)
  <2>1. WholeChain(rows, graph) \in {rows, Chain}
    <3>1. CASE Shown = {}
      BY <1>2, <3>1, WholeChainIsShown
    <3>2. CASE Shown # {}
      <4>1. /\ IsFiniteSet(Shown) /\ Cardinality(Shown) = Len(Chain)
            /\ ShownRows \in SUBSET Shown
        BY <1>2, EventsAreShown
      <4>2. graph.linked
        <5>1. ~graph.linked => Len(Chain) = 0
          BY NoChain
        <5>2. Cardinality(Shown) # 0
          BY <3>2, <4>1, FS_EmptySet
        <5> QED
          BY <4>1, <5>1, <5>2
      <4>3. Chain = ByTime(ShownRows, FALSE) /\ Len(Chain) = Cardinality(ShownRows)
        BY <1>2, <4>2, ChainIsShown
      <4>4. ShownRows = Shown
        BY <4>1, <4>3, FS_Subset
      <4> QED
        BY <1>2, <3>2, <4>3, <4>4, WholeChainIsShown
    <3> QED
      BY <3>1, <3>2
  <2>2. \A i \in Gaps(Chain) : Chain[i].to # None /\ Chain[i + 1].from # None
    BY <1>1, <1>2 DEF Gaps
  <2>3. \A i \in Gaps(rows) : rows[i].to # None /\ rows[i + 1].from # None
    <3>1. \A i \in Steps(rows) : /\ i \in DOMAIN Chain /\ i + 1 \in DOMAIN Chain
      BY <1>1, <1>2
    <3> QED
      BY <1>1, <1>2, <3>1 DEF Gaps
  <2> QED
    BY <1>1, <1>2, <2>1, <2>2, <2>3 DEF GapAnomalies
<1>3. ASSUME ReaderInv, NEW u \in NeoCycles(graph)
      PROVE  Cardinality(Received(rows, u)) > 1
  <2> DEFINE A == Received(graph.events, u)
             B == Received(rows, u)
             f == [i \in A |-> CHOOSE k \in DOMAIN rows : rows[k].id = graph.events[i].id]
  <2>1. u # None /\ Cardinality(A) > 1
    BY ReadersAssumption DEF NeoCycles
  <2>2. ASSUME NEW i \in A
        PROVE  f[i] \in B /\ rows[f[i]].id = graph.events[i].id
    <3>1. i \in Transfers
      BY <2>1 DEF Received, Transfers
    <3>2. HasRow(rows, graph.events[i])
      BY <1>3, <3>1 DEF ReaderInv, EventInv, ShownOK
    <3>3. PICK k \in DOMAIN rows : rows[k].id = graph.events[i].id /\ rows[k].to = u
      BY <3>2 DEF HasRow, Received
    <3>4. f[i] \in DOMAIN rows /\ rows[f[i]].id = graph.events[i].id
      BY <3>3
    <3>5. f[i] = k
      BY <1>3, <3>3, <3>4 DEF ReaderInv, RowInv
    <3> QED
      BY <3>3, <3>5 DEF Received
  <2>3. f \in [A -> B]
    BY <2>2
  <2>4. A \subseteq DOMAIN graph.events /\ B \subseteq DOMAIN rows
    BY DEF Received
  <2> HIDE DEF f, A, B
  <2>5. f \in Injection(A, B)
    <3>1. \A i, j \in A : f[i] = f[j] => i = j
      BY <1>3, <2>2, <2>4, EventsAreShown
    <3> QED
      BY <2>3, <3>1 DEF Injection, IsInjective
  <2>6. IsFiniteSet(B)
    <3>1. Len(rows) \in Nat /\ DOMAIN rows = 1 .. Len(rows)
      BY <1>3 DEF ReaderInv, TypeOK
    <3>2. IsFiniteSet(1 .. Len(rows))
      BY <3>1, FS_Interval
    <3> QED
      BY <2>4, <3>1, <3>2, FS_Subset
  <2>7. IsFiniteSet(A) /\ Cardinality(A) =< Cardinality(B)
    BY <2>5, <2>6, FS_Injection
  <2>8. Cardinality(A) \in Nat /\ Cardinality(B) \in Nat
    BY <2>6, <2>7, FS_CardinalityType
  <2> QED
    BY <2>1, <2>7, <2>8 DEF B
<1>4. ReaderInv => ReadersAgree
  BY <1>1, <1>2, <1>3 DEF ReadersAgree, ViewGaps, Chain
<1> QED
  BY <1>4, ReadersSeeThis, PTL

-----------------------------------------------------------------------------
(* Edges are told apart by the kinds of the nodes they join, and those of  *)
(* custody events by the ids of the events.                                *)
Joins(x)   == <<x[1][1], x[2][1]>>
OfEvent(x) == x[1][1] = "ce" \/ x[2][1] = "ce"
EventId(x) == IF x[1][1] = "ce" THEN x[1][2] ELSE x[2][2]

LEMMA EventEdgesKnown ==
    ASSUME NEW e, NEW x \in EdgesOf(e)
    PROVE  OfEvent(x) /\ EventId(x) = e.id
<1>1. CASE x = <<<<"ev">>, <<"ce", e.id>>>>
  BY <1>1 DEF OfEvent, EventId
<1>2. CASE \E u : x = <<<<"user", u>>, <<"ce", e.id>>>>
  BY <1>2 DEF OfEvent, EventId
<1>3. CASE \E u : x = <<<<"ce", e.id>>, <<"user", u>>>>
  BY <1>3 DEF OfEvent, EventId
<1> QED
  BY <1>1, <1>2, <1>3 DEF EdgesOf

(* The edges of the events of one set that those of another do not have    *)
(* are the edges of the events the other does not have.                    *)
LEMMA EdgesDiffer ==
    ASSUME NEW S, NEW T,
           \A e \in S, f \in T : e.id = f.id => e.from = f.from /\ e.to = f.to
    PROVE  EventEdges(S) \ EventEdges(T)
              = EventEdges({e \in S : \A f \in T : f.id # e.id})
<1> DEFINE only == {e \in S : \A f \in T : f.id # e.id}
<1>1. ASSUME NEW e \in S, NEW f \in T, e.id = f.id PROVE EdgesOf(e) = EdgesOf(f)
  BY <1>1 DEF EdgesOf
<1>2. ASSUME NEW x \in EventEdges(S), x \notin EventEdges(T) PROVE x \in EventEdges(only)
  <2>1. PICK e \in S : x \in EdgesOf(e)
    BY <1>2 DEF EventEdges
  <2>2. \A f \in T : f.id # e.id
    BY <1>1, <1>2, <2>1 DEF EventEdges
  <2> QED
    BY <2>1, <2>2 DEF EventEdges
<1>3. ASSUME NEW x \in EventEdges(only) PROVE x \in EventEdges(S) /\ x \notin EventEdges(T)
  <2>1. PICK e \in only : x \in EdgesOf(e)
    BY <1>3 DEF EventEdges
  <2>2. ASSUME NEW f \in T, x \in EdgesOf(f) PROVE FALSE
    BY <2>1, <2>2, EventEdgesKnown
  <2> QED
    BY <2>1, <2>2 DEF EventEdges
<1> QED
  BY <1>2, <1>3

LEMMA OtherEdgesKnown ==
    /\ \A x \in HasEvidence : Joins(x) = <<"case", "ev">> /\ ~OfEvent(x)
    /\ \A u : \A x \in Created(u) : Joins(x) = <<"user", "case">> /\ ~OfEvent(x)
    /\ \A u : \A x \in Uploaded(u) : Joins(x) = <<"user", "ev">> /\ ~OfEvent(x)
    /\ \A by : \A x \in Verified(by) :
          Joins(x) \in {<<"ev", "ve">>, <<"user", "ve">>} /\ ~OfEvent(x)
<1>1. \A x \in HasEvidence : Joins(x) = <<"case", "ev">> /\ ~OfEvent(x)
  BY DEF HasEvidence, Joins, OfEvent
<1>2. \A u : \A x \in Created(u) : Joins(x) = <<"user", "case">> /\ ~OfEvent(x)
  BY DEF Created, Joins, OfEvent
<1>3. \A u : \A x \in Uploaded(u) : Joins(x) = <<"user", "ev">> /\ ~OfEvent(x)
  BY DEF Uploaded, Joins, OfEvent
<1>4. ASSUME NEW by, NEW x \in Verified(by)
      PROVE  Joins(x) \in {<<"ev", "ve">>, <<"user", "ve">>} /\ ~OfEvent(x)
  <2>1. PICK i \in DOMAIN by : \/ x = <<<<"ev">>, <<"ve", i>>>>
                               \/ x = <<<<"user", by[i]>>, <<"ve", i>>>>
    BY DEF Verified
  <2> QED
    BY <2>1 DEF Joins, OfEvent
<1> QED
  BY <1>1, <1>2, <1>3, <1>4

(* The graph page leaves out rows that are not mirrored, the creator and   *)
(* the uploader when the graph does not have them, and nothing else; it    *)
(* adds seals and verifications.                                           *)
THEOREM GraphCorrect == Spec => []GraphShowsTheRows
<1>1. ASSUME ReaderInv
      PROVE  /\ \A r \in Elements(rows), e \in Shown :
                    r.id = e.id => r.from = e.from /\ r.to = e.to
             /\ \A e \in Shown : e.to = None <=> \A r \in Elements(rows) : r.id # e.id
  <2>1. \A r \in Elements(rows) : r.id \in 1 .. begun
    BY <1>1 DEF Elements, ReaderInv, RowInv
  <2>2. ASSUME NEW e \in Shown, e.to = None, NEW r \in Elements(rows) PROVE r.id # e.id
    <3>1. e.id = MaxRows + e.ts /\ e.ts \in 1 .. stamped
      BY <1>1, <2>2 DEF ReaderInv, StampInv, StampedOK, Shown, Elements
    <3>2. begun \in Nat /\ begun =< MaxRows /\ stamped \in Nat /\ MaxRows \in Nat
      BY <1>1, AuditAssumption DEF ReaderInv, TypeOK, RowInv
    <3> QED
      BY <2>1, <3>1, <3>2
  <2>3. ASSUME NEW e \in Shown, e.to # None PROVE HasRow(rows, e)
    BY <1>1, <2>3, EventsAreShown DEF ShownRows
  <2>4. \A i, j \in DOMAIN rows : rows[i].id = rows[j].id => i = j
    BY <1>1 DEF ReaderInv, RowInv
  <2>5. ASSUME NEW r \in Elements(rows), NEW e \in Shown, r.id = e.id
        PROVE  r.from = e.from /\ r.to = e.to
    <3>1. HasRow(rows, e)
      BY <2>2, <2>3, <2>5
    <3> QED
      BY <2>4, <2>5, <3>1 DEF HasRow, Elements
  <2>6. \A e \in Shown : e.to = None <=> \A r \in Elements(rows) : r.id # e.id
    BY <2>2, <2>3 DEF HasRow, Elements
  <2> QED
    BY <2>5, <2>6
<1>2. ASSUME ReaderInv, graph.linked, NEW r \in Elements(rows)
      PROVE  r.id \notin Mirrored <=> \A e \in Shown : e.id # r.id
  <2>1. /\ \A i \in DOMAIN Chain : Chain[i] \in ShownRows
        /\ \A e \in ShownRows : \E i \in DOMAIN Chain : Chain[i] = e
    BY <1>2, ChainIsShown
  <2>2. \A e \in Shown : e.id = r.id => e \in ShownRows
    BY <1>1, <1>2, EventsAreShown DEF ShownRows
  <2>3. ShownRows \subseteq Shown
    BY DEF ShownRows
  <2> QED
    BY <2>1, <2>2, <2>3 DEF Mirrored
<1>3. ASSUME ReaderInv, graph.node
      PROVE  LET shown  == ShownGraph(rows, graph, Uploader, Creator, TRUE)
                 stored == SqlGraph(rows, Uploader, Creator)
                 Unmirrored == {r \in Elements(rows) : r.id \notin Mirrored}
                 Seals  == {e \in Elements(graph.events) : e.to = None}
             IN  /\ stored \ shown = EventEdges(Unmirrored)
                                \cup (IF graph.created THEN {} ELSE Created(Creator))
                                \cup (IF graph.uploaded THEN {} ELSE Uploaded(Uploader))
                 /\ shown \ stored = EventEdges(Seals) \cup Verified(graph.verified)
  <2> DEFINE Unmirrored == {r \in Elements(rows) : r.id \notin Mirrored}
             Seals == {e \in Elements(graph.events) : e.to = None}
             A == EventEdges(Elements(rows))
             B == EventEdges(Shown)
             H == HasEvidence
             C == Created(Creator)
             U == Uploaded(Uploader)
             V == Verified(graph.verified)
  <2>1. graph.linked
    BY <1>3 DEF ReaderInv, StampInv
  <2>2. A \ B = EventEdges(Unmirrored)
    <3>1. A \ B = EventEdges({r \in Elements(rows) : \A e \in Shown : e.id # r.id})
      BY <1>1, <1>3, EdgesDiffer
    <3>2. {r \in Elements(rows) : \A e \in Shown : e.id # r.id} = Unmirrored
      BY <1>2, <1>3, <2>1
    <3> QED
      BY <3>1, <3>2
  <2>3. B \ A = EventEdges(Seals)
    <3>1. \A e \in Shown, r \in Elements(rows) : e.id = r.id => e.from = r.from /\ e.to = r.to
      BY <1>1, <1>3
    <3>2. B \ A = EventEdges({e \in Shown : \A r \in Elements(rows) : r.id # e.id})
      BY <3>1, EdgesDiffer, ZenonT(30)
    <3>3. {e \in Shown : \A r \in Elements(rows) : r.id # e.id} = Seals
      BY <1>1, <1>3 DEF Shown
    <3> QED
      BY <3>2, <3>3
  <2>4. \A x \in A \cup B : OfEvent(x)
    BY EventEdgesKnown DEF EventEdges
  <2>5. \A x \in H \cup C \cup U \cup V : ~OfEvent(x)
    BY OtherEdgesKnown
  <2>6. H \cap C = {} /\ H \cap U = {} /\ C \cap U = {}
        /\ V \cap H = {} /\ V \cap C = {} /\ V \cap U = {}
    <3>1. /\ <<"case", "ev">> # <<"user", "case">> /\ <<"case", "ev">> # <<"user", "ev">>
          /\ <<"user", "case">> # <<"user", "ev">>
          /\ <<"ev", "ve">> \notin {<<"case", "ev">>, <<"user", "case">>, <<"user", "ev">>}
          /\ <<"user", "ve">> \notin {<<"case", "ev">>, <<"user", "case">>, <<"user", "ev">>}
      OBVIOUS
    <3>2. /\ \A x \in H : Joins(x) = <<"case", "ev">>
          /\ \A x \in C : Joins(x) = <<"user", "case">>
          /\ \A x \in U : Joins(x) = <<"user", "ev">>
          /\ \A x \in V : Joins(x) \in {<<"ev", "ve">>, <<"user", "ve">>}
      BY OtherEdgesKnown
    <3> HIDE DEF H, C, U, V
    <3> QED
      BY <3>1, <3>2
  <2>7. SqlGraph(rows, Uploader, Creator) = H \cup C \cup U \cup A
    BY DEF SqlGraph
  <2>8. ShownGraph(rows, graph, Uploader, Creator, TRUE)
           = (IF graph.uploaded THEN U ELSE {}) \cup H \cup B
                \cup (IF graph.created THEN C ELSE {}) \cup V
    BY <1>3, <2>1 DEF ShownGraph, NeoGraph, Shown
  <2> HIDE DEF A, B, H, C, U, V, Unmirrored, Seals
  <2>9. (H \cup C \cup U \cup A) \ ((IF graph.uploaded THEN U ELSE {}) \cup H \cup B
                                    \cup (IF graph.created THEN C ELSE {}) \cup V)
           = (A \ B) \cup (IF graph.created THEN {} ELSE C)
                  \cup (IF graph.uploaded THEN {} ELSE U)
    BY <2>4, <2>5, <2>6
  <2>10. ((IF graph.uploaded THEN U ELSE {}) \cup H \cup B
            \cup (IF graph.created THEN C ELSE {}) \cup V) \ (H \cup C \cup U \cup A)
           = (B \ A) \cup V
    BY <2>4, <2>5, <2>6
  <2> QED
    BY <2>2, <2>3, <2>7, <2>8, <2>9, <2>10 DEF C, U, V, Unmirrored, Seals
<1>4. ReaderInv => GraphShowsTheRows
  BY <1>3 DEF GraphShowsTheRows, ShownGraph
<1> QED
  BY <1>4, ReadersSeeThis, PTL

=============================================================================
