------------------------ MODULE CallbackQueue_proofs ------------------------
(***************************************************************************)
(* What holds of the client's callbacks for any number of requests, any    *)
(* size of the index space and any faults.                                 *)
(***************************************************************************)
EXTENDS CallbackQueue, SequenceTheorems, WellFoundedInduction, TLAPS

-----------------------------------------------------------------------------
(* Numbers.                                                                *)

\* A nonempty set of natural numbers has a least element.
LEMMA LeastNat ==
  ASSUME NEW T, T \subseteq Nat, T # {}
  PROVE  \E x \in T : \A y \in T : x <= y
<1> DEFINE R == OpToRel(<, Nat)
<1>1. \E x \in T : \A y \in T : ~(<<y, x>> \in R)
  <2> HIDE DEF R
  <2>1. IsWellFoundedOn(R, Nat)
    BY NatLessThanWellFounded DEF R
  <2> QED
    BY <2>1, WFMin
<1>2. PICK x \in T : \A y \in T : ~(<<y, x>> \in R)
  BY <1>1
<1>3. ASSUME NEW y \in T PROVE x <= y
  <2>1. <<y, x>> \in Nat \X Nat /\ <<y, x>>[1] = y /\ <<y, x>>[2] = x
    BY SMT
  <2>2. ASSUME y < x PROVE <<y, x>> \in R
    BY <2>1, <2>2, Zenon DEF OpToRel
  <2>3. ~(y < x)
    BY <1>2, <2>2, Zenon
  <2> HIDE DEF R
  <2> QED
    BY <2>3, SMT
<1> QED
  BY <1>3

\* A number is so many times n and a remainder.
LEMMA Division ==
  ASSUME NEW n \in Nat \ {0}, NEW a \in Int
  PROVE  a = n * (a \div n) + (a % n) /\ a \div n \in Int /\ a % n \in 0 .. n - 1
BY SMT

\* A positive number of turns is at least one turn.
LEMMA OneTurn ==
  ASSUME NEW n \in Nat \ {0}, NEW q \in Int, q >= 1
  PROVE  n * q >= n
BY SMT

\* Quotient and remainder are unique.
LEMMA OneRemainder ==
  ASSUME NEW n \in Nat \ {0}, NEW p \in Int, NEW q \in Int,
         NEW r \in 0 .. n - 1, NEW s \in 0 .. n - 1, n * p + r = n * q + s
  PROVE  r = s
<1>1. n * (p - q) = n * p - n * q /\ n * (q - p) = n * q - n * p
  BY SMT
<1>2. CASE p - q >= 1
  BY <1>1, <1>2, OneTurn, SMT
<1>3. CASE q - p >= 1
  BY <1>1, <1>3, OneTurn, SMT
<1>4. CASE p = q
  BY <1>4, SMT
<1> QED
  BY <1>2, <1>3, <1>4, SMT

\* Whole turns leave the remainder as it is: where an index wraps does not matter.
LEMMA WholeTurns ==
  ASSUME NEW n \in Nat \ {0}, NEW a \in Int, NEW k \in Int
  PROVE  (a + n * k) % n = a % n
<1> DEFINE b == a + n * k
<1>1. b \in Int
  BY SMT
<1>2. b = n * (b \div n) + (b % n) /\ b \div n \in Int /\ b % n \in 0 .. n - 1
  BY <1>1, Division
<1>3. a = n * (a \div n) + (a % n) /\ a \div n \in Int /\ a % n \in 0 .. n - 1
  BY Division
<1>4. n * ((a \div n) + k) = n * (a \div n) + n * k
  BY <1>3, SMT
<1>5. n * (b \div n) + (b % n) = n * ((a \div n) + k) + (a % n)
  BY <1>2, <1>3, <1>4, SMT
<1>6. (a \div n) + k \in Int
  BY <1>3, SMT
<1>7. b % n = a % n
  <2> HIDE DEF b
  <2> QED
    BY <1>2, <1>3, <1>5, <1>6, OneRemainder
<1> QED
  BY <1>7

\* What is less than n is its own remainder.
LEMMA Small ==
  ASSUME NEW n \in Nat \ {0}, NEW a \in 0 .. n - 1
  PROVE  a % n = a
BY SMT

\* A remainder may be taken before a number is subtracted.
LEMMA TakenBefore ==
  ASSUME NEW n \in Nat \ {0}, NEW a \in Int, NEW b \in Int
  PROVE  ((a % n) - b) % n = (a - b) % n
<1> DEFINE k == -(a \div n)
<1>1. a = n * (a \div n) + (a % n) /\ a \div n \in Int /\ a % n \in Int
  BY Division, SMT
<1>2. k \in Int /\ n * k = -(n * (a \div n))
  BY <1>1, SMT
<1>3. (a % n) - b = (a - b) + n * k
  BY <1>1, <1>2, SMT
<1> HIDE DEF k
<1>4. a - b \in Int
  BY SMT
<1>5. ((a - b) + n * k) % n = (a - b) % n
  BY <1>2, <1>4, WholeTurns
<1> QED
  BY <1>3, <1>5, Zenon

\* The distance of two remainders is that of the numbers.
LEMMA Distance ==
  ASSUME NEW n \in Nat \ {0}, NEW a \in Int, NEW b \in Int
  PROVE  ((a % n) - (b % n)) % n = (a - b) % n
<1>1. b = n * (b \div n) + (b % n) /\ b \div n \in Int /\ b % n \in Int
  BY Division, SMT
<1>2. ((a % n) - (b % n)) % n = (a - (b % n)) % n
  BY <1>1, TakenBefore
<1>3. a - (b % n) = (a - b) + n * (b \div n)
  BY <1>1, SMT
<1>4. a - b \in Int
  BY SMT
<1>5. ((a - b) + n * (b \div n)) % n = (a - b) % n
  BY <1>1, <1>4, WholeTurns
<1> QED
  BY <1>2, <1>3, <1>5, Zenon

-----------------------------------------------------------------------------
\* Every entry has the number of some request, and no two have the same.
Numbered ==
  /\ \A i \in DOMAIN queue : \E r \in Req : seq[r] = queue[i].index
  /\ \A i, j \in DOMAIN queue : queue[i].index = queue[j].index => i = j

QueueOK == queue \in Seq(Entry) /\ index \in 0 .. IndexSpace - 1 /\ Contiguous /\ Numbered

\* p is q without its first entries, and without the callbacks at the places gone.
Thinned(q, p, gone) ==
  /\ p \in Seq(Entry)
  /\ \E k \in 0 .. Len(q) :
       /\ Len(p) = Len(q) - k
       /\ \A i \in 1 .. Len(p) :
            /\ p[i].index = q[i + k].index
            /\ p[i].cb \in {q[i + k].cb, Null}
            /\ i + k \in gone => p[i].cb = Null

\* There are indices to give out.
LEMMA SpaceOK == IndexSpace \in Nat \ {0}
BY CallbackAssumption

\* What an entry of a queue looks like.
LEMMA EntryAt ==
  ASSUME NEW q \in Seq(Entry), NEW i \in DOMAIN q
  PROVE  /\ i \in 1 .. Len(q) /\ Len(q) \in Nat
         /\ q[i].index \in 0 .. IndexSpace - 1 /\ q[i].cb \in Req \cup {Null}
         /\ q[i] = [index |-> q[i].index, cb |-> q[i].cb]
<1>1. i \in 1 .. Len(q) /\ Len(q) \in Nat
  BY LenProperties
<1>2. q[i] \in Entry
  BY <1>1, ElementOfSeq
<1> QED
  BY <1>1, <1>2, SMT DEF Entry

\* The queue is never longer than the index space.
LEMMA QueueFits ==
  ASSUME QueueOK
  PROVE  Len(queue) <= IndexSpace
<1> DEFINE N == IndexSpace
           L == Len(queue)
           a == index - (L - 1)
<1>1. N \in Nat \ {0} /\ L \in Nat /\ index \in Int /\ DOMAIN queue = 1 .. L
  BY SpaceOK, LenProperties, SMT DEF QueueOK
<1>2. SUFFICES ASSUME L > N PROVE FALSE
  BY <1>1, SMT
<1>3. 1 \in DOMAIN queue /\ 1 + N \in DOMAIN queue
  BY <1>1, <1>2, SMT
<1>4. a \in Int /\ index - (L - (1 + N)) = a + N * 1
  BY <1>1, SMT
<1>5. queue[1].index = a % N
  BY <1>3 DEF QueueOK, Contiguous
<1>6. queue[1 + N].index = (a + N * 1) % N
  BY <1>3, <1>4 DEF QueueOK, Contiguous
<1>7. queue[1 + N].index = queue[1].index
  <2>1. 1 \in Int
    OBVIOUS
  <2>2. (a + N * 1) % N = a % N
    <3> HIDE DEF a, N
    <3> QED
      BY <2>1, <1>1, <1>4, WholeTurns, Zenon
  <2> QED
    BY <2>2, <1>5, <1>6
<1>8. 1 + N = 1
  BY <1>3, <1>7, Zenon DEF QueueOK, Numbered
<1> QED
  BY <1>1, <1>8, SMT

\* An entry is found at the place its number says.
LEMMA SlotOfEntry ==
  ASSUME QueueOK, NEW p \in DOMAIN queue
  PROVE  Slot(queue[p].index) = p
<1> DEFINE N == IndexSpace
           L == Len(queue)
           a == index - (L - p)
           b == index - (L - 1)
<1>1. N \in Nat \ {0} /\ L \in Nat /\ index \in Int /\ DOMAIN queue = 1 .. L /\ L <= N
  BY SpaceOK, LenProperties, QueueFits, SMT DEF QueueOK
<1>2. p \in 1 .. L /\ 1 \in DOMAIN queue
  BY <1>1, SMT
<1>3. Head(queue).index = queue[1].index
  BY SMT DEF QueueOK
<1>4. a \in Int /\ b \in Int /\ a - b = p - 1 /\ p - 1 \in 0 .. N - 1
  BY <1>1, <1>2, SMT
<1>5. queue[p].index = a % N /\ queue[1].index = b % N
  BY <1>2 DEF QueueOK, Contiguous
<1>6. (queue[p].index - Head(queue).index) % N = p - 1
  <2> HIDE DEF a, b, N, L
  <2>1. ((a % N) - (b % N)) % N = (a - b) % N
    BY <1>1, <1>4, Distance
  <2>2. (a - b) % N = p - 1
    BY <1>1, <1>4, Small
  <2> QED
    BY <2>1, <2>2, <1>3, <1>5
<1>7. Slot(queue[p].index) = (p - 1) + 1
  BY <1>6 DEF Slot
<1> QED
  BY <1>2, <1>7, SMT

\* A thinned queue is as good as the queue was: the distances do not change.
LEMMA ThinnedOK ==
  ASSUME QueueOK, NEW gone, Thinned(queue, queue', gone), UNCHANGED <<index, seq>>
  PROVE  QueueOK'
<1>1. PICK k \in 0 .. Len(queue) :
        /\ Len(queue') = Len(queue) - k
        /\ \A i \in 1 .. Len(queue') : queue'[i].index = queue[i + k].index
  BY DEF Thinned
<1>2. queue \in Seq(Entry) /\ queue' \in Seq(Entry)
  BY DEF QueueOK, Thinned
<1>3. Len(queue) \in Nat /\ DOMAIN queue = 1 .. Len(queue) /\ DOMAIN queue' = 1 .. Len(queue')
  BY <1>2, LenProperties
<1>4. \A i \in DOMAIN queue' : /\ i + k \in DOMAIN queue
                               /\ Len(queue') - i = Len(queue) - (i + k)
                               /\ i \in Int
  BY <1>1, <1>3, SMT
<1>5. Contiguous'
  <2> SUFFICES ASSUME NEW i \in DOMAIN queue'
               PROVE  queue'[i].index = (index - (Len(queue') - i)) % IndexSpace
    BY DEF Contiguous
  <2>1. queue[i + k].index = (index - (Len(queue) - (i + k))) % IndexSpace
    BY <1>4, Zenon DEF QueueOK, Contiguous
  <2> QED
    BY <2>1, <1>1, <1>3, <1>4
<1>6. \A i \in DOMAIN queue' : queue'[i].index = queue[i + k].index
  BY <1>1, <1>3
<1>7. Numbered'
  <2>1. ASSUME NEW i \in DOMAIN queue'
        PROVE  \E r \in Req : seq'[r] = queue'[i].index
    <3>1. i + k \in DOMAIN queue
      BY <1>4
    <3>2. PICK r \in Req : seq[r] = queue[i + k].index
      BY <3>1, Zenon DEF QueueOK, Numbered
    <3> QED
      BY <3>2, <1>6
  <2>2. ASSUME NEW i \in DOMAIN queue', NEW j \in DOMAIN queue',
               queue'[i].index = queue'[j].index
        PROVE  i = j
    <3>1. i + k \in DOMAIN queue /\ j + k \in DOMAIN queue
      BY <1>4
    <3>2. queue[i + k].index = queue[j + k].index
      BY <2>2, <1>6
    <3>3. i + k = j + k
      BY <3>1, <3>2, Zenon DEF QueueOK, Numbered
    <3> QED
      BY <3>3, <1>1, <1>3, <1>4, SMT
  <2> QED
    BY <2>1, <2>2, Zenon DEF Numbered
<1> QED
  BY <1>2, <1>5, <1>7 DEF QueueOK

-----------------------------------------------------------------------------
(* What RemoveCallback, Deal and CheckQueue leave is a thinned queue.      *)

\* The queue without its first k entries.
LEMMA FrontGone ==
  ASSUME NEW q \in Seq(Entry), NEW k \in 0 .. Len(q), NEW gone, gone \subseteq 1 .. k
  PROVE  Thinned(q, SubSeq(q, k + 1, Len(q)), gone)
<1> DEFINE p == SubSeq(q, k + 1, Len(q))
<1>1. Len(q) \in Nat /\ k \in Nat /\ k <= Len(q)
  BY LenProperties, SMT
<1>2. \A i \in k + 1 .. Len(q) : q[i] \in Entry
  BY <1>1, SMT
<1>3. /\ p \in Seq(Entry)
      /\ Len(p) = Len(q) - k
      /\ \A i \in 1 .. Len(q) - k : p[i] = q[i + k]
  <2>1. /\ p \in Seq(Entry)
        /\ Len(p) = IF k + 1 <= Len(q) THEN Len(q) - (k + 1) + 1 ELSE 0
        /\ \A i \in 1 .. Len(q) - (k + 1) + 1 : p[i] = q[(k + 1) + i - 1]
    <3> DEFINE m == k + 1
               n == Len(q)
    <3>1. m \in Int /\ n \in Int /\ \A i \in m .. n : q[i] \in Entry
      BY <1>1, <1>2, SMT
    <3> HIDE DEF m, n
    <3>2. /\ SubSeq(q, m, n) \in Seq(Entry)
          /\ Len(SubSeq(q, m, n)) = IF m <= n THEN n - m + 1 ELSE 0
          /\ \A i \in 1 .. n - m + 1 : SubSeq(q, m, n)[i] = q[m + i - 1]
      BY <3>1, SubSeqProperties
    <3> QED
      BY <3>2 DEF m, n
  <2>2. Len(p) = Len(q) - k /\ Len(q) - (k + 1) + 1 = Len(q) - k
    BY <2>1, <1>1, SMT
  <2>3. \A i \in 1 .. Len(q) - k : (k + 1) + i - 1 = i + k
    BY <1>1, SMT
  <2> QED
    BY <2>1, <2>2, <2>3
<1> HIDE DEF p
<1>4. \A i \in 1 .. Len(p) : i + k \notin 1 .. k
  BY <1>1, SMT
<1>5. Thinned(q, p, gone)
  BY <1>1, <1>3, <1>4 DEF Thinned
<1> QED
  BY <1>5 DEF p

\* The queue with the callback of one entry cleared.
LEMMA OneCleared ==
  ASSUME NEW q \in Seq(Entry), NEW s \in DOMAIN q, NEW gone, gone \subseteq {s}
  PROVE  Thinned(q, [q EXCEPT ![s].cb = Null], gone)
<1> DEFINE e == [q[s] EXCEPT !.cb = Null]
           p == [q EXCEPT ![s] = e]
<1>1. DOMAIN q = 1 .. Len(q) /\ Len(q) \in Nat
  BY LenProperties
<1>2. e \in Entry /\ e.index = q[s].index /\ e.cb = Null
  <2>1. q[s] \in Entry
    BY <1>1, ElementOfSeq
  <2> HIDE DEF p
  <2> QED
    BY <2>1, SMT DEF Entry
<1> HIDE DEF e
<1>3. /\ p \in Seq(Entry)
      /\ Len(p) = Len(q)
      /\ \A i \in 1 .. Len(q) : p[i] = IF i = s THEN e ELSE q[i]
  BY <1>1, <1>2, ExceptSeq
<1> HIDE DEF p
<1>4. \A i \in 1 .. Len(q) : i + 0 = i
  BY <1>1, SMT
<1>5. 0 \in 0 .. Len(q) /\ Len(p) = Len(q) - 0
  BY <1>1, <1>3, SMT
<1>6. \A i \in 1 .. Len(p) : /\ p[i].index = q[i + 0].index
                             /\ p[i].cb \in {q[i + 0].cb, Null}
                             /\ i + 0 \in gone => p[i].cb = Null
  BY <1>2, <1>3, <1>4
<1>7. Thinned(q, p, gone)
  BY <1>3, <1>5, <1>6, Zenon DEF Thinned
<1> QED
  BY <1>7 DEF p, e

\* A queue is a thinned form of itself.
LEMMA ThinnedNothing ==
  ASSUME NEW q \in Seq(Entry)
  PROVE  Thinned(q, q, {})
<1>1. Len(q) \in Nat
  BY LenProperties
<1>2. 0 \in 0 .. Len(q) /\ Len(q) = Len(q) - 0 /\ \A i \in 1 .. Len(q) : i + 0 = i
  BY <1>1, SMT
<1> QED
  BY <1>2, Zenon DEF Thinned

\* A thinned queue may be thinned again.
LEMMA ThinnedTwice ==
  ASSUME NEW q \in Seq(Entry), NEW p, NEW r, NEW gone,
         Thinned(q, p, gone), Thinned(p, r, {})
  PROVE  Thinned(q, r, gone)
<1>1. p \in Seq(Entry) /\ r \in Seq(Entry)
  BY DEF Thinned
<1>2. Len(q) \in Nat /\ Len(p) \in Nat /\ Len(r) \in Nat
  BY <1>1, LenProperties
<1>3. PICK k \in 0 .. Len(q) :
        /\ Len(p) = Len(q) - k
        /\ \A i \in 1 .. Len(p) : /\ p[i].index = q[i + k].index
                                  /\ p[i].cb \in {q[i + k].cb, Null}
                                  /\ i + k \in gone => p[i].cb = Null
  BY DEF Thinned
<1>4. PICK l \in 0 .. Len(p) :
        /\ Len(r) = Len(p) - l
        /\ \A i \in 1 .. Len(r) : /\ r[i].index = p[i + l].index
                                  /\ r[i].cb \in {p[i + l].cb, Null}
  BY DEF Thinned
<1>5. k + l \in 0 .. Len(q) /\ Len(r) = Len(q) - (k + l)
  BY <1>2, <1>3, <1>4, SMT
<1>6. \A i \in 1 .. Len(r) : i + l \in 1 .. Len(p) /\ (i + l) + k = i + (k + l)
  BY <1>2, <1>3, <1>4, SMT
<1>7. ASSUME NEW i \in 1 .. Len(r)
      PROVE  /\ r[i].index = q[i + (k + l)].index
             /\ r[i].cb \in {q[i + (k + l)].cb, Null}
             /\ i + (k + l) \in gone => r[i].cb = Null
  BY <1>3, <1>4, <1>6, Zenon
<1> QED
  BY <1>1, <1>5, <1>7, Zenon DEF Thinned

\* There is a first entry with a callback, or none.
LEMMA DeadInRange ==
  ASSUME NEW q \in Seq(Entry)
  PROVE  Dead(q) \in 0 .. Len(q)
<1> DEFINE n == Len(q)
           Stops(k) == k < n => q[k + 1].cb # Null
           Passes(k) == \A j \in 1 .. k : q[j].cb = Null
           T == {k \in 0 .. n : Stops(k)}
<1>1. n \in Nat
  BY LenProperties
<1>2. T \subseteq Nat /\ n \in T
  BY <1>1, SMT
<1>3. PICK k \in T : \A l \in T : k <= l
  BY <1>2, LeastNat
<1>4. ASSUME NEW j \in 1 .. k PROVE q[j].cb = Null
  <2>1. j - 1 \in 0 .. n /\ j - 1 < k /\ (j - 1) + 1 = j
    BY <1>1, <1>3, SMT
  <2>2. ASSUME j - 1 \in T PROVE FALSE
    <3>1. k <= j - 1 /\ k \in Nat
      BY <2>2, <1>2, <1>3
    <3> HIDE DEF T
    <3> QED
      BY <3>1, SMT
  <2>3. ~Stops(j - 1)
    BY <2>1, <2>2
  <2> QED
    BY <2>1, <2>3
<1>5. k \in 0 .. n /\ Stops(k) /\ Passes(k)
  BY <1>3, <1>4
<1>6. Dead(q) = CHOOSE l \in 0 .. n : Passes(l) /\ Stops(l)
  BY Zenon DEF Dead
<1> HIDE DEF Stops, Passes
<1>7. Dead(q) \in 0 .. n
  BY <1>5, <1>6, Zenon
<1> QED
  BY <1>7 DEF n

\* The places, of which there is at most one, of the entry with number i.
PlacesOf(i) == {p \in DOMAIN queue : queue[p].index = i}

\* An entry with number i stands at Slot(i), and only where RemoveCallback finds it.
LEMMA OnePlace ==
  ASSUME QueueOK, NEW i
  PROVE  /\ PlacesOf(i) \subseteq {Slot(i)}
         /\ i = NoIndex \/ queue = <<>> \/ Slot(i) \notin DOMAIN queue => PlacesOf(i) = {}
<1>1. ASSUME NEW p \in PlacesOf(i)
      PROVE  p = Slot(i) /\ Slot(i) \in DOMAIN queue /\ i # NoIndex /\ queue # <<>>
  <2>1. p \in DOMAIN queue /\ queue[p].index = i
    BY <1>1 DEF PlacesOf
  <2>2. Slot(i) = p
    BY <2>1, SlotOfEntry
  <2>3. i \in 0 .. IndexSpace - 1 /\ p \in 1 .. Len(queue)
    BY <2>1, EntryAt DEF QueueOK
  <2>4. i # NoIndex
    BY <2>3, SpaceOK, SMT DEF NoIndex
  <2>5. queue # <<>>
    BY <2>3, EmptySeq, SMT
  <2> QED
    BY <2>1, <2>2, <2>4, <2>5
<1> QED
  BY <1>1

\* The queue without its first entry.
LEMMA FirstGone ==
  ASSUME NEW q \in Seq(Entry), q # <<>>, NEW gone, gone \subseteq {1}
  PROVE  Thinned(q, Tail(q), gone)
<1>1. Tail(q) = SubSeq(q, 2, Len(q)) /\ Len(q) \in Nat \ {0}
  BY TailIsSubSeq, EmptySeq
<1>2. 1 \in 0 .. Len(q) /\ 1 + 1 = 2 /\ gone \subseteq 1 .. 1
  BY <1>1, SMT
<1>3. Thinned(q, SubSeq(q, 1 + 1, Len(q)), gone)
  BY <1>2, FrontGone, Zenon
<1> QED
  BY <1>1, <1>2, <1>3

\* RemoveCallback takes away the entry it is asked to, if it takes any.
LEMMA RemovedThins ==
  ASSUME QueueOK, NEW i
  PROVE  Thinned(queue, Removed(i), PlacesOf(i))
<1>1. queue \in Seq(Entry) /\ PlacesOf(i) \subseteq {Slot(i)}
  BY OnePlace DEF QueueOK
<1>2. CASE i = NoIndex \/ queue = <<>> \/ Slot(i) \notin DOMAIN queue
  <2>1. Removed(i) = queue /\ PlacesOf(i) = {}
    BY <1>2, OnePlace, Zenon DEF Removed
  <2> QED
    BY <2>1, <1>1, ThinnedNothing
<1>3. CASE ~(i = NoIndex \/ queue = <<>> \/ Slot(i) \notin DOMAIN queue) /\ Slot(i) = 1
  <2>1. Removed(i) = Tail(queue) /\ queue # <<>> /\ PlacesOf(i) \subseteq {1}
    BY <1>1, <1>3, Zenon DEF Removed
  <2> QED
    BY <2>1, <1>1, FirstGone
<1>4. CASE ~(i = NoIndex \/ queue = <<>> \/ Slot(i) \notin DOMAIN queue) /\ Slot(i) # 1
  <2>1. Removed(i) = [queue EXCEPT ![Slot(i)].cb = Null] /\ Slot(i) \in DOMAIN queue
    BY <1>4, Zenon DEF Removed
  <2> QED
    BY <2>1, <1>1, OneCleared
<1> QED
  BY <1>2, <1>3, <1>4

\* Deal takes away the entry it hands out, and dead ones at the front.
LEMMA DealtThins ==
  ASSUME QueueOK, NEW i, Found(i)
  PROVE  Thinned(queue, Dealt(i), PlacesOf(i))
<1>1. /\ queue \in Seq(Entry) /\ PlacesOf(i) \subseteq {Slot(i)}
      /\ queue # <<>> /\ Slot(i) \in DOMAIN queue
  BY OnePlace DEF QueueOK, Found
<1>2. CASE Slot(i) = 1
  <2>1. Thinned(queue, Tail(queue), PlacesOf(i)) /\ Tail(queue) \in Seq(Entry)
    BY <1>1, <1>2, FirstGone, HeadTailProperties
  <2>2. Thinned(Tail(queue), FromDead(Tail(queue)), {})
    BY <2>1, DeadInRange, FrontGone DEF FromDead
  <2>3. Thinned(queue, FromDead(Tail(queue)), PlacesOf(i))
    BY <1>1, <2>1, <2>2, ThinnedTwice
  <2> QED
    BY <1>2, <2>3 DEF Dealt
<1>3. CASE Slot(i) # 1
  BY <1>1, <1>3, OneCleared DEF Dealt
<1> QED
  BY <1>2, <1>3

-----------------------------------------------------------------------------
(* The inductive invariant.                                                *)

Shapes ==
  /\ step \in [Req -> Step]
  /\ seq \in [Req -> {NoIndex} \cup 0 .. IndexSpace - 1]
  /\ asked \subseteq Req
  /\ answers \subseteq Answer /\ refused \subseteq Answer
  /\ due \subseteq CallOf
  /\ called \in [Req -> Seq(Req \cup {Null})]

\* A sequence number belongs to one request, and a request gets it before it is sent.
SeqOnce == \A r, s \in Req : seq[r] = seq[s] /\ seq[r] # NoIndex => r = s
Fresh == \A r \in Req : step[r] = "new" => seq[r] = NoIndex
AskedSent == \A r \in asked : step[r] = "sent"

\* Every answer carries the number of the request it answers.
AnswersNumbered ==
  \A a \in answers \cup refused : a.seq = seq[a.of] /\ step[a.of] = "sent"

NotCalled(r) == called[r] = <<>> /\ \A d \in due : d.cb # r

\* A callback that waits in the queue is neither called nor about to be.
Pending ==
  \A i \in DOMAIN queue :
    LET r == queue[i].cb
    IN  r # Null => seq[r] = queue[i].index /\ step[r] # "thrown" /\ NotCalled(r)

\* A callback that is about to be called is so once, with its own answer or a timeout.
DueOnce ==
  \A d \in due : /\ called[d.cb] = <<>>
                 /\ d.of \in {d.cb, Null}
                 /\ \A e \in due : e.cb = d.cb => e = d

\* Nothing is called for a request that was not sent.
Silent == \A r \in Req : step[r] \in {"new", "added", "thrown"} => NotCalled(r)

\* The queue's own part, QueueOK, is needed for Removed, which does not look at
\* the number of what it finds; SeqOnce and AnswersNumbered for what Dealt finds;
\* Pending and DueOnce because a callback is called once only if it cannot be found
\* again while it is about to be called.
IInv ==
  /\ QueueOK /\ Shapes
  /\ SeqOnce /\ Fresh /\ AskedSent /\ AnswersNumbered
  /\ Pending /\ DueOnce /\ Silent
  /\ RightCallback /\ AtMostOnce

RequestsOK == SeqOnce /\ Fresh /\ AskedSent /\ AnswersNumbered
CallbacksOK == Pending /\ DueOnce /\ Silent /\ RightCallback /\ AtMostOnce

-----------------------------------------------------------------------------
(* Each action keeps it.                                                   *)

\* A request is sent, or its function gives up; the queue does not change.
LEMMA SentOrFailed ==
  ASSUME IInv, NEW r \in Req, step[r] = "added", NEW s \in {"sent", "failed"},
         step' = [step EXCEPT ![r] = s],
         asked' \subseteq asked \cup IF s = "sent" THEN {r} ELSE {},
         UNCHANGED <<queue, index, seq, answers, refused, due, called>>
  PROVE  IInv'
<1>1. QueueOK'
  BY DEF IInv, QueueOK, Contiguous, Numbered
<1>2. Shapes' /\ \A t \in Req : step'[t] = IF t = r THEN s ELSE step[t]
  BY SMT DEF IInv, Shapes, Step
<1>3. RequestsOK'
  <2>1. SeqOnce' /\ Fresh'
    BY <1>2 DEF IInv, SeqOnce, Fresh, Step
  <2>2. AskedSent'
    BY <1>2 DEF IInv, AskedSent, Shapes
  <2>3. AnswersNumbered'
    BY <1>2 DEF IInv, AnswersNumbered, Shapes, Answer
  <2> QED
    BY <2>1, <2>2, <2>3 DEF RequestsOK
<1>4. CallbacksOK'
  <2>1. Pending'
    <3> SUFFICES ASSUME NEW i \in DOMAIN queue, queue[i].cb # Null
                 PROVE  /\ seq[queue[i].cb] = queue[i].index
                        /\ step'[queue[i].cb] # "thrown" /\ NotCalled(queue[i].cb)
      BY DEF Pending, NotCalled
    <3>1. queue[i].cb \in Req
      BY EntryAt DEF IInv, QueueOK
    <3> QED
      BY <3>1, <1>2 DEF IInv, Pending
  <2>2. DueOnce' /\ RightCallback' /\ AtMostOnce'
    BY DEF IInv, DueOnce, RightCallback, AtMostOnce
  <2>3. Silent'
    BY <1>2 DEF IInv, Silent, NotCalled
  <2> QED
    BY <2>1, <2>2, <2>3 DEF CallbacksOK
<1> QED
  BY <1>1, <1>2, <1>3, <1>4 DEF IInv, RequestsOK, CallbacksOK

\* A request is sent.
LEMMA SendOK ==
  ASSUME IInv, NEW r \in Req, Send(r) \/ SendFails(r)
  PROVE  IInv'
<1>1. CASE Send(r)
  BY <1>1, SentOrFailed DEF Send
<1>2. CASE SendFails(r)
  BY <1>2, SentOrFailed DEF SendFails
<1> QED
  BY <1>1, <1>2

\* The number a request gets is new, and so is its entry.
LEMMA PushedOK ==
  ASSUME QueueOK, Shapes, NEW r \in Req, NotComeRound(NextIndex), seq[r] = NoIndex,
         index' = NextIndex, queue' = Pushed(r, NextIndex),
         seq' = [seq EXCEPT ![r] = NextIndex]
  PROVE  QueueOK'
<1> DEFINE N == IndexSpace
           L == Len(queue)
           n == NextIndex
           e == [index |-> n, cb |-> r]
<1>1. /\ N \in Nat \ {0} /\ L \in Nat /\ index \in Int
      /\ queue \in Seq(Entry) /\ DOMAIN queue = 1 .. L
  BY SpaceOK, LenProperties, SMT DEF QueueOK
<1>2. n \in 0 .. N - 1 /\ n \in Int
  BY <1>1, Division, SMT DEF NextIndex
<1>3. e \in Entry /\ e.index = n
  BY <1>2 DEF Entry
<1>4. /\ queue' \in Seq(Entry) /\ Len(queue') = L + 1 /\ DOMAIN queue' = 1 .. L + 1
      /\ queue'[L + 1] = e /\ \A i \in 1 .. L : queue'[i] = queue[i]
  <2> HIDE DEF e, n
  <2>1. queue' = Append(queue, e)
    BY DEF Pushed, e, n
  <2> QED
    BY <1>1, <1>3, <2>1, SMT
<1>5. \A i \in DOMAIN queue' : i \in DOMAIN queue \/ i = L + 1
  BY <1>1, <1>4, SMT
<1>6. Contiguous'
  <2> SUFFICES ASSUME NEW i \in DOMAIN queue'
               PROVE  queue'[i].index = (index' - (Len(queue') - i)) % IndexSpace
    BY DEF Contiguous
  <2>1. CASE i = L + 1
    <3>1. index' - (Len(queue') - i) = n
      BY <2>1, <1>1, <1>2, <1>4, SMT DEF n
    <3>2. n % N = n
      BY <1>1, <1>2, Small
    <3> QED
      BY <2>1, <3>1, <3>2, <1>3, <1>4
  <2>2. CASE i \in DOMAIN queue
    <3> DEFINE a == index + 1
               b == L + 1 - i
    <3>1. a \in Int /\ b \in Int /\ a - b = index - (L - i)
      BY <2>2, <1>1, SMT
    <3>2. index' = a % N /\ Len(queue') - i = b
      BY <1>4 DEF NextIndex
    <3>3. ((a % N) - b) % N = (a - b) % N
      <4> HIDE DEF a, b, N
      <4> QED
        BY <3>1, <1>1, TakenBefore
    <3>4. queue[i].index = (index - (L - i)) % N
      BY <2>2 DEF QueueOK, Contiguous
    <3>5. queue'[i] = queue[i]
      BY <2>2, <1>1, <1>4
    <3> HIDE DEF a, b, N, L
    <3> QED
      BY <3>1, <3>2, <3>3, <3>4, <3>5 DEF N
  <2> QED
    BY <2>1, <2>2, <1>5
<1>7. Numbered'
  <2>1. seq' = [s \in Req |-> IF s = r THEN n ELSE seq[s]]
    BY DEF Shapes
  <2>2. \A i \in DOMAIN queue : queue[i].index # n /\ queue'[i] = queue[i]
    BY <1>1, <1>4, Zenon DEF QueueOK, Numbered, NotComeRound
  <2>3. \A i \in DOMAIN queue' : \E s \in Req : seq'[s] = queue'[i].index
    <3>1. ASSUME NEW i \in DOMAIN queue
          PROVE  \E s \in Req : seq'[s] = queue'[i].index
      <4>1. PICK s \in Req : seq[s] = queue[i].index
        BY Zenon DEF QueueOK, Numbered
      <4>2. queue[i].index # NoIndex
        BY EntryAt, SpaceOK, SMT DEF QueueOK, NoIndex
      <4>3. s # r
        BY <4>1, <4>2
      <4> QED
        BY <4>1, <4>3, <2>1, <2>2
    <3> QED
      BY <3>1, <2>1, <1>3, <1>4, <1>5
  <2>4. ASSUME NEW i \in DOMAIN queue', NEW j \in DOMAIN queue',
               queue'[i].index = queue'[j].index
        PROVE  i = j
    <3>1. CASE i \in DOMAIN queue /\ j \in DOMAIN queue
      <4>1. queue[i].index = queue[j].index
        BY <2>4, <3>1, <2>2
      <4> QED
        BY <3>1, <4>1, Zenon DEF QueueOK, Numbered
    <3>2. CASE i \in DOMAIN queue /\ j = L + 1
      BY <2>4, <3>2, <2>2, <1>3, <1>4
    <3>3. CASE i = L + 1 /\ j \in DOMAIN queue
      BY <2>4, <3>3, <2>2, <1>3, <1>4
    <3> QED
      BY <3>1, <3>2, <3>3, <1>5
  <2> QED
    BY <2>3, <2>4, Zenon DEF Numbered
<1>8. index' \in 0 .. IndexSpace - 1
  BY <1>2
<1> QED
  BY <1>4, <1>6, <1>7, <1>8 DEF QueueOK

\* A callback is pushed, or there is none.
LEMMA AddCallbackOK ==
  ASSUME IInv, NEW r \in Req, AddCallback(r)
  PROVE  IInv'
<1>1. /\ step[r] = "new" /\ step' = [step EXCEPT ![r] = "added"]
      /\ UNCHANGED <<asked, answers, refused, due, called>>
  BY DEF AddCallback
<1>2. \A t \in Req : step'[t] = IF t = r THEN "added" ELSE step[t]
  BY <1>1 DEF IInv, Shapes
<1>3. seq[r] = NoIndex /\ NotCalled(r)
  BY <1>1 DEF IInv, Fresh, Silent
<1>4. \/ UNCHANGED <<queue, index, seq>>
      \/ /\ NotComeRound(NextIndex)
         /\ index' = NextIndex
         /\ queue' = Pushed(r, NextIndex)
         /\ seq' = [seq EXCEPT ![r] = NextIndex]
  BY Zenon DEF AddCallback
<1>5. QueueOK'
  <2>1. CASE UNCHANGED <<queue, index, seq>>
    BY <2>1 DEF IInv, QueueOK, Contiguous, Numbered
  <2> QED
    BY <2>1, <1>3, <1>4, PushedOK DEF IInv
<1>6. /\ NextIndex \in 0 .. IndexSpace - 1 /\ NextIndex # NoIndex
      /\ queue \in Seq(Entry) /\ Len(queue) \in Nat /\ DOMAIN queue = 1 .. Len(queue)
  BY SpaceOK, Division, LenProperties, SMT DEF IInv, QueueOK, NextIndex, NoIndex
<1>7. \A t \in Req : t # r => seq'[t] = seq[t]
  BY <1>4 DEF IInv, Shapes
<1>8. seq'[r] = NoIndex \/ (seq'[r] = NextIndex /\ NotComeRound(NextIndex))
  BY <1>3, <1>4 DEF IInv, Shapes
<1>9. Shapes'
  <2>1. seq' \in [Req -> {NoIndex} \cup 0 .. IndexSpace - 1]
    BY <1>4, <1>6 DEF IInv, Shapes
  <2> QED
    BY <2>1, <1>1 DEF IInv, Shapes, Step
<1>10. RequestsOK'
  <2>1. SeqOnce'
    BY <1>7, <1>8, <1>3 DEF IInv, SeqOnce, NotComeRound
  <2>2. Fresh' /\ AskedSent'
    BY <1>1, <1>2, <1>7 DEF IInv, Fresh, AskedSent, Shapes
  <2>3. AnswersNumbered'
    <3> SUFFICES ASSUME NEW a \in answers \cup refused
                 PROVE  a.seq = seq'[a.of] /\ step'[a.of] = "sent"
      BY <1>1 DEF AnswersNumbered
    <3>1. a.of \in Req /\ a.seq = seq[a.of] /\ step[a.of] = "sent"
      BY DEF IInv, AnswersNumbered, Shapes, Answer
    <3> QED
      BY <3>1, <1>1, <1>2, <1>7
  <2> QED
    BY <2>1, <2>2, <2>3 DEF RequestsOK
<1>11. CallbacksOK'
  <2>1. Pending'
    <3> SUFFICES ASSUME NEW i \in DOMAIN queue', queue'[i].cb # Null
                 PROVE  LET t == queue'[i].cb
                        IN  seq'[t] = queue'[i].index /\ step'[t] # "thrown" /\ NotCalled(t)
      BY <1>1, Zenon DEF Pending, NotCalled
    <3>1. CASE i \in DOMAIN queue /\ queue'[i] = queue[i]
      <4>1. queue[i].cb \in Req
        BY <1>6, <3>1, EntryAt
      <4>2. /\ seq[queue[i].cb] = queue[i].index /\ step[queue[i].cb] # "thrown"
            /\ NotCalled(queue[i].cb)
        BY <3>1 DEF IInv, Pending
      <4>3. queue[i].cb # r
        BY <4>2, <1>3, <1>6, <3>1, EntryAt, SpaceOK, SMT DEF NoIndex
      <4> QED
        BY <3>1, <4>1, <4>2, <4>3, <1>2, <1>7
    <3>2. CASE queue'[i].cb = r /\ queue'[i].index = NextIndex /\ seq'[r] = NextIndex
      BY <3>2, <1>2, <1>3
    <3>3. \/ i \in DOMAIN queue /\ queue'[i] = queue[i]
          \/ queue'[i].cb = r /\ queue'[i].index = NextIndex /\ seq'[r] = NextIndex
      <4>1. CASE UNCHANGED <<queue, index, seq>>
        BY <4>1
      <4>2. CASE queue' = Pushed(r, NextIndex) /\ seq' = [seq EXCEPT ![r] = NextIndex]
        <5> DEFINE e == [index |-> NextIndex, cb |-> r]
        <5>1. e.index = NextIndex /\ e.cb = r /\ queue' = Append(queue, e)
          BY <4>2 DEF Pushed
        <5>2. e \in Entry
          BY <1>6 DEF Entry
        <5>3. seq'[r] = NextIndex
          BY <4>2 DEF IInv, Shapes
        <5>4. (i \in DOMAIN queue /\ queue'[i] = queue[i]) \/ queue'[i] = e
          <6> HIDE DEF e
          <6> QED
            BY <5>1, <5>2, <1>6, SMT
        <5> QED
          BY <5>1, <5>3, <5>4
      <4> QED
        BY <4>1, <4>2, <1>4
    <3> QED
      BY <3>1, <3>2, <3>3
  <2>2. DueOnce' /\ RightCallback' /\ AtMostOnce'
    BY <1>1 DEF IInv, DueOnce, RightCallback, AtMostOnce
  <2>3. Silent'
    BY <1>1, <1>2, <1>3 DEF IInv, Silent, NotCalled
  <2> QED
    BY <2>1, <2>2, <2>3 DEF CallbacksOK
<1> QED
  BY <1>5, <1>9, <1>10, <1>11 DEF IInv, RequestsOK, CallbacksOK

\* An entry that still has a callback had it before, and is not one of those gone.
LEMMA KeptEntry ==
  ASSUME NEW q \in Seq(Entry), NEW p, NEW gone, Thinned(q, p, gone),
         NEW i \in DOMAIN p, p[i].cb # Null
  PROVE  \E j \in DOMAIN q \ gone : q[j].cb = p[i].cb /\ q[j].index = p[i].index
<1>1. p \in Seq(Entry)
  BY DEF Thinned
<1>2. PICK k \in 0 .. Len(q) :
        /\ Len(p) = Len(q) - k
        /\ \A n \in 1 .. Len(p) : /\ p[n].index = q[n + k].index
                                  /\ p[n].cb \in {q[n + k].cb, Null}
                                  /\ n + k \in gone => p[n].cb = Null
  BY DEF Thinned
<1>3. /\ Len(q) \in Nat /\ DOMAIN q = 1 .. Len(q) /\ DOMAIN p = 1 .. Len(p)
  BY <1>1, LenProperties
<1>4. i + k \in DOMAIN q
  BY <1>2, <1>3, SMT
<1> QED
  BY <1>2, <1>3, <1>4

\* An entry that is left in a thinned queue is that of a request not called yet.
LEMMA KeptPending ==
  ASSUME IInv, NEW gone, Thinned(queue, queue', gone), NEW i \in DOMAIN queue',
         queue'[i].cb # Null
  PROVE  \E j \in DOMAIN queue \ gone :
           LET r == queue'[i].cb
           IN  /\ r \in Req /\ queue[j].cb = r
               /\ seq[r] = queue[j].index /\ queue[j].index = queue'[i].index
               /\ step[r] # "thrown" /\ NotCalled(r)
<1>1. PICK j \in DOMAIN queue \ gone :
        queue[j].cb = queue'[i].cb /\ queue[j].index = queue'[i].index
  BY KeptEntry DEF IInv, QueueOK
<1>2. queue[j].cb \in Req
  BY <1>1, EntryAt DEF IInv, QueueOK
<1> QED
  BY <1>1, <1>2, Zenon DEF IInv, Pending

\* A callback is taken back.
LEMMA EncodeFailsOK ==
  ASSUME IInv, NEW r \in Req, EncodeFails(r)
  PROVE  IInv'
<1>1. /\ step[r] = "added" /\ step' = [step EXCEPT ![r] = "thrown"]
      /\ queue' = Removed(seq[r])
      /\ UNCHANGED <<index, seq, asked, answers, refused, due, called>>
  BY DEF EncodeFails
<1>2. Thinned(queue, queue', PlacesOf(seq[r]))
  BY <1>1, RemovedThins DEF IInv
<1>3. QueueOK'
  BY <1>1, <1>2, ThinnedOK DEF IInv
<1>4. \A t \in Req : step'[t] = IF t = r THEN "thrown" ELSE step[t]
  BY <1>1 DEF IInv, Shapes
<1>5. Shapes'
  BY <1>1 DEF IInv, Shapes, Step
<1>6. RequestsOK'
  <2>1. SeqOnce' /\ Fresh' /\ AskedSent'
    BY <1>1, <1>4 DEF IInv, SeqOnce, Fresh, AskedSent, Shapes
  <2>2. AnswersNumbered'
    BY <1>1, <1>4 DEF IInv, AnswersNumbered, Shapes, Answer
  <2> QED
    BY <2>1, <2>2 DEF RequestsOK
<1>7. CallbacksOK'
  <2>1. Pending'
    <3> SUFFICES ASSUME NEW i \in DOMAIN queue', queue'[i].cb # Null
                 PROVE  LET t == queue'[i].cb
                        IN  seq[t] = queue'[i].index /\ step'[t] # "thrown" /\ NotCalled(t)
      BY <1>1, Zenon DEF Pending, NotCalled
    <3>1. PICK j \in DOMAIN queue \ PlacesOf(seq[r]) :
            LET t == queue'[i].cb
            IN  /\ t \in Req /\ queue[j].cb = t
                /\ seq[t] = queue[j].index /\ queue[j].index = queue'[i].index
                /\ step[t] # "thrown" /\ NotCalled(t)
      BY <1>2, KeptPending
    <3>2. queue[j].index # seq[r]
      BY <3>1 DEF PlacesOf
    <3> QED
      BY <3>1, <3>2, <1>4
  <2>2. DueOnce' /\ RightCallback' /\ AtMostOnce'
    BY <1>1 DEF IInv, DueOnce, RightCallback, AtMostOnce
  <2>3. Silent'
    BY <1>1, <1>4 DEF IInv, Silent, NotCalled
  <2> QED
    BY <2>1, <2>2, <2>3 DEF CallbacksOK
<1> QED
  BY <1>3, <1>5, <1>6, <1>7 DEF IInv, RequestsOK, CallbacksOK

\* Answers come and go, each with the number of its request.
LEMMA AnswersMove ==
  ASSUME IInv, asked' \subseteq asked,
         answers' \in SUBSET Answer, refused' \in SUBSET Answer,
         \A a \in answers' \cup refused' : a.seq = seq[a.of] /\ step[a.of] = "sent",
         UNCHANGED <<queue, index, step, seq, due, called>>
  PROVE  IInv'
<1>1. QueueOK'
  BY DEF IInv, QueueOK, Contiguous, Numbered
<1>2. Shapes'
  BY DEF IInv, Shapes
<1>3. RequestsOK'
  BY DEF IInv, RequestsOK, SeqOnce, Fresh, AskedSent, AnswersNumbered
<1>4. CallbacksOK'
  BY DEF IInv, CallbacksOK, Pending, NotCalled, DueOnce, Silent, RightCallback, AtMostOnce
<1> QED
  BY <1>1, <1>2, <1>3, <1>4 DEF IInv, RequestsOK, CallbacksOK

\* The server answers a request.
LEMMA RespondOK ==
  ASSUME IInv, NEW r \in Req, Respond(r)
  PROVE  IInv'
<1>1. /\ r \in asked /\ asked' = asked \ {r}
      /\ UNCHANGED <<queue, index, step, seq, refused, due, called>>
      /\ \E x \in {TRUE, FALSE} :
           answers' \in {answers, answers \cup {[seq |-> seq[r], of |-> r, readable |-> x]}}
  BY DEF Respond
<1>2. PICK x \in {TRUE, FALSE} :
        answers' \in {answers, answers \cup {[seq |-> seq[r], of |-> r, readable |-> x]}}
  BY <1>1
<1>3. [seq |-> seq[r], of |-> r, readable |-> x] \in Answer
  BY <1>2 DEF IInv, Shapes, Answer
<1>4. step[r] = "sent"
  BY <1>1 DEF IInv, AskedSent
<1>5. \A a \in answers' \cup refused' : a.seq = seq[a.of] /\ step[a.of] = "sent"
  BY <1>1, <1>2, <1>4 DEF IInv, AnswersNumbered
<1>6. answers' \in SUBSET Answer /\ refused' \in SUBSET Answer /\ asked' \subseteq asked
  BY <1>1, <1>2, <1>3 DEF IInv, Shapes
<1> QED
  BY <1>1, <1>5, <1>6, AnswersMove

\* The server answers an error packet.
LEMMA RespondToErrorOK ==
  ASSUME IInv, NEW a, RespondToError(a)
  PROVE  IInv'
<1>1. /\ answers' \in SUBSET Answer /\ refused' \in SUBSET Answer
      /\ \A b \in answers' \cup refused' : b.seq = seq[b.of] /\ step[b.of] = "sent"
  BY DEF RespondToError, IInv, Shapes, AnswersNumbered
<1> QED
  BY <1>1, AnswersMove DEF RespondToError

\* The client refuses an answer.
LEMMA ReceiveUnreadableOK ==
  ASSUME IInv, NEW a, ReceiveUnreadable(a)
  PROVE  IInv'
<1>1. /\ answers' \in SUBSET Answer /\ refused' \in SUBSET Answer
      /\ \A b \in answers' \cup refused' : b.seq = seq[b.of] /\ step[b.of] = "sent"
  BY DEF ReceiveUnreadable, IInv, Shapes, AnswersNumbered
<1> QED
  BY <1>1, AnswersMove DEF ReceiveUnreadable

\* The calls of new are those of entries at the places gone, whose requests are sent.
CallsFrom(new, gone) ==
  /\ new \subseteq CallOf
  /\ \A d \in new : /\ \E l \in DOMAIN queue \cap gone : queue[l].cb = d.cb
                    /\ d.of \in {d.cb, Null}
                    /\ step[d.cb] \notin {"new", "added", "thrown"}
  /\ \A d, e \in new : d.cb = e.cb => d = e

\* Callbacks leave the queue to be called.
LEMMA CallbacksMove ==
  ASSUME IInv, NEW gone, Thinned(queue, queue', gone),
         NEW new, CallsFrom(new, gone), due' = due \cup new,
         UNCHANGED <<index, step, seq, called>>
  PROVE  QueueOK' /\ due' \subseteq CallOf /\ CallbacksOK'
<1>1. QueueOK' /\ due' \subseteq CallOf
  BY ThinnedOK DEF IInv, Shapes, CallsFrom
<1>2. ASSUME NEW d \in new
      PROVE  /\ d.cb \in Req /\ NotCalled(d.cb)
             /\ \E l \in DOMAIN queue \cap gone : queue[l].cb = d.cb /\ queue[l].index = seq[d.cb]
  <2>1. d.cb \in Req /\ d.cb # Null
    BY CallbackAssumption DEF CallsFrom, CallOf
  <2>2. PICK l \in DOMAIN queue \cap gone : queue[l].cb = d.cb
    BY Zenon DEF CallsFrom
  <2>3. seq[d.cb] = queue[l].index /\ NotCalled(d.cb)
    BY <2>1, <2>2, Zenon DEF IInv, Pending
  <2> QED
    BY <2>1, <2>2, <2>3
<1>3. Pending'
  <2> SUFFICES ASSUME NEW i \in DOMAIN queue', queue'[i].cb # Null
               PROVE  LET t == queue'[i].cb
                      IN  /\ seq[t] = queue'[i].index /\ step[t] # "thrown"
                          /\ called[t] = <<>> /\ \A d \in due \cup new : d.cb # t
    BY Zenon DEF Pending, NotCalled
  <2>1. PICK j \in DOMAIN queue \ gone :
          LET t == queue'[i].cb
          IN  /\ t \in Req /\ queue[j].cb = t
              /\ seq[t] = queue[j].index /\ queue[j].index = queue'[i].index
              /\ step[t] # "thrown" /\ NotCalled(t)
    BY KeptPending
  <2>2. ASSUME NEW d \in new PROVE d.cb # queue'[i].cb
    <3>1. SUFFICES ASSUME d.cb = queue'[i].cb PROVE FALSE
      OBVIOUS
    <3>2. PICK l \in DOMAIN queue \cap gone : queue[l].index = seq[d.cb]
      BY <1>2
    <3>3. queue[l].index = queue[j].index
      BY <2>1, <3>1, <3>2
    <3>4. l = j
      BY <2>1, <3>2, <3>3, Zenon DEF IInv, QueueOK, Numbered
    <3> QED
      BY <2>1, <3>2, <3>4
  <2> QED
    BY <2>1, <2>2 DEF NotCalled
<1>4. DueOnce'
  <2> SUFFICES ASSUME NEW d \in due \cup new
               PROVE  /\ called[d.cb] = <<>> /\ d.of \in {d.cb, Null}
                      /\ \A e \in due \cup new : e.cb = d.cb => e = d
    BY Zenon DEF DueOnce
  <2>1. CASE d \in due
    BY <2>1, <1>2 DEF IInv, DueOnce, NotCalled
  <2>2. CASE d \in new
    BY <2>2, <1>2 DEF NotCalled, CallsFrom
  <2> QED
    BY <2>1, <2>2
<1>5. Silent'
  BY DEF IInv, Silent, NotCalled, CallsFrom
<1>6. RightCallback' /\ AtMostOnce'
  BY DEF IInv, RightCallback, AtMostOnce
<1> QED
  BY <1>1, <1>3, <1>4, <1>5, <1>6 DEF CallbacksOK

\* What Deal finds for an answer is the callback of the request it answers.
LEMMA ReceiveOK ==
  ASSUME IInv, NEW a, Receive(a)
  PROVE  IInv'
<1> DEFINE cb == queue[Slot(a.seq)].cb
           new == IF Found(a.seq) /\ cb # Null THEN {[cb |-> cb, of |-> a.of]} ELSE {}
           gone == IF Found(a.seq) THEN PlacesOf(a.seq) ELSE {}
<1>1. /\ a \in answers /\ answers' = answers \ {a}
      /\ UNCHANGED <<index, step, seq, asked, refused, called>>
  BY DEF Receive
<1>2. a.of \in Req /\ a.seq = seq[a.of] /\ step[a.of] = "sent"
  BY <1>1 DEF IInv, AnswersNumbered, Shapes, Answer
<1>3. Thinned(queue, queue', gone) /\ due' = due \cup new
  <2>1. CASE Found(a.seq)
    <3>1. queue' = Dealt(a.seq)
      BY <2>1 DEF Receive
    <3>2. due' = due \cup IF cb = Null THEN {} ELSE {[cb |-> cb, of |-> a.of]}
      BY <2>1 DEF Receive
    <3> QED
      BY <2>1, <3>1, <3>2, DealtThins DEF IInv
  <2>2. CASE ~Found(a.seq)
    <3>1. queue' = queue /\ due' = due
      BY <2>2 DEF Receive
    <3> QED
      BY <2>2, <3>1, ThinnedNothing DEF IInv, QueueOK
  <2> QED
    BY <2>1, <2>2
<1>4. ASSUME NEW d \in new
      PROVE  /\ d = [cb |-> a.of, of |-> a.of] /\ d \in CallOf
             /\ \E l \in DOMAIN queue \cap gone : queue[l].cb = d.cb
  <2>1. Found(a.seq) /\ cb # Null /\ d = [cb |-> cb, of |-> a.of]
    BY <1>4
  <2>2. /\ Slot(a.seq) \in DOMAIN queue /\ queue[Slot(a.seq)].index = a.seq
        /\ a.seq # NoIndex
    BY <2>1 DEF Found
  <2>3. cb \in Req /\ seq[cb] = a.seq
    BY <2>1, <2>2, EntryAt, Zenon DEF IInv, QueueOK, Pending
  <2>4. cb = a.of
    BY <2>2, <2>3, <1>2, Zenon DEF IInv, SeqOnce
  <2>5. Slot(a.seq) \in DOMAIN queue \cap gone
    BY <2>1, <2>2 DEF PlacesOf
  <2>6. d.cb = cb
    BY <2>1
  <2>7. d \in CallOf
    BY <2>1, <2>3, <1>2 DEF CallOf
  <2> QED
    BY <2>1, <2>4, <2>5, <2>6, <2>7
<1>5. new \in SUBSET CallOf
  BY <1>4
<1> HIDE DEF new, gone
<1>6. QueueOK' /\ due' \subseteq CallOf /\ CallbacksOK'
  <2>1. CallsFrom(new, gone)
    BY <1>2, <1>4, <1>5 DEF CallsFrom
  <2> QED
    BY <1>1, <1>3, <2>1, CallbacksMove
<1>7. Shapes' /\ RequestsOK'
  BY <1>1, <1>6 DEF IInv, Shapes, RequestsOK, SeqOnce, Fresh, AskedSent, AnswersNumbered
<1> QED
  BY <1>6, <1>7 DEF IInv, RequestsOK, CallbacksOK

\* Timeouts.
LEMMA CheckQueueOK ==
  ASSUME IInv, NEW k \in 1 .. Len(queue), CheckQueue(k)
  PROVE  IInv'
<1> DEFINE expired == {queue[j].cb : j \in 1 .. k} \ {Null}
           new == {[cb |-> r, of |-> Null] : r \in expired}
<1>1. /\ \A r \in expired : step[r] # "added"
      /\ queue' = SubSeq(queue, k + 1, Len(queue))
      /\ due' = due \cup new
      /\ UNCHANGED <<index, step, seq, asked, answers, refused, called>>
  BY DEF CheckQueue
<1>2. /\ queue \in Seq(Entry) /\ Len(queue) \in Nat /\ DOMAIN queue = 1 .. Len(queue)
  BY LenProperties DEF IInv, QueueOK
<1>3. k \in 0 .. Len(queue) /\ 1 .. k \subseteq DOMAIN queue
  BY <1>2, SMT
<1>4. Thinned(queue, queue', 1 .. k)
  BY <1>1, <1>2, <1>3, FrontGone
<1>5. ASSUME NEW r \in expired
      PROVE  /\ r \in Req /\ step[r] \notin {"new", "added", "thrown"}
             /\ \E l \in DOMAIN queue \cap 1 .. k : queue[l].cb = r
  <2>1. PICK l \in 1 .. k : queue[l].cb = r /\ r # Null
    BY <1>5
  <2>2. l \in DOMAIN queue
    BY <1>3
  <2>3. r \in Req /\ queue[l].index # NoIndex
    BY <1>2, <2>1, <2>2, EntryAt, SpaceOK, SMT DEF NoIndex
  <2>4. seq[r] = queue[l].index /\ step[r] # "thrown"
    BY <2>1, <2>2, Zenon DEF IInv, Pending
  <2>5. step[r] # "new"
    BY <2>3, <2>4, Zenon DEF IInv, Fresh
  <2> QED
    BY <1>1, <2>1, <2>2, <2>3, <2>4, <2>5
<1> HIDE DEF expired
<1> DEFINE gone == 1 .. k
<1>6. Thinned(queue, queue', gone)
  BY <1>4
<1>7. \A d \in new : /\ d \in CallOf /\ d.of = Null
                     /\ \E l \in DOMAIN queue \cap gone : queue[l].cb = d.cb
                     /\ step[d.cb] \notin {"new", "added", "thrown"}
                     /\ \A e \in new : d.cb = e.cb => d = e
  <2> TAKE d \in new
  <2>1. PICK r \in expired : d = [cb |-> r, of |-> Null]
    OBVIOUS
  <2>2. d.cb = r /\ d.of = Null
    BY <2>1
  <2>3. d \in CallOf
    BY <2>1, <1>5 DEF CallOf
  <2> QED
    BY <2>2, <2>3, <1>5
<1> HIDE DEF new, gone
<1>8. QueueOK' /\ due' \subseteq CallOf /\ CallbacksOK'
  <2>1. CallsFrom(new, gone)
    BY <1>7 DEF CallsFrom
  <2> QED
    BY <1>1, <1>6, <2>1, CallbacksMove
<1>9. Shapes' /\ RequestsOK'
  BY <1>1, <1>8 DEF IInv, Shapes, RequestsOK, SeqOnce, Fresh, AskedSent, AnswersNumbered
<1> QED
  BY <1>8, <1>9 DEF IInv, RequestsOK, CallbacksOK

\* A callback that is called has not been called, and gets what was found for it.
LEMMA CallOK ==
  ASSUME IInv, NEW d, Call(d)
  PROVE  IInv'
<1>1. /\ d \in due /\ due' = due \ {d}
      /\ called' = [called EXCEPT ![d.cb] = Append(@, d.of)]
      /\ UNCHANGED <<queue, index, step, seq, asked, answers, refused>>
  BY DEF Call
<1>2. d.cb \in Req /\ d.of \in {d.cb, Null} /\ called[d.cb] = <<>>
  BY <1>1 DEF IInv, Shapes, CallOf, DueOnce
<1>3. called' = [called EXCEPT ![d.cb] = <<d.of>>]
  <2>1. Append(<<>>, d.of) = <<d.of>>
    BY SMT
  <2> QED
    BY <1>1, <1>2, <2>1
<1>4. \A r \in Req : called'[r] = IF r = d.cb THEN <<d.of>> ELSE called[r]
  BY <1>3 DEF IInv, Shapes
<1>5. QueueOK'
  BY <1>1 DEF IInv, QueueOK, Contiguous, Numbered
<1>6. Shapes'
  <2>1. <<d.of>> \in Seq(Req \cup {Null})
    BY <1>2, SMT
  <2> QED
    BY <2>1, <1>1, <1>3 DEF IInv, Shapes
<1>7. RequestsOK'
  BY <1>1 DEF IInv, RequestsOK, SeqOnce, Fresh, AskedSent, AnswersNumbered
<1>8. CallbacksOK'
  <2>1. ~NotCalled(d.cb)
    BY <1>1 DEF NotCalled
  <2>2. Pending'
    <3> SUFFICES ASSUME NEW i \in DOMAIN queue, queue[i].cb # Null
                 PROVE  LET r == queue[i].cb
                        IN  /\ seq[r] = queue[i].index /\ step[r] # "thrown"
                            /\ called'[r] = <<>> /\ \A e \in due' : e.cb # r
      BY <1>1, Zenon DEF Pending, NotCalled
    <3>1. queue[i].cb \in Req
      BY EntryAt DEF IInv, QueueOK
    <3>2. LET r == queue[i].cb
          IN  seq[r] = queue[i].index /\ step[r] # "thrown" /\ NotCalled(r)
      BY DEF IInv, Pending
    <3> QED
      BY <3>1, <3>2, <2>1, <1>1, <1>4 DEF NotCalled
  <2>3. DueOnce'
    BY <1>1, <1>4 DEF IInv, DueOnce, Shapes, CallOf
  <2>4. Silent'
    BY <2>1, <1>1, <1>4 DEF IInv, Silent, NotCalled
  <2>5. Len(<<d.of>>) = 1 /\ DOMAIN <<d.of>> = {1} /\ <<d.of>>[1] = d.of
    BY SMT
  <2>6. RightCallback'
    BY <2>5, <1>2, <1>4, Zenon DEF IInv, RightCallback
  <2>7. AtMostOnce'
    <3> SUFFICES ASSUME NEW r \in Req PROVE Len(called'[r]) <= 1
      BY DEF AtMostOnce
    <3>1. CASE r = d.cb
      <4>1. Len(called'[r]) = 1
        BY <3>1, <2>5, <1>4
      <4> QED
        BY <4>1, SMT
    <3>2. CASE r # d.cb
      BY <3>2, <1>4 DEF IInv, AtMostOnce
    <3> QED
      BY <3>1, <3>2
  <2> QED
    BY <2>2, <2>3, <2>4, <2>6, <2>7 DEF CallbacksOK
<1> QED
  BY <1>5, <1>6, <1>7, <1>8 DEF IInv, RequestsOK, CallbacksOK

-----------------------------------------------------------------------------
(* The theorems.                                                           *)

\* Nothing has happened yet.
LEMMA InitOK ==
  ASSUME Init
  PROVE  IInv
<1>1. <<>> \in Seq(Entry) /\ Len(<<>>) = 0 /\ DOMAIN <<>> = {} /\ <<>> \in Seq(Req \cup {Null})
  BY SMT
<1>2. QueueOK
  BY <1>1, CallbackAssumption DEF Init, QueueOK, Contiguous, Numbered
<1>3. Shapes
  BY <1>1 DEF Init, Shapes, Step
<1>4. RequestsOK
  BY DEF Init, RequestsOK, SeqOnce, Fresh, AskedSent, AnswersNumbered
<1>5. Pending /\ DueOnce /\ Silent
  BY <1>1 DEF Init, Pending, DueOnce, Silent, NotCalled
<1>6. RightCallback /\ AtMostOnce
  BY <1>1, SMT DEF Init, RightCallback, AtMostOnce
<1> QED
  BY <1>2, <1>3, <1>4, <1>5, <1>6 DEF IInv, RequestsOK

\* Every step keeps the invariant.
LEMMA NextOK ==
  ASSUME IInv, [Next]_vars
  PROVE  IInv'
<1>1. ASSUME NEW r \in Req, AddCallback(r) PROVE IInv'
  BY <1>1, AddCallbackOK
<1>2. ASSUME NEW r \in Req, Send(r) \/ SendFails(r) PROVE IInv'
  BY <1>2, SendOK
<1>3. ASSUME NEW r \in Req, EncodeFails(r) PROVE IInv'
  BY <1>3, EncodeFailsOK
<1>4. ASSUME NEW r \in Req, Respond(r) PROVE IInv'
  BY <1>4, RespondOK
<1>5. ASSUME NEW a, Receive(a) PROVE IInv'
  BY <1>5, ReceiveOK
<1>6. ASSUME NEW a, ReceiveUnreadable(a) PROVE IInv'
  BY <1>6, ReceiveUnreadableOK
<1>7. ASSUME NEW a, RespondToError(a) PROVE IInv'
  BY <1>7, RespondToErrorOK
<1>8. ASSUME NEW d, Call(d) PROVE IInv'
  BY <1>8, CallOK
<1>9. ASSUME NEW k \in 1 .. Len(queue), CheckQueue(k) PROVE IInv'
  BY <1>9, CheckQueueOK
<1>10. CASE UNCHANGED vars
  BY <1>10 DEF vars, IInv, QueueOK, Contiguous, Numbered, Shapes, SeqOnce, Fresh, AskedSent,
     AnswersNumbered, Pending, DueOnce, Silent, NotCalled, RightCallback, AtMostOnce
<1> QED
  BY <1>1, <1>2, <1>3, <1>4, <1>5, <1>6, <1>7, <1>8, <1>9, <1>10, Zenon DEF Next

\* The invariant holds in every reachable state.
LEMMA Inductive == Spec => []IInv
<1>1. Init => IInv
  BY InitOK
<1>2. IInv /\ [Next]_vars => IInv'
  BY NextOK
<1> QED
  BY <1>1, <1>2, PTL DEF Spec

\* The state of the client always has the shapes TypeOK lists.
THEOREM TypeCorrect == Spec => []TypeOK
<1>1. IInv => TypeOK
  BY DEF IInv, QueueOK, Shapes, TypeOK
<1> QED
  BY <1>1, Inductive, PTL

\* The distance from the front is the place of an index, which RemoveCallback
\* relies on, wherever the indices wrap.
THEOREM AlwaysContiguous == Spec => []Contiguous
<1>1. IInv => Contiguous
  BY DEF IInv, QueueOK
<1> QED
  BY <1>1, Inductive, PTL

\* Whatever order requests, answers, timeouts and calls come in, and whatever fails,
\* a callback gets the answer to its own request or a timeout.
THEOREM RightCalls == Spec => []RightCallback
<1>1. IInv => RightCallback
  BY DEF IInv
<1> QED
  BY <1>1, Inductive, PTL

\* No callback is called twice.
THEOREM OneCall == Spec => []AtMostOnce
<1>1. IInv => AtMostOnce
  BY DEF IInv
<1> QED
  BY <1>1, Inductive, PTL

\* A request whose encoding failed is not called back.
THEOREM ThrownNotCalled == Spec => []ThrownIsSilent
<1>1. IInv => ThrownIsSilent
  BY DEF IInv, Silent, NotCalled, ThrownIsSilent, CallsOf
<1> QED
  BY <1>1, Inductive, PTL

=============================================================================
