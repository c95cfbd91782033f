--------------------------- MODULE ConnPool_proofs ---------------------------
(***************************************************************************)
(* What holds of the connection pools for any number of threads,           *)
(* connections and servers, which stop and come back at any time.          *)
(***************************************************************************)
EXTENDS ConnPool, FiniteSetTheorems, SequenceTheorems, WellFoundedInduction, TLAPS

-----------------------------------------------------------------------------
(* Numbers.                                                                *)

\* A nonempty set of natural numbers has a least element.
LEMMA LeastNat ==
  ASSUME NEW T, T \subseteq Nat, T # {}
  PROVE  \E x \in T : \A y \in T : x <= y
<1> DEFINE R == OpToRel(<, Nat)
<1>1. \E x \in T : \A y \in T : ~(<<y, x>> \in R)
  <2> HIDE DEF R
  <2>1. IsWellFoundedOn(R, Nat)
    BY NatLessThanWellFounded DEF R
  <2> QED
    BY <2>1, WFMin
<1>2. PICK x \in T : \A y \in T : ~(<<y, x>> \in R)
  BY <1>1
<1>3. ASSUME NEW y \in T PROVE x <= y
  <2>1. <<y, x>> \in Nat \X Nat /\ <<y, x>>[1] = y /\ <<y, x>>[2] = x
    BY SMT
  <2>2. ASSUME y < x PROVE <<y, x>> \in R
    BY <2>1, <2>2, Zenon DEF OpToRel
  <2>3. ~(y < x)
    BY <1>2, <2>2, Zenon
  <2> HIDE DEF R
  <2> QED
    BY <2>3, SMT
<1> QED
  BY <1>3

\* A finite set of numbers can be put in order.
LEMMA OrderExists ==
  ASSUME NEW S, S \subseteq Nat, IsFiniteSet(S)
  PROVE  \E s \in [1 .. Cardinality(S) -> S] : \A i, j \in DOMAIN s : i < j => s[i] < s[j]
<1> DEFINE n == Cardinality(S)
           below(x) == {y \in S : y < x}
           place == [x \in S |-> Cardinality(below(x)) + 1]
<1>1. n \in Nat
  BY FS_CardinalityType
<1>2. ASSUME NEW x \in S
      PROVE  /\ IsFiniteSet(below(x)) /\ Cardinality(below(x)) \in Nat
             /\ Cardinality(below(x)) < n
  <2>1. /\ IsFiniteSet(S \ {x}) /\ Cardinality(S \ {x}) = n - 1
    BY FS_RemoveElement
  <2>2. below(x) \subseteq S \ {x}
    OBVIOUS
  <2>3. IsFiniteSet(below(x)) /\ Cardinality(below(x)) <= n - 1
    BY <2>1, <2>2, FS_Subset
  <2>4. Cardinality(below(x)) \in Nat
    BY <2>3, FS_CardinalityType
  <2> QED
    BY <1>1, <2>3, <2>4
<1>3. ASSUME NEW x \in S, NEW y \in S, x < y
      PROVE  Cardinality(below(x)) < Cardinality(below(y))
  <2>1. below(x) \subseteq below(y) \ {x} /\ x \in below(y)
    <3>1. x \in Nat /\ y \in Nat
      OBVIOUS
    <3>2. \A z \in S : z \in Nat /\ (z < x => z < y /\ z # x)
      BY <1>3, <3>1
    <3> QED
      BY <1>3, <3>2
  <2>2. /\ IsFiniteSet(below(y) \ {x})
        /\ Cardinality(below(y) \ {x}) = Cardinality(below(y)) - 1
    BY <1>2, <2>1, FS_RemoveElement
  <2>3. /\ Cardinality(below(x)) \in Nat /\ Cardinality(below(y)) \in Nat
    BY <1>2
  <2> HIDE DEF below
  <2>4. Cardinality(below(x)) <= Cardinality(below(y) \ {x})
    BY <2>1, <2>2, FS_Subset
  <2> QED
    BY <2>2, <2>3, <2>4
<1>4. \A x \in S : place[x] = Cardinality(below(x)) + 1
  OBVIOUS
<1>5. DOMAIN place = S /\ place = [x \in S |-> place[x]]
  OBVIOUS
<1> HIDE DEF place, below
<1>6. \A x \in S : place[x] \in 1 .. n
  BY <1>1, <1>2, <1>4
<1>7. \A x, y \in S : x < y => place[x] < place[y]
  BY <1>2, <1>3, <1>4
<1>8. place \in Injection(S, 1 .. n)
  <2>1. place \in [S -> 1 .. n]
    BY <1>5, <1>6
  <2>2. \A x, y \in S : place[x] = place[y] => x = y
    <3> SUFFICES ASSUME NEW x \in S, NEW y \in S, place[x] = place[y] PROVE x = y
      OBVIOUS
    <3>1. ~(x < y) /\ ~(y < x) /\ x \in Nat /\ y \in Nat
      <4>1. place[x] \in Nat /\ place[y] \in Nat
        BY <1>6
      <4> QED
        BY <1>7, <4>1
    <3> QED
      BY <3>1
  <2> QED
    BY <1>5, <2>1, <2>2 DEF Injection, IsInjective
<1>9. place \in Surjection(S, 1 .. n)
  <2>1. IsFiniteSet(1 .. n) /\ Cardinality(1 .. n) = n
    BY <1>1, FS_Interval
  <2> QED
    BY <1>8, <2>1, FS_Injection
<1>10. \A i \in 1 .. n : \E x \in S : place[x] = i
  BY <1>9 DEF Surjection
<1> DEFINE s == [i \in 1 .. n |-> CHOOSE x \in S : place[x] = i]
<1>11. \A i \in 1 .. n : s[i] \in S /\ place[s[i]] = i
  BY <1>10
<1>12. DOMAIN s = 1 .. n /\ s \in [1 .. n -> S]
  BY <1>11
<1> HIDE DEF s, n
<1>13. ASSUME NEW i \in 1 .. n, NEW j \in 1 .. n, i < j PROVE s[i] < s[j]
  <2>1. s[i] \in S /\ s[j] \in S /\ s[i] \in Nat /\ s[j] \in Nat
    BY <1>11
  <2>2. ~(s[j] < s[i])
    <3>1. s[j] < s[i] => place[s[j]] < place[s[i]]
      BY <1>7, <2>1
    <3> QED
      BY <1>11, <1>13, <3>1
  <2>3. s[i] # s[j]
    BY <1>11, <1>13
  <2> QED
    BY <2>1, <2>2, <2>3
<1> QED
  BY <1>12, <1>13 DEF n

-----------------------------------------------------------------------------
\* What is open is not None.
LEMMA NoneApart == None \notin Conn /\ None \notin [server: Names, alive: BOOLEAN]
BY PoolAssumption

Free == {"grab", "index", "connect", "set_bad", "none"}

\* The state of a thread with these values in the fields the pools depend on.
IsAt(r, pc, home, from, conn) ==
  r = [pc |-> pc, home |-> home, from |-> from, conn |-> conn, index |-> r.index,
       tries |-> r.tries, ran |-> r.ran, ret |-> r.ret]

Shape(r) == IsAt(r, r.pc, r.home, r.from, r.conn)

\* A thread knows its pools while it runs a function; it has a connection when it pings
\* it or runs its statement, and none before.
RecordOK(r) ==
  /\ Shape(r)
  /\ r.pc \in Pc /\ r.conn \in Conn \cup {None}
  /\ r.pc # "idle" => r.home \in Pool /\ r.from \in Pool
  /\ r.pc \in {"ping", "run"} => r.conn \in Conn
  /\ r.pc \in Free \cup {"idle"} => r.conn = None

Threads == DOMAIN th = Thread /\ \A t \in Thread : RecordOK(th[t])

Element == [conn: Conn, last_used: Nat]

Link == [server: Names, alive: BOOLEAN]

Shapes ==
  /\ Threads
  /\ now \in Nat
  /\ up \subseteq Names
  /\ link \in [Conn -> Link \cup {None}]
  /\ m_conn_queue \in [Pool -> Seq(Element)]

\* t goes on, and the others stay where they are.
Becomes(t, pc, home, from, conn) ==
  /\ DOMAIN th' = Thread
  /\ IsAt(th'[t], pc, home, from, conn)
  /\ \A s \in Thread \ {t} : th'[s] = th[s]

LEMMA GoesBecomes ==
  ASSUME DOMAIN th = Thread, NEW t \in Thread, NEW r, Goes(t, r),
         NEW pc, NEW home, NEW from, NEW conn, IsAt(r, pc, home, from, conn)
  PROVE  Becomes(t, pc, home, from, conn)
BY DEF Goes, Becomes

(* Updates of the fields of a thread, in the form the provers can use.     *)

LEMMA SetPc ==
  ASSUME NEW r, Shape(r), NEW pc
  PROVE  IsAt([r EXCEPT !.pc = pc], pc, r.home, r.from, r.conn)
BY DEF Shape, IsAt

LEMMA SetConn ==
  ASSUME NEW r, Shape(r), NEW pc, NEW conn
  PROVE  IsAt([r EXCEPT !.pc = pc, !.conn = conn], pc, r.home, r.from, conn)
<1> DEFINE n == [r EXCEPT !.pc = pc]
<1>1. IsAt(n, pc, r.home, r.from, r.conn)
  BY DEF Shape, IsAt
<1> HIDE DEF n
<1>2. IsAt([n EXCEPT !.conn = conn], pc, r.home, r.from, conn)
  BY <1>1 DEF IsAt
<1> QED
  BY <1>2 DEF n

LEMMA SetFrom ==
  ASSUME NEW r, Shape(r), NEW pc, NEW from
  PROVE  IsAt([r EXCEPT !.pc = pc, !.from = from], pc, r.home, from, r.conn)
<1> DEFINE n == [r EXCEPT !.pc = pc]
<1>1. IsAt(n, pc, r.home, r.from, r.conn)
  BY DEF Shape, IsAt
<1> HIDE DEF n
<1>2. IsAt([n EXCEPT !.from = from], pc, r.home, from, r.conn)
  BY <1>1 DEF IsAt
<1> QED
  BY <1>2 DEF n

LEMMA SetOther ==
  ASSUME NEW r, Shape(r), NEW pc, NEW x
  PROVE  /\ IsAt([r EXCEPT !.pc = pc, !.tries = x], pc, r.home, r.from, r.conn)
         /\ IsAt([r EXCEPT !.tries = x, !.pc = pc], pc, r.home, r.from, r.conn)
         /\ IsAt([r EXCEPT !.pc = pc, !.index = x], pc, r.home, r.from, r.conn)
         /\ IsAt([r EXCEPT !.pc = pc, !.ret = x], pc, r.home, r.from, r.conn)
<1> DEFINE n == [r EXCEPT !.pc = pc]
           m == [r EXCEPT !.tries = x]
<1>1. IsAt(n, pc, r.home, r.from, r.conn) /\ IsAt(m, r.pc, r.home, r.from, r.conn)
  BY DEF Shape, IsAt
<1> HIDE DEF n, m
<1>2. /\ IsAt([n EXCEPT !.tries = x], pc, r.home, r.from, r.conn)
      /\ IsAt([n EXCEPT !.index = x], pc, r.home, r.from, r.conn)
      /\ IsAt([n EXCEPT !.ret = x], pc, r.home, r.from, r.conn)
      /\ IsAt([m EXCEPT !.pc = pc], pc, r.home, r.from, r.conn)
  BY <1>1 DEF IsAt
<1> QED
  BY <1>2 DEF n, m

LEMMA SetOutcome ==
  ASSUME NEW r, Shape(r), NEW pc, NEW x, NEW y
  PROVE  IsAt([r EXCEPT !.pc = pc, !.ran = x, !.ret = y], pc, r.home, r.from, r.conn)
<1> DEFINE n == [r EXCEPT !.pc = pc]
           m == [n EXCEPT !.ran = x]
<1>1. IsAt(n, pc, r.home, r.from, r.conn)
  BY DEF Shape, IsAt
<1> HIDE DEF n
<1>2. IsAt(m, pc, r.home, r.from, r.conn)
  BY <1>1 DEF IsAt
<1> HIDE DEF m
<1>3. IsAt([m EXCEPT !.ret = y], pc, r.home, r.from, r.conn)
  BY <1>2 DEF IsAt
<1> QED
  BY <1>3 DEF m, n

LEMMA SetCall ==
  ASSUME NEW p
  PROVE  IsAt([Idle EXCEPT !.pc = "grab", !.home = p, !.from = p], "grab", p, p, None)
<1> DEFINE n == [Idle EXCEPT !.pc = "grab"]
           m == [n EXCEPT !.home = p]
<1>1. IsAt(n, "grab", None, None, None)
  <2>1. /\ Shape(Idle)
        /\ Idle.home = None /\ Idle.from = None /\ Idle.conn = None
    BY DEF Idle, Shape, IsAt
  <2> QED
    BY <2>1, SetPc
<1> HIDE DEF n
<1>2. IsAt(m, "grab", p, None, None)
  BY <1>1 DEF IsAt
<1> HIDE DEF m
<1>3. IsAt([m EXCEPT !.from = p], "grab", p, p, None)
  BY <1>2 DEF IsAt
<1> QED
  BY <1>3 DEF m, n

\* A thread that is at such a place is as it has to be.
LEMMA BecomesOK ==
  ASSUME Threads, NEW t \in Thread, NEW pc \in Pc, NEW home, NEW from, NEW conn,
         Becomes(t, pc, home, from, conn), conn \in Conn \cup {None},
         pc # "idle" => home \in Pool /\ from \in Pool,
         pc \in {"ping", "run"} => conn \in Conn,
         pc \in Free \cup {"idle"} => conn = None
  PROVE  /\ Threads'
         /\ th'[t].pc = pc /\ th'[t].home = home /\ th'[t].from = from /\ th'[t].conn = conn
<1>1. /\ Shape(th'[t])
      /\ th'[t].pc = pc /\ th'[t].home = home /\ th'[t].from = from /\ th'[t].conn = conn
  BY DEF Becomes, IsAt, Shape
<1>2. RecordOK(th'[t])
  BY <1>1 DEF RecordOK
<1> QED
  BY <1>1, <1>2 DEF Threads, Becomes

-----------------------------------------------------------------------------
(* What release leaves.                                                    *)

\* The queue without its d first elements.
LEMMA RestIsTail ==
  ASSUME NEW q \in Seq(Element), now \in Nat
  PROVE  \E d \in 0 .. Len(q) :
           /\ Rest(q) \in Seq(Element)
           /\ Len(Rest(q)) = Len(q) - d
           /\ \A i \in 1 .. Len(q) - d : Rest(q)[i] = q[i + d]
<1> DEFINE young == {i \in DOMAIN q : now - q[i].last_used <= CONN_IDLE_TIME}
           first == CHOOSE i \in young : \A j \in young : i <= j
<1>1. DOMAIN q = 1 .. Len(q) /\ Len(q) \in Nat
  BY LenProperties
<1>2. CASE young = {}
  <2>1. Rest(q) = <<>>
    BY <1>2 DEF Rest
  <2>2. <<>> \in Seq(Element) /\ Len(<<>>) = 0
    BY EmptySeq, SMT
  <2>3. Len(q) \in 0 .. Len(q) /\ Len(Rest(q)) = Len(q) - Len(q)
    BY <1>1, <2>1, <2>2, SMT
  <2>4. \A i \in 1 .. Len(q) - Len(q) : Rest(q)[i] = q[i + Len(q)]
    BY <1>1, SMT
  <2>5. Rest(q) \in Seq(Element)
    BY <2>1, <2>2
  <2> QED
    BY <2>3, <2>4, <2>5, Zenon
<1>3. CASE young # {}
  <2>1. young \subseteq Nat
    BY <1>1, SMT
  <2>2. first \in young
    BY <1>3, <2>1, LeastNat
  <2>3. first \in 1 .. Len(q) /\ Rest(q) = SubSeq(q, first, Len(q))
    BY <1>1, <1>3, <2>2 DEF Rest
  <2> HIDE DEF young, first
  <2>4. /\ SubSeq(q, first, Len(q)) \in Seq(Element)
        /\ Len(SubSeq(q, first, Len(q))) = Len(q) - first + 1
        /\ \A i \in 1 .. Len(q) - first + 1 : SubSeq(q, first, Len(q))[i] = q[first + i - 1]
    BY <1>1, <2>3, SubSeqProperties, SMT
  <2> DEFINE d == first - 1
  <2>5. d \in 0 .. Len(q) /\ Len(Rest(q)) = Len(q) - d
    BY <1>1, <2>3, <2>4, SMT
  <2>6. ASSUME NEW i \in 1 .. Len(q) - d PROVE Rest(q)[i] = q[i + d]
    <3>1. i \in 1 .. Len(q) - first + 1 /\ first + i - 1 = i + d
      BY <1>1, <2>3, SMT
    <3> QED
      BY <2>3, <2>4, <3>1, Zenon
  <2>7. Rest(q) \in Seq(Element)
    BY <2>3, <2>4
  <2> HIDE DEF d
  <2>8. \A i \in 1 .. Len(q) - d : Rest(q)[i] = q[i + d]
    BY <2>6, Zenon
  <2> QED
    BY <2>5, <2>7, <2>8, Zenon
<1> QED
  BY <1>2, <1>3

-----------------------------------------------------------------------------
(* What the steps of a thread do, as far as the pools depend on it.        *)

\* Places a thread may be at.
Fits(pc, home, from, conn) ==
  /\ pc \in Pc /\ conn \in Conn \cup {None}
  /\ pc # "idle" => home \in Pool /\ from \in Pool
  /\ pc \in {"ping", "run"} => conn \in Conn
  /\ pc \in Free \cup {"idle"} => conn = None

\* A thread there counts for no pool for which it has not counted.
CountsNoMore(t, pc, home, from) ==
  \A p \in Pool : pc # "idle" /\ home = p /\ ~(pc = "grab" /\ from = p) => Counts(t, p)

\* The thread keeps its connection, or has none; with one it stays with its pool.
Keeping(t) ==
  /\ \E pc, home, from :
       /\ Fits(pc, home, from, th[t].conn)
       /\ th[t].conn # None => from = th[t].from
       /\ Becomes(t, pc, home, from, th[t].conn)
       /\ CountsNoMore(t, pc, home, from)
  /\ UNCHANGED <<now, up, link, m_conn_queue>>

\* The pool has no connection to spare.
Finding(t) ==
  /\ ~Pooled(th[t].from) /\ th[t].from \in Pool /\ th[t].home \in Pool
  /\ \E pc \in {"none", "index"} : Becomes(t, pc, th[t].home, th[t].from, None)
  /\ th[t].pc = "grab" /\ th[t].conn = None
  /\ UNCHANGED <<now, up, link, m_conn_queue>>

\* A connection is taken from the pool.
Taking(t) ==
  LET p == th[t].from
  IN  /\ Pooled(p) /\ p \in Pool /\ th[t].home \in Pool
      /\ Becomes(t, "ping", th[t].home, p, m_conn_queue[p][Len(m_conn_queue[p])].conn)
      /\ th[t].pc = "grab" /\ th[t].conn = None
      /\ m_conn_queue' = Taken(p)
      /\ UNCHANGED <<now, up, link>>

\* A connection is made.
Opening(t) ==
  /\ \E c \in Conn, l \in Link :
       /\ link[c] = None
       /\ link' = [link EXCEPT ![c] = l]
       /\ Becomes(t, "ping", th[t].home, th[t].from, c)
  /\ th[t].home \in Pool /\ th[t].from \in Pool
  /\ th[t].pc = "connect" /\ th[t].conn = None
  /\ UNCHANGED <<now, up, m_conn_queue>>

\* A dead one is deleted.
Dropping(t) ==
  /\ th[t].conn \in Conn
  /\ th[t].home \in Pool /\ th[t].from \in Pool
  /\ th[t].pc = "ping"
  /\ link' = [link EXCEPT ![th[t].conn] = None]
  /\ Becomes(t, "grab", th[t].home, th[t].from, None)
  /\ UNCHANGED <<now, up, m_conn_queue>>

\* The connection goes into the pool, from which others are deleted.
Releasing(t) ==
  LET p == th[t].home
      q == m_conn_queue[p]
  IN  /\ th[t].conn \in Conn /\ p \in Pool
      /\ th[t].pc = "return"
      /\ m_conn_queue' = Released(p, th[t].conn)
      /\ link' = [c \in Conn |-> IF c \in Conns(q) \ Conns(Rest(q)) THEN None ELSE link[c]]
      /\ Becomes(t, "idle", None, None, None)
      /\ UNCHANGED <<now, up>>

LEMMA ThreadAt ==
  ASSUME Threads, NEW t \in Thread
  PROVE  /\ Shape(th[t]) /\ Fits(th[t].pc, th[t].home, th[t].from, th[t].conn)
         /\ DOMAIN th = Thread
BY DEF Threads, RecordOK, Fits

LEMMA GrabPooledIs ==
  ASSUME Shapes, NEW t \in Thread, GrabPooled(t)
  PROVE  Finding(t) \/ Taking(t)
<1> DEFINE p == th[t].from
           r == th[t]
<1>1. /\ Shape(r) /\ DOMAIN th = Thread
      /\ r.pc = "grab" /\ r.conn = None /\ r.home \in Pool /\ p \in Pool
  BY ThreadAt DEF Shapes, GrabPooled, Fits, Free
<1>2. CASE Pooled(p)
  <2> DEFINE c == m_conn_queue[p][Len(m_conn_queue[p])].conn
  <2>1. Goes(t, [r EXCEPT !.pc = "ping", !.conn = c]) /\ m_conn_queue' = Taken(p)
    BY <1>2 DEF GrabPooled
  <2>2. IsAt([r EXCEPT !.pc = "ping", !.conn = c], "ping", r.home, p, c)
    BY <1>1, SetConn
  <2>3. Becomes(t, "ping", r.home, p, c)
    BY <1>1, <2>1, <2>2, GoesBecomes
  <2> QED
    BY <1>1, <1>2, <2>1, <2>3 DEF Taking, GrabPooled
<1>3. CASE ~Pooled(p)
  <2> DEFINE pc == IF Servers(p) = 0 THEN "none" ELSE "index"
  <2>1. Goes(t, [r EXCEPT !.pc = pc, !.tries = 0]) /\ UNCHANGED m_conn_queue
    BY <1>3 DEF GrabPooled
  <2>2. pc \in {"none", "index"}
    OBVIOUS
  <2> HIDE DEF pc
  <2>3. IsAt([r EXCEPT !.pc = pc, !.tries = 0], pc, r.home, p, None)
    BY <1>1, SetOther
  <2>4. Becomes(t, pc, r.home, p, None)
    BY <1>1, <2>1, <2>3, GoesBecomes
  <2> QED
    BY <1>1, <1>3, <2>1, <2>2, <2>4 DEF Finding, GrabPooled
<1> QED
  BY <1>2, <1>3

\* NextTurn.
LEMMA NextTurnBecomes ==
  ASSUME Shapes, NEW t \in Thread, Goes(t, NextTurn(t))
  PROVE  \E pc \in {"index", "none"} : Becomes(t, pc, th[t].home, th[t].from, th[t].conn)
<1> DEFINE r == th[t]
           pc == IF r.tries + 1 < Servers(r.from) THEN "index" ELSE "none"
           x == r.tries + 1
<1>1. Shape(r) /\ DOMAIN th = Thread
  BY ThreadAt DEF Shapes
<1>2. NextTurn(t) = [r EXCEPT !.tries = x, !.pc = pc]
  BY DEF NextTurn
<1>3. pc \in {"index", "none"}
  OBVIOUS
<1> HIDE DEF pc, x
<1>4. IsAt([r EXCEPT !.tries = x, !.pc = pc], pc, r.home, r.from, r.conn)
  BY <1>1, SetOther
<1>5. IsAt(NextTurn(t), pc, r.home, r.from, r.conn)
  BY <1>2, <1>4, Zenon
<1> QED
  BY <1>1, <1>3, <1>5, GoesBecomes

\* A turn of the loop of grab that gives no connection.
LEMMA TurnKeeps ==
  ASSUME Shapes, NEW t \in Thread, Goes(t, NextTurn(t)), th[t].pc \in {"connect", "set_bad"},
         UNCHANGED <<now, up, link, m_conn_queue>>
  PROVE  Keeping(t)
<1>1. PICK pc \in {"index", "none"} : Becomes(t, pc, th[t].home, th[t].from, th[t].conn)
  BY NextTurnBecomes
<1>2. Fits(th[t].pc, th[t].home, th[t].from, th[t].conn)
  BY ThreadAt DEF Shapes
<1>3. Fits(pc, th[t].home, th[t].from, th[t].conn)
  BY <1>2 DEF Fits, Free, Pc
<1>4. CountsNoMore(t, pc, th[t].home, th[t].from)
  BY DEF CountsNoMore, Counts
<1> QED
  BY <1>1, <1>3, <1>4 DEF Keeping

LEMMA ConnectIs ==
  ASSUME Shapes, NEW t \in Thread, Connect(t)
  PROVE  Keeping(t) \/ Opening(t)
<1> DEFINE r == th[t]
<1>1. /\ Shape(r) /\ DOMAIN th = Thread
      /\ r.pc = "connect" /\ r.conn = None /\ r.home \in Pool /\ r.from \in Pool
  BY ThreadAt DEF Shapes, Connect, Fits, Free
<1>2. UNCHANGED <<now, up, m_conn_queue>>
  BY DEF Connect
<1>3. CASE Goes(t, NextTurn(t)) /\ UNCHANGED link
  BY <1>1, <1>2, <1>3, TurnKeeps
<1>4. CASE Goes(t, [r EXCEPT !.pc = "set_bad"]) /\ UNCHANGED link
  <2>1. Becomes(t, "set_bad", r.home, r.from, r.conn)
    BY <1>1, <1>4, SetPc, GoesBecomes
  <2>2. Fits("set_bad", r.home, r.from, r.conn)
    BY <1>1 DEF Fits, Pc
  <2>3. CountsNoMore(t, "set_bad", r.home, r.from)
    BY <1>1 DEF CountsNoMore, Counts
  <2> QED
    BY <1>2, <1>4, <2>1, <2>2, <2>3 DEF Keeping
<1>5. ASSUME NEW c \in Conn, NEW name \in up, link[c] = None,
             link' = [link EXCEPT ![c] = [server |-> name, alive |-> TRUE]],
             Goes(t, [r EXCEPT !.pc = "ping", !.conn = c])
      PROVE  Opening(t)
  <2>1. [server |-> name, alive |-> TRUE] \in Link
    BY DEF Shapes, Link
  <2>2. Becomes(t, "ping", r.home, r.from, c)
    BY <1>1, <1>5, SetConn, GoesBecomes
  <2> QED
    BY <1>1, <1>2, <1>5, <2>1, <2>2 DEF Opening
<1> QED
  BY <1>3, <1>4, <1>5 DEF Connect

LEMMA PingIs ==
  ASSUME Shapes, NEW t \in Thread, Ping(t)
  PROVE  Keeping(t) \/ Dropping(t)
<1> DEFINE r == th[t]
<1>1. /\ Shape(r) /\ DOMAIN th = Thread
      /\ r.pc = "ping" /\ r.conn \in Conn /\ r.home \in Pool /\ r.from \in Pool
  BY ThreadAt DEF Shapes, Ping, Fits
<1>2. UNCHANGED <<now, up, m_conn_queue>>
  BY DEF Ping
<1>3. CASE Goes(t, [r EXCEPT !.pc = "run"]) /\ UNCHANGED link
  <2>1. Becomes(t, "run", r.home, r.from, r.conn)
    BY <1>1, <1>3, SetPc, GoesBecomes
  <2>2. Fits("run", r.home, r.from, r.conn)
    BY <1>1 DEF Fits, Pc, Free
  <2>3. CountsNoMore(t, "run", r.home, r.from)
    BY <1>1 DEF CountsNoMore, Counts
  <2> QED
    BY <1>2, <1>3, <2>1, <2>2, <2>3 DEF Keeping
<1>4. CASE Goes(t, [r EXCEPT !.pc = "grab", !.conn = None]) /\ link' = Drop(r.conn)
  <2>1. Becomes(t, "grab", r.home, r.from, None)
    BY <1>1, <1>4, SetConn, GoesBecomes
  <2> QED
    BY <1>1, <1>2, <1>4, <2>1 DEF Dropping, Drop
<1> QED
  BY <1>3, <1>4 DEF Ping

LEMMA ReturnIs ==
  ASSUME Shapes, NEW t \in Thread, Return(t)
  PROVE  Keeping(t) \/ Releasing(t)
<1> DEFINE r == th[t]
<1>1. /\ DOMAIN th = Thread
      /\ r.pc = "return" /\ r.conn \in Conn \cup {None} /\ r.home \in Pool
  BY ThreadAt DEF Shapes, Return, Fits
<1>2. Becomes(t, "idle", None, None, None)
  <2>1. IsAt(Idle, "idle", None, None, None)
    BY DEF Idle, IsAt
  <2> QED
    BY <1>1, <2>1, GoesBecomes DEF Return
<1>3. UNCHANGED <<now, up>>
  BY DEF Return
<1>4. CASE r.conn = None
  <2>1. Fits("idle", None, None, None) /\ CountsNoMore(t, "idle", None, None)
    BY DEF Fits, Pc, CountsNoMore
  <2>2. UNCHANGED <<link, m_conn_queue>>
    BY <1>4 DEF Return
  <2> QED
    BY <1>2, <1>3, <1>4, <2>1, <2>2 DEF Keeping
<1>5. CASE r.conn # None
  BY <1>1, <1>2, <1>3, <1>5 DEF Return, Releasing, HomeOf
<1> QED
  BY <1>4, <1>5

\* The steps that only look, or run the statement.
LEMMA OtherIs ==
  ASSUME Shapes, NEW t \in Thread,
         \/ Index(t) \/ set_bad(t) \/ FallBack(t) \/ NoConnection(t) \/ Execute(t)
         \/ \E p \in Pool : Call(t, p)
  PROVE  Keeping(t)
<1> DEFINE r == th[t]
<1>1. /\ Shape(r) /\ Fits(r.pc, r.home, r.from, r.conn) /\ DOMAIN th = Thread
  BY ThreadAt DEF Shapes
<1>2. UNCHANGED <<now, up, link, m_conn_queue>>
  BY DEF Index, set_bad, FallBack, NoConnection, Execute, Call, Statement, verify_queue_agent,
         get_queue_info, get_queue_list, last_cvsid, last_msgid, get_msg,
         save_conversation_score, save_conversation_info, save_msg, load_allims, load_ims
<1>3. CASE Index(t)
  <2>1. r.pc = "index" /\ Goes(t, [r EXCEPT !.pc = "connect", !.index = m_round_robin[r.from]])
    BY <1>3 DEF Index
  <2>2. Becomes(t, "connect", r.home, r.from, r.conn)
    BY <1>1, <2>1, SetOther, GoesBecomes
  <2>3. Fits("connect", r.home, r.from, r.conn) /\ CountsNoMore(t, "connect", r.home, r.from)
    BY <1>1, <2>1 DEF Fits, Pc, Free, CountsNoMore, Counts
  <2> QED
    BY <1>2, <2>2, <2>3 DEF Keeping
<1>4. CASE set_bad(t)
  BY <1>2, <1>4, TurnKeeps DEF set_bad
<1>5. CASE FallBack(t)
  <2>1. r.pc = "none" /\ Goes(t, [r EXCEPT !.pc = "grab", !.from = "write"])
    BY <1>5 DEF FallBack
  <2>2. Becomes(t, "grab", r.home, "write", r.conn)
    BY <1>1, <2>1, SetFrom, GoesBecomes
  <2>3. /\ Fits("grab", r.home, "write", r.conn) /\ CountsNoMore(t, "grab", r.home, "write")
        /\ r.conn = None
    BY <1>1, <2>1 DEF Fits, Pc, Pool, Free, CountsNoMore, Counts
  <2> QED
    BY <1>2, <2>2, <2>3 DEF Keeping
<1>6. ASSUME r.pc \in {"none", "run"}, NEW x, NEW y,
             \/ Goes(t, [r EXCEPT !.pc = "return", !.ret = x])
             \/ Goes(t, [r EXCEPT !.pc = "return", !.ran = x, !.ret = y])
      PROVE  Keeping(t)
  <2>1. Becomes(t, "return", r.home, r.from, r.conn)
    <3>1. CASE Goes(t, [r EXCEPT !.pc = "return", !.ret = x])
      BY <1>1, <3>1, SetOther, GoesBecomes
    <3>2. CASE Goes(t, [r EXCEPT !.pc = "return", !.ran = x, !.ret = y])
      BY <1>1, <3>2, SetOutcome, GoesBecomes
    <3> QED
      BY <1>6, <3>1, <3>2
  <2>2. Fits("return", r.home, r.from, r.conn) /\ CountsNoMore(t, "return", r.home, r.from)
    BY <1>1, <1>6 DEF Fits, Pc, Free, CountsNoMore, Counts
  <2> QED
    BY <1>2, <2>1, <2>2 DEF Keeping
<1>7. CASE NoConnection(t)
  BY <1>6, <1>7 DEF NoConnection
<1>8. CASE Execute(t)
  <2>1. ASSUME NEW fn, NEW outcomes, Statement(t, fn, outcomes) PROVE Keeping(t)
    BY <1>6, <2>1 DEF Statement
  <2> QED
    BY <1>8, <2>1 DEF Execute, verify_queue_agent, get_queue_info, get_queue_list, last_cvsid,
         last_msgid, get_msg, save_conversation_score, save_conversation_info, save_msg,
         load_allims, load_ims
<1>9. ASSUME NEW p \in Pool, Call(t, p) PROVE Keeping(t)
  <2>1. r.pc = "idle" /\ r.conn = None
    BY <1>1, <1>9 DEF Call, Fits
  <2>2. Becomes(t, "grab", p, p, r.conn)
    BY <1>1, <1>9, <2>1, SetCall, GoesBecomes DEF Call
  <2>3. Fits("grab", p, p, r.conn) /\ CountsNoMore(t, "grab", p, p)
    BY <2>1 DEF Fits, Pc, CountsNoMore
  <2> QED
    BY <1>2, <2>1, <2>2, <2>3 DEF Keeping
<1> QED
  BY <1>3, <1>4, <1>5, <1>7, <1>8, <1>9

-----------------------------------------------------------------------------
(* Who has a connection.                                                   *)

IsHeld(c) == \E t \in Thread : th[t].conn = c

IsPooled(c) == \E p \in Pool : \E i \in DOMAIN m_conn_queue[p] : m_conn_queue[p][i].conn = c

\* The open connections are those that are held or pooled.
Owned == \A c \in Conn : link[c] # None <=> (IsHeld(c) \/ IsPooled(c))

\* Exclusive, place by place.
HeldOnce ==
  \A t, s \in Thread : (th[t].conn # None /\ th[t].conn = th[s].conn) => t = s

HeldOrPooled ==
  \A t \in Thread, p \in Pool : \A i \in DOMAIN m_conn_queue[p] :
    m_conn_queue[p][i].conn # th[t].conn

PooledOnce ==
  \A p, q \in Pool : \A i \in DOMAIN m_conn_queue[p], j \in DOMAIN m_conn_queue[q] :
    m_conn_queue[p][i].conn = m_conn_queue[q][j].conn => p = q /\ i = j

IInv == Shapes /\ HeldOnce /\ HeldOrPooled /\ PooledOnce /\ Owned

LEMMA PlacesAreExclusive == HeldOnce /\ HeldOrPooled /\ PooledOnce => Exclusive
BY DEF HeldOnce, HeldOrPooled, PooledOnce, Exclusive, Holding, Conns

LEMMA OwnedAreAccounted == IInv => Accounted
<1> SUFFICES ASSUME IInv PROVE Accounted
  OBVIOUS
<1>1. ASSUME NEW p \in Pool, NEW i \in DOMAIN m_conn_queue[p]
      PROVE  m_conn_queue[p][i].conn \in Conn
  <2>1. m_conn_queue[p] \in Seq(Element)
    BY DEF IInv, Shapes
  <2>2. m_conn_queue[p][i] \in Element
    BY <1>1, <2>1, ElementOfSeq, LenProperties
  <2> QED
    BY <2>2 DEF Element
<1>2. \A t \in Thread : Holding(t) => th[t].conn \in Conn
  BY DEF IInv, Shapes, Threads, RecordOK, Holding
<1>3. ASSUME NEW c \in {th[t].conn : t \in {s \in Thread : Holding(s)}}
      PROVE  c \in Conn /\ link[c] # None
  <2>1. PICK t \in Thread : Holding(t) /\ c = th[t].conn
    BY <1>3
  <2> QED
    BY <1>2, <2>1 DEF IInv, Owned, IsHeld
<1>4. ASSUME NEW p \in Pool, NEW c \in Conns(m_conn_queue[p])
      PROVE  c \in Conn /\ link[c] # None
  <2>1. PICK i \in DOMAIN m_conn_queue[p] : c = m_conn_queue[p][i].conn
    BY <1>4 DEF Conns
  <2> QED
    BY <1>1, <2>1 DEF IInv, Owned, IsPooled
<1>5. ASSUME NEW c \in Conn, link[c] # None
      PROVE  \/ c \in {th[t].conn : t \in {s \in Thread : Holding(s)}}
             \/ \E p \in Pool : c \in Conns(m_conn_queue[p])
  <2>1. CASE IsHeld(c)
    BY <2>1, NoneApart DEF IsHeld, Holding
  <2>2. CASE IsPooled(c)
    BY <2>2 DEF IsPooled, Conns
  <2> QED
    BY <1>5, <2>1, <2>2 DEF IInv, Owned
<1> QED
  BY <1>3, <1>4, <1>5 DEF Accounted

\* A step after which the same connections are open, and everyone has what he had.
LEMMA SameOwners ==
  ASSUME IInv, Shapes', \A s \in Thread : th'[s].conn = th[s].conn,
         m_conn_queue' = m_conn_queue,
         \A c \in Conn : link'[c] = None <=> link[c] = None
  PROVE  IInv'
<1>1. HeldOnce' /\ HeldOrPooled' /\ PooledOnce'
  BY DEF IInv, HeldOnce, HeldOrPooled, PooledOnce
<1>2. Owned'
  BY DEF IInv, Owned, IsHeld, IsPooled
<1> QED
  BY <1>1, <1>2 DEF IInv

LEMMA KeepingIInv ==
  ASSUME IInv, NEW t \in Thread, Keeping(t)
  PROVE  IInv'
<1> PICK pc, home, from : /\ Fits(pc, home, from, th[t].conn)
                          /\ Becomes(t, pc, home, from, th[t].conn)
  BY DEF Keeping
<1>1. Threads' /\ th'[t].conn = th[t].conn
  BY BecomesOK DEF Fits, IInv, Shapes
<1>2. \A s \in Thread : th'[s].conn = th[s].conn
  BY <1>1 DEF Becomes
<1>3. Shapes'
  BY <1>1 DEF IInv, Shapes, Keeping
<1> QED
  BY <1>2, <1>3, SameOwners DEF Keeping

LEMMA FindingIInv ==
  ASSUME IInv, NEW t \in Thread, Finding(t)
  PROVE  IInv'
<1> PICK pc \in {"none", "index"} : Becomes(t, pc, th[t].home, th[t].from, None)
  BY DEF Finding
<1>1. Threads' /\ th'[t].conn = None
  BY BecomesOK DEF Finding, IInv, Shapes, Pc, Free
<1>2. \A s \in Thread : th'[s].conn = th[s].conn
  BY <1>1 DEF Becomes, Finding
<1>3. Shapes'
  BY <1>1 DEF IInv, Shapes, Finding
<1> QED
  BY <1>2, <1>3, SameOwners DEF Finding

\* The queue of a pool.
LEMMA QueueAt ==
  ASSUME Shapes, NEW p \in Pool
  PROVE  /\ m_conn_queue[p] \in Seq(Element)
         /\ Len(m_conn_queue[p]) \in Nat /\ DOMAIN m_conn_queue[p] = 1 .. Len(m_conn_queue[p])
         /\ \A i \in DOMAIN m_conn_queue[p] :
              m_conn_queue[p][i] \in Element /\ m_conn_queue[p][i].conn \in Conn
<1>1. m_conn_queue[p] \in Seq(Element)
  BY DEF Shapes
<1>2. Len(m_conn_queue[p]) \in Nat /\ DOMAIN m_conn_queue[p] = 1 .. Len(m_conn_queue[p])
  BY <1>1, LenProperties
<1>3. ASSUME NEW i \in DOMAIN m_conn_queue[p] PROVE m_conn_queue[p][i] \in Element
  BY <1>1, <1>2, ElementOfSeq
<1>4. \A e \in Element : e.conn \in Conn
  BY DEF Element
<1> QED
  BY <1>1, <1>2, <1>3, <1>4

LEMMA TakingIInv ==
  ASSUME IInv, NEW t \in Thread, Taking(t)
  PROVE  IInv'
<1> DEFINE p == th[t].from
           q == m_conn_queue[p]
           n == Len(q)
           c == q[n].conn
<1>1. /\ p \in Pool /\ q \in Seq(Element) /\ n \in Nat /\ n > 1 /\ DOMAIN q = 1 .. n
      /\ n \in DOMAIN q /\ c \in Conn /\ th[t].home \in Pool
  BY QueueAt, SMT DEF Taking, Pooled, IInv
<1>2. /\ Becomes(t, "ping", th[t].home, p, c) /\ th[t].conn = None
      /\ m_conn_queue' = [m_conn_queue EXCEPT ![p] = SubSeq(q, 1, n - 1)]
      /\ UNCHANGED <<now, up, link>>
  BY DEF Taking, Taken
<1>3. /\ SubSeq(q, 1, n - 1) \in Seq(Element) /\ DOMAIN SubSeq(q, 1, n - 1) = 1 .. n - 1
      /\ \A i \in 1 .. n - 1 : SubSeq(q, 1, n - 1)[i] = q[i]
  <2>1. \A i \in 1 .. n - 1 : q[i] \in Element
    BY <1>1, QueueAt DEF IInv
  <2>2. /\ SubSeq(q, 1, n - 1) \in Seq(Element) /\ Len(SubSeq(q, 1, n - 1)) = n - 1
        /\ \A i \in 1 .. n - 1 - 1 + 1 : SubSeq(q, 1, n - 1)[i] = q[1 + i - 1]
    <3> HIDE DEF q, n
    <3> QED
      BY <1>1, <2>1, SubSeqProperties, SMT
  <2>3. DOMAIN SubSeq(q, 1, n - 1) = 1 .. n - 1
    BY <2>2, LenProperties
  <2> QED
    BY <1>1, <2>2, <2>3, SMT
<1> HIDE DEF c, n, q, p
<1>4. Threads' /\ th'[t].conn = c
  BY <1>1, <1>2, BecomesOK DEF IInv, Shapes, Pc, Free
<1>5. Shapes'
  BY <1>1, <1>2, <1>3, <1>4 DEF IInv, Shapes
<1>6. /\ m_conn_queue'[p] = SubSeq(q, 1, n - 1)
      /\ \A o \in Pool \ {p} : m_conn_queue'[o] = m_conn_queue[o]
  BY <1>1, <1>2, <1>5 DEF IInv, Shapes
<1>7. q = m_conn_queue[p] /\ c = m_conn_queue[p][n].conn
  BY DEF q, c
<1>8. \A o \in Pool : \A i \in DOMAIN m_conn_queue'[o] :
        /\ i \in DOMAIN m_conn_queue[o] /\ m_conn_queue'[o][i] = m_conn_queue[o][i]
        /\ ~(o = p /\ i = n)
  BY <1>1, <1>3, <1>6, <1>7
<1>9. \A o \in Pool : \A i \in DOMAIN m_conn_queue[o] :
        (o = p /\ i = n) \/ i \in DOMAIN m_conn_queue'[o]
  BY <1>1, <1>3, <1>6, <1>7
<1>10. \A s \in Thread \ {t} : th'[s].conn = th[s].conn
  BY <1>2 DEF Becomes
<1>11. HeldOnce'
  BY <1>1, <1>4, <1>7, <1>10 DEF IInv, HeldOnce, HeldOrPooled
<1>12. HeldOrPooled'
  BY <1>1, <1>4, <1>7, <1>8, <1>10 DEF IInv, HeldOrPooled, PooledOnce
<1>13. PooledOnce'
  BY <1>8 DEF IInv, PooledOnce
<1>14. Owned'
  <2> SUFFICES ASSUME NEW x \in Conn
               PROVE  link[x] # None <=> (IsHeld(x)' \/ IsPooled(x)')
    BY <1>2 DEF Owned
  <2>1. CASE x = c
    BY <1>1, <1>4, <1>7, <2>1 DEF IInv, Owned, IsPooled, IsHeld
  <2>2. CASE x # c
    <3>1. IsHeld(x)' <=> IsHeld(x)
      BY <1>2, <1>4, <1>10, <2>2, NoneApart DEF IsHeld
    <3>2. IsPooled(x)' <=> IsPooled(x)
      BY <1>7, <1>8, <1>9, <2>2 DEF IsPooled
    <3> QED
      BY <3>1, <3>2 DEF IInv, Owned
  <2> QED
    BY <2>1, <2>2
<1> QED
  BY <1>5, <1>11, <1>12, <1>13, <1>14 DEF IInv

LEMMA OpeningIInv ==
  ASSUME IInv, NEW t \in Thread, Opening(t)
  PROVE  IInv'
<1> PICK c \in Conn, l \in Link : /\ link[c] = None
                                  /\ link' = [link EXCEPT ![c] = l]
                                  /\ Becomes(t, "ping", th[t].home, th[t].from, c)
  BY DEF Opening
<1>1. Threads' /\ th'[t].conn = c
  BY BecomesOK DEF Opening, IInv, Shapes, Pc, Free
<1>2. link' \in [Conn -> Link \cup {None}]
  BY DEF IInv, Shapes
<1>3. Shapes'
  BY <1>1, <1>2 DEF IInv, Shapes, Opening
<1>4. ~IsHeld(c) /\ ~IsPooled(c)
  BY DEF IInv, Owned
<1>5. /\ \A s \in Thread \ {t} : th'[s].conn = th[s].conn /\ th[s].conn # c
      /\ th[t].conn = None /\ m_conn_queue' = m_conn_queue
  BY <1>4 DEF Becomes, IsHeld, Opening
<1>6. HeldOnce'
  BY <1>1, <1>5 DEF IInv, HeldOnce
<1>7. HeldOrPooled'
  BY <1>1, <1>4, <1>5 DEF IInv, HeldOrPooled, IsPooled
<1>8. PooledOnce'
  BY <1>5 DEF IInv, PooledOnce
<1>9. Owned'
  <2> SUFFICES ASSUME NEW x \in Conn
               PROVE  link'[x] # None <=> (IsHeld(x)' \/ IsPooled(x)')
    BY DEF Owned
  <2>1. CASE x = c
    <3>1. link'[x] = l /\ l # None
      BY <2>1, NoneApart DEF IInv, Shapes, Link
    <3> QED
      BY <1>1, <2>1, <3>1 DEF IsHeld
  <2>2. CASE x # c
    <3>1. link'[x] = link[x]
      BY <2>2 DEF IInv, Shapes
    <3>2. IsHeld(x)' <=> IsHeld(x)
      BY <1>1, <1>5, <2>2, NoneApart DEF IsHeld
    <3>3. IsPooled(x)' <=> IsPooled(x)
      BY <1>5 DEF IsPooled
    <3> QED
      BY <3>1, <3>2, <3>3 DEF IInv, Owned
  <2> QED
    BY <2>1, <2>2
<1> QED
  BY <1>3, <1>6, <1>7, <1>8, <1>9 DEF IInv

LEMMA DroppingIInv ==
  ASSUME IInv, NEW t \in Thread, Dropping(t)
  PROVE  IInv'
<1> DEFINE c == th[t].conn
<1>1. /\ c \in Conn /\ link' = [link EXCEPT ![c] = None] /\ m_conn_queue' = m_conn_queue
      /\ Becomes(t, "grab", th[t].home, th[t].from, None)
  BY DEF Dropping
<1>2. Threads' /\ th'[t].conn = None
  BY <1>1, BecomesOK DEF Dropping, IInv, Shapes, Pc, Free
<1>3. link' \in [Conn -> Link \cup {None}]
  BY <1>1 DEF IInv, Shapes
<1>4. Shapes'
  BY <1>1, <1>2, <1>3 DEF IInv, Shapes, Dropping
<1>5. \A s \in Thread \ {t} : th'[s].conn = th[s].conn /\ th[s].conn # c
  BY <1>1, NoneApart DEF Becomes, IInv, HeldOnce
<1>6. HeldOnce'
  BY <1>2, <1>5 DEF IInv, HeldOnce
<1>7. HeldOrPooled'
  <2>1. ASSUME NEW p \in Pool, NEW i \in DOMAIN m_conn_queue[p]
        PROVE  m_conn_queue[p][i].conn # None
    BY <2>1, QueueAt, NoneApart DEF IInv
  <2> QED
    BY <1>1, <1>2, <1>5, <2>1 DEF IInv, HeldOrPooled
<1>8. PooledOnce'
  BY <1>1 DEF IInv, PooledOnce
<1>9. Owned'
  <2> SUFFICES ASSUME NEW x \in Conn
               PROVE  link'[x] # None <=> (IsHeld(x)' \/ IsPooled(x)')
    BY DEF Owned
  <2>1. CASE x = c
    <3>1. link'[x] = None
      BY <1>1, <2>1 DEF IInv, Shapes
    <3>2. ~IsHeld(x)'
      BY <1>1, <1>2, <1>5, <2>1, NoneApart DEF IsHeld
    <3>3. ~IsPooled(x)'
      BY <1>1, <2>1 DEF IsPooled, IInv, HeldOrPooled
    <3> QED
      BY <3>1, <3>2, <3>3
  <2>2. CASE x # c
    <3>1. link'[x] = link[x]
      BY <1>1, <2>2 DEF IInv, Shapes
    <3>2. IsHeld(x)' <=> IsHeld(x)
      BY <1>2, <1>5, <2>2, NoneApart DEF IsHeld
    <3>3. IsPooled(x)' <=> IsPooled(x)
      BY <1>1 DEF IsPooled
    <3> QED
      BY <3>1, <3>2, <3>3 DEF IInv, Owned
  <2> QED
    BY <2>1, <2>2
<1> QED
  BY <1>4, <1>6, <1>7, <1>8, <1>9 DEF IInv

\* A queue with one more element.
LEMMA AppendIs ==
  ASSUME NEW r \in Seq(Element), NEW e \in Element, NEW m \in Nat, Len(r) = m
  PROVE  /\ Append(r, e) \in Seq(Element)
         /\ DOMAIN Append(r, e) = 1 .. m + 1
         /\ Append(r, e)[m + 1] = e
         /\ \A i \in 1 .. m : Append(r, e)[i] = r[i]
<1>1. /\ Append(r, e) \in Seq(Element) /\ Len(Append(r, e)) = Len(r) + 1
      /\ Append(r, e)[Len(r) + 1] = e
      /\ \A i \in 1 .. Len(r) : Append(r, e)[i] = r[i]
  BY AppendProperties
<1> QED
  BY <1>1, LenProperties

LEMMA ReleasingIInv ==
  ASSUME IInv, NEW t \in Thread, Releasing(t)
  PROVE  IInv'
<1> DEFINE p == th[t].home
           q == m_conn_queue[p]
           c == th[t].conn
           new == [conn |-> c, last_used |-> now]
           r == Rest(q)
           old == Conns(q) \ Conns(r)
<1>1. /\ p \in Pool /\ q \in Seq(Element) /\ Len(q) \in Nat /\ DOMAIN q = 1 .. Len(q)
      /\ c \in Conn /\ now \in Nat
  BY QueueAt DEF Releasing, IInv, Shapes
<1>2. /\ Becomes(t, "idle", None, None, None)
      /\ m_conn_queue' = [m_conn_queue EXCEPT ![p] = Append(r, new)]
      /\ link' = [x \in Conn |-> IF x \in old THEN None ELSE link[x]]
      /\ UNCHANGED <<now, up>>
  BY DEF Releasing, Released
<1>3. PICK d \in 0 .. Len(q) :
        /\ r \in Seq(Element)
        /\ Len(r) = Len(q) - d
        /\ \A i \in 1 .. Len(q) - d : r[i] = q[i + d]
  BY <1>1, RestIsTail
<1> DEFINE m == Len(q) - d
           s == Append(r, new)
<1>4. /\ m \in Nat /\ DOMAIN r = 1 .. m /\ new \in Element /\ new.conn = c
      /\ \A i \in 1 .. m : r[i] = q[i + d] /\ i + d \in DOMAIN q /\ i + d \in Int
  <2>1. m \in Nat /\ \A i \in 1 .. m : i + d \in 1 .. Len(q)
    BY <1>1, SMT
  <2>2. DOMAIN r = 1 .. m
    BY <1>3, LenProperties
  <2> QED
    BY <1>1, <1>3, <2>1, <2>2 DEF Element
<1>5. /\ s \in Seq(Element) /\ DOMAIN s = 1 .. m + 1 /\ s[m + 1] = new
      /\ \A i \in 1 .. m : s[i] = r[i]
  <2>1. r \in Seq(Element) /\ new \in Element /\ Len(r) = m /\ m \in Nat
    BY <1>3, <1>4
  <2> HIDE DEF r, new, m
  <2> QED
    BY <2>1, AppendIs
<1>6. \A x : x \in old <=> /\ \E i \in DOMAIN q : q[i].conn = x
                           /\ ~ \E i \in 1 .. m : r[i].conn = x
  BY <1>4 DEF Conns
<1>7. c = th[t].conn /\ q = m_conn_queue[p]
  OBVIOUS
<1> HIDE DEF old, s, new, r, m, c, q, p
<1>8. Threads' /\ th'[t].conn = None
  BY <1>2, BecomesOK DEF IInv, Shapes, Pc
<1>9. Shapes'
  <2>1. link' \in [Conn -> Link \cup {None}]
    BY <1>2 DEF IInv, Shapes
  <2>2. m_conn_queue' \in [Pool -> Seq(Element)]
    BY <1>1, <1>2, <1>5 DEF IInv, Shapes, s
  <2> QED
    BY <1>2, <1>8, <2>1, <2>2 DEF IInv, Shapes
<1>10. /\ m_conn_queue'[p] = s
       /\ \A o \in Pool \ {p} : m_conn_queue'[o] = m_conn_queue[o]
  BY <1>1, <1>2 DEF IInv, Shapes, s
<1>11. \A u \in Thread \ {t} : th'[u].conn = th[u].conn
  BY <1>2 DEF Becomes
\* Where the elements of the pool come from.
<1>12. \A i \in DOMAIN s : \/ i \in 1 .. m /\ s[i] = q[i + d] /\ i + d \in DOMAIN q
                           \/ i = m + 1 /\ s[i].conn = c
  BY <1>4, <1>5, SMT
<1>13. HeldOnce'
  BY <1>8, <1>11 DEF IInv, HeldOnce
<1>14. HeldOrPooled'
  <2> SUFFICES ASSUME NEW u \in Thread, NEW o \in Pool, NEW i \in DOMAIN m_conn_queue'[o],
                      m_conn_queue'[o][i].conn = th'[u].conn
               PROVE  FALSE
    BY DEF HeldOrPooled
  <2>1. u # t
    <3>1. m_conn_queue'[o] \in Seq(Element)
      BY <1>9 DEF Shapes
    <3>2. m_conn_queue'[o][i] \in Element
      BY <3>1, ElementOfSeq, LenProperties
    <3>3. m_conn_queue'[o][i].conn \in Conn
      BY <3>2 DEF Element
    <3> QED
      BY <1>8, <3>3, NoneApart
  <2>2. th'[u].conn = th[u].conn /\ th[u].conn # c
    BY <1>1, <1>7, <1>11, <2>1, NoneApart DEF IInv, HeldOnce
  <2>3. CASE o = p
    BY <1>7, <1>10, <1>12, <2>2, <2>3, <1>1 DEF IInv, HeldOrPooled
  <2>4. CASE o # p
    BY <1>10, <2>2, <2>4 DEF IInv, HeldOrPooled
  <2> QED
    BY <2>3, <2>4
<1>15. PooledOnce'
  <2> SUFFICES ASSUME NEW a \in Pool, NEW b \in Pool,
                      NEW i \in DOMAIN m_conn_queue'[a], NEW j \in DOMAIN m_conn_queue'[b],
                      m_conn_queue'[a][i].conn = m_conn_queue'[b][j].conn
               PROVE  a = b /\ i = j
    BY DEF PooledOnce
  <2>1. \A o \in Pool : \A k \in DOMAIN m_conn_queue[o] : m_conn_queue[o][k].conn # c
    BY <1>7 DEF IInv, HeldOrPooled
  <2>2. CASE a # p /\ b # p
    BY <1>10, <2>2 DEF IInv, PooledOnce
  <2>3. CASE a = p /\ b # p
    BY <1>1, <1>7, <1>10, <1>12, <2>1, <2>3 DEF IInv, PooledOnce
  <2>4. CASE a # p /\ b = p
    BY <1>1, <1>7, <1>10, <1>12, <2>1, <2>4 DEF IInv, PooledOnce
  <2>5. CASE a = p /\ b = p
    <3>1. i \in DOMAIN s /\ j \in DOMAIN s /\ s[i].conn = s[j].conn
      BY <1>10, <2>5
    <3>2. CASE i \in 1 .. m /\ j \in 1 .. m
      <4>1. q[i + d].conn = q[j + d].conn /\ i + d \in DOMAIN q /\ j + d \in DOMAIN q
        BY <1>4, <1>5, <3>1, <3>2
      <4>2. i + d = j + d
        BY <1>1, <1>7, <4>1 DEF IInv, PooledOnce
      <4> QED
        BY <2>5, <3>2, <4>2, SMT
    <3>3. CASE ~(i \in 1 .. m /\ j \in 1 .. m)
      <4>1. (i = m + 1 /\ s[i].conn = c) \/ (j = m + 1 /\ s[j].conn = c)
        BY <1>12, <3>1, <3>3
      <4>2. s[i].conn = c /\ s[j].conn = c
        BY <3>1, <4>1
      <4>3. i = m + 1 /\ j = m + 1
        BY <1>1, <1>7, <1>12, <2>1, <3>1, <4>2
      <4> QED
        BY <2>5, <4>3
    <3> QED
      BY <3>2, <3>3
  <2> QED
    BY <2>2, <2>3, <2>4, <2>5
<1>16. Owned'
  <2> SUFFICES ASSUME NEW x \in Conn
               PROVE  link'[x] # None <=> (IsHeld(x)' \/ IsPooled(x)')
    BY DEF Owned
  <2>1. CASE x = c
    <3>1. x \notin old /\ link'[x] = link[x]
      BY <1>1, <1>2, <1>6, <1>7, <2>1 DEF IInv, HeldOrPooled
    <3>2. link[x] # None
      BY <1>7, <2>1 DEF IInv, Owned, IsHeld
    <3>3. m + 1 \in DOMAIN s /\ s[m + 1].conn = x
      BY <1>4, <1>5, <2>1, SMT
    <3>4. IsPooled(x)'
      BY <1>1, <1>10, <3>3 DEF IsPooled
    <3> QED
      BY <3>1, <3>2, <3>4
  <2>2. CASE x # c
    <3>1. IsHeld(x)' <=> IsHeld(x)
      BY <1>7, <1>8, <1>11, <2>2, NoneApart DEF IsHeld
    <3>2. (\E i \in DOMAIN m_conn_queue'[p] : m_conn_queue'[p][i].conn = x)
            <=> \E i \in 1 .. m : r[i].conn = x
      <4>1. \A i \in 1 .. m : i \in DOMAIN s
        BY <1>4, <1>5, SMT
      <4> QED
        BY <1>4, <1>5, <1>10, <1>12, <2>2, <4>1
    <3>3. CASE x \in old
      <4>1. PICK i \in DOMAIN q : q[i].conn = x
        BY <1>6, <3>3
      <4>2. ~IsHeld(x)
        BY <1>1, <1>7, <4>1 DEF IInv, HeldOrPooled, IsHeld
      <4>3. \A o \in Pool \ {p} : \A j \in DOMAIN m_conn_queue[o] : m_conn_queue[o][j].conn # x
        BY <1>1, <1>7, <4>1 DEF IInv, PooledOnce
      <4>4. ~IsPooled(x)'
        BY <1>6, <1>10, <3>2, <3>3, <4>3 DEF IsPooled
      <4>5. link'[x] = None
        BY <1>2, <3>3
      <4> QED
        BY <3>1, <4>2, <4>4, <4>5
    <3>4. CASE x \notin old
      <4>1. link'[x] = link[x]
        BY <1>2, <3>4
      <4>2. (\E i \in DOMAIN q : q[i].conn = x) <=> \E i \in 1 .. m : r[i].conn = x
        BY <1>4, <1>6, <3>4
      <4>3. IsPooled(x)' <=> IsPooled(x)
        BY <1>1, <1>7, <1>10, <3>2, <4>2 DEF IsPooled
      <4> QED
        BY <3>1, <4>1, <4>3 DEF IInv, Owned
    <3> QED
      BY <3>3, <3>4
  <2> QED
    BY <2>1, <2>2
<1> QED
  BY <1>9, <1>13, <1>14, <1>15, <1>16 DEF IInv


-----------------------------------------------------------------------------
(* The pools at any time.                                                  *)

LEMMA InitIInv == Init => IInv
<1> SUFFICES ASSUME Init PROVE IInv
  OBVIOUS
<1>1. Shape(Idle) /\ Idle.pc = "idle" /\ Idle.conn = None
  BY DEF Idle, Shape, IsAt
<1>2. RecordOK(Idle)
  BY <1>1 DEF RecordOK, Pc
<1>3. th = [t \in Thread |-> Idle] /\ \A t \in Thread : th[t].conn = None
  BY <1>1 DEF Init
<1>4. Threads
  BY <1>2, <1>3 DEF Threads
<1>5. \A p \in Pool : m_conn_queue[p] = <<>> /\ DOMAIN m_conn_queue[p] = {}
  BY DEF Init
<1>6. <<>> \in Seq(Element)
  BY EmptySeq
<1>7. Shapes
  BY <1>4, <1>6 DEF Init, Shapes
<1>8. HeldOnce /\ HeldOrPooled /\ PooledOnce
  BY <1>3, <1>5 DEF HeldOnce, HeldOrPooled, PooledOnce
<1>9. Owned
  BY <1>3, <1>5, NoneApart DEF Owned, IsHeld, IsPooled, Init
<1> QED
  BY <1>7, <1>8, <1>9 DEF IInv

LEMMA TickIInv == IInv /\ Tick => IInv'
<1> SUFFICES ASSUME IInv, Tick PROVE IInv'
  OBVIOUS
<1>1. Shapes'
  BY DEF IInv, Shapes, Threads, Tick
<1> QED
  BY <1>1, SameOwners DEF Tick

LEMMA StopIInv ==
  ASSUME IInv, NEW s \in Names, Stop(s)
  PROVE  IInv'
<1>1. ASSUME NEW c \in Conn
      PROVE  link'[c] \in Link \cup {None} /\ (link'[c] = None <=> link[c] = None)
  <2>1. CASE link[c] # None /\ link[c].server = s
    <3>1. link[c] \in Link
      BY <2>1 DEF IInv, Shapes
    <3>2. link'[c] = [link[c] EXCEPT !.alive = FALSE]
      BY <2>1 DEF Stop
    <3>3. link'[c] \in Link
      BY <3>1, <3>2 DEF Link
    <3> QED
      BY <2>1, <3>3, NoneApart DEF Link
  <2>2. CASE ~(link[c] # None /\ link[c].server = s)
    BY <2>2 DEF Stop, IInv, Shapes
  <2> QED
    BY <2>1, <2>2
<1>2. DOMAIN link' = Conn /\ link' = [c \in Conn |-> link'[c]]
  BY DEF Stop
<1>3. link' \in [Conn -> Link \cup {None}]
  BY <1>1, <1>2
<1>4. Shapes'
  BY <1>3 DEF IInv, Shapes, Threads, Stop
<1> QED
  BY <1>1, <1>4, SameOwners DEF Stop

LEMMA StartIInv ==
  ASSUME IInv, NEW s \in Names, Start(s)
  PROVE  IInv'
<1>1. Shapes'
  BY DEF IInv, Shapes, Threads, Start
<1> QED
  BY <1>1, SameOwners DEF Start

LEMMA StepIInv == IInv /\ [Next]_vars => IInv'
<1> SUFFICES ASSUME IInv, [Next]_vars PROVE IInv'
  OBVIOUS
<1>1. ASSUME NEW t \in Thread, Run(t) \/ \E p \in Pool : Call(t, p)
      PROVE  IInv'
  <2>1. Shapes
    BY DEF IInv
  <2>2. \/ Keeping(t) \/ Finding(t) \/ Taking(t) \/ Opening(t) \/ Dropping(t)
        \/ Releasing(t)
    BY <1>1, <2>1, GrabPooledIs, ConnectIs, PingIs, ReturnIs, OtherIs DEF Run
  <2> QED
    BY <2>2, KeepingIInv, FindingIInv, TakingIInv, OpeningIInv, DroppingIInv, ReleasingIInv
<1>2. CASE UNCHANGED vars
  <2>1. Shapes'
    BY <1>2 DEF IInv, Shapes, Threads, vars
  <2> QED
    BY <1>2, <2>1, SameOwners DEF vars
<1> QED
  BY <1>1, <1>2, TickIInv, StopIInv, StartIInv DEF Next

LEMMA AlwaysIInv == Spec => []IInv
BY InitIInv, StepIInv, PTL DEF Spec

\* grab takes what it hands out off the queue under its lock and release puts it back
\* there: whatever threads and servers do, no connection is ever used by two threads, or by
\* one while it is in a pool (MysqlConnPool::grab, CSMySqlConnMgr.cpp:135, and release,
\* :177).
THEOREM NeverShared == Spec => []Exclusive
<1>1. IInv => Exclusive
  BY PlacesAreExclusive DEF IInv
<1> QED
  BY <1>1, AlwaysIInv, PTL

\* ScopedConnection releases what grab_and_ping gave, whichever pool that came from, and
\* what is found dead or old is deleted: no connection is leaked, and none is used after it
\* was deleted (CSMySqlConnMgr.h:186, CSMySqlConnMgr.cpp:167).
THEOREM NoneLost == Spec => []Accounted
BY AlwaysIInv, OwnedAreAccounted, PTL

-----------------------------------------------------------------------------
(* How many connections there are.                                         *)

Counted(p) == {t \in Thread : Counts(t, p)}

LEMMA CountedFinite ==
  ASSUME NEW p
  PROVE  /\ IsFiniteSet(Counted(p)) /\ Cardinality(Counted(p)) \in Nat
         /\ Cardinality(Counted(p)) <= Cardinality(Thread) /\ Cardinality(Thread) \in Nat
<1>1. IsFiniteSet(Thread) /\ Counted(p) \subseteq Thread
  BY PoolAssumption DEF Counted
<1> QED
  BY <1>1, FS_Subset, FS_CardinalityType

\* If no thread joins those that count for a pool, one does, or one leaves them.
LEMMA NoMore ==
  ASSUME NEW p, Counted(p)' \subseteq Counted(p)
  PROVE  Cardinality(Counted(p)') \in Nat /\ Cardinality(Counted(p)') <= Cardinality(Counted(p))
BY CountedFinite, FS_Subset, FS_CardinalityType

LEMMA OneMore ==
  ASSUME NEW p, NEW t, Counted(p)' \subseteq Counted(p) \cup {t}
  PROVE  /\ Cardinality(Counted(p)') \in Nat
         /\ Cardinality(Counted(p)') <= Cardinality(Counted(p)) + 1
<1>1. /\ IsFiniteSet(Counted(p) \cup {t})
      /\ Cardinality(Counted(p) \cup {t}) <= Cardinality(Counted(p)) + 1
  <2>1. IsFiniteSet(Counted(p)) /\ Cardinality(Counted(p)) \in Nat
    BY CountedFinite
  <2>2. /\ IsFiniteSet(Counted(p) \cup {t})
        /\ Cardinality(Counted(p) \cup {t}) = IF t \in Counted(p) THEN Cardinality(Counted(p))
                                              ELSE Cardinality(Counted(p)) + 1
    BY <2>1, FS_AddElement
  <2> QED
    BY <2>1, <2>2
<1>2. /\ IsFiniteSet(Counted(p)')
      /\ Cardinality(Counted(p)') <= Cardinality(Counted(p) \cup {t})
  BY <1>1, FS_Subset
<1>3. Cardinality(Counted(p)') \in Nat /\ Cardinality(Counted(p) \cup {t}) \in Nat
  BY <1>1, <1>2, FS_CardinalityType
<1>4. Cardinality(Counted(p)) \in Nat
  BY CountedFinite
<1> QED
  BY <1>1, <1>2, <1>3, <1>4

LEMMA OneLess ==
  ASSUME NEW p, NEW t \in Counted(p), Counted(p)' \subseteq Counted(p) \ {t}
  PROVE  /\ Cardinality(Counted(p)') \in Nat
         /\ Cardinality(Counted(p)') + 1 <= Cardinality(Counted(p))
<1>1. /\ IsFiniteSet(Counted(p) \ {t})
      /\ Cardinality(Counted(p) \ {t}) = Cardinality(Counted(p)) - 1
  BY CountedFinite, FS_RemoveElement
<1>2. /\ IsFiniteSet(Counted(p)')
      /\ Cardinality(Counted(p)') <= Cardinality(Counted(p) \ {t})
  BY <1>1, FS_Subset
<1>3. Cardinality(Counted(p)') \in Nat
  BY <1>2, FS_CardinalityType
<1>4. Cardinality(Counted(p)) \in Nat
  BY CountedFinite
<1> QED
  BY <1>1, <1>2, <1>3, <1>4

\* The others count as before.
LEMMA OthersCount ==
  ASSUME NEW t \in Thread, NEW pc, NEW home, NEW from, NEW conn, NEW p,
         Becomes(t, pc, home, from, conn)
  PROVE  /\ \A s \in Thread \ {t} : Counts(s, p)' <=> Counts(s, p)
         /\ Counts(t, p)' <=> pc # "idle" /\ home = p /\ ~(pc = "grab" /\ from = p)
<1>1. th'[t].pc = pc /\ th'[t].home = home /\ th'[t].from = from
  BY DEF Becomes, IsAt
<1> QED
  BY <1>1 DEF Becomes, Counts

\* Nobody joins those that count, if t counts no more than before.
LEMMA CountedAfter ==
  ASSUME NEW t \in Thread, NEW pc, NEW home, NEW from, NEW conn, NEW p,
         Becomes(t, pc, home, from, conn),
         pc # "idle" /\ home = p /\ ~(pc = "grab" /\ from = p) => Counts(t, p)
  PROVE  Counted(p)' \subseteq Counted(p)
<1>1. \A s \in Thread : Counts(s, p)' => Counts(s, p)
  BY OthersCount
<1> QED
  BY <1>1 DEF Counted

LimitedAt(p) ==
  Len(m_conn_queue[p]) + Cardinality(Counted(p)) <= Cardinality(Thread) + 1

\* A pool stays within its limit if its queue and its threads grow by no more than the
\* other gives way.
LEMMA NoLonger ==
  ASSUME IInv, IInv', NEW p \in Pool, LimitedAt(p),
         \/ /\ Len(m_conn_queue'[p]) <= Len(m_conn_queue[p])
            /\ Counted(p)' \subseteq Counted(p)
         \/ /\ Len(m_conn_queue'[p]) + 1 <= Len(m_conn_queue[p])
            /\ \E t : Counted(p)' \subseteq Counted(p) \cup {t}
         \/ /\ Len(m_conn_queue'[p]) <= Len(m_conn_queue[p]) + 1
            /\ \E t \in Counted(p) : Counted(p)' \subseteq Counted(p) \ {t}
         \/ Len(m_conn_queue'[p]) <= 1
  PROVE  LimitedAt(p)'
<1>1. Len(m_conn_queue[p]) \in Nat /\ Len(m_conn_queue'[p]) \in Nat
  <2>1. m_conn_queue[p] \in Seq(Element) /\ m_conn_queue'[p] \in Seq(Element)
    BY DEF IInv, Shapes
  <2> QED
    BY <2>1, LenProperties
<1>2. /\ Cardinality(Counted(p)) \in Nat /\ Cardinality(Counted(p)') \in Nat
      /\ Cardinality(Thread) \in Nat /\ Cardinality(Counted(p)') <= Cardinality(Thread)
  <2>1. IsFiniteSet(Thread) /\ Counted(p)' \subseteq Thread
    BY PoolAssumption DEF Counted
  <2> QED
    BY <2>1, CountedFinite, FS_Subset, FS_CardinalityType
<1>3. CASE /\ Len(m_conn_queue'[p]) <= Len(m_conn_queue[p])
           /\ Counted(p)' \subseteq Counted(p)
  <2>1. Cardinality(Counted(p)') <= Cardinality(Counted(p))
    BY <1>3, NoMore
  <2> QED
    BY <1>1, <1>2, <1>3, <2>1 DEF LimitedAt
<1>4. CASE /\ Len(m_conn_queue'[p]) + 1 <= Len(m_conn_queue[p])
           /\ \E t : Counted(p)' \subseteq Counted(p) \cup {t}
  <2>1. Cardinality(Counted(p)') <= Cardinality(Counted(p)) + 1
    BY <1>4, OneMore
  <2> QED
    BY <1>1, <1>2, <1>4, <2>1 DEF LimitedAt
<1>5. CASE /\ Len(m_conn_queue'[p]) <= Len(m_conn_queue[p]) + 1
           /\ \E t \in Counted(p) : Counted(p)' \subseteq Counted(p) \ {t}
  <2>1. Cardinality(Counted(p)') + 1 <= Cardinality(Counted(p))
    BY <1>5, OneLess
  <2> QED
    BY <1>1, <1>2, <1>5, <2>1 DEF LimitedAt
<1>6. CASE Len(m_conn_queue'[p]) <= 1
  BY <1>1, <1>2, <1>6 DEF LimitedAt
<1> QED
  BY <1>3, <1>4, <1>5, <1>6

\* The threads that count after the steps of a thread.
LEMMA StepCounts ==
  ASSUME IInv, IInv', NEW t \in Thread, NEW p \in Pool, LimitedAt(p),
         \/ Keeping(t) \/ Finding(t) \/ Taking(t) \/ Opening(t) \/ Dropping(t) \/ Releasing(t)
  PROVE  LimitedAt(p)'
<1>1. CASE Keeping(t)
  <2>1. PICK pc, home, from : /\ Becomes(t, pc, home, from, th[t].conn)
                              /\ CountsNoMore(t, pc, home, from)
    BY <1>1 DEF Keeping
  <2>2. pc # "idle" /\ home = p /\ ~(pc = "grab" /\ from = p) => Counts(t, p)
    BY <2>1 DEF CountsNoMore
  <2>3. Counted(p)' \subseteq Counted(p)
    BY <2>1, <2>2, CountedAfter
  <2> QED
    BY <1>1, <2>3, NoLonger, QueueAt DEF Keeping, IInv
<1>2. CASE Finding(t)
  <2>1. PICK pc \in {"none", "index"} : Becomes(t, pc, th[t].home, th[t].from, None)
    BY <1>2 DEF Finding
  <2>2. CASE p = th[t].from
    <3>1. Len(m_conn_queue[p]) \in Nat
      BY QueueAt DEF IInv
    <3>2. Len(m_conn_queue'[p]) <= 1
      BY <1>2, <2>2, <3>1 DEF Finding, Pooled
    <3> QED
      BY <3>2, NoLonger
  <2>3. CASE p # th[t].from
    <3>1. Counted(p)' \subseteq Counted(p)
      <4>1. pc # "idle" /\ th[t].home = p => Counts(t, p)
        BY <1>2, <2>3 DEF Counts, Finding
      <4> QED
        BY <2>1, <4>1, CountedAfter
    <3> QED
      BY <1>2, <3>1, NoLonger, QueueAt DEF Finding, IInv
  <2> QED
    BY <2>2, <2>3
<1>3. CASE Taking(t)
  <2> DEFINE o == th[t].from
             q == m_conn_queue[o]
  <2>1. /\ o \in Pool /\ q \in Seq(Element) /\ Len(q) \in Nat /\ Len(q) > 1
        /\ m_conn_queue' = [m_conn_queue EXCEPT ![o] = SubSeq(q, 1, Len(q) - 1)]
        /\ th[t].pc = "grab"
    BY <1>3, QueueAt DEF Taking, Pooled, Taken, IInv
  <2>2. PICK c : Becomes(t, "ping", th[t].home, o, c)
    BY <1>3 DEF Taking
  <2>3. CASE p = o
    <3>1. Len(m_conn_queue'[p]) + 1 <= Len(m_conn_queue[p])
      <4>1. m_conn_queue'[p] = SubSeq(q, 1, Len(q) - 1)
        BY <2>1, <2>3 DEF IInv, Shapes
      <4>2. Len(SubSeq(q, 1, Len(q) - 1)) = Len(q) - 1
        <5>1. \A i \in 1 .. Len(q) - 1 : q[i] \in Element
          BY <2>1, QueueAt DEF IInv
        <5> HIDE DEF q
        <5> QED
          BY <2>1, <5>1, SubSeqProperties, SMT
      <4> QED
        BY <2>1, <2>3, <4>1, <4>2
    <3>2. Counted(p)' \subseteq Counted(p) \cup {t}
      BY <2>2, OthersCount DEF Counted
    <3> QED
      BY <3>1, <3>2, NoLonger
  <2>4. CASE p # o
    <3>1. m_conn_queue'[p] = m_conn_queue[p]
      BY <2>1, <2>4 DEF IInv, Shapes
    <3>2. Counted(p)' \subseteq Counted(p)
      <4>1. th[t].home = p => Counts(t, p)
        BY <2>1, <2>4 DEF Counts
      <4> QED
        BY <2>2, <4>1, CountedAfter
    <3> QED
      BY <3>1, <3>2, NoLonger, QueueAt DEF IInv
  <2> QED
    BY <2>3, <2>4
<1>4. CASE Opening(t) \/ Dropping(t)
  <2>1. PICK pc, c :
          /\ Becomes(t, pc, th[t].home, th[t].from, c)
          /\ th[t].pc \in {"connect", "ping"}
          /\ m_conn_queue' = m_conn_queue
    BY <1>4 DEF Opening, Dropping
  <2>2. th[t].home = p => Counts(t, p)
    BY <2>1 DEF Counts
  <2>3. Counted(p)' \subseteq Counted(p)
    BY <2>1, <2>2, CountedAfter
  <2> QED
    BY <2>1, <2>3, NoLonger, QueueAt DEF IInv
<1>5. CASE Releasing(t)
  <2> DEFINE o == th[t].home
             q == m_conn_queue[o]
             new == [conn |-> th[t].conn, last_used |-> now]
  <2>1. /\ o \in Pool /\ q \in Seq(Element) /\ Len(q) \in Nat /\ now \in Nat
        /\ m_conn_queue' = [m_conn_queue EXCEPT ![o] = Append(Rest(q), new)]
        /\ th[t].pc = "return" /\ Becomes(t, "idle", None, None, None)
        /\ new \in Element
    BY <1>5, QueueAt DEF Releasing, Released, IInv, Shapes, Element
  <2>2. ~Counts(t, p)' /\ \A s \in Thread \ {t} : Counts(s, p)' <=> Counts(s, p)
    BY <2>1, OthersCount
  <2>3. CASE p = o
    <3>1. Len(m_conn_queue'[p]) <= Len(m_conn_queue[p]) + 1
      <4>1. Rest(q) \in Seq(Element) /\ Len(Rest(q)) <= Len(q) /\ Len(Rest(q)) \in Nat
        <5>1. PICK d \in 0 .. Len(q) : Rest(q) \in Seq(Element) /\ Len(Rest(q)) = Len(q) - d
          BY <2>1, RestIsTail
        <5> QED
          BY <2>1, <5>1, LenProperties
      <4>2. m_conn_queue'[p] = Append(Rest(q), new)
        BY <2>1, <2>3 DEF IInv, Shapes
      <4>3. Len(Append(Rest(q), new)) = Len(Rest(q)) + 1
        BY <2>1, <4>1, AppendProperties
      <4> HIDE DEF new
      <4> QED
        BY <2>1, <2>3, <4>1, <4>2, <4>3
    <3>2. t \in Counted(p)
      BY <2>1, <2>3 DEF Counted, Counts
    <3>3. Counted(p)' \subseteq Counted(p) \ {t}
      BY <2>2 DEF Counted
    <3> QED
      BY <3>1, <3>2, <3>3, NoLonger
  <2>4. CASE p # o
    <3>1. m_conn_queue'[p] = m_conn_queue[p]
      BY <2>1, <2>4 DEF IInv, Shapes
    <3>2. Counted(p)' \subseteq Counted(p)
      BY <2>2 DEF Counted
    <3> QED
      BY <3>1, <3>2, NoLonger, QueueAt DEF IInv
  <2> QED
    BY <2>3, <2>4
<1> QED
  BY <1>1, <1>2, <1>3, <1>4, <1>5

LInv == IInv /\ \A p \in Pool : LimitedAt(p)

LEMMA InitLInv == Init => LInv
<1> SUFFICES ASSUME Init PROVE LInv
  OBVIOUS
<1>1. IInv
  BY InitIInv
<1>2. ASSUME NEW p \in Pool PROVE LimitedAt(p)
  <2>1. Len(m_conn_queue[p]) = 0
    BY EmptySeq DEF Init
  <2> QED
    BY <2>1, CountedFinite DEF LimitedAt
<1> QED
  BY <1>1, <1>2 DEF LInv

LEMMA StepLInv == LInv /\ [Next]_vars => LInv'
<1> SUFFICES ASSUME LInv, [Next]_vars PROVE LInv'
  OBVIOUS
<1>0. IInv'
  BY StepIInv DEF LInv
<1> SUFFICES ASSUME NEW p \in Pool PROVE LimitedAt(p)'
  BY <1>0 DEF LInv
<1>1. IInv /\ IInv' /\ Shapes /\ LimitedAt(p)
  BY <1>0 DEF LInv, IInv
<1>2. ASSUME NEW t \in Thread, Run(t) \/ \E o \in Pool : Call(t, o)
      PROVE  LimitedAt(p)'
  <2>1. \/ Keeping(t) \/ Finding(t) \/ Taking(t) \/ Opening(t) \/ Dropping(t)
        \/ Releasing(t)
    BY <1>1, <1>2, GrabPooledIs, ConnectIs, PingIs, ReturnIs, OtherIs DEF Run
  <2> QED
    BY <1>1, <2>1, StepCounts
<1>3. CASE UNCHANGED <<m_conn_queue, th>>
  BY <1>1, <1>3 DEF LimitedAt, Counted, Counts
<1>4. Tick \/ (\E s \in Names : Stop(s) \/ Start(s)) \/ UNCHANGED vars
        => UNCHANGED <<m_conn_queue, th>>
  BY DEF Tick, Stop, Start, vars
<1> QED
  BY <1>1, <1>2, <1>3, <1>4 DEF Next

\* No function has a limit for the connections it makes, and readers carry connections
\* from the pool for writing into their own; yet grab takes one only when more than one is
\* left, and whoever takes one brings one: a pool and the threads that will release to it
\* never have more than one connection beyond the number of threads
\* (MysqlConnPool::grab, CSMySqlConnMgr.cpp:135; SCOPED_CONN_READ, CSMySqlConnMgr.h:186).
THEOREM PoolsStaySmall == Spec => []Limited
<1>1. LInv => Limited
  BY DEF LInv, LimitedAt, Counted, Limited
<1>2. Spec => []LInv
  BY InitLInv, StepLInv, PTL DEF Spec
<1> QED
  BY <1>1, <1>2, PTL

-----------------------------------------------------------------------------
(* The fields of a thread's record, the servers' states and the clock.     *)

ThreadState ==
  [pc: Pc, home: Pool \cup {None}, from: Pool \cup {None}, conn: Conn \cup {None},
   index: Nat, tries: Nat, ran: BOOLEAN, ret: BOOLEAN]

\* While grab goes through the servers of a pool there are some, and the index it has
\* read is one of theirs.
TurnOK(r) ==
  /\ r.pc \in {"index", "connect", "set_bad"} => r.from \in Pool /\ Servers(r.from) > 0
  /\ r.pc \in {"connect", "set_bad"} => r.index < Servers(r.from)

\* Only readers turn to the pool for writing.
OwnPool(r) == r.home = "write" /\ r.pc # "idle" => r.from = "write"

\* What writes and has a connection has carried out what it reports.
Reported(r) ==
  r.pc = "return" /\ r.conn # None /\ r.home = "write" /\ r.ret => r.ran

\* What holds of a thread by itself.
Alone(r) == r \in ThreadState /\ TurnOK(r) /\ OwnPool(r) /\ Reported(r)

ServersOK ==
  /\ m_round_robin \in [Pool -> Nat]
  /\ \A p \in Pool : m_round_robin[p] = 0 \/ m_round_robin[p] < Servers(p)
  /\ DOMAIN m_ok = Pool /\ DOMAIN m_reborn = Pool
  /\ \A p \in Pool :
       /\ m_ok[p] \in [1 .. Servers(p) -> BOOLEAN]
       /\ m_reborn[p] \in [1 .. Servers(p) -> Nat \cup {None}]

TInv ==
  /\ IInv
  /\ stops \in Nat
  /\ ServersOK
  /\ \A t \in Thread : Alone(th[t])

\* The servers of a configuration are a sequence.
LEMMA ParsedIs ==
  ASSUME NEW conf \in Seq(Entry)
  PROVE  Parsed(conf) \in Seq(Entry)
<1> DEFINE at == {i \in DOMAIN conf : Parses(conf[i])}
           s == CHOOSE s \in [1 .. Cardinality(at) -> at] :
                  \A i, j \in DOMAIN s : i < j => s[i] < s[j]
<1>1. at \subseteq 1 .. Len(conf) /\ Len(conf) \in Nat
  BY LenProperties
<1>2. IsFiniteSet(at) /\ at \subseteq Nat /\ Cardinality(at) \in Nat
  <2>1. PICK l \in Nat : l = Len(conf) /\ at \subseteq 1 .. l
    BY <1>1
  <2>2. IsFiniteSet(1 .. l) /\ 1 .. l \subseteq Nat
    BY FS_Interval
  <2> HIDE DEF at
  <2>3. IsFiniteSet(at)
    BY <2>1, <2>2, FS_Subset
  <2> QED
    BY <2>1, <2>2, <2>3, FS_CardinalityType
<1>3. \A i \in at : conf[i] \in Entry
  OBVIOUS
<1>4. PICK n \in Nat : n = Cardinality(at)
  BY <1>2
<1> HIDE DEF at
<1>5. s \in [1 .. n -> at]
  BY <1>2, <1>4, OrderExists
<1>6. Parsed(conf) = [k \in DOMAIN s |-> conf[s[k]]]
  BY DEF Parsed, at
<1> HIDE DEF s
<1>7. Parsed(conf) \in [1 .. n -> Entry]
  BY <1>3, <1>5, <1>6
<1> QED
  BY <1>7

LEMMA ServersNat == \A p \in Pool : Servers(p) \in Nat
<1>1. \A p \in Pool : m_db_svrs[p] \in Seq(Entry)
  BY PoolAssumption, ParsedIs DEF m_db_svrs, Pool
<1> QED
  BY <1>1, LenProperties DEF Servers

\* A state with these fields.
Are(n, pc, home, from, conn, index, tries, ran, ret) ==
  /\ n \in ThreadState
  /\ n.pc = pc /\ n.home = home /\ n.from = from /\ n.conn = conn
  /\ n.index = index /\ n.tries = tries /\ n.ran = ran /\ n.ret = ret

LEMMA PutPc ==
  ASSUME NEW r \in ThreadState, NEW x \in Pc, NEW n, n = [r EXCEPT !.pc = x]
  PROVE  Are(n, x, r.home, r.from, r.conn, r.index, r.tries, r.ran, r.ret)
BY DEF ThreadState, Are

LEMMA PutHome ==
  ASSUME NEW r \in ThreadState, NEW x \in Pool, NEW n, n = [r EXCEPT !.home = x]
  PROVE  Are(n, r.pc, x, r.from, r.conn, r.index, r.tries, r.ran, r.ret)
BY DEF ThreadState, Are

LEMMA PutFrom ==
  ASSUME NEW r \in ThreadState, NEW x \in Pool, NEW n, n = [r EXCEPT !.from = x]
  PROVE  Are(n, r.pc, r.home, x, r.conn, r.index, r.tries, r.ran, r.ret)
BY DEF ThreadState, Are

LEMMA PutConn ==
  ASSUME NEW r \in ThreadState, NEW x \in Conn \cup {None}, NEW n, n = [r EXCEPT !.conn = x]
  PROVE  Are(n, r.pc, r.home, r.from, x, r.index, r.tries, r.ran, r.ret)
BY DEF ThreadState, Are

LEMMA PutIndex ==
  ASSUME NEW r \in ThreadState, NEW x \in Nat, NEW n, n = [r EXCEPT !.index = x]
  PROVE  Are(n, r.pc, r.home, r.from, r.conn, x, r.tries, r.ran, r.ret)
BY DEF ThreadState, Are

LEMMA PutTries ==
  ASSUME NEW r \in ThreadState, NEW x \in Nat, NEW n, n = [r EXCEPT !.tries = x]
  PROVE  Are(n, r.pc, r.home, r.from, r.conn, r.index, x, r.ran, r.ret)
BY DEF ThreadState, Are

LEMMA PutRan ==
  ASSUME NEW r \in ThreadState, NEW x \in BOOLEAN, NEW n, n = [r EXCEPT !.ran = x]
  PROVE  Are(n, r.pc, r.home, r.from, r.conn, r.index, r.tries, x, r.ret)
BY DEF ThreadState, Are

LEMMA PutRet ==
  ASSUME NEW r \in ThreadState, NEW x \in BOOLEAN, NEW n, n = [r EXCEPT !.ret = x]
  PROVE  Are(n, r.pc, r.home, r.from, r.conn, r.index, r.tries, r.ran, x)
BY DEF ThreadState, Are

LEMMA IdleState == Idle \in ThreadState /\ Alone(Idle)
<1>1. Idle \in ThreadState
  BY DEF Idle, ThreadState, Pc
<1> QED
  BY <1>1 DEF Idle, Alone, TurnOK, OwnPool, Reported

(* What a thread becomes when it goes on.                                 *)

LEMMA PutPcIndex ==
  ASSUME NEW r \in ThreadState, NEW pc \in Pc, NEW i \in Nat
  PROVE  \E n : /\ n = [r EXCEPT !.pc = pc, !.index = i]
               /\ Are(n, pc, r.home, r.from, r.conn, i, r.tries, r.ran, r.ret)
<1>1. PICK m : m = [r EXCEPT !.pc = pc]
  OBVIOUS
<1>2. PICK n : n = [m EXCEPT !.index = i]
  OBVIOUS
<1>3. Are(m, pc, r.home, r.from, r.conn, r.index, r.tries, r.ran, r.ret)
  BY <1>1, PutPc
<1>4. Are(n, pc, r.home, r.from, r.conn, i, r.tries, r.ran, r.ret)
  BY <1>2, <1>3, PutIndex DEF Are
<1>5. n = [r EXCEPT !.pc = pc, !.index = i]
  BY <1>1, <1>2
<1> QED
  BY <1>4, <1>5

LEMMA PutPcTries ==
  ASSUME NEW r \in ThreadState, NEW pc \in Pc, NEW i \in Nat
  PROVE  \E n : /\ n = [r EXCEPT !.pc = pc, !.tries = i]
               /\ Are(n, pc, r.home, r.from, r.conn, r.index, i, r.ran, r.ret)
<1>1. PICK m : m = [r EXCEPT !.pc = pc]
  OBVIOUS
<1>2. PICK n : n = [m EXCEPT !.tries = i]
  OBVIOUS
<1>3. Are(m, pc, r.home, r.from, r.conn, r.index, r.tries, r.ran, r.ret)
  BY <1>1, PutPc
<1>4. Are(n, pc, r.home, r.from, r.conn, r.index, i, r.ran, r.ret)
  BY <1>2, <1>3, PutTries DEF Are
<1>5. n = [r EXCEPT !.pc = pc, !.tries = i]
  BY <1>1, <1>2
<1> QED
  BY <1>4, <1>5

LEMMA PutTriesPc ==
  ASSUME NEW r \in ThreadState, NEW pc \in Pc, NEW i \in Nat
  PROVE  \E n : /\ n = [r EXCEPT !.tries = i, !.pc = pc]
               /\ Are(n, pc, r.home, r.from, r.conn, r.index, i, r.ran, r.ret)
<1>1. PICK m : m = [r EXCEPT !.tries = i]
  OBVIOUS
<1>2. PICK n : n = [m EXCEPT !.pc = pc]
  OBVIOUS
<1>3. Are(m, r.pc, r.home, r.from, r.conn, r.index, i, r.ran, r.ret)
  BY <1>1, PutTries
<1>4. Are(n, pc, r.home, r.from, r.conn, r.index, i, r.ran, r.ret)
  BY <1>2, <1>3, PutPc DEF Are
<1>5. n = [r EXCEPT !.tries = i, !.pc = pc]
  BY <1>1, <1>2
<1> QED
  BY <1>4, <1>5

LEMMA PutPcConn ==
  ASSUME NEW r \in ThreadState, NEW pc \in Pc, NEW c \in Conn \cup {None}
  PROVE  \E n : /\ n = [r EXCEPT !.pc = pc, !.conn = c]
               /\ Are(n, pc, r.home, r.from, c, r.index, r.tries, r.ran, r.ret)
<1>1. PICK m : m = [r EXCEPT !.pc = pc]
  OBVIOUS
<1>2. PICK n : n = [m EXCEPT !.conn = c]
  OBVIOUS
<1>3. Are(m, pc, r.home, r.from, r.conn, r.index, r.tries, r.ran, r.ret)
  BY <1>1, PutPc
<1>4. Are(n, pc, r.home, r.from, c, r.index, r.tries, r.ran, r.ret)
  BY <1>2, <1>3, PutConn DEF Are
<1>5. n = [r EXCEPT !.pc = pc, !.conn = c]
  BY <1>1, <1>2
<1> QED
  BY <1>4, <1>5

LEMMA PutPcFrom ==
  ASSUME NEW r \in ThreadState, NEW pc \in Pc, NEW p \in Pool
  PROVE  \E n : /\ n = [r EXCEPT !.pc = pc, !.from = p]
               /\ Are(n, pc, r.home, p, r.conn, r.index, r.tries, r.ran, r.ret)
<1>1. PICK m : m = [r EXCEPT !.pc = pc]
  OBVIOUS
<1>2. PICK n : n = [m EXCEPT !.from = p]
  OBVIOUS
<1>3. Are(m, pc, r.home, r.from, r.conn, r.index, r.tries, r.ran, r.ret)
  BY <1>1, PutPc
<1>4. Are(n, pc, r.home, p, r.conn, r.index, r.tries, r.ran, r.ret)
  BY <1>2, <1>3, PutFrom DEF Are
<1>5. n = [r EXCEPT !.pc = pc, !.from = p]
  BY <1>1, <1>2
<1> QED
  BY <1>4, <1>5

LEMMA PutPcRet ==
  ASSUME NEW r \in ThreadState, NEW pc \in Pc, NEW b \in BOOLEAN
  PROVE  \E n : /\ n = [r EXCEPT !.pc = pc, !.ret = b]
               /\ Are(n, pc, r.home, r.from, r.conn, r.index, r.tries, r.ran, b)
<1>1. PICK m : m = [r EXCEPT !.pc = pc]
  OBVIOUS
<1>2. PICK n : n = [m EXCEPT !.ret = b]
  OBVIOUS
<1>3. Are(m, pc, r.home, r.from, r.conn, r.index, r.tries, r.ran, r.ret)
  BY <1>1, PutPc
<1>4. Are(n, pc, r.home, r.from, r.conn, r.index, r.tries, r.ran, b)
  BY <1>2, <1>3, PutRet DEF Are
<1>5. n = [r EXCEPT !.pc = pc, !.ret = b]
  BY <1>1, <1>2
<1> QED
  BY <1>4, <1>5

Outcomes == [ran: BOOLEAN, ret: BOOLEAN]

LEMMA PutOutcome ==
  ASSUME NEW r \in ThreadState, NEW pc \in Pc, NEW o \in Outcomes
  PROVE  \E n : /\ n = [r EXCEPT !.pc = pc, !.ran = o.ran, !.ret = o.ret]
               /\ Are(n, pc, r.home, r.from, r.conn, r.index, r.tries, o.ran, o.ret)
<1>1. PICK m : m = [r EXCEPT !.pc = pc]
  OBVIOUS
<1>2. PICK k : k = [m EXCEPT !.ran = o.ran]
  OBVIOUS
<1>3. PICK n : n = [k EXCEPT !.ret = o.ret]
  OBVIOUS
<1>4. Are(m, pc, r.home, r.from, r.conn, r.index, r.tries, r.ran, r.ret)
  BY <1>1, PutPc
<1>5. Are(k, pc, r.home, r.from, r.conn, r.index, r.tries, o.ran, r.ret)
  BY <1>2, <1>4, PutRan DEF Are, Outcomes
<1>6. Are(n, pc, r.home, r.from, r.conn, r.index, r.tries, o.ran, o.ret)
  BY <1>3, <1>5, PutRet DEF Are, Outcomes
<1>7. n = [r EXCEPT !.pc = pc, !.ran = o.ran, !.ret = o.ret]
  BY <1>1, <1>2, <1>3
<1> QED
  BY <1>6, <1>7

LEMMA PutCall ==
  ASSUME NEW p \in Pool
  PROVE  \E n : /\ n = [Idle EXCEPT !.pc = "grab", !.home = p, !.from = p]
               /\ Are(n, "grab", p, p, None, 0, 0, FALSE, FALSE)
<1>1. PICK m : m = [Idle EXCEPT !.pc = "grab"]
  OBVIOUS
<1>2. PICK k : k = [m EXCEPT !.home = p]
  OBVIOUS
<1>3. PICK n : n = [k EXCEPT !.from = p]
  OBVIOUS
<1>4. Are(m, "grab", None, None, None, 0, 0, FALSE, FALSE)
  <2>1. Are(Idle, "idle", None, None, None, 0, 0, FALSE, FALSE)
    BY IdleState DEF Idle, Are
  <2>2. "grab" \in Pc
    BY DEF Pc
  <2> QED
    BY <1>1, <2>1, <2>2, PutPc DEF Are
<1>5. Are(k, "grab", p, None, None, 0, 0, FALSE, FALSE)
  BY <1>2, <1>4, PutHome DEF Are
<1>6. Are(n, "grab", p, p, None, 0, 0, FALSE, FALSE)
  BY <1>3, <1>5, PutFrom DEF Are
<1>7. n = [Idle EXCEPT !.pc = "grab", !.home = p, !.from = p]
  BY <1>1, <1>2, <1>3
<1> QED
  BY <1>6, <1>7

LEMMA AliveAt ==
  ASSUME TInv, NEW t \in Thread
  PROVE  /\ Alone(th[t]) /\ th[t] \in ThreadState
         /\ Fits(th[t].pc, th[t].home, th[t].from, th[t].conn)
         /\ DOMAIN th = Thread
BY ThreadAt DEF TInv, Alone, IInv, Shapes

\* A thread goes on to a state that is as it has to be.
LEMMA GoesAlone ==
  ASSUME TInv, NEW t \in Thread, NEW n, Goes(t, n), Alone(n)
  PROVE  \A s \in Thread : Alone(th'[s])
<1>1. DOMAIN th = Thread /\ \A s \in Thread : Alone(th[s])
  BY AliveAt DEF TInv
<1>2. th'[t] = n /\ \A s \in Thread \ {t} : th'[s] = th[s]
  BY <1>1 DEF Goes
<1> QED
  BY <1>1, <1>2

LEMMA GrabPooledAlone ==
  ASSUME TInv, NEW t \in Thread, GrabPooled(t)
  PROVE  \A s \in Thread : Alone(th'[s])
<1> DEFINE r == th[t]
           p == r.from
<1>1. /\ r \in ThreadState /\ Alone(r) /\ r.pc = "grab" /\ r.conn = None
      /\ r.home \in Pool /\ p \in Pool
  BY AliveAt DEF GrabPooled, Fits, Free
<1>2. CASE Pooled(p)
  <2> DEFINE c == m_conn_queue[p][Len(m_conn_queue[p])].conn
  <2>1. Goes(t, [r EXCEPT !.pc = "ping", !.conn = c])
    BY <1>2 DEF GrabPooled
  <2>2. c \in Conn
    BY <1>1, <1>2, QueueAt DEF Pooled, TInv, IInv
  <2> HIDE DEF c, r
  <2>3. PICK n : /\ n = [r EXCEPT !.pc = "ping", !.conn = c]
                 /\ Are(n, "ping", r.home, r.from, c, r.index, r.tries, r.ran, r.ret)
    BY <1>1, <2>2, PutPcConn DEF Pc
  <2>4. Alone(n)
    BY <1>1, <2>3 DEF Are, Alone, TurnOK, OwnPool, Reported
  <2> QED
    BY <2>1, <2>3, <2>4, GoesAlone
<1>3. CASE ~Pooled(p)
  <2> DEFINE pc == IF Servers(p) = 0 THEN "none" ELSE "index"
  <2>1. Goes(t, [r EXCEPT !.pc = pc, !.tries = 0])
    BY <1>3 DEF GrabPooled
  <2>2. pc \in {"none", "index"} /\ (pc = "index" => Servers(p) > 0)
    BY <1>1, ServersNat
  <2> HIDE DEF pc, r
  <2>3. pc \in Pc /\ 0 \in Nat
    BY <2>2 DEF Pc
  <2>4. PICK n : /\ n = [r EXCEPT !.pc = pc, !.tries = 0]
                 /\ Are(n, pc, r.home, r.from, r.conn, r.index, 0, r.ran, r.ret)
    BY <1>1, <2>3, PutPcTries, Zenon
  <2>5. Alone(n)
    BY <1>1, <2>2, <2>4 DEF Are, Alone, TurnOK, OwnPool, Reported
  <2> QED
    BY <2>1, <2>4, <2>5, GoesAlone
<1> QED
  BY <1>2, <1>3

LEMMA IndexAlone ==
  ASSUME TInv, NEW t \in Thread, Index(t)
  PROVE  \A s \in Thread : Alone(th'[s])
<1> DEFINE r == th[t]
           x == m_round_robin[r.from]
<1>1. /\ r \in ThreadState /\ Alone(r) /\ r.pc = "index" /\ r.from \in Pool
  BY AliveAt DEF Index, Fits
<1>2. Goes(t, [r EXCEPT !.pc = "connect", !.index = x])
  BY DEF Index
<1>3. x \in Nat /\ x < Servers(r.from) /\ Servers(r.from) > 0
  <2>1. Servers(r.from) > 0
    BY <1>1 DEF Alone, TurnOK
  <2>2. x \in Nat /\ (x = 0 \/ x < Servers(r.from))
    BY <1>1 DEF TInv, ServersOK
  <2> QED
    BY <2>1, <2>2
<1> HIDE DEF r, x
<1>4. PICK n : /\ n = [r EXCEPT !.pc = "connect", !.index = x]
               /\ Are(n, "connect", r.home, r.from, r.conn, x, r.tries, r.ran, r.ret)
  BY <1>1, <1>3, PutPcIndex DEF Pc
<1>5. Alone(n)
  BY <1>1, <1>3, <1>4 DEF Are, Alone, TurnOK, OwnPool, Reported
<1> QED
  BY <1>2, <1>4, <1>5, GoesAlone

LEMMA NextTurnAlone ==
  ASSUME TInv, NEW t \in Thread, Goes(t, NextTurn(t)), th[t].pc \in {"connect", "set_bad"}
  PROVE  \A s \in Thread : Alone(th'[s])
<1> DEFINE r == th[t]
           x == r.tries + 1
           pc == IF x < Servers(r.from) THEN "index" ELSE "none"
<1>1. /\ r \in ThreadState /\ Alone(r) /\ r.from \in Pool /\ Servers(r.from) > 0
  BY AliveAt DEF Alone, TurnOK
<1>2. NextTurn(t) = [r EXCEPT !.tries = x, !.pc = pc]
  BY DEF NextTurn
<1>3. x \in Nat
  BY <1>1 DEF ThreadState
<1>4. pc \in {"index", "none"}
  OBVIOUS
<1> HIDE DEF r, x, pc
<1>5. pc \in Pc
  BY <1>4 DEF Pc
<1>6. PICK n : /\ n = [r EXCEPT !.tries = x, !.pc = pc]
               /\ Are(n, pc, r.home, r.from, r.conn, r.index, x, r.ran, r.ret)
  BY <1>1, <1>3, <1>5, PutTriesPc, Zenon
<1>7. Alone(n)
  <2>1. r.pc \in {"connect", "set_bad"}
    BY DEF r
  <2> QED
    BY <1>1, <1>4, <1>6, <2>1 DEF Are, Alone, TurnOK, OwnPool, Reported
<1> QED
  BY <1>2, <1>6, <1>7, GoesAlone

LEMMA ConnectAlone ==
  ASSUME TInv, NEW t \in Thread, Connect(t)
  PROVE  \A s \in Thread : Alone(th'[s])
<1> DEFINE r == th[t]
<1>1. /\ r \in ThreadState /\ Alone(r) /\ r.pc = "connect" /\ r.from \in Pool
  BY AliveAt DEF Connect, Fits
<1>2. CASE Goes(t, NextTurn(t))
  BY <1>1, <1>2, NextTurnAlone
<1>3. CASE Goes(t, [r EXCEPT !.pc = "set_bad"])
  <2>1. PICK n : n = [r EXCEPT !.pc = "set_bad"]
    OBVIOUS
  <2>2. Are(n, "set_bad", r.home, r.from, r.conn, r.index, r.tries, r.ran, r.ret)
    <3> HIDE DEF r
    <3> QED
      BY <1>1, <2>1, PutPc DEF Pc
  <2>3. Alone(n)
    <3> HIDE DEF r
    <3> QED
      BY <1>1, <2>2 DEF Are, Alone, TurnOK, OwnPool, Reported
  <2> QED
    BY <1>3, <2>1, <2>3, GoesAlone
<1>4. ASSUME NEW c \in Conn, Goes(t, [r EXCEPT !.pc = "ping", !.conn = c])
      PROVE  \A s \in Thread : Alone(th'[s])
  <2> HIDE DEF r
  <2>1. PICK n : /\ n = [r EXCEPT !.pc = "ping", !.conn = c]
                 /\ Are(n, "ping", r.home, r.from, c, r.index, r.tries, r.ran, r.ret)
    BY <1>1, PutPcConn DEF Pc
  <2>2. Alone(n)
    BY <1>1, <2>1 DEF Are, Alone, TurnOK, OwnPool, Reported
  <2> QED
    BY <1>4, <2>1, <2>2, GoesAlone
<1> QED
  BY <1>2, <1>3, <1>4 DEF Connect

LEMMA PingAlone ==
  ASSUME TInv, NEW t \in Thread, Ping(t)
  PROVE  \A s \in Thread : Alone(th'[s])
<1> DEFINE r == th[t]
<1>1. /\ r \in ThreadState /\ Alone(r) /\ r.pc = "ping" /\ r.from \in Pool
  BY AliveAt DEF Ping, Fits
<1>2. CASE Goes(t, [r EXCEPT !.pc = "run"])
  <2>1. PICK n : n = [r EXCEPT !.pc = "run"]
    OBVIOUS
  <2>2. Are(n, "run", r.home, r.from, r.conn, r.index, r.tries, r.ran, r.ret)
    <3> HIDE DEF r
    <3> QED
      BY <1>1, <2>1, PutPc DEF Pc
  <2>3. Alone(n)
    <3> HIDE DEF r
    <3> QED
      BY <1>1, <2>2 DEF Are, Alone, TurnOK, OwnPool, Reported
  <2> QED
    BY <1>2, <2>1, <2>3, GoesAlone
<1>3. CASE Goes(t, [r EXCEPT !.pc = "grab", !.conn = None])
  <2> HIDE DEF r
  <2>1. PICK n : /\ n = [r EXCEPT !.pc = "grab", !.conn = None]
                 /\ Are(n, "grab", r.home, r.from, None, r.index, r.tries, r.ran, r.ret)
    BY <1>1, PutPcConn DEF Pc
  <2>2. Alone(n)
    BY <1>1, <2>1 DEF Are, Alone, TurnOK, OwnPool, Reported
  <2> QED
    BY <1>3, <2>1, <2>2, GoesAlone
<1> QED
  BY <1>2, <1>3 DEF Ping

LEMMA FallBackAlone ==
  ASSUME TInv, NEW t \in Thread, FallBack(t)
  PROVE  \A s \in Thread : Alone(th'[s])
<1> DEFINE r == th[t]
<1>1. /\ r \in ThreadState /\ Alone(r)
      /\ Goes(t, [r EXCEPT !.pc = "grab", !.from = "write"])
  BY AliveAt DEF FallBack
<1> HIDE DEF r
<1>2. PICK n : /\ n = [r EXCEPT !.pc = "grab", !.from = "write"]
               /\ Are(n, "grab", r.home, "write", r.conn, r.index, r.tries, r.ran, r.ret)
  BY <1>1, PutPcFrom DEF Pc, Pool
<1>3. Alone(n)
  BY <1>2 DEF Are, Alone, TurnOK, OwnPool, Reported
<1> QED
  BY <1>1, <1>2, <1>3, GoesAlone

LEMMA NoConnectionAlone ==
  ASSUME TInv, NEW t \in Thread, NoConnection(t)
  PROVE  \A s \in Thread : Alone(th'[s])
<1> DEFINE r == th[t]
<1>1. /\ r \in ThreadState /\ Alone(r) /\ r.pc = "none" /\ r.conn = None /\ r.from = "write"
  BY AliveAt DEF NoConnection, Fits, Free
<1>2. PICK b \in BOOLEAN : Goes(t, [r EXCEPT !.pc = "return", !.ret = b])
  BY DEF NoConnection, MinusOne
<1> HIDE DEF r
<1>3. PICK n : /\ n = [r EXCEPT !.pc = "return", !.ret = b]
               /\ Are(n, "return", r.home, r.from, r.conn, r.index, r.tries, r.ran, b)
  BY <1>1, PutPcRet DEF Pc
<1>4. Alone(n)
  BY <1>1, <1>3 DEF Are, Alone, TurnOK, OwnPool, Reported
<1> QED
  BY <1>2, <1>3, <1>4, GoesAlone

\* No statement has the outcome that it reports what it has not carried out.
LEMMA StatementAlone ==
  ASSUME TInv, NEW t \in Thread, NEW fn, NEW outcomes, Statement(t, fn, outcomes),
         outcomes \subseteq {Done, NoRows, Failed}
  PROVE  \A s \in Thread : Alone(th'[s])
<1> DEFINE r == th[t]
<1>1. /\ r \in ThreadState /\ Alone(r) /\ r.pc = "run" /\ fn \in Functions(r.home)
  BY AliveAt DEF Statement
<1>2. PICK o \in {Done, NoRows, Failed} :
        /\ Goes(t, [r EXCEPT !.pc = "return", !.ran = o.ran, !.ret = o.ret])
  BY DEF Statement, Caught
<1>3. o \in Outcomes /\ (o.ret => o.ran)
  <2>1. Done \in Outcomes /\ NoRows \in Outcomes /\ Failed \in Outcomes
    BY DEF Done, NoRows, Failed, Outcomes
  <2>2. Done.ran /\ NoRows.ran /\ ~Failed.ret
    BY DEF Done, NoRows, Failed
  <2> QED
    BY <1>2, <2>1, <2>2
<1> HIDE DEF r
<1>4. "return" \in Pc
  BY DEF Pc
<1>5. PICK n : /\ n = [r EXCEPT !.pc = "return", !.ran = o.ran, !.ret = o.ret]
               /\ Are(n, "return", r.home, r.from, r.conn, r.index, r.tries, o.ran, o.ret)
  BY <1>1, <1>3, <1>4, PutOutcome
<1>6. Alone(n)
  BY <1>1, <1>3, <1>5 DEF Are, Alone, TurnOK, OwnPool, Reported
<1> QED
  BY <1>2, <1>5, <1>6, GoesAlone

LEMMA StepAlone ==
  ASSUME TInv, NEW t \in Thread, Run(t) \/ \E p \in Pool : Call(t, p)
  PROVE  \A s \in Thread : Alone(th'[s])
<1>1. CASE Execute(t)
  <2>1. ASSUME NEW fn, Statement(t, fn, {Done, NoRows}) \/ Statement(t, fn, {Done})
                       \/ Statement(t, fn, {Failed}) \/ Statement(t, fn, {Done, Failed})
        PROVE  \A s \in Thread : Alone(th'[s])
    BY <2>1, StatementAlone
  <2> QED
    BY <1>1, <2>1 DEF Execute, verify_queue_agent, get_queue_info, get_queue_list, last_cvsid,
         last_msgid, get_msg, save_conversation_score, save_conversation_info, save_msg,
         load_allims, load_ims
<1>2. CASE Return(t)
  BY <1>2, IdleState, GoesAlone DEF Return
<1>3. ASSUME NEW p \in Pool, Call(t, p)
      PROVE  \A s \in Thread : Alone(th'[s])
  <2>1. Goes(t, [Idle EXCEPT !.pc = "grab", !.home = p, !.from = p])
    BY <1>3 DEF Call
  <2>2. PICK n : /\ n = [Idle EXCEPT !.pc = "grab", !.home = p, !.from = p]
                 /\ Are(n, "grab", p, p, None, 0, 0, FALSE, FALSE)
    BY PutCall
  <2>3. Alone(n)
    BY <2>2 DEF Are, Alone, TurnOK, OwnPool, Reported
  <2> QED
    BY <2>1, <2>2, <2>3, GoesAlone
<1>4. CASE set_bad(t)
  BY <1>4, NextTurnAlone DEF set_bad
<1> QED
  BY <1>1, <1>2, <1>3, <1>4, GrabPooledAlone, IndexAlone, ConnectAlone, PingAlone,
     FallBackAlone, NoConnectionAlone DEF Run

\* A flag of a server is set.
LEMMA FlagSet ==
  ASSUME ServersOK, NEW p \in Pool, NEW i \in 1 .. Servers(p), NEW b \in BOOLEAN, NEW f,
         f = [m_ok EXCEPT ![p][i] = b]
  PROVE  DOMAIN f = Pool /\ \A o \in Pool : f[o] \in [1 .. Servers(o) -> BOOLEAN]
<1>1. DOMAIN m_ok = Pool /\ \A o \in Pool : m_ok[o] \in [1 .. Servers(o) -> BOOLEAN]
  BY DEF ServersOK
<1>2. PICK g : g = [m_ok[p] EXCEPT ![i] = b]
  OBVIOUS
<1>3. g \in [1 .. Servers(p) -> BOOLEAN]
  BY <1>1, <1>2
<1>4. f = [m_ok EXCEPT ![p] = g]
  BY <1>2
<1>5. DOMAIN f = Pool /\ f[p] = g /\ \A o \in Pool \ {p} : f[o] = m_ok[o]
  BY <1>1, <1>4
<1> QED
  BY <1>1, <1>3, <1>5

LEMMA RecoverySet ==
  ASSUME ServersOK, NEW p \in Pool, NEW i \in 1 .. Servers(p), NEW n \in Nat, NEW f,
         f = [m_reborn EXCEPT ![p][i] = n]
  PROVE  DOMAIN f = Pool /\ \A o \in Pool : f[o] \in [1 .. Servers(o) -> Nat \cup {None}]
<1>1. /\ DOMAIN m_reborn = Pool
      /\ \A o \in Pool : m_reborn[o] \in [1 .. Servers(o) -> Nat \cup {None}]
  BY DEF ServersOK
<1>2. PICK g : g = [m_reborn[p] EXCEPT ![i] = n]
  OBVIOUS
<1>3. g \in [1 .. Servers(p) -> Nat \cup {None}]
  BY <1>1, <1>2
<1>4. f = [m_reborn EXCEPT ![p] = g]
  BY <1>2
<1>5. DOMAIN f = Pool /\ f[p] = g /\ \A o \in Pool \ {p} : f[o] = m_reborn[o]
  BY <1>1, <1>4
<1> QED
  BY <1>1, <1>3, <1>5

\* The server that is tried.
LEMMA TriedServer ==
  ASSUME TInv, NEW t \in Thread, th[t].pc \in {"connect", "set_bad"}
  PROVE  /\ th[t].from \in Pool /\ Servers(th[t].from) > 0
         /\ th[t].index \in Nat /\ th[t].index + 1 \in 1 .. Servers(th[t].from)
<1>1. /\ th[t].from \in Pool /\ Servers(th[t].from) > 0 /\ Servers(th[t].from) \in Nat
      /\ th[t].index \in Nat /\ th[t].index < Servers(th[t].from)
  BY AliveAt, ServersNat DEF Alone, TurnOK, ThreadState
<1> QED
  BY <1>1

LEMMA ConnectServers ==
  ASSUME TInv, NEW t \in Thread, Connect(t)
  PROVE  ServersOK'
<1> DEFINE p == th[t].from
           i == th[t].index + 1
<1>1. /\ p \in Pool /\ i \in 1 .. Servers(p) /\ Servers(p) \in Nat /\ Servers(p) > 0
      /\ ServersOK
  BY TriedServer, ServersNat DEF Connect, TInv
<1>2. m_round_robin' = [m_round_robin EXCEPT ![p] = NextIndex(p, i)] /\ m_reborn' = m_reborn
  BY DEF Connect
<1>3. PICK b \in BOOLEAN : m_ok' = [m_ok EXCEPT ![p][i] = b]
  <2>1. ASSUME NEW ok \in is_ok(p, i) PROVE (m_ok[p][i] \/ ok) \in BOOLEAN
    OBVIOUS
  <2>2. PICK ok \in is_ok(p, i) :
          \/ m_ok' = [m_ok EXCEPT ![p][i] = @ \/ ok]
          \/ m_ok' = [m_ok EXCEPT ![p][i] = TRUE]
          \/ m_ok' = [m_ok EXCEPT ![p][i] = FALSE]
    BY DEF Connect
  <2>3. CASE m_ok' = [m_ok EXCEPT ![p][i] = @ \/ ok]
    <3>1. m_ok' = [m_ok EXCEPT ![p][i] = m_ok[p][i] \/ ok]
      BY <2>3
    <3> HIDE DEF p, i
    <3> QED
      BY <2>1, <3>1
  <2> HIDE DEF p, i
  <2> QED
    BY <2>2, <2>3
<1>4. NextIndex(p, i) \in Nat /\ NextIndex(p, i) < Servers(p)
  <2> HIDE DEF p, i
  <2>1. i \in Nat /\ Servers(p) \in Nat \ {0}
    BY <1>1
  <2>2. i % Servers(p) \in 0 .. Servers(p) - 1
    <3> DEFINE n == Servers(p)
    <3>1. n \in Nat \ {0}
      BY <2>1
    <3> HIDE DEF n
    <3>2. i % n \in 0 .. n - 1
      BY <2>1, <3>1
    <3> QED
      BY <3>2 DEF n
  <2> QED
    BY <2>1, <2>2 DEF NextIndex
<1> HIDE DEF p, i
<1>5. /\ m_round_robin' \in [Pool -> Nat]
      /\ \A o \in Pool : m_round_robin'[o] = 0 \/ m_round_robin'[o] < Servers(o)
  <2>1. PICK x : x = NextIndex(p, i)
    OBVIOUS
  <2>2. m_round_robin' = [m_round_robin EXCEPT ![p] = x] /\ x \in Nat /\ x < Servers(p)
    BY <1>2, <1>4, <2>1
  <2>3. /\ m_round_robin \in [Pool -> Nat]
        /\ \A o \in Pool : m_round_robin[o] = 0 \/ m_round_robin[o] < Servers(o)
    BY <1>1 DEF ServersOK
  <2>4. m_round_robin'[p] = x /\ \A o \in Pool \ {p} : m_round_robin'[o] = m_round_robin[o]
    BY <1>1, <2>2, <2>3
  <2> QED
    BY <2>2, <2>3, <2>4
<1>6. DOMAIN m_ok' = Pool /\ \A o \in Pool : m_ok'[o] \in [1 .. Servers(o) -> BOOLEAN]
  BY <1>1, <1>3, FlagSet
<1>7. /\ DOMAIN m_reborn' = Pool
      /\ \A o \in Pool : m_reborn'[o] \in [1 .. Servers(o) -> Nat \cup {None}]
  BY <1>1, <1>2 DEF ServersOK
<1>8. ServersOK' <=>
       /\ m_round_robin' \in [Pool -> Nat]
       /\ \A o \in Pool : m_round_robin'[o] = 0 \/ m_round_robin'[o] < Servers(o)
       /\ DOMAIN m_ok' = Pool /\ DOMAIN m_reborn' = Pool
       /\ \A o \in Pool : /\ m_ok'[o] \in [1 .. Servers(o) -> BOOLEAN]
                          /\ m_reborn'[o] \in [1 .. Servers(o) -> Nat \cup {None}]
  BY DEF ServersOK
<1> QED
  BY <1>5, <1>6, <1>7, <1>8, Zenon

LEMMA SetBadServers ==
  ASSUME TInv, NEW t \in Thread, set_bad(t)
  PROVE  ServersOK'
<1> DEFINE p == th[t].from
           i == th[t].index + 1
           n == now + SERVER_RECOVER_TIMEOUT
<1>1. /\ p \in Pool /\ i \in 1 .. Servers(p) /\ n \in Nat /\ ServersOK
  BY TriedServer, PoolAssumption DEF set_bad, TInv, IInv, Shapes
<1>2. m_reborn' = [m_reborn EXCEPT ![p][i] = n] /\ UNCHANGED <<m_round_robin, m_ok>>
  BY DEF set_bad
<1> HIDE DEF p, i, n
<1>3. /\ DOMAIN m_reborn' = Pool
      /\ \A o \in Pool : m_reborn'[o] \in [1 .. Servers(o) -> Nat \cup {None}]
  BY <1>1, <1>2, RecoverySet
<1> QED
  BY <1>1, <1>2, <1>3 DEF ServersOK

LEMMA InitTInv == Init => TInv
<1> SUFFICES ASSUME Init PROVE TInv
  OBVIOUS
<1>1. IInv
  BY InitIInv
<1>2. ServersOK
  BY ServersNat DEF Init, ServersOK
<1>3. \A t \in Thread : Alone(th[t])
  BY IdleState DEF Init
<1> QED
  BY <1>1, <1>2, <1>3 DEF TInv, Init

LEMMA StepTInv == TInv /\ [Next]_vars => TInv'
<1> SUFFICES ASSUME TInv, [Next]_vars PROVE TInv'
  OBVIOUS
<1>0. IInv'
  BY StepIInv DEF TInv
<1>1. ASSUME NEW t \in Thread, Run(t) \/ \E p \in Pool : Call(t, p)
      PROVE  TInv'
  <2>1. \A s \in Thread : Alone(th'[s])
    BY <1>1, StepAlone
  <2>2. stops' = stops
    BY <1>1 DEF Run, GrabPooled, Index, Connect, Ping, Return, set_bad, FallBack, NoConnection, Execute,
         Call, Statement, verify_queue_agent,
         get_queue_info, get_queue_list, last_cvsid, last_msgid, get_msg,
         save_conversation_score, save_conversation_info, save_msg, load_allims, load_ims
  <2>3. ServersOK'
    <3>1. CASE Connect(t) \/ set_bad(t)
      BY <3>1, ConnectServers, SetBadServers
    <3>2. CASE ~(Connect(t) \/ set_bad(t))
      <4>1. UNCHANGED <<m_round_robin, m_ok, m_reborn>>
        BY <1>1, <3>2 DEF Run, GrabPooled, Index, Ping, Return, FallBack, NoConnection, Execute,
         Call, Statement, verify_queue_agent,
         get_queue_info, get_queue_list, last_cvsid, last_msgid, get_msg,
         save_conversation_score, save_conversation_info, save_msg, load_allims, load_ims
      <4> QED
        BY <4>1 DEF TInv, ServersOK
    <3> QED
      BY <3>1, <3>2
  <2> QED
    BY <1>0, <2>1, <2>2, <2>3 DEF TInv
<1>2. CASE Tick \/ (\E s \in Names : Stop(s) \/ Start(s)) \/ UNCHANGED vars
  <2>1. UNCHANGED <<m_round_robin, m_ok, m_reborn, th>> /\ stops' \in Nat
    BY <1>2 DEF Tick, Stop, Start, vars, TInv
  <2> QED
    BY <1>0, <2>1 DEF TInv, ServersOK
<1> QED
  BY <1>1, <1>2 DEF Next

LEMMA AlwaysTInv == Spec => []TInv
BY InitTInv, StepTInv, PTL DEF Spec

\* The types of the state. Each thread takes a connection, tries a server or waits for one
\* only where it may: the index it reads from the unlocked round robin always names a
\* server of the pool it looks in, whatever other threads have written there meanwhile
\* (MysqlConnPool::grab, CSMySqlConnMgr.cpp:150).
THEOREM PoolTypes == Spec => []TypeOK
<1>1. TInv => TypeOK
  <2> SUFFICES ASSUME TInv PROVE TypeOK
    OBVIOUS
  <2>1. \A t \in Thread : ThreadType(th[t])
    <3> SUFFICES ASSUME NEW t \in Thread PROVE ThreadType(th[t])
      OBVIOUS
    <3>1. th[t] \in ThreadState
      BY AliveAt
    <3> QED
      BY <3>1 DEF ThreadState, ThreadType
  <2>2. \A p \in Pool :
          /\ m_round_robin[p] \in Nat /\ (m_round_robin[p] = 0 \/ m_round_robin[p] < Servers(p))
          /\ m_ok[p] \in [1 .. Servers(p) -> BOOLEAN]
          /\ m_reborn[p] \in [1 .. Servers(p) -> Nat \cup {None}]
    BY DEF TInv, ServersOK
  <2>3. /\ now \in Nat /\ stops \in Nat /\ up \subseteq Names
        /\ link \in [Conn -> [server: Names, alive: BOOLEAN] \cup {None}]
        /\ m_conn_queue \in [Pool -> Seq([conn: Conn, last_used: Nat])]
    BY DEF TInv, IInv, Shapes, Element, Link
  <2> QED
    BY <2>1, <2>2, <2>3 DEF TypeOK
<1> QED
  BY <1>1, AlwaysTInv, PTL

\* A function that writes and got a connection returns success only if its statement was
\* carried out, though the server may stop at any moment between the ping and the
\* statement (CMySqlDbMgr::save_conversation_info, save_msg).  What the statement leaves in
\* the table is another matter: the update of line 174 writes a truth value to agent_id.
THEOREM WritesAreReported == Spec => []WrittenIfConnected
<1>1. TInv => WrittenIfConnected
  BY DEF TInv, Alone, Reported, WrittenIfConnected, Holding
<1> QED
  BY <1>1, AlwaysTInv, PTL

-----------------------------------------------------------------------------
(* Which servers the connections lead to.                                  *)

Named(p) == {m_db_svrs[p][i].name : i \in 1 .. Servers(p)}

\* The connection is where those that write take theirs from, or was taken there.
OfWriters(c) ==
  \/ \E t \in Thread : th[t].conn = c /\ th[t].from = "write"
  \/ \E i \in DOMAIN m_conn_queue["write"] : m_conn_queue["write"][i].conn = c

WInv ==
  /\ TInv
  /\ \A c \in Conn : OfWriters(c) => link[c].server \in Named("write")

\* What was open stays connected to its server, unless it is closed.
LEMMA LinksStay ==
  ASSUME IInv, [Next]_vars, NEW c \in Conn, link[c] # None
  PROVE  link'[c] = None \/ link'[c].server = link[c].server
<1>1. DOMAIN link = Conn
  BY DEF IInv, Shapes
<1>2. ASSUME NEW t \in Thread, Run(t) \/ \E p \in Pool : Call(t, p)
      PROVE  link'[c] = None \/ link'[c].server = link[c].server
  <2>1. \/ Keeping(t) \/ Finding(t) \/ Taking(t) \/ Opening(t) \/ Dropping(t)
        \/ Releasing(t)
    BY <1>2, GrabPooledIs, ConnectIs, PingIs, ReturnIs, OtherIs DEF Run, IInv
  <2>2. CASE Opening(t)
    BY <1>1, <2>2 DEF Opening
  <2>3. CASE Dropping(t)
    BY <1>1, <2>3 DEF Dropping
  <2>4. CASE Releasing(t)
    BY <2>4 DEF Releasing
  <2>5. CASE Keeping(t) \/ Finding(t) \/ Taking(t)
    BY <2>5 DEF Keeping, Finding, Taking
  <2> QED
    BY <2>1, <2>2, <2>3, <2>4, <2>5
<1>3. ASSUME NEW s \in Names, Stop(s)
      PROVE  link'[c].server = link[c].server
  <2>1. CASE link[c].server = s
    <3>1. link[c] \in Link
      BY DEF IInv, Shapes
    <3>2. link'[c] = [link[c] EXCEPT !.alive = FALSE]
      BY <1>3, <2>1 DEF Stop
    <3> QED
      BY <3>1, <3>2 DEF Link
  <2>2. CASE link[c].server # s
    BY <1>3, <2>2 DEF Stop
  <2> QED
    BY <2>1, <2>2
<1>4. Tick \/ (\E s \in Names : Start(s)) \/ UNCHANGED vars => link' = link
  BY DEF Tick, Start, vars
<1> QED
  BY <1>2, <1>3, <1>4 DEF Next

\* Only Connect opens connections, to a server of the pool the thread looks in.
LEMMA OpenedServer ==
  ASSUME TInv, NEW t \in Thread, Run(t) \/ \E p \in Pool : Call(t, p), Opening(t)
  PROVE  \E c \in Conn :
           /\ link[c] = None /\ link'[c].server \in Named(th[t].from)
           /\ Becomes(t, "ping", th[t].home, th[t].from, c)
<1>1. th[t].pc = "connect"
  BY DEF Opening
<1>2. Connect(t)
  BY <1>1 DEF Run, GrabPooled, Index, Ping, Return, set_bad, FallBack, NoConnection, Execute,
     Call, Statement, verify_queue_agent, get_queue_info, get_queue_list, last_cvsid,
     last_msgid, get_msg, save_conversation_score, save_conversation_info, save_msg,
     load_allims, load_ims
<1>3. PICK c \in Conn, l \in Link :
        /\ link[c] = None
        /\ link' = [link EXCEPT ![c] = l]
        /\ Becomes(t, "ping", th[t].home, th[t].from, c)
  BY DEF Opening
<1> DEFINE p == th[t].from
           i == th[t].index + 1
           name == m_db_svrs[p][i].name
<1>4. p \in Pool /\ i \in 1 .. Servers(p) /\ DOMAIN link = Conn
  BY <1>1, TriedServer DEF TInv, IInv, Shapes
<1>5. name \in Named(p)
  BY <1>4 DEF Named
<1>6. link'[c] = l /\ l # None
  BY <1>3, <1>4, NoneApart DEF Link
<1>7. \E b \in Conn : link' = [link EXCEPT ![b] = [server |-> name, alive |-> TRUE]]
  <2>1. link' # link
    BY <1>3, <1>6
  <2> QED
    BY <1>2, <2>1 DEF Connect
<1> HIDE DEF p, i, name
<1>8. PICK b \in Conn : link' = [link EXCEPT ![b] = [server |-> name, alive |-> TRUE]]
  BY <1>7
<1>9. b = c
  BY <1>3, <1>4, <1>6, <1>8
<1>10. link'[c].server = name
  BY <1>4, <1>8, <1>9
<1> QED
  BY <1>3, <1>5, <1>10 DEF p

\* What taking leaves in the pools was there.
LEMMA TakingLeaves ==
  ASSUME IInv, NEW t \in Thread, Taking(t)
  PROVE  /\ Len(m_conn_queue[th[t].from]) \in DOMAIN m_conn_queue[th[t].from]
         /\ \A o \in Pool : \A i \in DOMAIN m_conn_queue'[o] :
              i \in DOMAIN m_conn_queue[o] /\ m_conn_queue'[o][i] = m_conn_queue[o][i]
<1> DEFINE p == th[t].from
           q == m_conn_queue[p]
           n == Len(q)
<1>1. /\ p \in Pool /\ q \in Seq(Element) /\ n \in Nat /\ n > 1 /\ DOMAIN q = 1 .. n
      /\ n \in DOMAIN q
  BY QueueAt, SMT DEF Taking, Pooled, IInv
<1>2. m_conn_queue' = [m_conn_queue EXCEPT ![p] = SubSeq(q, 1, n - 1)]
  BY DEF Taking, Taken
<1>3. /\ DOMAIN SubSeq(q, 1, n - 1) = 1 .. n - 1
      /\ \A i \in 1 .. n - 1 : SubSeq(q, 1, n - 1)[i] = q[i]
  <2>1. \A i \in 1 .. n - 1 : q[i] \in Element
    BY <1>1, QueueAt DEF IInv
  <2>2. /\ SubSeq(q, 1, n - 1) \in Seq(Element) /\ Len(SubSeq(q, 1, n - 1)) = n - 1
        /\ \A i \in 1 .. n - 1 - 1 + 1 : SubSeq(q, 1, n - 1)[i] = q[1 + i - 1]
    <3> HIDE DEF q, n
    <3> QED
      BY <1>1, <2>1, SubSeqProperties, SMT
  <2>3. DOMAIN SubSeq(q, 1, n - 1) = 1 .. n - 1
    BY <2>2, LenProperties
  <2> QED
    BY <1>1, <2>2, <2>3, SMT
<1>4. /\ m_conn_queue'[p] = SubSeq(q, 1, n - 1)
      /\ \A o \in Pool \ {p} : m_conn_queue'[o] = m_conn_queue[o]
  BY <1>1, <1>2 DEF IInv, Shapes
<1>5. q = m_conn_queue[p] /\ n = Len(q) /\ p = th[t].from
  OBVIOUS
<1> HIDE DEF n, q, p
<1>6. \A o \in Pool : \A i \in DOMAIN m_conn_queue'[o] :
        i \in DOMAIN m_conn_queue[o] /\ m_conn_queue'[o][i] = m_conn_queue[o][i]
  <2> SUFFICES ASSUME NEW o \in Pool, NEW i \in DOMAIN m_conn_queue'[o]
               PROVE  i \in DOMAIN m_conn_queue[o] /\ m_conn_queue'[o][i] = m_conn_queue[o][i]
    OBVIOUS
  <2>1. CASE o = p
    <3>1. i \in 1 .. n - 1
      BY <1>3, <1>4, <2>1
    <3>2. i \in 1 .. n
      BY <1>1, <3>1
    <3> QED
      BY <1>1, <1>3, <1>4, <1>5, <2>1, <3>1, <3>2
  <2>2. CASE o # p
    BY <1>4, <2>2
  <2> QED
    BY <2>1, <2>2
<1>7. n \in DOMAIN q
  BY <1>1
<1> QED
  BY <1>5, <1>6, <1>7, Zenon

\* What releasing leaves was there, in the same order, or is what is released.
LEMMA ReleasingLeaves ==
  ASSUME IInv, NEW t \in Thread, Releasing(t)
  PROVE  /\ \A o \in Pool \ {th[t].home} : m_conn_queue'[o] = m_conn_queue[o]
         /\ \E d \in 0 .. Len(m_conn_queue[th[t].home]) :
              \E m \in Nat :
                /\ m = Len(m_conn_queue[th[t].home]) - d
                /\ Rest(m_conn_queue[th[t].home]) \in Seq(Element)
                /\ DOMAIN Rest(m_conn_queue[th[t].home]) = 1 .. m
                /\ \A i \in 1 .. m :
                     /\ i + d \in DOMAIN m_conn_queue[th[t].home]
                     /\ Rest(m_conn_queue[th[t].home])[i] = m_conn_queue[th[t].home][i + d]
                     /\ m_conn_queue'[th[t].home][i] = Rest(m_conn_queue[th[t].home])[i]
                /\ Len(m_conn_queue'[th[t].home]) = m + 1
                /\ DOMAIN m_conn_queue'[th[t].home] = 1 .. m + 1
                /\ m_conn_queue'[th[t].home][m + 1] = [conn |-> th[t].conn, last_used |-> now]
<1> DEFINE p == th[t].home
           q == m_conn_queue[p]
           new == [conn |-> th[t].conn, last_used |-> now]
           r == Rest(q)
<1>1. /\ p \in Pool /\ q \in Seq(Element) /\ Len(q) \in Nat /\ DOMAIN q = 1 .. Len(q)
      /\ now \in Nat /\ new \in Element
  BY QueueAt DEF Releasing, IInv, Shapes, Element
<1>2. m_conn_queue' = [m_conn_queue EXCEPT ![p] = Append(r, new)]
  BY DEF Releasing, Released
<1>3. PICK d \in 0 .. Len(q) :
        /\ r \in Seq(Element)
        /\ Len(r) = Len(q) - d
        /\ \A i \in 1 .. Len(q) - d : r[i] = q[i + d]
  BY <1>1, RestIsTail
<1> DEFINE m == Len(q) - d
           s == Append(r, new)
<1>4. /\ m \in Nat /\ DOMAIN r = 1 .. m
      /\ \A i \in 1 .. m : r[i] = q[i + d] /\ i + d \in DOMAIN q
  <2>1. m \in Nat /\ \A i \in 1 .. m : i + d \in 1 .. Len(q)
    <3>1. PICK l \in Nat : l = Len(q) /\ d \in 0 .. l /\ m = l - d
      BY <1>1
    <3> HIDE DEF q, m
    <3>2. l - d \in Nat /\ \A i \in 1 .. l - d : i + d \in 1 .. l
      BY <3>1, SMT
    <3> QED
      BY <3>1, <3>2
  <2>2. DOMAIN r = 1 .. m
    BY <1>3, LenProperties
  <2> QED
    BY <1>1, <1>3, <2>1, <2>2
<1>5. /\ s \in Seq(Element) /\ DOMAIN s = 1 .. m + 1 /\ s[m + 1] = new
      /\ \A i \in 1 .. m : s[i] = r[i]
  <2>1. r \in Seq(Element) /\ new \in Element /\ Len(r) = m /\ m \in Nat
    BY <1>1, <1>3, <1>4
  <2> HIDE DEF r, new, m
  <2> QED
    BY <2>1, AppendIs
<1>6. Len(s) = m + 1
  <2>1. r \in Seq(Element) /\ new \in Element /\ Len(r) = m /\ m \in Nat
    BY <1>1, <1>3, <1>4
  <2> HIDE DEF r, new, m
  <2> QED
    BY <2>1, AppendProperties
<1>7. /\ m_conn_queue'[p] = s
      /\ \A o \in Pool \ {p} : m_conn_queue'[o] = m_conn_queue[o]
  BY <1>1, <1>2 DEF IInv, Shapes
<1>8. m = Len(q) - d /\ r = Rest(q) /\ q = m_conn_queue[p] /\ p = th[t].home
      /\ new = [conn |-> th[t].conn, last_used |-> now]
  OBVIOUS
<1> HIDE DEF s, new, r, m, q, p
<1>9. /\ m = Len(q) - d /\ r \in Seq(Element) /\ DOMAIN r = 1 .. m
      /\ \A i \in 1 .. m : /\ i + d \in DOMAIN q
                           /\ r[i] = q[i + d]
                           /\ m_conn_queue'[p][i] = r[i]
      /\ Len(m_conn_queue'[p]) = m + 1
      /\ DOMAIN m_conn_queue'[p] = 1 .. m + 1
      /\ m_conn_queue'[p][m + 1] = new
  <2>1. \A i \in 1 .. m : /\ i + d \in DOMAIN q
                          /\ r[i] = q[i + d]
                          /\ m_conn_queue'[p][i] = r[i]
    BY <1>4, <1>5, <1>7, Zenon
  <2>2. Len(m_conn_queue'[p]) = m + 1 /\ DOMAIN m_conn_queue'[p] = 1 .. m + 1
    BY <1>5, <1>6, <1>7, Zenon
  <2>3. m_conn_queue'[p][m + 1] = new
    BY <1>5, <1>7, Zenon
  <2> QED
    BY <1>3, <1>4, <1>8, <2>1, <2>2, <2>3, Zenon
<1>10. m \in Nat /\ \A o \in Pool \ {p} : m_conn_queue'[o] = m_conn_queue[o]
  BY <1>4, <1>7, Zenon
<1> USE DEF p, q, r, new
<1> QED
  BY <1>3, <1>9, <1>10, Zenon

\* Connections of writers come from the pool for writing, or are new.
LEMMA WritersKeep ==
  ASSUME TInv, NEW t \in Thread,
         Keeping(t) \/ Finding(t) \/ Taking(t) \/ Dropping(t) \/ Releasing(t),
         NEW c \in Conn, OfWriters(c)'
  PROVE  OfWriters(c)
<1>0. IInv /\ "write" \in Pool /\ c # None
  BY NoneApart DEF TInv, Pool
<1>1. CASE Keeping(t) \/ Finding(t) \/ Dropping(t)
  <2>1. m_conn_queue' = m_conn_queue
    BY <1>1 DEF Keeping, Finding, Dropping
  <2>2. \A s \in Thread : th'[s].conn = c => th[s].conn = c /\ th'[s].from = th[s].from
    <3>1. CASE Keeping(t)
      <4>1. PICK pc, home, from : /\ Becomes(t, pc, home, from, th[t].conn)
                                  /\ th[t].conn # None => from = th[t].from
        BY <3>1 DEF Keeping
      <4> QED
        BY <1>0, <4>1 DEF Becomes, IsAt
    <3>2. CASE Finding(t) \/ Dropping(t)
      <4>1. PICK pc : Becomes(t, pc, th[t].home, th[t].from, None)
        BY <3>2 DEF Finding, Dropping
      <4> QED
        BY <1>0, <4>1 DEF Becomes, IsAt
    <3> QED
      BY <1>1, <3>1, <3>2
  <2> QED
    BY <2>1, <2>2 DEF OfWriters
<1>2. CASE Taking(t)
  <2> DEFINE p == th[t].from
             b == m_conn_queue[p][Len(m_conn_queue[p])].conn
  <2>1. /\ Len(m_conn_queue[p]) \in DOMAIN m_conn_queue[p]
        /\ \A o \in Pool : \A i \in DOMAIN m_conn_queue'[o] :
             i \in DOMAIN m_conn_queue[o] /\ m_conn_queue'[o][i] = m_conn_queue[o][i]
    BY <1>0, <1>2, TakingLeaves
  <2>2. /\ th'[t].conn = b /\ th'[t].from = p
        /\ \A s \in Thread \ {t} : th'[s] = th[s]
    BY <1>2 DEF Taking, Becomes, IsAt
  <2>3. CASE \E s \in Thread : th'[s].conn = c /\ th'[s].from = "write"
    <3>1. PICK s \in Thread : th'[s].conn = c /\ th'[s].from = "write"
      BY <2>3
    <3>2. CASE s = t
      BY <2>1, <2>2, <3>1, <3>2 DEF OfWriters
    <3> QED
      BY <2>2, <3>1, <3>2 DEF OfWriters
  <2>4. CASE \E i \in DOMAIN m_conn_queue'["write"] : m_conn_queue'["write"][i].conn = c
    BY <1>0, <2>1, <2>4 DEF OfWriters
  <2> QED
    BY <2>3, <2>4 DEF OfWriters
<1>3. CASE Releasing(t)
  <2>1. /\ th'[t].conn = None
        /\ \A s \in Thread \ {t} : th'[s] = th[s]
    BY <1>3 DEF Releasing, Becomes, IsAt
  <2>2. CASE \E s \in Thread : th'[s].conn = c /\ th'[s].from = "write"
    BY <1>0, <2>1, <2>2 DEF OfWriters
  <2>3. CASE \E i \in DOMAIN m_conn_queue'["write"] : m_conn_queue'["write"][i].conn = c
    <3>1. PICK i \in DOMAIN m_conn_queue'["write"] : m_conn_queue'["write"][i].conn = c
      BY <2>3
    <3>2. CASE th[t].home # "write"
      <4>1. m_conn_queue'["write"] = m_conn_queue["write"]
        BY <1>0, <1>3, <3>2, ReleasingLeaves
      <4> QED
        BY <3>1, <4>1 DEF OfWriters
    <3>3. CASE th[t].home = "write"
      <4>1. th[t].from = "write"
        BY <1>3, <3>3, AliveAt DEF Releasing, Alone, OwnPool
      <4>2. PICK d \in 0 .. Len(m_conn_queue[th[t].home]), m \in Nat :
              /\ \A k \in 1 .. m :
                   /\ k + d \in DOMAIN m_conn_queue["write"]
                   /\ m_conn_queue'["write"][k] = m_conn_queue["write"][k + d]
              /\ DOMAIN m_conn_queue'["write"] = 1 .. m + 1
              /\ m_conn_queue'["write"][m + 1] = [conn |-> th[t].conn, last_used |-> now]
        <5>1. PICK d \in 0 .. Len(m_conn_queue[th[t].home]), m \in Nat :
                /\ \A k \in 1 .. m :
                     /\ k + d \in DOMAIN m_conn_queue[th[t].home]
                     /\ Rest(m_conn_queue[th[t].home])[k] = m_conn_queue[th[t].home][k + d]
                     /\ m_conn_queue'[th[t].home][k] = Rest(m_conn_queue[th[t].home])[k]
                /\ DOMAIN m_conn_queue'[th[t].home] = 1 .. m + 1
                /\ m_conn_queue'[th[t].home][m + 1] = [conn |-> th[t].conn, last_used |-> now]
          BY <1>0, <1>3, ReleasingLeaves, Zenon
        <5>2. /\ \A k \in 1 .. m :
                   /\ k + d \in DOMAIN m_conn_queue["write"]
                   /\ m_conn_queue'["write"][k] = m_conn_queue["write"][k + d]
              /\ DOMAIN m_conn_queue'["write"] = 1 .. m + 1
              /\ m_conn_queue'["write"][m + 1] = [conn |-> th[t].conn, last_used |-> now]
          BY <3>3, <5>1
        <5> QED
          BY <5>2, Zenon
      <4>3. CASE i = m + 1
        BY <3>1, <4>1, <4>2, <4>3 DEF OfWriters
      <4>4. CASE i \in 1 .. m
        BY <3>1, <4>2, <4>4 DEF OfWriters
      <4> QED
        BY <4>2, <4>3, <4>4
    <3> QED
      BY <3>2, <3>3
  <2> QED
    BY <2>2, <2>3 DEF OfWriters
<1> QED
  BY <1>1, <1>2, <1>3

\* What writers have or could take is open.
LEMMA WritersOpen ==
  ASSUME IInv, NEW c \in Conn, OfWriters(c)
  PROVE  link[c] # None
BY DEF IInv, Owned, IsHeld, IsPooled, OfWriters, Pool

LEMMA InitWInv == Init => WInv
<1> SUFFICES ASSUME Init PROVE WInv
  OBVIOUS
<1>1. TInv
  BY InitTInv
<1>2. ASSUME NEW c \in Conn PROVE ~OfWriters(c)
  <2>1. link[c] = None
    BY DEF Init
  <2> QED
    BY <1>1, <2>1, WritersOpen DEF TInv
<1> QED
  BY <1>1, <1>2 DEF WInv

LEMMA StepWInv == WInv /\ [Next]_vars => WInv'
<1> SUFFICES ASSUME WInv, [Next]_vars PROVE WInv'
  OBVIOUS
<1>0. TInv /\ TInv' /\ IInv /\ IInv'
  BY StepTInv DEF WInv, TInv
<1> SUFFICES ASSUME NEW c \in Conn, OfWriters(c)' PROVE link'[c].server \in Named("write")
  BY <1>0 DEF WInv
<1>1. link'[c] # None
  BY <1>0 DEF IInv, Owned, IsHeld, IsPooled, OfWriters, Pool
<1>2. OfWriters(c) => link'[c].server \in Named("write")
  <2>1. OfWriters(c) => link[c] # None /\ link[c].server \in Named("write")
    BY <1>0, WritersOpen DEF WInv
  <2> QED
    BY <1>0, <1>1, <2>1, LinksStay
<1>3. ASSUME NEW t \in Thread, Run(t) \/ \E p \in Pool : Call(t, p)
      PROVE  link'[c].server \in Named("write")
  <2>1. \/ Keeping(t) \/ Finding(t) \/ Taking(t) \/ Opening(t) \/ Dropping(t)
        \/ Releasing(t)
    BY <1>0, <1>3, GrabPooledIs, ConnectIs, PingIs, ReturnIs, OtherIs DEF Run, IInv
  <2>2. CASE Opening(t)
    <3>1. PICK b \in Conn :
            /\ link[b] = None /\ link'[b].server \in Named(th[t].from)
            /\ Becomes(t, "ping", th[t].home, th[t].from, b)
      BY <1>0, <1>3, <2>2, OpenedServer
    <3>2. /\ th'[t].conn = b /\ th'[t].from = th[t].from
          /\ \A s \in Thread \ {t} : th'[s] = th[s]
          /\ m_conn_queue' = m_conn_queue
      BY <2>2, <3>1 DEF Opening, Becomes, IsAt
    <3>3. OfWriters(c) \/ (b = c /\ th[t].from = "write")
      BY <3>2 DEF OfWriters
    <3> QED
      BY <1>2, <3>1, <3>3
  <2> QED
    BY <1>0, <1>2, <2>1, <2>2, WritersKeep
<1>4. Tick \/ (\E s \in Names : Stop(s) \/ Start(s)) \/ UNCHANGED vars
        => UNCHANGED <<m_conn_queue, th>>
  BY DEF Tick, Stop, Start, vars
<1>5. UNCHANGED <<m_conn_queue, th>> => OfWriters(c)
  BY DEF OfWriters
<1> QED
  BY <1>2, <1>3, <1>4, <1>5 DEF Next

\* Readers take connections from the pool for writing when theirs gives none, and release
\* them to their own; nothing goes the other way: what a writer has leads to a server of
\* mysql.server1, whichever threads had it before (SCOPED_CONN_READ, CSMySqlConnMgr.h:186;
\* ScopedConnection, :100).
THEOREM WritersReachWriteServers == Spec => []WritersWrite
<1>1. Spec => []WInv
  BY InitWInv, StepWInv, PTL DEF Spec
<1>2. WInv => WritersWrite
  <2> SUFFICES ASSUME WInv, NEW t \in Thread, Holding(t), th[t].home = "write"
               PROVE  \E i \in 1 .. Servers("write") :
                        link[th[t].conn] # None /\ link[th[t].conn].server = m_db_svrs["write"][i].name
    BY DEF WritersWrite
  <2>1. TInv /\ IInv
    BY DEF WInv, TInv
  <2>2. th[t].conn \in Conn /\ th[t].pc # "idle"
    BY <2>1, AliveAt DEF Holding, Fits
  <2>3. th[t].from = "write"
    BY <2>1, <2>2, AliveAt DEF Alone, OwnPool
  <2>4. OfWriters(th[t].conn)
    BY <2>3 DEF OfWriters
  <2>5. link[th[t].conn] # None /\ link[th[t].conn].server \in Named("write")
    BY <2>1, <2>2, <2>4, WritersOpen DEF WInv
  <2> QED
    BY <2>5 DEF Named
<1> QED
  BY <1>1, <1>2, PTL

-----------------------------------------------------------------------------
(* How old the connections of a pool are.                                  *)

\* Oldest first, and none from the future.
Aged(q) ==
  /\ \A i \in DOMAIN q : q[i].last_used <= now
  /\ \A i, j \in DOMAIN q : i <= j => q[i].last_used <= q[j].last_used

AInv == IInv /\ \A p \in Pool : Aged(m_conn_queue[p])

\* Who was used later is no older.
LEMMA NoOlder ==
  ASSUME now \in Nat, CONN_IDLE_TIME \in Nat, NEW a \in Nat, NEW b \in Nat, a <= b,
         now - a <= CONN_IDLE_TIME
  PROVE  now - b <= CONN_IDLE_TIME
BY SMT

\* What release leaves has been used lately, if the oldest come first.
LEMMA RestIsYoung ==
  ASSUME NEW q \in Seq(Element), now \in Nat, Aged(q), NEW i \in DOMAIN Rest(q)
  PROVE  now - Rest(q)[i].last_used <= CONN_IDLE_TIME
<1> DEFINE young == {j \in DOMAIN q : now - q[j].last_used <= CONN_IDLE_TIME}
           first == CHOOSE k \in young : \A j \in young : k <= j
<1>1. DOMAIN q = 1 .. Len(q) /\ Len(q) \in Nat /\ \A j \in DOMAIN q : q[j] \in Element
  BY LenProperties, ElementOfSeq
<1>2. young # {}
  <2>1. young = {} => Rest(q) = <<>>
    BY DEF Rest
  <2>2. DOMAIN (<<>>) = {}
    OBVIOUS
  <2> HIDE DEF young
  <2> QED
    BY <2>1, <2>2
<1>3. first \in young
  <2>1. young \subseteq Nat
    BY <1>1, SMT
  <2> QED
    BY <1>2, <2>1, LeastNat
<1>4. first \in DOMAIN q /\ now - q[first].last_used <= CONN_IDLE_TIME
  BY <1>3
<1>5. Rest(q) = SubSeq(q, first, Len(q))
  BY <1>2 DEF Rest
<1> HIDE DEF young, first
<1>6. /\ Len(SubSeq(q, first, Len(q))) = Len(q) - first + 1
      /\ SubSeq(q, first, Len(q)) \in Seq(Element)
      /\ \A k \in 1 .. Len(q) - first + 1 : SubSeq(q, first, Len(q))[k] = q[first + k - 1]
  BY <1>1, <1>4, SubSeqProperties, SMT
<1>7. i \in 1 .. Len(q) - first + 1 /\ Rest(q)[i] = q[first + i - 1]
  <2>1. DOMAIN Rest(q) = 1 .. Len(Rest(q))
    BY <1>5, <1>6, LenProperties
  <2> QED
    BY <1>5, <1>6, <2>1
<1> DEFINE k == first + i - 1
<1>8. k \in DOMAIN q /\ first <= k
  BY <1>1, <1>4, <1>7
<1>9. q[first].last_used <= q[k].last_used
  <2> HIDE DEF k
  <2> QED
    BY <1>4, <1>8 DEF Aged
<1>10. q[first].last_used \in Nat /\ q[k].last_used \in Nat
  BY <1>1, <1>4, <1>8 DEF Element
<1>11. Rest(q)[i].last_used = q[k].last_used
  BY <1>7
<1> HIDE DEF k
<1>12. now - q[k].last_used <= CONN_IDLE_TIME
  BY <1>4, <1>9, <1>10, PoolAssumption, NoOlder
<1> QED
  BY <1>11, <1>12, Zenon

LEMMA TakingAInv ==
  ASSUME AInv, NEW t \in Thread, Taking(t), NEW p \in Pool
  PROVE  Aged(m_conn_queue[p])'
<1>1. /\ now' = now
      /\ \A i \in DOMAIN m_conn_queue'[p] :
           i \in DOMAIN m_conn_queue[p] /\ m_conn_queue'[p][i] = m_conn_queue[p][i]
  BY TakingLeaves DEF AInv, Taking
<1>2. Aged(m_conn_queue[p])
  BY DEF AInv
<1> QED
  BY <1>1, <1>2 DEF Aged

\* The pool a connection is released to.
LEMMA ReleasedAged ==
  ASSUME AInv, NEW t \in Thread, Releasing(t), NEW p \in Pool, p = th[t].home
  PROVE  /\ Aged(m_conn_queue[p])'
         /\ \A i \in DOMAIN m_conn_queue'[p] :
              now - m_conn_queue'[p][i].last_used <= CONN_IDLE_TIME
<1> DEFINE q == m_conn_queue[p]
           r == Rest(q)
           n == m_conn_queue'[p]
<1>1. /\ q \in Seq(Element) /\ now \in Nat /\ Aged(q) /\ now' = now
      /\ \A i \in DOMAIN q : q[i].last_used \in Nat
  <2>1. \A i \in DOMAIN q : q[i] \in Element
    BY QueueAt DEF AInv, IInv
  <2> QED
    BY <2>1, QueueAt DEF AInv, IInv, Shapes, Releasing, Element
<1>2. PICK d \in 0 .. Len(q), m \in Nat :
        /\ DOMAIN r = 1 .. m
        /\ \A i \in 1 .. m : i + d \in DOMAIN q /\ r[i] = q[i + d] /\ n[i] = r[i]
        /\ DOMAIN n = 1 .. m + 1
        /\ n[m + 1] = [conn |-> th[t].conn, last_used |-> now]
  <2>1. IInv
    BY DEF AInv
  <2> QED
    BY <2>1, ReleasingLeaves, Zenon
<1>3. \A i \in 1 .. m : now - r[i].last_used <= CONN_IDLE_TIME
  <2> HIDE DEF q
  <2> QED
    BY <1>1, <1>2, RestIsYoung
<1>4. n[m + 1].last_used = now
  BY <1>2
<1> HIDE DEF q, r, n
<1>5. \A i \in 1 .. m : /\ i + d \in DOMAIN q /\ n[i].last_used = q[i + d].last_used
                        /\ n[i].last_used \in Nat
                        /\ now - n[i].last_used <= CONN_IDLE_TIME
  BY <1>1, <1>2, <1>3
<1>6. \A i \in DOMAIN n : i \in 1 .. m \/ i = m + 1
  BY <1>2
<1>7. d \in Int /\ \A i \in DOMAIN q : i \in Int
  <2>1. DOMAIN q = 1 .. Len(q) /\ Len(q) \in Nat
    BY <1>1, LenProperties
  <2> QED
    BY <2>1
<1>8. \A i \in DOMAIN n : n[i].last_used <= now /\ now - n[i].last_used <= CONN_IDLE_TIME
  <2>1. now <= now /\ now - now <= CONN_IDLE_TIME
    BY <1>1, PoolAssumption
  <2>2. \A i \in 1 .. m : n[i].last_used <= now
    BY <1>1, <1>5 DEF Aged
  <2> QED
    BY <1>4, <1>5, <1>6, <2>1, <2>2
<1>9. ASSUME NEW i \in DOMAIN n, NEW j \in DOMAIN n, i <= j
      PROVE  n[i].last_used <= n[j].last_used
  <2>1. CASE j = m + 1
    BY <1>4, <1>8, <2>1
  <2>2. CASE j # m + 1
    <3>1. i \in 1 .. m /\ j \in 1 .. m
      BY <1>2, <1>6, <1>9, <2>2
    <3>2. i + d \in DOMAIN q /\ j + d \in DOMAIN q /\ i + d <= j + d
      BY <1>5, <1>7, <1>9, <3>1
    <3>3. q[i + d].last_used <= q[j + d].last_used
      BY <1>1, <3>2 DEF Aged
    <3> QED
      BY <1>5, <3>1, <3>3
  <2> QED
    BY <2>1, <2>2
<1>10. \A i, j \in DOMAIN n : i <= j => n[i].last_used <= n[j].last_used
  BY <1>9
<1> QED
  BY <1>1, <1>8, <1>10 DEF n, Aged

LEMMA InitAInv == Init => AInv
<1> SUFFICES ASSUME Init PROVE AInv
  OBVIOUS
<1>1. \A p \in Pool : DOMAIN m_conn_queue[p] = {}
  BY DEF Init
<1> QED
  BY <1>1, InitIInv DEF AInv, Aged

\* The queues of a step of a thread.
LEMMA QueuesThen ==
  ASSUME AInv, NEW t \in Thread, Run(t) \/ \E p \in Pool : Call(t, p), NEW o \in Pool
  PROVE  /\ now' = now
         /\ Aged(m_conn_queue[o])'
         /\ \/ m_conn_queue'[o] = m_conn_queue[o]
            \/ \A i \in DOMAIN m_conn_queue'[o] :
                 i \in DOMAIN m_conn_queue[o] /\ m_conn_queue'[o][i] = m_conn_queue[o][i]
            \/ \A i \in DOMAIN m_conn_queue'[o] :
                 now - m_conn_queue'[o][i].last_used <= CONN_IDLE_TIME
<1>1. IInv /\ Aged(m_conn_queue[o])
  BY DEF AInv
<1>2. \/ Keeping(t) \/ Finding(t) \/ Taking(t) \/ Opening(t) \/ Dropping(t)
      \/ Releasing(t)
  BY <1>1, GrabPooledIs, ConnectIs, PingIs, ReturnIs, OtherIs DEF Run, IInv
<1>3. now' = now
  BY <1>2 DEF Keeping, Finding, Taking, Opening, Dropping, Releasing
<1>4. m_conn_queue'[o] = m_conn_queue[o] => Aged(m_conn_queue[o])'
  BY <1>1, <1>3 DEF Aged
<1>5. CASE Keeping(t) \/ Finding(t) \/ Opening(t) \/ Dropping(t)
  <2>1. m_conn_queue' = m_conn_queue
    BY <1>5 DEF Keeping, Finding, Opening, Dropping
  <2> QED
    BY <1>3, <1>4, <2>1
<1>6. CASE Taking(t)
  <2>1. \A i \in DOMAIN m_conn_queue'[o] :
          i \in DOMAIN m_conn_queue[o] /\ m_conn_queue'[o][i] = m_conn_queue[o][i]
    BY <1>1, <1>6, TakingLeaves
  <2>2. Aged(m_conn_queue[o])'
    BY <1>6, TakingAInv
  <2> QED
    BY <1>3, <2>1, <2>2
<1>7. CASE Releasing(t)
  <2>1. CASE o = th[t].home
    <3>1. /\ Aged(m_conn_queue[o])'
          /\ \A i \in DOMAIN m_conn_queue'[o] :
               now - m_conn_queue'[o][i].last_used <= CONN_IDLE_TIME
      BY <1>7, <2>1, ReleasedAged
    <3> QED
      BY <1>3, <3>1
  <2>2. CASE o # th[t].home
    BY <1>1, <1>3, <1>4, <1>7, <2>2, ReleasingLeaves
  <2> QED
    BY <2>1, <2>2
<1> QED
  BY <1>2, <1>5, <1>6, <1>7

LEMMA StepAInv == AInv /\ [Next]_vars => AInv'
<1> SUFFICES ASSUME AInv, [Next]_vars PROVE AInv'
  OBVIOUS
<1>1. IInv'
  BY StepIInv DEF AInv
<1>2. ASSUME NEW t \in Thread, Run(t) \/ \E p \in Pool : Call(t, p)
      PROVE  AInv'
  BY <1>1, <1>2, QueuesThen DEF AInv
<1>3. CASE Tick \/ (\E s \in Names : Stop(s) \/ Start(s)) \/ UNCHANGED vars
  <2>1. m_conn_queue' = m_conn_queue /\ now \in Nat /\ (now' = now \/ now' = now + 1)
    BY <1>3 DEF Tick, Stop, Start, vars, AInv, IInv, Shapes
  <2> SUFFICES ASSUME NEW p \in Pool PROVE Aged(m_conn_queue[p])'
    BY <1>1 DEF AInv
  <2>2. Aged(m_conn_queue[p]) /\ \A i \in DOMAIN m_conn_queue[p] : m_conn_queue[p][i] \in Element
    BY QueueAt DEF AInv, IInv
  <2>3. \A i \in DOMAIN m_conn_queue[p] : m_conn_queue[p][i].last_used <= now'
    <3>1. \A i \in DOMAIN m_conn_queue[p] : m_conn_queue[p][i].last_used \in Nat
      BY <2>2 DEF Element
    <3> QED
      BY <2>1, <2>2, <3>1 DEF Aged
  <2> QED
    BY <2>1, <2>2, <2>3 DEF Aged
<1> QED
  BY <1>2, <1>3 DEF Next

\* release looks at the front of the queue only and stops at the first connection used
\* lately, while grab takes from the back and the clock goes on: all the same it leaves
\* none that has not been used for CONN_IDLE_TIME, since the oldest come first
\* (MysqlConnPool::release, CSMySqlConnMgr.cpp:177).
THEOREM ReleaseLeavesNoneOld == Spec => ReleasePrunes
<1> DEFINE Prunes(p) ==
      Len(m_conn_queue'[p]) > 0 /\ m_conn_queue'[p] # m_conn_queue[p]
        /\ m_conn_queue'[p][Len(m_conn_queue'[p])] \notin
             {m_conn_queue[p][i] : i \in DOMAIN m_conn_queue[p]}
       => \A i \in DOMAIN m_conn_queue'[p] :
            now - m_conn_queue'[p][i].last_used <= CONN_IDLE_TIME
<1>1. AInv /\ [Next]_vars => \A p \in Pool : Prunes(p)
  <2> SUFFICES ASSUME AInv, [Next]_vars, NEW o \in Pool PROVE Prunes(o)
    OBVIOUS
  <2>1. ASSUME NEW t \in Thread, Run(t) \/ \E p \in Pool : Call(t, p)
        PROVE  Prunes(o)
    <3> SUFFICES ASSUME Len(m_conn_queue'[o]) > 0,
                        m_conn_queue'[o] # m_conn_queue[o],
                        m_conn_queue'[o][Len(m_conn_queue'[o])] \notin
                          {m_conn_queue[o][i] : i \in DOMAIN m_conn_queue[o]}
                 PROVE  \A i \in DOMAIN m_conn_queue'[o] :
                          now - m_conn_queue'[o][i].last_used <= CONN_IDLE_TIME
      OBVIOUS
    <3>1. Len(m_conn_queue'[o]) \in DOMAIN m_conn_queue'[o]
      <4>1. m_conn_queue'[o] \in Seq(Element)
        BY StepIInv DEF AInv, IInv, Shapes
      <4> QED
        BY <4>1, LenProperties
    <3>2. \/ \A i \in DOMAIN m_conn_queue'[o] :
               i \in DOMAIN m_conn_queue[o] /\ m_conn_queue'[o][i] = m_conn_queue[o][i]
          \/ \A i \in DOMAIN m_conn_queue'[o] :
               now - m_conn_queue'[o][i].last_used <= CONN_IDLE_TIME
      BY <2>1, QueuesThen
    <3> QED
      BY <3>1, <3>2, Zenon
  <2>2. Tick \/ (\E s \in Names : Stop(s) \/ Start(s)) \/ UNCHANGED vars
          => m_conn_queue' = m_conn_queue
    BY DEF Tick, Stop, Start, vars
  <2> QED
    BY <2>1, <2>2 DEF Next
<1>2. Spec => []AInv
  BY InitAInv, StepAInv, PTL DEF Spec
<1>3. AInv /\ [Next]_vars => [\A p \in Pool : Prunes(p)]_vars
  BY <1>1
<1> QED
  BY <1>2, <1>3, PTL DEF Spec, ReleasePrunes

=============================================================================
