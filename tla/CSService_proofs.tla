-------------------------- MODULE CSService_proofs --------------------------
(***************************************************************************)
(* What holds of the threads of CustomService for any number of threads,   *)
(* clients, queues and IM servers, whatever fails.                         *)
(***************************************************************************)
EXTENDS CSService, FiniteSetTheorems, TLAPS

-----------------------------------------------------------------------------
(* Numbers.                                                                *)

\* A finite set of numbers can be put in order.
LEMMA OrderExists ==
  ASSUME NEW S, S \subseteq Nat, IsFiniteSet(S)
  PROVE  \E s \in [1 .. Cardinality(S) -> S] : \A i, j \in DOMAIN s : i < j => s[i] < s[j]
<1> DEFINE n == Cardinality(S)
           below(x) == {y \in S : y < x}
           place == [x \in S |-> Cardinality(below(x)) + 1]
<1>1. n \in Nat
  BY FS_CardinalityType
<1>2. ASSUME NEW x \in S
      PROVE  /\ IsFiniteSet(below(x)) /\ Cardinality(below(x)) \in Nat
             /\ Cardinality(below(x)) < n
  <2>1. /\ IsFiniteSet(S \ {x}) /\ Cardinality(S \ {x}) = n - 1
    BY FS_RemoveElement
  <2>2. below(x) \subseteq S \ {x}
    OBVIOUS
  <2>3. IsFiniteSet(below(x)) /\ Cardinality(below(x)) <= n - 1
    BY <2>1, <2>2, FS_Subset
  <2>4. Cardinality(below(x)) \in Nat
    BY <2>3, FS_CardinalityType
  <2> QED
    BY <1>1, <2>3, <2>4
<1>3. ASSUME NEW x \in S, NEW y \in S, x < y
      PROVE  Cardinality(below(x)) < Cardinality(below(y))
  <2>1. below(x) \subseteq below(y) \ {x} /\ x \in below(y)
    <3>1. x \in Nat /\ y \in Nat
      OBVIOUS
    <3>2. \A z \in S : z \in Nat /\ (z < x => z < y /\ z # x)
      BY <1>3, <3>1
    <3> QED
      BY <1>3, <3>2
  <2>2. /\ IsFiniteSet(below(y) \ {x})
        /\ Cardinality(below(y) \ {x}) = Cardinality(below(y)) - 1
    BY <1>2, <2>1, FS_RemoveElement
  <2>3. /\ Cardinality(below(x)) \in Nat /\ Cardinality(below(y)) \in Nat
    BY <1>2
  <2> HIDE DEF below
  <2>4. Cardinality(below(x)) <= Cardinality(below(y) \ {x})
    BY <2>1, <2>2, FS_Subset
  <2> QED
    BY <2>2, <2>3, <2>4
<1>4. \A x \in S : place[x] = Cardinality(below(x)) + 1
  OBVIOUS
<1>5. DOMAIN place = S /\ place = [x \in S |-> place[x]]
  OBVIOUS
<1> HIDE DEF place, below
<1>6. \A x \in S : place[x] \in 1 .. n
  BY <1>1, <1>2, <1>4
<1>7. \A x, y \in S : x < y => place[x] < place[y]
  BY <1>2, <1>3, <1>4
<1>8. place \in Injection(S, 1 .. n)
  <2>1. place \in [S -> 1 .. n]
    BY <1>5, <1>6
  <2>2. \A x, y \in S : place[x] = place[y] => x = y
    <3> SUFFICES ASSUME NEW x \in S, NEW y \in S, place[x] = place[y] PROVE x = y
      OBVIOUS
    <3>1. ~(x < y) /\ ~(y < x) /\ x \in Nat /\ y \in Nat
      <4>1. place[x] \in Nat /\ place[y] \in Nat
        BY <1>6
      <4> QED
        BY <1>7, <4>1
    <3> QED
      BY <3>1
  <2> QED
    BY <1>5, <2>1, <2>2 DEF Injection, IsInjective
<1>9. place \in Surjection(S, 1 .. n)
  <2>1. IsFiniteSet(1 .. n) /\ Cardinality(1 .. n) = n
    BY <1>1, FS_Interval
  <2> QED
    BY <1>8, <2>1, FS_Injection
<1>10. \A i \in 1 .. n : \E x \in S : place[x] = i
  BY <1>9 DEF Surjection
<1> DEFINE s == [i \in 1 .. n |-> CHOOSE x \in S : place[x] = i]
<1>11. \A i \in 1 .. n : s[i] \in S /\ place[s[i]] = i
  BY <1>10
<1>12. DOMAIN s = 1 .. n /\ s \in [1 .. n -> S]
  BY <1>11
<1> HIDE DEF s, n
<1>13. ASSUME NEW i \in 1 .. n, NEW j \in 1 .. n, i < j PROVE s[i] < s[j]
  <2>1. s[i] \in S /\ s[j] \in S /\ s[i] \in Nat /\ s[j] \in Nat
    BY <1>11
  <2>2. ~(s[j] < s[i])
    <3>1. s[j] < s[i] => place[s[j]] < place[s[i]]
      BY <1>7, <2>1
    <3> QED
      BY <1>11, <1>13, <3>1
  <2>3. s[i] # s[j]
    BY <1>11, <1>13
  <2> QED
    BY <2>1, <2>2, <2>3
<1> QED
  BY <1>12, <1>13 DEF n

-----------------------------------------------------------------------------
\* No thread is None.
LEMMA NoneApart == None \notin Thread
BY ServiceAssumption

\* What a thread is doing is said by four fields.
Fields == th = [t \in Thread |-> [pc |-> th[t].pc, task |-> th[t].task,
                                  todo |-> th[t].todo, cvs |-> th[t].cvs]]

\* A thread that is not idle has a task.
Busy == \A t \in Thread : th[t].pc # "idle" => th[t].task \in Task

Held == mutex \in [Queue -> Thread \cup {None}] /\ tasks \in Seq(Task)

\* Where a thread has the lock of the map, and where it has the mutex of its queue.
MapLocked == {"load", "inserting", "stalled"}
QueueLocked == {"work", "query", "hung"}

\* Who has a lock is where it has it: two threads never hold the same one.
LocksHeld ==
  \A t \in Thread :
    /\ m_pool_mutex = t <=> th[t].pc \in MapLocked
    /\ \A q \in Queue : mutex[q] = t <=> th[t].pc \in QueueLocked /\ QueueOf(t) = q

IInv == Fields /\ Busy /\ Held /\ LocksHeld

\* What t is at changes, and nothing else of the threads.
Moved(t, pc) ==
  /\ Fields'
  /\ th'[t].pc = pc /\ th'[t].task = th[t].task
  /\ \A s \in Thread \ {t} : th'[s] = th[s]

LEMMA GoesMoves ==
  ASSUME Fields, NEW t \in Thread, NEW pc, Goes(t, pc)
  PROVE  Moved(t, pc)
<1> DEFINE r == [th[t] EXCEPT !.pc = pc]
<1>1. th' = [th EXCEPT ![t] = r]
  BY DEF Goes
<1>2. /\ r.pc = pc /\ r.task = th[t].task
      /\ r = [pc |-> r.pc, task |-> r.task, todo |-> r.todo, cvs |-> r.cvs]
  BY DEF Fields
<1> HIDE DEF r
<1>3. th'[t] = r /\ \A s \in Thread \ {t} : th'[s] = th[s]
  BY <1>1 DEF Fields
<1>4. Fields'
  BY <1>1, <1>2 DEF Fields
<1> QED
  BY <1>2, <1>3, <1>4 DEF Moved

LEMMA MoreMoves ==
  ASSUME Fields, NEW t \in Thread, NEW pc, NEW todo, NEW cvs,
         \/ th' = [th EXCEPT ![t].pc = pc, ![t].todo = todo]
         \/ th' = [th EXCEPT ![t].pc = pc, ![t].cvs = cvs]
  PROVE  Moved(t, pc)
BY DEF Fields, Moved

\* A move of a thread from one place to another, neither of which needs a lock.
LEMMA FreeMove ==
  ASSUME IInv, NEW t \in Thread, NEW pc, Moved(t, pc),
         th[t].pc \notin {"idle"} \cup MapLocked \cup QueueLocked,
         pc \notin {"idle"} \cup MapLocked \cup QueueLocked,
         UNCHANGED <<mutex, m_pool_mutex, tasks>>
  PROVE  IInv'
<1>1. Fields' /\ Held'
  BY DEF IInv, Moved, Held
<1>2. Busy'
  BY DEF IInv, Moved, Busy
<1>3. LocksHeld'
  <2> SUFFICES ASSUME NEW s \in Thread
               PROVE  /\ m_pool_mutex' = s <=> th'[s].pc \in MapLocked
                      /\ \A q \in Queue :
                           mutex'[q] = s <=> th'[s].pc \in QueueLocked /\ th'[s].task.queue = q
    BY DEF LocksHeld, QueueOf
  <2>1. CASE s = t
    BY <2>1 DEF MapLocked, QueueLocked, IInv, LocksHeld, QueueOf, Moved
  <2>2. CASE s # t
    BY <2>2 DEF MapLocked, QueueLocked, IInv, LocksHeld, QueueOf, Moved
  <2> QED
    BY <2>1, <2>2
<1> QED
  BY <1>1, <1>2, <1>3 DEF IInv

\* The queue of a thread at work is one of Queue.
LEMMA QueueOfBusy ==
  ASSUME Busy, NEW t \in Thread, th[t].pc # "idle"
  PROVE  QueueOf(t) \in Queue
BY DEF Busy, Task, QueueOf

-----------------------------------------------------------------------------
(* The steps.                                                              *)

LEMMA InitIInv == Init => IInv
<1> SUFFICES ASSUME Init PROVE IInv
  OBVIOUS
<1>1. Fields /\ Busy /\ Held
  BY DEF Init, Fields, Idle, Busy, Held
<1>2. LocksHeld
  BY NoneApart DEF Init, Idle, MapLocked, QueueLocked, LocksHeld
<1> QED
  BY <1>1, <1>2 DEF IInv

LEMMA CrashIInv == IInv /\ Crash => IInv'
BY DEF IInv, Fields, Busy, Held, LocksHeld, QueueOf, Crash

LEMMA processTaskIInv ==
  ASSUME IInv, NEW t \in Thread, processTask(t)
  PROVE  IInv'
<1> PICK pc \in TakenTo : th' = [th EXCEPT ![t] = [Idle EXCEPT !.pc = pc, !.task = Head(tasks)]]
  BY DEF processTask
<1> DEFINE n == [Idle EXCEPT !.pc = pc]
           r == [n EXCEPT !.task = Head(tasks)]
<1>a. r = [pc |-> pc, task |-> Head(tasks), todo |-> <<>>, cvs |-> 0]
  <2>1. n = [pc |-> pc, task |-> None, todo |-> <<>>, cvs |-> 0]
    BY DEF Idle
  <2> HIDE DEF n
  <2> QED
    BY <2>1
<1>b. th' = [th EXCEPT ![t] = r]
  OBVIOUS
<1> HIDE DEF r
<1>c. th'[t] = r /\ \A s \in Thread \ {t} : th'[s] = th[s]
  BY <1>b DEF IInv, Fields
<1>d. Fields'
  <2>1. r = [pc |-> r.pc, task |-> r.task, todo |-> r.todo, cvs |-> r.cvs]
    BY <1>a
  <2>2. Fields
    BY DEF IInv
  <2> QED
    BY <1>b, <2>1, <2>2 DEF Fields
<1>1. /\ th'[t].pc \in {"find", "respond"} /\ th'[t].task = Head(tasks)
      /\ \A s \in Thread \ {t} : th'[s] = th[s]
      /\ Fields'
  BY <1>a, <1>c, <1>d DEF TakenTo
<1>2. Head(tasks) \in Task /\ Held'
  BY DEF IInv, Held, processTask
<1>3. Busy'
  BY <1>1, <1>2 DEF IInv, Busy
<1>4. LocksHeld'
  <2> SUFFICES ASSUME NEW s \in Thread
               PROVE  /\ m_pool_mutex' = s <=> th'[s].pc \in MapLocked
                      /\ \A q \in Queue :
                           mutex'[q] = s <=> th'[s].pc \in QueueLocked /\ th'[s].task.queue = q
    BY DEF LocksHeld, QueueOf
  <2>1. CASE s = t
    BY <1>1, <2>1 DEF MapLocked, QueueLocked, IInv, LocksHeld, QueueOf, processTask
  <2>2. CASE s # t
    BY <1>1, <2>2 DEF MapLocked, QueueLocked, IInv, LocksHeld, QueueOf, processTask
  <2> QED
    BY <2>1, <2>2
<1> QED
  BY <1>1, <1>2, <1>3, <1>4 DEF IInv

LEMMA respondIInv ==
  ASSUME IInv, NEW t \in Thread, respond(t)
  PROVE  IInv'
<1>1. /\ th'[t] = Idle
      /\ \A s \in Thread \ {t} : th'[s] = th[s]
      /\ Fields'
  BY DEF IInv, Fields, Idle, respond
<1>2. Held' /\ Busy'
  BY <1>1 DEF IInv, Held, Busy, Idle, respond
<1>3. LocksHeld'
  <2> SUFFICES ASSUME NEW s \in Thread
               PROVE  /\ m_pool_mutex' = s <=> th'[s].pc \in MapLocked
                      /\ \A q \in Queue :
                           mutex'[q] = s <=> th'[s].pc \in QueueLocked /\ th'[s].task.queue = q
    BY DEF LocksHeld, QueueOf
  <2>1. CASE s = t
    BY <1>1, <2>1 DEF MapLocked, QueueLocked, IInv, LocksHeld, QueueOf, respond, Idle
  <2>2. CASE s # t
    BY <1>1, <2>2 DEF MapLocked, QueueLocked, IInv, LocksHeld, QueueOf, respond
  <2> QED
    BY <2>1, <2>2
<1> QED
  BY <1>1, <1>2, <1>3 DEF IInv

\* The lock of insert is taken, kept and released.
LEMMA insertIInv ==
  ASSUME IInv, NEW t \in Thread, insert(t) \/ load(t) \/ inserting(t)
  PROVE  IInv'
<1> PICK pc \in {"load", "inserting", "respond", "lock"} :
      /\ Goes(t, pc)
      /\ m_pool_mutex' = IF pc \in {"load", "inserting"} THEN t ELSE None
  BY DEF insert, load, inserting, Unlocked, MapLocked, IInv, LocksHeld
<1>1. Moved(t, pc) /\ th[t].pc \in {"insert", "load", "inserting"}
  BY GoesMoves DEF insert, load, inserting, IInv
<1>2. UNCHANGED <<mutex, tasks>>
  BY DEF insert, load, inserting
<1>3. m_pool_mutex \in {t, None}
  BY DEF insert, load, inserting, MapLocked, IInv, LocksHeld
<1>4. Held' /\ Fields'
  BY <1>1, <1>2 DEF IInv, Held, Moved
<1>5. Busy'
  BY <1>1 DEF IInv, Busy, Moved
<1>6. LocksHeld'
  <2> SUFFICES ASSUME NEW s \in Thread
               PROVE  /\ m_pool_mutex' = s <=> th'[s].pc \in MapLocked
                      /\ \A q \in Queue :
                           mutex'[q] = s <=> th'[s].pc \in QueueLocked /\ th'[s].task.queue = q
    BY DEF LocksHeld, QueueOf
  <2>1. CASE s = t
    BY <1>1, <1>2, <2>1, NoneApart DEF MapLocked, QueueLocked, IInv, LocksHeld, QueueOf, Moved
  <2>2. CASE s # t
    BY <1>1, <1>2, <1>3, <2>2, NoneApart
       DEF MapLocked, QueueLocked, IInv, LocksHeld, QueueOf, Moved
  <2> QED
    BY <2>1, <2>2
<1> QED
  BY <1>4, <1>5, <1>6 DEF IInv

\* The mutex of the queue is taken.
LEMMA LockIInv ==
  ASSUME IInv, NEW t \in Thread, Lock(t)
  PROVE  IInv'
<1> DEFINE Q == QueueOf(t)
<1>1. Q \in Queue
  BY QueueOfBusy DEF Lock, IInv
<1>2. Moved(t, "work") /\ th[t].pc = "lock"
  BY GoesMoves DEF Lock, IInv
<1>3. /\ mutex[Q] = None /\ mutex' = [mutex EXCEPT ![Q] = t]
      /\ UNCHANGED <<m_pool_mutex, tasks>>
  BY DEF Lock
<1>4. Held' /\ Fields' /\ Busy'
  BY <1>1, <1>2, <1>3 DEF IInv, Held, Busy, Moved
<1>5. \A q \in Queue : mutex'[q] = IF q = Q THEN t ELSE mutex[q]
  BY <1>1, <1>3 DEF IInv, Held
<1>6. LocksHeld'
  <2> SUFFICES ASSUME NEW s \in Thread
               PROVE  /\ m_pool_mutex' = s <=> th'[s].pc \in MapLocked
                      /\ \A q \in Queue :
                           mutex'[q] = s <=> th'[s].pc \in QueueLocked /\ th'[s].task.queue = q
    BY DEF LocksHeld, QueueOf
  <2>1. CASE s = t
    BY <1>2, <1>3, <1>5, <2>1 DEF MapLocked, QueueLocked, IInv, LocksHeld, QueueOf, Moved
  <2>2. CASE s # t
    BY <1>2, <1>3, <1>5, <2>2, NoneApart DEF MapLocked, QueueLocked, IInv, LocksHeld, QueueOf, Moved
  <2> QED
    BY <2>1, <2>2
<1> QED
  BY <1>4, <1>6 DEF IInv

\* A handler unlocks the mutex of its queue.
LEMMA WorksIInv ==
  ASSUME IInv, NEW t \in Thread, th[t].pc \in {"work", "query"}, NEW q0, NEW servers,
         Works(t, q0, servers)
  PROVE  IInv'
<1> DEFINE Q == QueueOf(t)
<1>1. Q \in Queue
  BY QueueOfBusy DEF IInv
<1>2. Moved(t, "dispatch")
  BY MoreMoves DEF Works, IInv
<1>3. /\ mutex' = [mutex EXCEPT ![Q] = None]
      /\ UNCHANGED <<m_pool_mutex, tasks>>
  BY DEF Works
<1>4. Held' /\ Fields' /\ Busy'
  BY <1>1, <1>2, <1>3 DEF IInv, Held, Busy, Moved
<1>5. \A q \in Queue : mutex'[q] = IF q = Q THEN None ELSE mutex[q]
  BY <1>1, <1>3 DEF IInv, Held
<1>6. mutex[Q] = t
  BY <1>1 DEF MapLocked, QueueLocked, IInv, LocksHeld
<1>7. LocksHeld'
  <2> SUFFICES ASSUME NEW s \in Thread
               PROVE  /\ m_pool_mutex' = s <=> th'[s].pc \in MapLocked
                      /\ \A q \in Queue :
                           mutex'[q] = s <=> th'[s].pc \in QueueLocked /\ th'[s].task.queue = q
    BY DEF LocksHeld, QueueOf
  <2>1. CASE s = t
    BY <1>2, <1>3, <1>5, <2>1, NoneApart DEF MapLocked, QueueLocked, IInv, LocksHeld, QueueOf, Moved
  <2>2. CASE s # t
    BY <1>1, <1>2, <1>3, <1>5, <1>6, <2>2, NoneApart
       DEF MapLocked, QueueLocked, IInv, LocksHeld, QueueOf, Moved
  <2> QED
    BY <2>1, <2>2
<1> QED
  BY <1>4, <1>7 DEF IInv

\* Every handler ends with Works.
LEMMA HandlerWorks ==
  ASSUME NEW t \in Thread, Handler(t)
  PROVE  /\ th[t].pc \in {"work", "query"}
         /\ \E q, servers : Works(t, q, servers)
<1>1. ASSUME Accept(t) PROVE \E q, servers : Works(t, q, servers)
  <2> DEFINE q == m_queue_pool[QueueOf(t)]
             r == [waiting |-> q.waiting - 1, live |-> q.live \cup {seq'}]
  <2>1. \E a, u \in SUBSET Ims : Works(t, r, Invitations(a) \o Positions(u))
    BY <1>1 DEF Accept
  <2> QED
    BY <2>1
<1>2. ASSUME Offline(t) PROVE \E q, servers : Works(t, q, servers)
  BY <1>2 DEF Offline
<1>3. ASSUME Join(t) \/ Depart(t) \/ End(t) PROVE \E q, servers : Works(t, q, servers)
  BY <1>3 DEF Join, Depart, End
<1>4. ASSUME Invites(t) \/ Absence(t) PROVE \E q, servers : Works(t, q, servers)
  BY <1>4 DEF Invites, Absence
<1> QED
  BY <1>1, <1>2, <1>3, <1>4 DEF Handler, Presence, Refuse, Redirect, Get_QueueAgent, Score

\* The steps that need no lock.
LEMMA FreeIInv ==
  ASSUME IInv, NEW t \in Thread,
         \/ find(t) \/ Get_cvs(t) \/ Send_Msg(t) \/ Useramount(t)
         \/ dispatch(t) \/ connect(t) \/ file(t)
  PROVE  IInv'
<1> DEFINE Free == {"insert", "lock", "msg", "respond", "dispatch", "connect", "file"}
<1>1. CASE Crash
  BY <1>1, CrashIInv
<1>2. CASE ~Crash
  <2>1. /\ UNCHANGED <<mutex, m_pool_mutex, tasks>>
        /\ th[t].pc \notin {"idle"} \cup MapLocked \cup QueueLocked
    BY <1>2
       DEF MapLocked, QueueLocked, find, Get_cvs, Send_Msg, Useramount, dispatch, connect, file
  <2>2. ASSUME find(t) \/ Useramount(t) PROVE \E pc \in Free : Moved(t, pc)
    BY <1>2, <2>2, GoesMoves DEF find, Useramount, IInv
  <2>3. ASSUME Get_cvs(t) \/ Send_Msg(t) PROVE \E pc \in Free : Moved(t, pc)
    BY <1>2, <2>3, GoesMoves, MoreMoves DEF Get_cvs, Send_Msg, IInv
  <2>4. ASSUME dispatch(t) PROVE \E pc \in Free : Moved(t, pc)
    <3>1. Goes(t, "respond") \/ Notified(t) \/ Goes(t, "connect")
      BY <2>4 DEF dispatch
    <3> QED
      BY <3>1, GoesMoves, MoreMoves DEF Notified, IInv
  <2>5. ASSUME connect(t) \/ file(t) PROVE \E pc \in Free : Moved(t, pc)
    <3>1. Notified(t) \/ Goes(t, "file")
      BY <2>5 DEF connect, file
    <3> QED
      BY <3>1, GoesMoves, MoreMoves DEF Notified, IInv
  <2>6. PICK pc \in Free : Moved(t, pc)
    BY <2>2, <2>3, <2>4, <2>5
  <2> QED
    BY <2>1, <2>6, FreeMove DEF MapLocked, QueueLocked
<1> QED
  BY <1>1, <1>2

\* A thread that asks MySQL, or is lost for ever, keeps the lock it has.
LEMMA StaysIInv ==
  ASSUME IInv, NEW t \in Thread, Queries(t) \/ Hang(t) \/ Stall(t)
  PROVE  IInv'
<1> PICK pc \in {"query", "hung", "stalled", "lost"} :
      /\ Goes(t, pc)
      /\ th[t].pc \in MapLocked <=> pc \in MapLocked
      /\ th[t].pc \in QueueLocked <=> pc \in QueueLocked
  BY DEF Queries, Hang, Stall, MapLocked, QueueLocked
<1>1. Moved(t, pc) /\ th[t].pc # "idle" /\ UNCHANGED <<mutex, m_pool_mutex, tasks>>
  BY GoesMoves DEF Queries, Hang, Stall, IInv
<1>2. Held' /\ Fields' /\ Busy'
  BY <1>1 DEF IInv, Held, Busy, Moved
<1>3. LocksHeld'
  <2> SUFFICES ASSUME NEW s \in Thread
               PROVE  /\ m_pool_mutex' = s <=> th'[s].pc \in MapLocked
                      /\ \A q \in Queue :
                           mutex'[q] = s <=> th'[s].pc \in QueueLocked /\ th'[s].task.queue = q
    BY DEF LocksHeld, QueueOf
  <2>1. CASE s = t
    BY <1>1, <2>1 DEF IInv, LocksHeld, QueueOf, Moved
  <2>2. CASE s # t
    BY <1>1, <2>2 DEF IInv, LocksHeld, QueueOf, Moved
  <2> QED
    BY <2>1, <2>2
<1> QED
  BY <1>2, <1>3 DEF IInv

\* A new task.
LEMMA handle_packetIInv ==
  ASSUME IInv, NEW c \in Client, NEW q \in Queue, handle_packet(c, q)
  PROVE  IInv'
<1>1. Held'
  BY DEF IInv, Held, handle_packet, Task
<1>2. Fields' /\ Busy' /\ LocksHeld'
  BY DEF IInv, Fields, Busy, LocksHeld, QueueOf, handle_packet
<1> QED
  BY <1>1, <1>2 DEF IInv

LEMMA StepIInv ==
  ASSUME IInv, [Next]_vars
  PROVE  IInv'
<1>1. CASE UNCHANGED vars
  BY <1>1 DEF IInv, Fields, Busy, Held, LocksHeld, QueueOf, vars
<1>2. ASSUME NEW c \in Client, NEW q \in Queue, handle_packet(c, q) PROVE IInv'
  BY <1>2, handle_packetIInv
<1>3. ASSUME NEW t \in Thread, Moves(t) PROVE IInv'
  <2>1. CASE processTask(t)
    BY <2>1, processTaskIInv
  <2>2. CASE load(t) \/ inserting(t)
    BY <2>2, insertIInv
  <2>3. CASE Handler(t)
    BY <2>3, HandlerWorks, WorksIInv
  <2>4. CASE find(t) \/ Send_Msg(t) \/ dispatch(t) \/ connect(t) \/ file(t)
    BY <2>4, FreeIInv
  <2>5. CASE respond(t)
    BY <2>5, respondIInv
  <2>6. CASE Queries(t)
    BY <2>6, StaysIInv
  <2> QED
    BY <1>3, <2>1, <2>2, <2>3, <2>4, <2>5, <2>6 DEF Moves
<1>4. ASSUME NEW t \in Thread,
             \/ insert(t) \/ Lock(t) \/ Useramount(t) \/ Get_cvs(t)
             \/ Hang(t) \/ Stall(t)
      PROVE IInv'
  BY <1>4, insertIInv, LockIInv, StaysIInv, FreeIInv
<1> QED
  BY <1>1, <1>2, <1>3, <1>4 DEF Next

-----------------------------------------------------------------------------
\* A thread that waits for a lock waits for one that is loading a queue, or in a handler of
\* the queue both are concerned with, and that waits for no lock itself, though it may be
\* asking MySQL (CSQueueMgr.cpp:132, Queue.cpp:21): there is no circle of waiting, for any
\* number of threads, queues and servers.
THEOREM NoDeadlock == Spec => []NoChainOfWaits
<1>1. ASSUME IInv, NEW t \in Thread, NEW s \in Thread, WaitsFor(t, s)
      PROVE  \/ th[s].pc \in MapLocked
             \/ th[s].pc \in QueueLocked /\ QueueOf(s) = QueueOf(t)
  <2>1. CASE th[t].pc = "insert" /\ m_pool_mutex = s
    BY <2>1, <1>1 DEF IInv, LocksHeld
  <2>2. CASE th[t].pc = "lock" /\ mutex[QueueOf(t)] = s
    <3>1. QueueOf(t) \in Queue
      BY <1>1, <2>2, QueueOfBusy DEF IInv
    <3> QED
      BY <1>1, <2>2, <3>1 DEF IInv, LocksHeld
  <2> QED
    BY <1>1, <2>1, <2>2 DEF WaitsFor
<1>2. IInv => NoChainOfWaits
  <2> SUFFICES ASSUME IInv, NEW t \in Thread, NEW s \in Thread, WaitsFor(t, s)
               PROVE  /\ \A r \in Thread : ~WaitsFor(s, r)
                      /\ \/ th[s].pc \in MapLocked
                         \/ th[s].pc \in QueueLocked /\ QueueOf(s) = QueueOf(t)
    BY DEF NoChainOfWaits, MapLocked, QueueLocked
  <2>1. \/ th[s].pc \in MapLocked
        \/ th[s].pc \in QueueLocked /\ QueueOf(s) = QueueOf(t)
    BY <1>1
  <2>2. th[s].pc \notin {"insert", "lock"}
    BY <2>1 DEF MapLocked, QueueLocked
  <2> QED
    BY <2>1, <2>2 DEF WaitsFor
<1> QED
  BY <1>2, InitIInv, StepIInv, PTL DEF Spec

\* What a step does to the queues.
LEMMA QueuesOfStep ==
  ASSUME IInv, [Next]_vars
  PROVE  \A q \in DOMAIN m_queue_pool :
           /\ q \in DOMAIN m_queue_pool'
           /\ m_queue_pool'[q] # m_queue_pool[q] => mutex[q] # None /\ mutex'[q] = None
<1>1. CASE UNCHANGED m_queue_pool
  BY <1>1
<1>2. ASSUME NEW t \in Thread, inserting(t)
      PROVE  \A q \in DOMAIN m_queue_pool :
               q \in DOMAIN m_queue_pool' /\ m_queue_pool'[q] = m_queue_pool[q]
  BY <1>2 DEF inserting, Inserted, Loaded
<1>3. ASSUME NEW t \in Thread, Handler(t)
      PROVE  \A q \in DOMAIN m_queue_pool :
               /\ q \in DOMAIN m_queue_pool'
               /\ m_queue_pool'[q] # m_queue_pool[q] => mutex[q] # None /\ mutex'[q] = None
  <2>1. PICK r, servers : Works(t, r, servers)
    BY <1>3, HandlerWorks
  <2>2. QueueOf(t) \in Queue /\ mutex[QueueOf(t)] = t
    BY <1>3, HandlerWorks, QueueOfBusy DEF QueueLocked, IInv, LocksHeld
  <2>3. /\ m_queue_pool' = [m_queue_pool EXCEPT ![QueueOf(t)] = r]
        /\ mutex' = [mutex EXCEPT ![QueueOf(t)] = None]
    BY <2>1 DEF Works
  <2>4. mutex'[QueueOf(t)] = None /\ mutex[QueueOf(t)] # None
    BY <2>2, <2>3, NoneApart DEF IInv, Held
  <2>5. /\ DOMAIN m_queue_pool' = DOMAIN m_queue_pool
        /\ \A q \in DOMAIN m_queue_pool \ {QueueOf(t)} : m_queue_pool'[q] = m_queue_pool[q]
    BY <2>3
  <2> QED
    BY <2>4, <2>5
<1>4. ASSUME ~UNCHANGED m_queue_pool PROVE \E t \in Thread : inserting(t) \/ Handler(t)
  <2>1. ASSUME NEW c \in Client, NEW q \in Queue, handle_packet(c, q) PROVE FALSE
    BY <1>4, <2>1 DEF handle_packet
  <2>2. ASSUME NEW t \in Thread,
               \/ processTask(t) \/ find(t) \/ load(t) \/ Send_Msg(t) \/ dispatch(t)
               \/ connect(t) \/ file(t) \/ respond(t) \/ insert(t) \/ Lock(t) \/ Hang(t)
               \/ Useramount(t) \/ Get_cvs(t) \/ Queries(t) \/ Stall(t)
        PROVE FALSE
    BY <1>4, <2>2 DEF processTask, find, load, Send_Msg, dispatch, connect, file, respond,
                      insert, Lock, Hang, Useramount, Get_cvs, Queries, Stall, Crash
  <2> QED
    BY <1>4, <2>1, <2>2 DEF Next, Moves, vars
<1> QED
  BY <1>1, <1>2, <1>3, <1>4

\* A queue that is loaded stays, and only who holds its mutex changes it, though the map is
\* searched without a lock and two threads may load the same queue (CSQueueMgr.cpp:138).
THEOREM HoldersChange == Spec => OnlyHoldersChange
<1>1. IInv /\ [Next]_vars =>
        [\A q \in DOMAIN m_queue_pool :
           /\ q \in DOMAIN m_queue_pool'
           /\ m_queue_pool'[q] # m_queue_pool[q] => mutex[q] # None /\ mutex'[q] = None]_vars
  BY QueuesOfStep
<1> QED
  BY <1>1, InitIInv, StepIInv, PTL DEF Spec, OnlyHoldersChange

-----------------------------------------------------------------------------
(* What the lists leave to be sent.                                        *)

\* Whom a list names it names as a sequence of IM servers, one after the other.
LEMMA ListMapIs ==
  ASSUME NEW servers \in SUBSET Ims
  PROVE  /\ ListMap(servers) \in Seq(Ims)
         /\ Invitations(servers) \in Seq(Ims)
         /\ Endings(servers) \in Seq(Ims)
         /\ Positions(servers) \in Seq(Ims)
<1>1. servers \subseteq Nat /\ IsFiniteSet(servers)
  <2>1. IsFiniteSet(ServerId) /\ ServerId \subseteq Nat
    <3>1. ASSUME NEW n \in Nat PROVE IsFiniteSet(0 .. n) /\ 0 .. n \subseteq Nat
      BY FS_Interval
    <3>2. 256 * 256 - 1 \in Nat
      BY SMT
    <3> QED
      BY <3>1, <3>2, Zenon DEF ServerId
  <2>2. servers \subseteq ServerId
    BY ServiceAssumption
  <2> QED
    BY <2>1, <2>2, FS_Subset
<1>2. Ordered(servers) \in [1 .. Cardinality(servers) -> servers]
  BY <1>1, OrderExists DEF Ordered
<1>3. Cardinality(servers) \in Nat
  BY <1>1, FS_CardinalityType
<1>4. Ordered(servers) \in [1 .. Cardinality(servers) -> Ims]
  BY <1>2
<1>5. Ordered(servers) \in Seq(Ims)
  <2> DEFINE n == Cardinality(servers)
             s == Ordered(servers)
  <2>1. n \in Nat /\ s \in [1 .. n -> Ims]
    BY <1>3, <1>4
  <2> HIDE DEF n, s
  <2>2. s \in Seq(Ims)
    BY <2>1
  <2> QED
    BY <2>2 DEF s
<1> QED
  BY <1>5 DEF ListMap, Invitations, Endings, Positions

-----------------------------------------------------------------------------
(* Types.                                                                  *)

QueueState == [waiting: 0 .. MaxLine, live: SUBSET (1 .. MaxCvs)]

\* What is shared has its type.
Stored ==
  /\ owed \subseteq Client
  /\ DOMAIN m_queue_pool \subseteq Queue
  /\ \A q \in DOMAIN m_queue_pool : m_queue_pool[q] \in QueueState
  /\ m_pool_mutex \in Thread \cup {None}
  /\ seq \in 0 .. MaxCvs
  /\ m_imsmap \subseteq Ims
  /\ made \in [Ims -> Nat]
  /\ alive \in BOOLEAN

\* What a thread is at has its type; a thread past the map finds its queue there, and one
\* that makes a connection has a server to make it to.
WellAt(t) ==
  /\ th[t].pc \in Pc /\ th[t].cvs \in 0 .. MaxCvs
  /\ th[t].task \in Task \cup {None}
  /\ th[t].task = None <=> th[t].pc = "idle"
  /\ th[t].todo \in Seq(Ims)
  /\ th[t].pc \in {"connect", "file"} => th[t].todo # <<>>
  /\ th[t].pc \in {"lock", "work", "query", "msg", "hung"} => Loaded(QueueOf(t))

TInv == IInv /\ Stored /\ \A t \in Thread : WellAt(t)

\* The threads but t stay as they are.
OnlyThread(t) == DOMAIN th' = Thread /\ \A s \in Thread \ {t} : th'[s] = th[s]

LEMMA GoesTo ==
  ASSUME Fields, NEW t \in Thread, NEW pc, Goes(t, pc)
  PROVE  /\ OnlyThread(t)
         /\ th'[t].pc = pc /\ th'[t].task = th[t].task
         /\ th'[t].todo = th[t].todo /\ th'[t].cvs = th[t].cvs
BY DEF Fields, Goes, OnlyThread

LEMMA GoesToDo ==
  ASSUME Fields, NEW t \in Thread, NEW pc, NEW todo,
         th' = [th EXCEPT ![t].pc = pc, ![t].todo = todo]
  PROVE  /\ OnlyThread(t)
         /\ th'[t].pc = pc /\ th'[t].task = th[t].task
         /\ th'[t].todo = todo /\ th'[t].cvs = th[t].cvs
<1>1. PICK f : f = [th EXCEPT ![t].pc = pc]
  OBVIOUS
<1>2. /\ DOMAIN f = Thread /\ \A s \in Thread \ {t} : f[s] = th[s]
      /\ f[t] = [pc |-> pc, task |-> th[t].task, todo |-> th[t].todo, cvs |-> th[t].cvs]
  BY <1>1 DEF Fields
<1>3. th' = [f EXCEPT ![t].todo = todo]
  BY <1>1
<1> QED
  BY <1>2, <1>3 DEF OnlyThread

LEMMA GoesWith ==
  ASSUME Fields, NEW t \in Thread, NEW cvs,
         th' = [th EXCEPT ![t].pc = "msg", ![t].cvs = cvs]
  PROVE  /\ OnlyThread(t)
         /\ th'[t].pc = "msg" /\ th'[t].task = th[t].task
         /\ th'[t].todo = th[t].todo /\ th'[t].cvs = cvs
<1>1. PICK f : f = [th EXCEPT ![t].pc = "msg"]
  OBVIOUS
<1>2. /\ DOMAIN f = Thread /\ \A s \in Thread \ {t} : f[s] = th[s]
      /\ f[t] = [pc |-> "msg", task |-> th[t].task, todo |-> th[t].todo, cvs |-> th[t].cvs]
  BY <1>1 DEF Fields
<1>3. th' = [f EXCEPT ![t].cvs = cvs]
  BY <1>1
<1> QED
  BY <1>2, <1>3 DEF OnlyThread

LEMMA NotifiedGoes ==
  ASSUME Fields, NEW t \in Thread, Notified(t)
  PROVE  /\ OnlyThread(t)
         /\ th'[t].pc = "dispatch" /\ th'[t].task = th[t].task
         /\ th'[t].todo = Tail(th[t].todo) /\ th'[t].cvs = th[t].cvs
<1>1. PICK todo : todo = Tail(th[t].todo)
  OBVIOUS
<1>2. PICK f : f = [th EXCEPT ![t].pc = "dispatch"]
  OBVIOUS
<1>3. /\ DOMAIN f = Thread /\ \A s \in Thread \ {t} : f[s] = th[s]
      /\ f[t] = [pc |-> "dispatch", task |-> th[t].task, todo |-> th[t].todo, cvs |-> th[t].cvs]
  BY <1>2 DEF Fields
<1>4. th' = [f EXCEPT ![t].todo = todo]
  <2>1. f[t].todo = th[t].todo
    BY <1>3
  <2> QED
    BY <1>1, <1>2, <2>1 DEF Notified
<1> QED
  BY <1>1, <1>3, <1>4 DEF OnlyThread

\* A thread whose step leaves it well leaves the others so.
LEMMA OthersWell ==
  ASSUME TInv, NEW t \in Thread, OnlyThread(t), WellAt(t)',
         DOMAIN m_queue_pool \subseteq DOMAIN m_queue_pool'
  PROVE  \A s \in Thread : WellAt(s)'
<1> SUFFICES ASSUME NEW s \in Thread \ {t} PROVE WellAt(s)'
  OBVIOUS
<1>1. th'[s] = th[s] /\ WellAt(s)
  BY DEF OnlyThread, TInv
<1> QED
  BY <1>1 DEF WellAt, Loaded, QueueOf

LEMMA InitTInv == Init => TInv
<1> SUFFICES ASSUME Init PROVE TInv
  OBVIOUS
<1>1. Stored
  BY ServiceAssumption DEF Init, Stored
<1>2. ASSUME NEW t \in Thread PROVE WellAt(t)
  <2>1. /\ th[t].pc = "idle" /\ th[t].task = None /\ th[t].todo = <<>> /\ th[t].cvs = 0
    BY DEF Init, Idle
  <2> QED
    BY <2>1, ServiceAssumption DEF WellAt, Pc
<1> QED
  BY <1>1, <1>2, InitIInv DEF TInv

\* A new task, and one that is taken.
LEMMA handle_packetTypes ==
  ASSUME TInv, NEW c \in Client, NEW q \in Queue, handle_packet(c, q)
  PROVE  Stored' /\ \A t \in Thread : WellAt(t)'
BY DEF TInv, handle_packet, Stored, WellAt, Loaded, QueueOf

LEMMA CrashTypes ==
  ASSUME TInv, Crash
  PROVE  Stored' /\ \A t \in Thread : WellAt(t)'
BY DEF TInv, Crash, Stored, WellAt, Loaded, QueueOf

LEMMA processTaskTypes ==
  ASSUME TInv, NEW t \in Thread, processTask(t)
  PROVE  Stored' /\ \A s \in Thread : WellAt(s)'
<1>1. PICK pc \in {"find", "respond"} :
        th' = [th EXCEPT ![t] = [Idle EXCEPT !.pc = pc, !.task = Head(tasks)]]
  BY DEF processTask, TakenTo
<1>2. PICK r : /\ th' = [th EXCEPT ![t] = r]
               /\ r = [pc |-> pc, task |-> Head(tasks), todo |-> <<>>, cvs |-> 0]
  <2> DEFINE n == [Idle EXCEPT !.pc = pc]
             m == [n EXCEPT !.task = Head(tasks)]
  <2>1. m = [pc |-> pc, task |-> Head(tasks), todo |-> <<>>, cvs |-> 0]
    <3>1. n = [pc |-> pc, task |-> None, todo |-> <<>>, cvs |-> 0]
      BY DEF Idle
    <3> HIDE DEF n
    <3> QED
      BY <3>1
  <2>2. th' = [th EXCEPT ![t] = m]
    BY <1>1
  <2> HIDE DEF m
  <2> QED
    BY <2>1, <2>2
<1>3. /\ OnlyThread(t) /\ th'[t].pc = pc /\ th'[t].task = Head(tasks)
      /\ th'[t].todo = <<>> /\ th'[t].cvs = 0
  <2>1. DOMAIN th = Thread
    BY DEF TInv, IInv, Fields
  <2>2. th'[t] = r /\ OnlyThread(t)
    BY <1>2, <2>1 DEF OnlyThread
  <2> QED
    BY <1>2, <2>2
<1>4. Head(tasks) \in Task
  BY DEF TInv, IInv, Held, processTask
<1>5. Stored'
  BY DEF TInv, Stored, processTask
<1>6. th'[t].task # None
  BY <1>3, <1>4, ServiceAssumption
<1>7. 0 \in 0 .. MaxCvs
  BY ServiceAssumption
<1>8. WellAt(t)'
  <2>1. /\ th'[t].pc \in Pc /\ th'[t].task \in Task \cup {None}
        /\ th'[t].task = None <=> th'[t].pc = "idle"
    BY <1>3, <1>4, <1>6 DEF Pc
  <2>2. th'[t].todo \in Seq(Ims) /\ th'[t].cvs \in 0 .. MaxCvs
    BY <1>3, <1>7
  <2> QED
    BY <1>3, <2>1, <2>2 DEF WellAt
<1> QED
  BY <1>3, <1>5, <1>8, OthersWell DEF processTask

\* A thread that only goes on.
LEMMA GoesTypes ==
  ASSUME TInv, NEW t \in Thread,
         NEW pc \in Pc \ {"idle", "connect", "file", "lock", "work", "query", "msg", "hung"},
         Goes(t, pc), th[t].pc # "idle",
         UNCHANGED m_queue_pool
  PROVE  \A s \in Thread : WellAt(s)'
<1>1. /\ OnlyThread(t)
      /\ th'[t].pc = pc /\ th'[t].task = th[t].task
      /\ th'[t].todo = th[t].todo /\ th'[t].cvs = th[t].cvs
  BY GoesTo DEF TInv, IInv
<1>2. WellAt(t)'
  BY <1>1 DEF TInv, WellAt
<1> QED
  BY <1>1, <1>2, OthersWell

\* A thread that goes on to its queue, which is loaded.
LEMMA GoesToQueue ==
  ASSUME TInv, NEW t \in Thread, NEW pc \in {"lock", "work", "query", "hung"},
         Goes(t, pc), th[t].pc # "idle", Loaded(QueueOf(t))',
         DOMAIN m_queue_pool \subseteq DOMAIN m_queue_pool'
  PROVE  \A s \in Thread : WellAt(s)'
<1>1. /\ OnlyThread(t)
      /\ th'[t].pc = pc /\ th'[t].task = th[t].task
      /\ th'[t].todo = th[t].todo /\ th'[t].cvs = th[t].cvs
  BY GoesTo DEF TInv, IInv
<1>2. WellAt(t)'
  BY <1>1 DEF TInv, WellAt, Pc
<1> QED
  BY <1>1, <1>2, OthersWell

LEMMA LookupTypes ==
  ASSUME TInv, NEW t \in Thread,
         find(t) \/ insert(t) \/ load(t) \/ Useramount(t)
  PROVE  Stored' /\ \A s \in Thread : WellAt(s)'
<1>1. CASE Crash
  BY <1>1, CrashTypes
<1>2. CASE ~Crash
  <2>1. Stored'
    BY <1>2 DEF TInv, Stored, find, insert, load, Useramount
  <2>2. CASE Goes(t, "lock") /\ find(t)
    <3>1. /\ Loaded(QueueOf(t)) /\ th[t].pc = "find" /\ UNCHANGED m_queue_pool
      BY <1>2, <2>2 DEF find, Goes, TInv, IInv, Fields
    <3>2. Loaded(QueueOf(t))'
      BY <2>2, <3>1, GoesTo DEF Loaded, QueueOf, TInv, IInv
    <3> QED
      BY <2>1, <2>2, <3>1, <3>2, GoesToQueue
  <2>3. CASE find(t) /\ ~Goes(t, "lock")
    BY <1>2, <2>1, <2>3, GoesTypes DEF find, Pc
  <2>4. CASE insert(t) \/ load(t) \/ Useramount(t)
    BY <2>1, <2>4, GoesTypes DEF insert, load, Useramount, Pc
  <2> QED
    BY <2>2, <2>3, <2>4
<1> QED
  BY <1>1, <1>2

LEMMA insertingTypes ==
  ASSUME TInv, NEW t \in Thread, inserting(t)
  PROVE  Stored' /\ \A s \in Thread : WellAt(s)'
<1>1. QueueOf(t) \in Queue /\ th[t].pc = "inserting"
  BY QueueOfBusy DEF inserting, TInv, IInv
<1>2. EmptyQueue \in QueueState
  BY ServiceAssumption DEF EmptyQueue, QueueState
<1>3. /\ DOMAIN m_queue_pool' = DOMAIN m_queue_pool \cup {QueueOf(t)}
      /\ \A q \in DOMAIN m_queue_pool' : m_queue_pool'[q] \in QueueState
  BY <1>2 DEF inserting, Inserted, Loaded, TInv, Stored
<1>4. Stored'
  BY <1>1, <1>3 DEF TInv, Stored, inserting, Unlocked
<1>5. Goes(t, "lock")
  BY DEF inserting
<1>6. Loaded(QueueOf(t))'
  BY <1>3, <1>5, GoesTo DEF Loaded, QueueOf, TInv, IInv
<1> QED
  BY <1>1, <1>3, <1>4, <1>5, <1>6, GoesToQueue

LEMMA AtQueueTypes ==
  ASSUME TInv, NEW t \in Thread,
         \/ Lock(t) \/ Queries(t) \/ Hang(t)
         \/ (Stall(t) /\ th[t].pc = "query")
  PROVE  Stored' /\ \A s \in Thread : WellAt(s)'
<1>1. PICK pc \in {"work", "query", "hung"} : Goes(t, pc)
  BY DEF Lock, Queries, Hang, Stall
<1>2. /\ Stored' /\ Loaded(QueueOf(t)) /\ th[t].pc # "idle" /\ UNCHANGED m_queue_pool
  BY DEF TInv, Stored, WellAt, Lock, Queries, Hang, Stall
<1>3. Loaded(QueueOf(t))'
  BY <1>1, <1>2, GoesTo DEF Loaded, QueueOf, TInv, IInv
<1> QED
  BY <1>1, <1>2, <1>3, GoesToQueue

LEMMA StallTypes ==
  ASSUME TInv, NEW t \in Thread, Stall(t)
  PROVE  Stored' /\ \A s \in Thread : WellAt(s)'
<1>1. CASE th[t].pc = "query"
  BY <1>1, AtQueueTypes
<1>2. CASE th[t].pc # "query"
  <2>1. PICK pc \in {"stalled", "lost"} : Goes(t, pc)
    BY <1>2 DEF Stall
  <2>2. /\ Stored' /\ th[t].pc # "idle" /\ UNCHANGED m_queue_pool
    BY DEF TInv, Stored, Stall
  <2> QED
    BY <2>1, <2>2, GoesTypes DEF Pc
<1> QED
  BY <1>1, <1>2

LEMMA Get_cvsTypes ==
  ASSUME TInv, NEW t \in Thread, Get_cvs(t), ~Crash
  PROVE  Stored' /\ \A s \in Thread : WellAt(s)'
<1>1. PICK c \in m_queue_pool[QueueOf(t)].live :
        /\ th' = [th EXCEPT ![t].pc = "msg", ![t].cvs = c]
        /\ UNCHANGED <<tasks, owed, m_queue_pool, m_pool_mutex, mutex, seq, m_imsmap, made, alive>>
  BY DEF Get_cvs
<1>2. /\ OnlyThread(t)
      /\ th'[t].pc = "msg" /\ th'[t].task = th[t].task
      /\ th'[t].todo = th[t].todo /\ th'[t].cvs = c
  <2>1. Fields /\ th' = [th EXCEPT ![t].pc = "msg", ![t].cvs = c]
    BY <1>1 DEF TInv, IInv
  <2> QED
    BY <2>1, GoesWith
<1>3. th[t].pc = "lock" /\ Loaded(QueueOf(t))
  BY DEF Get_cvs, TInv, WellAt
<1>4. m_queue_pool[QueueOf(t)] \in QueueState
  BY <1>3 DEF TInv, Stored, Loaded
<1>5. c \in 0 .. MaxCvs
  BY <1>4, ServiceAssumption DEF QueueState
<1>6. Stored'
  BY <1>1 DEF TInv, Stored
<1>7. WellAt(t)'
  BY <1>1, <1>2, <1>3, <1>5 DEF TInv, WellAt, Pc, Loaded, QueueOf
<1> QED
  BY <1>1, <1>2, <1>6, <1>7, OthersWell

LEMMA Send_MsgTypes ==
  ASSUME TInv, NEW t \in Thread, Send_Msg(t), ~Crash
  PROVE  Stored' /\ \A s \in Thread : WellAt(s)'
<1>1. Stored'
  BY DEF TInv, Stored, Send_Msg
<1> QED
  BY <1>1, GoesTypes DEF Send_Msg, Pc

LEMMA respondTypes ==
  ASSUME TInv, NEW t \in Thread, respond(t)
  PROVE  Stored' /\ \A s \in Thread : WellAt(s)'
<1>1. Stored'
  BY DEF TInv, Stored, respond
<1>2. OnlyThread(t) /\ th'[t] = Idle
  BY DEF TInv, IInv, Fields, respond, OnlyThread
<1>3. WellAt(t)'
  BY <1>2, ServiceAssumption DEF WellAt, Idle, Pc
<1> QED
  BY <1>1, <1>2, <1>3, OthersWell DEF respond

\* What a handler leaves of its queue has the type of a queue, and whom it has to notify
\* are IM servers.
LEMMA WorksTypes ==
  ASSUME TInv, NEW t \in Thread, th[t].pc \in {"work", "query"}, NEW q \in QueueState,
         NEW servers \in Seq(Ims), Works(t, q, servers), seq' \in 0 .. MaxCvs
  PROVE  Stored' /\ \A s \in Thread : WellAt(s)'
<1>1. /\ OnlyThread(t)
      /\ th'[t].pc = "dispatch" /\ th'[t].task = th[t].task
      /\ th'[t].todo = servers /\ th'[t].cvs = th[t].cvs
  <2>1. Fields /\ th' = [th EXCEPT ![t].pc = "dispatch", ![t].todo = servers]
    BY DEF TInv, IInv, Works
  <2> QED
    BY <2>1, GoesToDo
<1>2. /\ DOMAIN m_queue_pool' = DOMAIN m_queue_pool
      /\ \A p \in DOMAIN m_queue_pool : m_queue_pool'[p] \in {q, m_queue_pool[p]}
  BY DEF Works
<1>3. Stored'
  BY <1>2 DEF TInv, Stored, Works
<1>4. WellAt(t)'
  BY <1>1 DEF TInv, WellAt, Pc
<1> QED
  BY <1>1, <1>2, <1>3, <1>4, OthersWell

LEMMA HandlerTypes ==
  ASSUME TInv, NEW t \in Thread, Handler(t)
  PROVE  /\ th[t].pc \in {"work", "query"} /\ seq' \in 0 .. MaxCvs
         /\ \E r \in QueueState, servers \in Seq(Ims) : Works(t, r, servers)
<1>1. th[t].pc \in {"work", "query"} /\ Loaded(QueueOf(t))
  BY DEF TInv, WellAt, Handler
<1>2. PICK q \in QueueState : q = m_queue_pool[QueueOf(t)]
  BY <1>1 DEF TInv, Stored, Loaded
<1>3. /\ q.waiting \in 0 .. MaxLine /\ q.live \in SUBSET (1 .. MaxCvs)
      /\ q = [waiting |-> q.waiting, live |-> q.live]
  BY DEF QueueState
<1>4. MaxLine \in Nat /\ MaxCvs \in Nat /\ seq \in 0 .. MaxCvs
  BY ServiceAssumption DEF TInv, Stored
<1>5. \A a \in SUBSET Ims :
        /\ Invitations(a) \in Seq(Ims) /\ Endings(a) \in Seq(Ims) /\ Positions(a) \in Seq(Ims)
  BY ListMapIs
<1>6. <<>> \in Seq(Ims)
  OBVIOUS
<1>7. CASE Invites(t) \/ Absence(t)
  <2>1. UNCHANGED seq
    BY <1>7 DEF Invites, Absence
  <2>2. \E servers \in Seq(Ims) : Works(t, q, servers)
    BY <1>2, <1>5, <1>6, <1>7 DEF Invites, Absence
  <2> QED
    BY <1>1, <1>4, <2>1, <2>2
<1>8. CASE Accept(t)
  <2>1. seq' = seq + 1 /\ seq < MaxCvs /\ q.waiting > 0
    BY <1>2, <1>8 DEF Accept
  <2>2. PICK r : r = [waiting |-> q.waiting - 1, live |-> q.live \cup {seq'}]
    OBVIOUS
  <2>3. seq' \in 0 .. MaxCvs /\ seq' \in 1 .. MaxCvs /\ q.waiting - 1 \in 0 .. MaxLine
    BY <1>3, <1>4, <2>1
  <2>4. r \in QueueState
    BY <1>3, <2>2, <2>3 DEF QueueState
  <2>5. PICK a \in SUBSET Ims, u \in SUBSET Ims : Works(t, r, Invitations(a) \o Positions(u))
    BY <1>2, <1>8, <2>2 DEF Accept
  <2>6. Invitations(a) \o Positions(u) \in Seq(Ims)
    BY <1>5
  <2> QED
    BY <1>1, <2>3, <2>4, <2>5, <2>6
<1>9. CASE Offline(t)
  <2>1. PICK c \in SUBSET q.live, a \in SUBSET Ims, u \in SUBSET Ims :
          /\ q.waiting + Cardinality(c) <= MaxLine
          /\ Works(t, [waiting |-> q.waiting + Cardinality(c), live |-> q.live \ c],
                   Invitations(a) \o Endings(u))
    BY <1>2, <1>9 DEF Offline
  <2>2. PICK r : r = [waiting |-> q.waiting + Cardinality(c), live |-> q.live \ c]
    OBVIOUS
  <2>3. Cardinality(c) \in Nat
    <3>1. IsFiniteSet(1 .. MaxCvs)
      BY <1>4, FS_Interval
    <3>2. c \subseteq 1 .. MaxCvs
      BY <1>3
    <3> QED
      BY <3>1, <3>2, FS_Subset, FS_CardinalityType
  <2>4. q.waiting + Cardinality(c) \in 0 .. MaxLine
    BY <1>3, <1>4, <2>1, <2>3
  <2>5. r \in QueueState
    BY <1>3, <2>2, <2>4 DEF QueueState
  <2>6. Invitations(a) \o Endings(u) \in Seq(Ims)
    BY <1>5
  <2>7. UNCHANGED seq
    BY <1>9 DEF Offline
  <2> QED
    BY <1>1, <1>4, <2>1, <2>2, <2>5, <2>6, <2>7
<1>10. CASE Join(t)
  <2>1. PICK r : r = [q EXCEPT !.waiting = @ + 1]
    OBVIOUS
  <2>2. q.waiting < MaxLine /\ UNCHANGED seq /\ \E a \in SUBSET Ims : Works(t, r, Invitations(a))
    BY <1>2, <1>10, <2>1 DEF Join
  <2>3. q.waiting + 1 \in 0 .. MaxLine
    BY <1>3, <1>4, <2>2
  <2>4. r \in QueueState
    BY <1>3, <2>1, <2>3 DEF QueueState
  <2> QED
    BY <1>1, <1>4, <1>5, <2>2, <2>4
<1>11. CASE Depart(t)
  <2>1. PICK r : r = [q EXCEPT !.waiting = @ - 1]
    OBVIOUS
  <2>2. q.waiting > 0 /\ UNCHANGED seq /\ \E u \in SUBSET Ims : Works(t, r, Positions(u))
    BY <1>2, <1>11, <2>1 DEF Depart
  <2>3. q.waiting - 1 \in 0 .. MaxLine
    BY <1>3, <1>4, <2>2
  <2>4. r \in QueueState
    BY <1>3, <2>1, <2>3 DEF QueueState
  <2> QED
    BY <1>1, <1>4, <1>5, <2>2, <2>4
<1>12. CASE End(t)
  <2>1. PICK c \in q.live : Works(t, [q EXCEPT !.live = @ \ {c}], <<>>)
    BY <1>2, <1>12 DEF End
  <2>2. PICK r : r = [q EXCEPT !.live = @ \ {c}]
    OBVIOUS
  <2>3. r \in QueueState
    BY <1>3, <2>2 DEF QueueState
  <2>4. UNCHANGED seq
    BY <1>12 DEF End
  <2> QED
    BY <1>1, <1>4, <1>6, <2>1, <2>2, <2>3, <2>4
<1> QED
  BY <1>7, <1>8, <1>9, <1>10, <1>11, <1>12
     DEF Handler, Presence, Refuse, Redirect, Get_QueueAgent, Score

\* A notification is over.
LEMMA NotifiedTypes ==
  ASSUME TInv, NEW t \in Thread, Notified(t), th[t].pc # "idle", th[t].todo # <<>>,
         UNCHANGED m_queue_pool
  PROVE  \A s \in Thread : WellAt(s)'
<1>1. /\ OnlyThread(t)
      /\ th'[t].pc = "dispatch" /\ th'[t].task = th[t].task
      /\ th'[t].todo = Tail(th[t].todo) /\ th'[t].cvs = th[t].cvs
  BY NotifiedGoes DEF TInv, IInv
<1>2. PICK todo \in Seq(Ims) : todo = th[t].todo /\ todo # <<>>
  BY DEF TInv, WellAt
<1>3. Tail(todo) \in Seq(Ims)
  BY <1>2
<1>4. WellAt(t)'
  BY <1>1, <1>2, <1>3 DEF TInv, WellAt, Pc
<1> QED
  BY <1>1, <1>4, OthersWell

\* A thread goes on to make or to file a connection.
LEMMA MakesTypes ==
  ASSUME TInv, NEW t \in Thread, NEW pc \in {"connect", "file"}, Goes(t, pc),
         th[t].pc # "idle", th[t].todo # <<>>, UNCHANGED m_queue_pool
  PROVE  \A s \in Thread : WellAt(s)'
<1>1. /\ OnlyThread(t)
      /\ th'[t].pc = pc /\ th'[t].task = th[t].task
      /\ th'[t].todo = th[t].todo /\ th'[t].cvs = th[t].cvs
  BY GoesTo DEF TInv, IInv
<1>2. WellAt(t)'
  BY <1>1 DEF TInv, WellAt, Pc
<1> QED
  BY <1>1, <1>2, OthersWell

LEMMA dispatchTypes ==
  ASSUME TInv, NEW t \in Thread, dispatch(t)
  PROVE  Stored' /\ \A s \in Thread : WellAt(s)'
<1>1. /\ th[t].pc = "dispatch" /\ UNCHANGED m_queue_pool
      /\ \/ Goes(t, "respond")
         \/ th[t].todo # <<>> /\ Notified(t)
         \/ th[t].todo # <<>> /\ Goes(t, "connect")
  BY DEF dispatch
<1>2. Stored'
  BY DEF TInv, Stored, dispatch
<1>3. CASE Goes(t, "respond")
  BY <1>1, <1>2, <1>3, GoesTypes DEF Pc
<1>4. CASE th[t].todo # <<>> /\ Notified(t)
  BY <1>1, <1>2, <1>4, NotifiedTypes
<1>5. CASE th[t].todo # <<>> /\ Goes(t, "connect")
  BY <1>1, <1>2, <1>5, MakesTypes
<1> QED
  BY <1>1, <1>3, <1>4, <1>5

LEMMA connectTypes ==
  ASSUME TInv, NEW t \in Thread, connect(t)
  PROVE  Stored' /\ \A s \in Thread : WellAt(s)'
<1>1. th[t].pc = "connect" /\ th[t].todo # <<>> /\ UNCHANGED m_queue_pool
  BY DEF connect, TInv, WellAt
<1>2. \/ Goes(t, "file") /\ made' = [made EXCEPT ![Head(th[t].todo)] = @ + 1]
      \/ Notified(t) /\ UNCHANGED made
  BY DEF connect
<1>3. made' \in [Ims -> Nat]
  BY <1>2 DEF TInv, Stored
<1>4. Stored'
  BY <1>3 DEF TInv, Stored, connect
<1>5. CASE Goes(t, "file")
  BY <1>1, <1>4, <1>5, MakesTypes
<1>6. CASE Notified(t)
  BY <1>1, <1>4, <1>6, NotifiedTypes
<1> QED
  BY <1>2, <1>5, <1>6

LEMMA fileTypes ==
  ASSUME TInv, NEW t \in Thread, file(t)
  PROVE  Stored' /\ \A s \in Thread : WellAt(s)'
<1>1. th[t].pc = "file" /\ th[t].todo # <<>> /\ UNCHANGED m_queue_pool /\ Notified(t)
  BY DEF file, TInv, WellAt
<1>2. PICK todo \in Seq(Ims) : todo = th[t].todo /\ todo # <<>>
  BY <1>1 DEF TInv, WellAt
<1>3. Head(todo) \in Ims
  BY <1>2
<1>4. m_imsmap' \subseteq Ims
  BY <1>2, <1>3 DEF file, FiledUnder, TInv, Stored
<1>5. Stored'
  BY <1>4 DEF TInv, Stored, file
<1> QED
  BY <1>1, <1>5, NotifiedTypes

LEMMA StepTInv ==
  ASSUME TInv, [Next]_vars
  PROVE  TInv'
<1>1. IInv'
  BY StepIInv DEF TInv
<1>2. CASE UNCHANGED vars
  BY <1>2 DEF TInv, Stored, WellAt, Loaded, QueueOf, vars, IInv, Fields, Busy, Held, LocksHeld
<1>3. ASSUME NEW c \in Client, NEW q \in Queue, handle_packet(c, q)
      PROVE  Stored' /\ \A t \in Thread : WellAt(t)'
  BY <1>3, handle_packetTypes
<1>4. ASSUME Crash PROVE Stored' /\ \A t \in Thread : WellAt(t)'
  BY <1>4, CrashTypes
<1>5. ASSUME NEW t \in Thread, Moves(t), ~Crash
      PROVE  Stored' /\ \A s \in Thread : WellAt(s)'
  <2>1. CASE processTask(t)
    BY <2>1, processTaskTypes
  <2>2. CASE find(t) \/ load(t)
    BY <2>2, LookupTypes
  <2>3. CASE inserting(t)
    BY <2>3, insertingTypes
  <2>4. CASE Handler(t)
    BY <2>4, HandlerTypes, WorksTypes
  <2>5. CASE Send_Msg(t)
    BY <1>5, <2>5, Send_MsgTypes
  <2>6. CASE dispatch(t) \/ connect(t) \/ file(t)
    BY <2>6, dispatchTypes, connectTypes, fileTypes
  <2>7. CASE respond(t)
    BY <2>7, respondTypes
  <2>8. CASE Queries(t)
    BY <2>8, AtQueueTypes
  <2> QED
    BY <1>5, <2>1, <2>2, <2>3, <2>4, <2>5, <2>6, <2>7, <2>8 DEF Moves
<1>6. ASSUME NEW t \in Thread, ~Crash,
             \/ insert(t) \/ Lock(t) \/ Useramount(t) \/ Get_cvs(t)
             \/ Hang(t) \/ Stall(t)
      PROVE  Stored' /\ \A s \in Thread : WellAt(s)'
  BY <1>6, LookupTypes, AtQueueTypes, StallTypes, Get_cvsTypes
<1> QED
  BY <1>1, <1>2, <1>3, <1>4, <1>5, <1>6 DEF Next, TInv

LEMMA AlwaysTInv == Spec => []TInv
BY InitTInv, StepTInv, PTL DEF Spec

\* Every variable always has the values its type allows: a thread past the map has its
\* queue there, the counters stay within their bounds, and whom a thread has to notify
\* is an IM server, whatever the handlers leave in the lists (CSImsHandler.h:53).
THEOREM ServiceTypes == Spec => []TypeOK
<1>1. ASSUME TInv, NEW t \in Thread
      PROVE  /\ th[t].pc \in Pc /\ th[t].cvs \in 0 .. MaxCvs
             /\ th[t].task \in Task \cup {None} /\ (th[t].task = None <=> th[t].pc = "idle")
             /\ \A i \in DOMAIN th[t].todo : th[t].todo[i] \in Ims
  BY <1>1 DEF TInv, WellAt
<1>2. ASSUME TInv PROVE \A i \in DOMAIN tasks : tasks[i] \in Task
  BY <1>2 DEF TInv, IInv, Held
<1>3. ASSUME TInv PROVE TypeOK
  BY <1>1, <1>2, <1>3 DEF TypeOK, TInv, IInv, Fields, Held, Stored, QueueState
<1> QED
  BY <1>3, AlwaysTInv, PTL

-----------------------------------------------------------------------------
(* How many connections are made.                                          *)

\* The threads that are at pc with server i first in what they have to notify.
At(i, pc) == {t \in Thread : th[t].pc = pc /\ Head(th[t].todo) = i}

\* A server without a connection that is filed has had one made by each thread that is about
\* to file it.  Once one is filed, only those that have looked before still make theirs.
Counted(i) ==
  IF i \notin m_imsmap THEN made[i] = Cardinality(At(i, "file"))
  ELSE made[i] + Cardinality(At(i, "connect")) <= Cardinality(Thread)

CInv == TInv /\ \A i \in Ims : Counted(i)

LEMMA ThreadsCounted ==
  ASSUME NEW S, S \subseteq Thread
  PROVE  /\ IsFiniteSet(S) /\ Cardinality(S) \in Nat
         /\ Cardinality(Thread) \in Nat /\ Cardinality(S) <= Cardinality(Thread)
BY ServiceAssumption, FS_Subset, FS_CardinalityType

\* Nothing that is counted for i changes.
LEMMA SameCounted ==
  ASSUME NEW i \in Ims, Counted(i), made'[i] = made[i], i \in m_imsmap' <=> i \in m_imsmap,
         At(i, "file")' = At(i, "file"),
         i \in m_imsmap => At(i, "connect")' \subseteq At(i, "connect"), made \in [Ims -> Nat]
  PROVE  Counted(i)'
<1>1. CASE i \notin m_imsmap
  BY <1>1 DEF Counted
<1>2. CASE i \in m_imsmap
  <2>1. PICK S, R : /\ S = At(i, "connect") /\ R = At(i, "connect")' /\ R \subseteq S
                    /\ S \subseteq Thread
    BY <1>2 DEF At
  <2>2. Cardinality(R) <= Cardinality(S) /\ Cardinality(R) \in Nat /\ Cardinality(S) \in Nat
    <3>1. IsFiniteSet(S) /\ IsFiniteSet(R)
      BY <2>1, ThreadsCounted, FS_Subset
    <3> QED
      BY <2>1, <3>1, FS_Subset, FS_CardinalityType
  <2>3. made[i] + Cardinality(S) <= Cardinality(Thread) /\ Cardinality(Thread) \in Nat
    BY <1>2, <2>1, ThreadsCounted DEF Counted
  <2>4. made'[i] + Cardinality(R) <= Cardinality(Thread)
    BY <2>2, <2>3
  <2> QED
    BY <1>2, <2>1, <2>4 DEF Counted
<1> QED
  BY <1>1, <1>2

\* A step of t from a place where nothing is filed to one where nothing is counted, or to
\* making a connection to a server that has none.
LEMMA FreeCounted ==
  ASSUME CInv, NEW t \in Thread, OnlyThread(t),
         th[t].pc # "file", th'[t].pc # "file",
         th'[t].pc = "connect" => Head(th'[t].todo) \notin m_imsmap,
         UNCHANGED <<made, m_imsmap>>
  PROVE  \A i \in Ims : Counted(i)'
<1> SUFFICES ASSUME NEW i \in Ims PROVE Counted(i)'
  OBVIOUS
<1>1. At(i, "file")' = At(i, "file")
  BY DEF At, OnlyThread
<1>2. i \in m_imsmap => At(i, "connect")' \subseteq At(i, "connect")
  BY DEF At, OnlyThread
<1>3. Counted(i) /\ made \in [Ims -> Nat]
  BY DEF CInv, TInv, Stored
<1> QED
  BY <1>1, <1>2, <1>3, SameCounted

\* A connection that is not made.
LEMMA dropCounted ==
  ASSUME CInv, NEW t \in Thread, th[t].pc = "connect", Notified(t),
         UNCHANGED <<made, m_imsmap>>
  PROVE  \A i \in Ims : Counted(i)'
<1> SUFFICES ASSUME NEW i \in Ims PROVE Counted(i)'
  OBVIOUS
<1>1. OnlyThread(t) /\ th'[t].pc = "dispatch"
  BY NotifiedGoes DEF CInv, TInv, IInv
<1>2. At(i, "file")' = At(i, "file") /\ At(i, "connect")' \subseteq At(i, "connect")
  BY <1>1 DEF At, OnlyThread
<1>3. Counted(i) /\ made \in [Ims -> Nat]
  BY DEF CInv, TInv, Stored
<1> QED
  BY <1>2, <1>3, SameCounted

\* A connection that is made.
LEMMA makeCounted ==
  ASSUME CInv, NEW t \in Thread, th[t].pc = "connect", Goes(t, "file"),
         made' = [made EXCEPT ![Head(th[t].todo)] = @ + 1], UNCHANGED m_imsmap
  PROVE  \A i \in Ims : Counted(i)'
<1> SUFFICES ASSUME NEW i \in Ims PROVE Counted(i)'
  OBVIOUS
<1>1. OnlyThread(t) /\ th'[t].pc = "file" /\ th'[t].todo = th[t].todo
  BY GoesTo DEF CInv, TInv, IInv
<1>2. Counted(i) /\ made \in [Ims -> Nat]
  BY DEF CInv, TInv, Stored
<1>3. CASE i # Head(th[t].todo)
  <2>1. made'[i] = made[i]
    BY <1>2, <1>3
  <2>2. At(i, "file")' = At(i, "file") /\ At(i, "connect")' = At(i, "connect")
    BY <1>1, <1>3 DEF At, OnlyThread
  <2> QED
    BY <1>2, <2>1, <2>2, SameCounted
<1>4. CASE i = Head(th[t].todo)
  <2>1. PICK F, C : F = At(i, "file") /\ C = At(i, "connect")
    OBVIOUS
  <2>2. F \subseteq Thread /\ C \subseteq Thread /\ t \notin F /\ t \in C
    BY <1>4, <2>1 DEF At
  <2>3. At(i, "file")' = F \cup {t} /\ At(i, "connect")' = C \ {t}
    BY <1>1, <1>4, <2>1 DEF At, OnlyThread
  <2>4. /\ Cardinality(F \cup {t}) = Cardinality(F) + 1
        /\ Cardinality(C \ {t}) = Cardinality(C) - 1
        /\ Cardinality(F) \in Nat /\ Cardinality(C) \in Nat /\ Cardinality(Thread) \in Nat
    BY <2>2, ThreadsCounted, FS_AddElement, FS_RemoveElement
  <2>5. made'[i] = made[i] + 1 /\ made[i] \in Nat
    BY <1>2, <1>4
  <2>6. CASE i \notin m_imsmap
    <3>1. made[i] = Cardinality(F)
      BY <1>2, <2>1, <2>6 DEF Counted
    <3>2. made'[i] = Cardinality(At(i, "file")')
      BY <2>3, <2>4, <2>5, <3>1
    <3> QED
      BY <2>6, <3>2 DEF Counted
  <2>7. CASE i \in m_imsmap
    <3>1. made[i] + Cardinality(C) <= Cardinality(Thread)
      BY <1>2, <2>1, <2>7 DEF Counted
    <3>2. made'[i] + Cardinality(C \ {t}) <= Cardinality(Thread)
      BY <2>4, <2>5, <3>1
    <3> QED
      BY <2>3, <2>7, <3>2 DEF Counted
  <2> QED
    BY <2>6, <2>7
<1> QED
  BY <1>3, <1>4

\* A connection that is filed: who still makes one is none of those who have.
LEMMA fileCounted ==
  ASSUME CInv, NEW t \in Thread, file(t)
  PROVE  \A i \in Ims : Counted(i)'
<1> SUFFICES ASSUME NEW i \in Ims PROVE Counted(i)'
  OBVIOUS
<1>1. /\ OnlyThread(t) /\ th[t].pc = "file" /\ th'[t].pc = "dispatch"
      /\ m_imsmap' = m_imsmap \cup {Head(th[t].todo)} /\ UNCHANGED made
  BY NotifiedGoes DEF CInv, TInv, IInv, file, FiledUnder
<1>2. Counted(i) /\ made \in [Ims -> Nat]
  BY DEF CInv, TInv, Stored
<1>3. At(i, "connect")' = At(i, "connect")
  BY <1>1 DEF At, OnlyThread
<1>4. CASE i # Head(th[t].todo)
  <2>1. At(i, "file")' = At(i, "file")
    BY <1>1, <1>4 DEF At, OnlyThread
  <2> QED
    BY <1>1, <1>2, <1>3, <1>4, <2>1, SameCounted
<1>5. CASE i = Head(th[t].todo)
  <2>1. i \in m_imsmap'
    BY <1>1, <1>5
  <2>2. PICK F, C : F = At(i, "file") /\ C = At(i, "connect")
    OBVIOUS
  <2>3. F \subseteq Thread /\ C \subseteq Thread /\ F \cap C = {}
    BY <2>2 DEF At
  <2>4. /\ Cardinality(F \cup C) = Cardinality(F) + Cardinality(C)
        /\ Cardinality(F \cup C) <= Cardinality(Thread)
        /\ Cardinality(F) \in Nat /\ Cardinality(C) \in Nat /\ Cardinality(Thread) \in Nat
    <3>1. /\ IsFiniteSet(F) /\ IsFiniteSet(C) /\ F \cup C \subseteq Thread
          /\ Cardinality(F \cap C) = 0
      BY <2>3, ThreadsCounted, FS_EmptySet
    <3>2. Cardinality(F \cup C) = Cardinality(F) + Cardinality(C) - Cardinality(F \cap C)
      BY <3>1, FS_Union
    <3>3. /\ Cardinality(F \cup C) <= Cardinality(Thread)
          /\ Cardinality(F) \in Nat /\ Cardinality(C) \in Nat /\ Cardinality(Thread) \in Nat
      BY <2>3, <3>1, ThreadsCounted
    <3> QED
      BY <3>1, <3>2, <3>3
  <2>5. made[i] + Cardinality(C) <= Cardinality(Thread)
    <3>1. CASE i \in m_imsmap
      BY <1>2, <2>2, <3>1 DEF Counted
    <3>2. CASE i \notin m_imsmap
      <4>1. made[i] = Cardinality(F)
        BY <1>2, <2>2, <3>2 DEF Counted
      <4> QED
        BY <2>4, <4>1
    <3> QED
      BY <3>1, <3>2
  <2> QED
    BY <1>1, <1>3, <2>1, <2>2, <2>5 DEF Counted
<1> QED
  BY <1>4, <1>5

LEMMA dispatchCounted ==
  ASSUME CInv, NEW t \in Thread, dispatch(t)
  PROVE  \A i \in Ims : Counted(i)'
<1>1. Fields /\ th[t].pc = "dispatch" /\ UNCHANGED <<made, m_imsmap>>
  BY DEF dispatch, CInv, TInv, IInv
<1>2. \/ Goes(t, "respond")
      \/ Notified(t)
      \/ Goes(t, "connect") /\ Head(th[t].todo) \notin m_imsmap
  BY DEF dispatch
<1>3. /\ OnlyThread(t) /\ th'[t].pc # "file"
      /\ th'[t].pc = "connect" => Head(th'[t].todo) \notin m_imsmap
  <2>1. CASE Goes(t, "respond")
    BY <1>1, <2>1, GoesTo
  <2>2. CASE Notified(t)
    BY <1>1, <2>2, NotifiedGoes
  <2>3. CASE Goes(t, "connect") /\ Head(th[t].todo) \notin m_imsmap
    BY <1>1, <2>3, GoesTo
  <2> QED
    BY <1>2, <2>1, <2>2, <2>3
<1> QED
  BY <1>1, <1>3, FreeCounted

\* The steps before a notification.
LEMMA earlierCounted ==
  ASSUME CInv, NEW t \in Thread, ~Crash,
         \/ processTask(t) \/ find(t) \/ load(t) \/ inserting(t) \/ Handler(t) \/ Send_Msg(t)
         \/ respond(t) \/ insert(t) \/ Lock(t) \/ Useramount(t) \/ Get_cvs(t)
         \/ Queries(t) \/ Hang(t) \/ Stall(t)
  PROVE  \A i \in Ims : Counted(i)'
<1>1. Fields
  BY DEF CInv, TInv, IInv
<1>2. ASSUME processTask(t) PROVE OnlyThread(t) /\ th'[t].pc \notin {"connect", "file"}
  <2>1. PICK r : /\ th' = [th EXCEPT ![t] = r]
                 /\ r.pc \in {"find", "respond"}
    <3>1. PICK pc \in {"find", "respond"} :
            th' = [th EXCEPT ![t] = [Idle EXCEPT !.pc = pc, !.task = Head(tasks)]]
      BY <1>2 DEF processTask, TakenTo
    <3>2. [Idle EXCEPT !.pc = pc, !.task = Head(tasks)].pc = pc
      BY DEF Idle
    <3> QED
      BY <3>1, <3>2
  <2>2. DOMAIN th = Thread
    BY <1>1 DEF Fields
  <2> QED
    BY <2>1, <2>2 DEF OnlyThread
<1>3. ASSUME respond(t) PROVE OnlyThread(t) /\ th'[t].pc \notin {"connect", "file"}
  BY <1>1, <1>3 DEF respond, Fields, OnlyThread, Idle
<1>4. ASSUME Handler(t) PROVE OnlyThread(t) /\ th'[t].pc \notin {"connect", "file"}
  <2>1. PICK q, servers : Works(t, q, servers)
    BY <1>4, HandlerWorks
  <2>2. th' = [th EXCEPT ![t].pc = "dispatch", ![t].todo = servers]
    BY <2>1 DEF Works
  <2>3. /\ OnlyThread(t)
        /\ th'[t].pc = "dispatch" /\ th'[t].task = th[t].task
        /\ th'[t].todo = servers /\ th'[t].cvs = th[t].cvs
    BY <1>1, <2>2, GoesToDo
  <2> QED
    BY <2>3
<1>5. ASSUME Get_cvs(t) PROVE OnlyThread(t) /\ th'[t].pc \notin {"connect", "file"}
  <2>1. PICK c : th' = [th EXCEPT ![t].pc = "msg", ![t].cvs = c]
    BY <1>5 DEF Get_cvs
  <2> QED
    BY <1>1, <2>1, GoesWith
<1>6. ASSUME \/ find(t) \/ load(t) \/ inserting(t) \/ Send_Msg(t) \/ insert(t) \/ Lock(t)
             \/ Queries(t) \/ Hang(t) \/ Stall(t) \/ Useramount(t)
      PROVE  OnlyThread(t) /\ th'[t].pc \notin {"connect", "file"}
  <2>1. PICK pc \in {"lock", "insert", "inserting", "load", "respond", "work", "query",
                     "stalled", "hung", "lost"} : Goes(t, pc)
    BY <1>6 DEF find, load, inserting, Send_Msg, insert, Lock, Queries, Hang, Stall, Useramount
  <2> QED
    BY <1>1, <2>1, GoesTo
<1>7. OnlyThread(t) /\ th'[t].pc \notin {"connect", "file"}
  BY <1>2, <1>3, <1>4, <1>5, <1>6
<1>8. UNCHANGED m_imsmap /\ UNCHANGED made /\ th[t].pc # "file"
  <2>1. ASSUME Handler(t)
        PROVE  UNCHANGED m_imsmap /\ UNCHANGED made /\ th[t].pc \in {"work", "query"}
    <3>1. PICK q, servers : Works(t, q, servers)
      BY <2>1, HandlerWorks
    <3> QED
      BY <2>1, <3>1, HandlerWorks DEF Works
  <2> QED
    BY <2>1 DEF processTask, find, load, inserting, Send_Msg, respond, insert, Lock,
                Useramount, Get_cvs, Queries, Hang, Stall
<1> QED
  BY <1>7, <1>8, FreeCounted

LEMMA InitCounted == Init => CInv
<1> SUFFICES ASSUME Init PROVE CInv
  OBVIOUS
<1>1. ASSUME NEW i \in Ims PROVE Counted(i)
  <2>1. At(i, "file") = {}
    BY DEF Init, Idle, At
  <2>2. made[i] = 0 /\ i \notin m_imsmap /\ Cardinality({}) = 0
    BY FS_EmptySet DEF Init
  <2> QED
    BY <2>1, <2>2 DEF Counted
<1> QED
  BY <1>1, InitTInv DEF CInv

LEMMA StepCounted ==
  ASSUME CInv, [Next]_vars
  PROVE  CInv'
<1>1. TInv'
  BY StepTInv DEF CInv
<1>2. ASSUME UNCHANGED <<th, made, m_imsmap>> PROVE \A i \in Ims : Counted(i)'
  <2> SUFFICES ASSUME NEW i \in Ims PROVE Counted(i)'
    OBVIOUS
  <2>1. Counted(i) /\ At(i, "file")' = At(i, "file") /\ At(i, "connect")' = At(i, "connect")
    BY <1>2 DEF At, CInv
  <2> QED
    BY <1>2, <2>1 DEF Counted
<1>3. ASSUME NEW t \in Thread, connect(t) PROVE \A i \in Ims : Counted(i)'
  <2>1. th[t].pc = "connect" /\ UNCHANGED m_imsmap
    BY <1>3 DEF connect
  <2>2. \/ Goes(t, "file") /\ made' = [made EXCEPT ![Head(th[t].todo)] = @ + 1]
        \/ Notified(t) /\ UNCHANGED made
    BY <1>3 DEF connect
  <2> QED
    BY <2>1, <2>2, makeCounted, dropCounted
<1>4. CASE Crash \/ UNCHANGED vars \/ \E c \in Client, q \in Queue : handle_packet(c, q)
  BY <1>1, <1>2, <1>4 DEF Crash, vars, handle_packet, CInv
<1>5. ASSUME NEW t \in Thread, ~Crash,
             \/ Moves(t) \/ insert(t) \/ Lock(t) \/ Useramount(t) \/ Get_cvs(t)
             \/ Hang(t) \/ Stall(t)
      PROVE  \A i \in Ims : Counted(i)'
  BY <1>3, <1>5, earlierCounted, dispatchCounted, fileCounted DEF Moves
<1> QED
  BY <1>1, <1>4, <1>5 DEF Next, CInv

LEMMA AlwaysCounted == Spec => []CInv
BY InitCounted, StepCounted, PTL DEF Spec

\* Connections to an IM server are made without a lock (CSImsMgr.cpp:61), but each thread
\* makes one at most before one is filed and none looks for it after: never are there more
\* than threads, for any number of threads, servers and notifications.
THEOREM ConnectionsFew == Spec => []FewConnections
<1>1. ASSUME CInv, NEW i \in Ims PROVE made[i] <= Cardinality(Thread)
  <2>1. PICK F, C : F = At(i, "file") /\ C = At(i, "connect")
    OBVIOUS
  <2>2. F \subseteq Thread /\ C \subseteq Thread
    BY <2>1 DEF At
  <2>3. /\ Cardinality(F) <= Cardinality(Thread) /\ Cardinality(C) \in Nat
        /\ Cardinality(F) \in Nat /\ Cardinality(Thread) \in Nat
    BY <2>2, ThreadsCounted
  <2>4. \/ made[i] = Cardinality(F)
        \/ made[i] + Cardinality(C) <= Cardinality(Thread)
    BY <1>1, <2>1 DEF CInv, Counted
  <2>5. made[i] \in Nat
    BY <1>1 DEF CInv, TInv, Stored
  <2> QED
    BY <2>3, <2>4, <2>5
<1>2. CInv => FewConnections
  BY <1>1 DEF FewConnections
<1> QED
  BY <1>2, AlwaysCounted, PTL

=============================================================================
