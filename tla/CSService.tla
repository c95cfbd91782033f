------------------------------ MODULE CSService ------------------------------
(***************************************************************************)
(* The threads of CustomService.                                           *)
(*                                                                         *)
(* The reactor makes every packet a task of one pool of threads.  A task   *)
(* decodes its request, finds or loads the queue, changes it under the     *)
(* queue's mutex, and after that, without it, sends the notifications to   *)
(* the IM servers of those concerned and answers the client.  The map of   *)
(* queues is searched without the lock it is changed under, a message      *)
(* looks its conversation up without the queue's mutex, and the connection *)
(* to an IM server is made without a lock.  MySQL, which may take its time *)
(* or never answer, is asked under the lock of the map when a queue is     *)
(* loaded, and by most handlers under the mutex of their queue.            *)
(*                                                                         *)
(* What the handlers do to a queue is CSQueue's subject: here a queue is   *)
(* the number of users that wait in it and its live conversations.  Which  *)
(* request a task bears shows when it does what is its own; up to there    *)
(* all tasks do the same.                                                  *)
(*                                                                         *)
(* Definitions whose comment begins with "Slip:" are no part of the model, *)
(* see AgentMgr.                                                           *)
(***************************************************************************)
EXTENDS Naturals, Sequences, FiniteSets

CONSTANTS
  Thread,   \* the threads of the pool
  Client,   \* clients, which have one request under way each
  Queue,    \* the queue ids requests name
  Listed,   \* those of them the table queue_info has
  Ims,      \* the ids of the IM servers the users are on
  Tabled,   \* the ids the table tbserver has
  None,
  Faults,   \* what may go wrong: "db" (MySQL cannot be reached), "stall" (MySQL does not
            \* answer), "connect" (an IM server cannot be reached), "hang" (order_to_head)
  MaxLine,  \* bound: users that wait in a queue
  MaxCvs    \* bound: conversations

\* uint16: two bytes
ServerId == 0 .. 256 * 256 - 1

Task == [client: Client, queue: Queue]

ASSUME ServiceAssumption ==
  /\ IsFiniteSet(Thread) /\ Listed \subseteq Queue
  /\ Ims \subseteq ServerId /\ Tabled \subseteq ServerId
  /\ MaxLine \in Nat /\ MaxCvs \in Nat
  /\ None \notin Thread \cup Client \cup Task

VARIABLES
  tasks,        \* the queue of the pool: who sent what to which queue
  owed,         \* the clients whose request is not answered
  m_queue_pool, \* the queues that are loaded
  m_pool_mutex, \* who holds the lock of insert
  mutex,        \* who holds the mutex of each queue
  seq,          \* the number of conversations so far
  m_imsmap,     \* the IM servers a connection is filed for
  made,         \* how many connections have been made for each id
  th,           \* what each thread is doing
  alive         \* has the process not crashed?

vars == <<tasks, owed, m_queue_pool, m_pool_mutex, mutex, seq, m_imsmap, made, th, alive>>

\* Three of them for ever: "stalled" with the lock of the map, "hung" with the mutex of a
\* queue, "lost" without a lock.
Pc == {"idle", "find", "insert", "load", "inserting", "lock", "work", "query", "msg",
       "dispatch", "connect", "file", "respond", "stalled", "hung", "lost"}

\* todo are the servers to be notified, cvs is Send_Msg's conversation.
Idle == [pc |-> "idle", task |-> None, todo |-> <<>>, cvs |-> 0]

\* A queue that has just been loaded.
EmptyQueue == [waiting |-> 0, live |-> {}]

Goes(t, pc) == th' = [th EXCEPT ![t].pc = pc]

QueueOf(t) == th[t].task.queue

Loaded(q) == q \in DOMAIN m_queue_pool

\* The process goes down with a read of memory that is being changed or freed.
Crash ==
  /\ alive' = FALSE
  /\ UNCHANGED <<tasks, owed, m_queue_pool, m_pool_mutex, mutex, seq, m_imsmap, made, th>>

-----------------------------------------------------------------------------
(* A packet becomes a task; tasks that concern no queue.                   *)

handle_packet(c, q) ==
  /\ alive
  /\ c \notin owed
  /\ owed' = owed \cup {c}
  /\ tasks' = Append(tasks, [client |-> c, queue |-> q])
  /\ UNCHANGED <<m_queue_pool, m_pool_mutex, mutex, seq, m_imsmap, made, th, alive>>

\* Slip: a request that cannot be decoded is only logged.
TakenToNothing == {"find", "respond", "idle"}

\* What becomes of a task: a request that names a queue; get_queue, get_msg and a
\* heartbeat, which need none; one that cannot be decoded and is answered 500.  (Only a
\* command no client knows is not answered; clients do not send it.)
TakenTo == {"find", "respond"}

processTask(t) ==
  /\ alive
  /\ th[t].pc = "idle" /\ tasks # <<>>
  /\ \E pc \in TakenTo : th' = [th EXCEPT ![t] = [Idle EXCEPT !.pc = pc, !.task = Head(tasks)]]
  /\ tasks' = Tail(tasks)
  /\ UNCHANGED <<owed, m_queue_pool, m_pool_mutex, mutex, seq, m_imsmap, made, alive>>

-----------------------------------------------------------------------------
(* The map of queues.                                                      *)

\* Is another thread changing the map?
Inserting(t) == \E s \in Thread \ {t} : th[s].pc = "inserting"

\* find, without the lock.  While the map is changed it may miss what is there, or
\* follow a link that leads nowhere.
find(t) ==
  /\ alive
  /\ th[t].pc = "find"
  /\ \/ /\ Loaded(QueueOf(t))
        /\ Goes(t, "lock")
        /\ UNCHANGED <<tasks, owed, m_queue_pool, m_pool_mutex, mutex, seq, m_imsmap, made, alive>>
     \/ /\ ~Loaded(QueueOf(t)) \/ Inserting(t)
        /\ Goes(t, "insert")
        /\ UNCHANGED <<tasks, owed, m_queue_pool, m_pool_mutex, mutex, seq, m_imsmap, made, alive>>
     \/ Inserting(t) /\ Crash

\* insert takes its lock and asks the database.
insert(t) ==
  /\ alive
  /\ th[t].pc = "insert" /\ m_pool_mutex = None
  /\ m_pool_mutex' = t
  /\ Goes(t, "load")
  /\ UNCHANGED <<tasks, owed, m_queue_pool, mutex, seq, m_imsmap, made, alive>>

\* A queue the table does not have is refused, unless no connection to the database can
\* be had: get_queue_info then returns -1, which is TRUE.
load(t) ==
  /\ alive
  /\ th[t].pc = "load"
  /\ \/ /\ QueueOf(t) \in Listed \/ "db" \in Faults
        /\ Goes(t, "inserting")
        /\ UNCHANGED m_pool_mutex
     \/ /\ QueueOf(t) \notin Listed \/ "db" \in Faults
        /\ Goes(t, "respond")
        /\ m_pool_mutex' = None
  /\ UNCHANGED <<tasks, owed, m_queue_pool, mutex, seq, m_imsmap, made, alive>>

\* Slip: m_queue_pool[queue_id] = queue.
InsertedOver(q) == [p \in DOMAIN m_queue_pool \cup {q} |->
                      IF p = q THEN EmptyQueue ELSE m_queue_pool[p]]

\* map::insert keeps what another thread has loaded in the meantime.
Inserted(q) == [p \in DOMAIN m_queue_pool \cup {q} |->
                  IF Loaded(p) THEN m_queue_pool[p] ELSE EmptyQueue]

\* Slip: the lock outlives insert.
UnlockedLater == m_pool_mutex

Unlocked == None

\* The change of the map, and the end of insert.
inserting(t) ==
  /\ alive
  /\ th[t].pc = "inserting"
  /\ m_queue_pool' = Inserted(QueueOf(t))
  /\ m_pool_mutex' = Unlocked
  /\ Goes(t, "lock")
  /\ UNCHANGED <<tasks, owed, mutex, seq, m_imsmap, made, alive>>

-----------------------------------------------------------------------------
(* The handlers of a queue, under its mutex.                               *)

Lock(t) ==
  /\ alive
  /\ th[t].pc = "lock" /\ mutex[QueueOf(t)] = None
  /\ mutex' = [mutex EXCEPT ![QueueOf(t)] = t]
  /\ Goes(t, "work")
  /\ UNCHANGED <<tasks, owed, m_queue_pool, m_pool_mutex, seq, m_imsmap, made, alive>>

\* The ids of servers in their order.
Ordered(servers) ==
  CHOOSE s \in [1 .. Cardinality(servers) -> servers] :
    \A i, j \in DOMAIN s : i < j => s[i] < s[j]

\* Groups of notifications, one for each server, in the order of the servers' ids.
ListMap(servers) == Ordered(servers)

\* The three kinds of notifications handlers leave to dispatch_invite_list,
\* dispatch_usercvs_list and dispatch_user_list, for those on the servers given.
Invitations(servers) == ListMap(servers)

Endings(servers) == ListMap(servers)

Positions(servers) == ListMap(servers)

\* The handler of t has made q of its queue; it unlocks it and dispatches notifications
\* to the servers named, list by list.
Works(t, q, servers) ==
  /\ m_queue_pool' = [m_queue_pool EXCEPT ![QueueOf(t)] = q]
  /\ mutex' = [mutex EXCEPT ![QueueOf(t)] = None]
  /\ th' = [th EXCEPT ![t].pc = "dispatch", ![t].todo = servers]
  /\ UNCHANGED <<tasks, owed, m_pool_mutex, m_imsmap, made, alive>>

\* The handler asks MySQL, before it changes the queue or with the change half done (which
\* nobody sees who has not the mutex): whether the agent may serve here, or to save a
\* conversation or a score.
Queries(t) ==
  /\ alive
  /\ th[t].pc = "work"
  /\ Goes(t, "query")
  /\ UNCHANGED <<tasks, owed, m_queue_pool, m_pool_mutex, mutex, seq, m_imsmap, made, alive>>

\* Users and conversations stay, and agents are invited.
Invites(t) ==
  \E a \in SUBSET Ims :
    /\ Works(t, m_queue_pool[QueueOf(t)], Invitations(a))
    /\ UNCHANGED seq

Presence(t) == Invites(t)

Refuse(t) == Invites(t)

Redirect(t) == Invites(t)

\* Nothing an IM server is told of: also every request that is refused.
Absence(t) ==
  /\ Works(t, m_queue_pool[QueueOf(t)], <<>>)
  /\ UNCHANGED seq

Get_QueueAgent(t) == Absence(t)

Score(t) == Absence(t)

\* Invitations for the next users, and all who wait are told their position.
Accept(t) ==
  LET q == m_queue_pool[QueueOf(t)]
  IN  /\ seq < MaxCvs /\ q.waiting > 0
      /\ seq' = seq + 1
      /\ \E a, u \in SUBSET Ims :
           Works(t, [waiting |-> q.waiting - 1, live |-> q.live \cup {seq'}],
                 Invitations(a) \o Positions(u))

\* The users of an agent's conversations wait again, and are told that the conversations
\* are over.
Offline(t) ==
  LET q == m_queue_pool[QueueOf(t)]
  IN  /\ \E c \in SUBSET q.live, a, u \in SUBSET Ims :
           /\ q.waiting + Cardinality(c) <= MaxLine
           /\ Works(t, [waiting |-> q.waiting + Cardinality(c), live |-> q.live \ c],
                    Invitations(a) \o Endings(u))
      /\ UNCHANGED seq

Join(t) ==
  LET q == m_queue_pool[QueueOf(t)]
  IN  /\ q.waiting < MaxLine
      /\ \E a \in SUBSET Ims : Works(t, [q EXCEPT !.waiting = @ + 1], Invitations(a))
      /\ UNCHANGED seq

\* Those behind the user are told their position.
Depart(t) ==
  LET q == m_queue_pool[QueueOf(t)]
  IN  /\ q.waiting > 0
      /\ \E u \in SUBSET Ims : Works(t, [q EXCEPT !.waiting = @ - 1], Positions(u))
      /\ UNCHANGED seq

\* The conversation is freed, and the agent is not told.
End(t) ==
  LET q == m_queue_pool[QueueOf(t)]
  IN  /\ \E c \in q.live : Works(t, [q EXCEPT !.live = @ \ {c}], <<>>)
      /\ UNCHANGED seq

\* The loop of order_to_head (see AgentMgr), which the handler never leaves.
Hang(t) ==
  /\ alive
  /\ "hang" \in Faults
  /\ th[t].pc \in {"work", "query"}
  /\ Goes(t, "hung")
  /\ UNCHANGED <<tasks, owed, m_queue_pool, m_pool_mutex, mutex, seq, m_imsmap, made, alive>>

\* A query that MySQL never answers; nothing limits the time it may take.
Stall(t) ==
  /\ alive
  /\ "stall" \in Faults
  /\ \/ th[t].pc = "load" /\ Goes(t, "stalled")
     \/ th[t].pc = "query" /\ Goes(t, "hung")
     \/ th[t].pc \in {"msg", "connect"} /\ Goes(t, "lost")
  /\ UNCHANGED <<tasks, owed, m_queue_pool, m_pool_mutex, mutex, seq, m_imsmap, made, alive>>

\* useramount reads the length of the line without the mutex.
Useramount(t) ==
  /\ alive
  /\ th[t].pc = "lock"
  /\ Goes(t, "respond")
  /\ UNCHANGED <<tasks, owed, m_queue_pool, m_pool_mutex, mutex, seq, m_imsmap, made, alive>>

\* Send_Msg looks its conversation up without the mutex, whoever changes the map now.
Get_cvs(t) ==
  /\ alive
  /\ th[t].pc = "lock"
  /\ \/ \E c \in m_queue_pool[QueueOf(t)].live :
          /\ th' = [th EXCEPT ![t].pc = "msg", ![t].cvs = c]
          /\ UNCHANGED <<tasks, owed, m_queue_pool, m_pool_mutex, mutex, seq, m_imsmap, made, alive>>
     \/ mutex[QueueOf(t)] # None /\ Crash

\* It reads the agent and the user through the pointer and saves the message.
Send_Msg(t) ==
  /\ alive
  /\ th[t].pc = "msg"
  /\ \/ /\ Goes(t, "respond")
        /\ UNCHANGED <<tasks, owed, m_queue_pool, m_pool_mutex, mutex, seq, m_imsmap, made, alive>>
     \/ th[t].cvs \notin m_queue_pool[QueueOf(t)].live /\ Crash

-----------------------------------------------------------------------------
(* The notifications, without a lock, and the answer.                      *)

\* A notification is over: the next, or the answer.
Notified(t) == th' = [th EXCEPT ![t].pc = "dispatch", ![t].todo = Tail(@)]

\* send_packet over the connection that is filed, or what is left to do without one.  A
\* connection the server has closed stays filed, and nothing sent over it arrives.
dispatch(t) ==
  /\ alive
  /\ th[t].pc = "dispatch"
  /\ CASE th[t].todo = <<>> -> Goes(t, "respond")
       [] th[t].todo # <<>> /\ Head(th[t].todo) \in m_imsmap -> Notified(t)
       [] OTHER -> Goes(t, "connect")
  /\ UNCHANGED <<tasks, owed, m_queue_pool, m_pool_mutex, mutex, seq, m_imsmap, made, alive>>

\* The parameter of connect has 8 bits.
ConnectsTo(i) == i % 256

\* get_ims finds the address, in its cache or in the table.
HasAddress(i) == ConnectsTo(i) \in Tabled

\* The address and the connection.  Without an address or a connection the notifications of
\* this server are dropped.
connect(t) ==
  /\ alive
  /\ th[t].pc = "connect"
  /\ LET i == Head(th[t].todo)
     IN  \/ /\ HasAddress(i)
            /\ made' = [made EXCEPT ![i] = @ + 1]
            /\ Goes(t, "file")
         \/ /\ ~HasAddress(i) \/ {"db", "connect"} \cap Faults # {}
            /\ Notified(t)
            /\ UNCHANGED made
  /\ UNCHANGED <<tasks, owed, m_queue_pool, m_pool_mutex, mutex, seq, m_imsmap, alive>>

\* Slip: the connection is filed under the number that was connected to.
FiledUnderByte(i) == i % 256

FiledUnder(i) == i

\* InsertHandler keeps what another thread has filed; the notification goes over the
\* connection of this thread all the same.
file(t) ==
  /\ alive
  /\ th[t].pc = "file"
  /\ m_imsmap' = m_imsmap \cup {FiledUnder(Head(th[t].todo))}
  /\ Notified(t)
  /\ UNCHANGED <<tasks, owed, m_queue_pool, m_pool_mutex, mutex, seq, made, alive>>

\* The answer; the client may send its next request.
respond(t) ==
  /\ alive
  /\ th[t].pc = "respond"
  /\ owed' = owed \ {th[t].task.client}
  /\ th' = [th EXCEPT ![t] = Idle]
  /\ UNCHANGED <<tasks, m_queue_pool, m_pool_mutex, mutex, seq, m_imsmap, made, alive>>

-----------------------------------------------------------------------------

Init ==
  /\ tasks = <<>> /\ owed = {}
  /\ m_queue_pool = <<>>
  /\ m_pool_mutex = None
  /\ mutex = [q \in Queue |-> None]
  /\ seq = 0
  /\ m_imsmap = {}
  /\ made = [i \in Ims |-> 0]
  /\ th = [t \in Thread |-> Idle]
  /\ alive = TRUE

\* What a handler does under the mutex of its queue, unless it hangs.  A score is saved only
\* where the conversation is not live.
Handler(t) ==
  /\ alive
  /\ \/ /\ th[t].pc = "work"
        /\ Absence(t) \/ Refuse(t) \/ Join(t) \/ Depart(t) \/ Get_QueueAgent(t) \/ Score(t)
     \/ /\ th[t].pc = "query"
        /\ Presence(t) \/ Redirect(t) \/ Accept(t) \/ Offline(t) \/ End(t) \/ Score(t)

\* What needs no lock but those the thread has.
Moves(t) ==
  \/ processTask(t) \/ find(t) \/ load(t) \/ inserting(t) \/ Queries(t) \/ Handler(t)
  \/ Send_Msg(t) \/ dispatch(t) \/ connect(t) \/ file(t) \/ respond(t)

Next ==
  \/ \E c \in Client, q \in Queue : handle_packet(c, q)
  \/ \E t \in Thread :
       \/ Moves(t) \/ insert(t) \/ Lock(t) \/ Useramount(t) \/ Get_cvs(t)
       \/ Hang(t) \/ Stall(t)

Spec == Init /\ [][Next]_vars

\* The threads run, and a thread that waits for a lock that is free again and again gets
\* it.
FairSpec ==
  /\ Spec
  /\ \A t \in Thread : WF_vars(Moves(t)) /\ SF_vars(insert(t)) /\ SF_vars(Lock(t))

-----------------------------------------------------------------------------
(* Properties.                                                             *)

\* Every variable has the values its type allows.
TypeOK ==
  /\ \A i \in DOMAIN tasks : tasks[i] \in Task
  /\ owed \subseteq Client
  /\ DOMAIN m_queue_pool \subseteq Queue
  /\ \A q \in DOMAIN m_queue_pool :
       m_queue_pool[q] \in [waiting: 0 .. MaxLine, live: SUBSET (1 .. MaxCvs)]
  /\ m_pool_mutex \in Thread \cup {None}
  /\ mutex \in [Queue -> Thread \cup {None}]
  /\ seq \in 0 .. MaxCvs
  /\ m_imsmap \subseteq Ims
  /\ made \in [Ims -> Nat]
  /\ DOMAIN th = Thread
  /\ \A t \in Thread :
       /\ th[t].pc \in Pc /\ th[t].cvs \in 0 .. MaxCvs
       /\ th[t].task \in Task \cup {None} /\ (th[t].task = None <=> th[t].pc = "idle")
       /\ \A i \in DOMAIN th[t].todo : th[t].todo[i] \in Ims
  /\ alive \in BOOLEAN

\* Does t wait for a lock that s holds?
WaitsFor(t, s) ==
  \/ th[t].pc = "insert" /\ m_pool_mutex = s
  \/ th[t].pc = "lock" /\ mutex[QueueOf(t)] = s

\* There is no circle of waiting, nor a chain: a thread that waits for a lock waits for one
\* that is loading a queue, or in a handler of the queue both are concerned with.  That
\* one may be waiting for MySQL (CSQueueMgr.cpp:132, Queue.cpp:21), but for no lock (not
\* even the one it has, boost::mutex is not recursive), no client and no IM server.
NoChainOfWaits ==
  \A t, s \in Thread :
    WaitsFor(t, s) =>
      /\ \A r \in Thread : ~WaitsFor(s, r)
      /\ \/ th[s].pc \in {"load", "inserting", "stalled"}
         \/ th[s].pc \in {"work", "query", "hung"} /\ QueueOf(s) = QueueOf(t)

\* A queue that is loaded stays, and what is in it changes only by a thread that holds its
\* mutex: two threads that load the same queue at once do not lose the users of the
\* first (CSQueueMgr.cpp:138).
OnlyHoldersChange ==
  [][\A q \in DOMAIN m_queue_pool :
       /\ q \in DOMAIN m_queue_pool'
       /\ m_queue_pool'[q] # m_queue_pool[q] => mutex[q] # None /\ mutex'[q] = None]_vars

\* Connections to an IM server are made without a lock, but never more of them than there
\* are threads, however many notifications it gets (CSImsMgr.cpp:61).
FewConnections == \A i \in Ims : made[i] <= Cardinality(Thread)

\* Is t where it never leaves, or waiting for a lock of a thread that is?
Stuck(t) ==
  \/ th[t].pc \in {"stalled", "hung", "lost"}
  \/ \E s \in Thread : WaitsFor(t, s) /\ th[s].pc \in {"stalled", "hung"}

\* Every request is answered, unless the process goes down, or the request is stuck
\* in or behind a handler that does not end or a query that is not answered, or every
\* thread of the pool is: one hung queue does not stop the others before it has
\* taken the whole pool (CSThreadPool.h:25).
Served ==
  \A c \in Client :
    c \in owed ~> \/ c \notin owed \/ ~alive
                  \/ \A t \in Thread : Stuck(t)
                  \/ \E t \in Thread : Stuck(t) /\ th[t].task.client = c

\* As long as there is a thread that is not stuck, only what happens to the requests of the
\* same queue can hold a request up.
HeldUpByOwnQueue ==
  \A c \in Client :
    c \in owed ~> \/ c \notin owed \/ ~alive
                  \/ \A t \in Thread : Stuck(t)
                  \/ \E t, s \in Thread :
                       /\ th[t].task # None /\ th[t].task.client = c
                       /\ th[s].pc \in {"stalled", "hung", "lost"} /\ QueueOf(s) = QueueOf(t)

=============================================================================
