------------------------------ MODULE ConnPool ------------------------------
(***************************************************************************)
(* The connections of CustomService to MySQL (CSMySqlConnMgr) and the      *)
(* functions of CMySqlDbMgr and CSImsInfoMgr that use them.                *)
(*                                                                         *)
(* There are two pools, one for reading and one for writing.  A function   *)
(* grabs a connection, taking the one released last if the pool has more   *)
(* than one, and otherwise connecting to the servers in turn; it pings     *)
(* the connection, deletes it if it is dead and starts again; it runs its  *)
(* statement and releases the connection, whereupon the pool closes what   *)
(* has not been used for a while.  A reader that gets none from its pool   *)
(* takes one from the pool for writing, and releases it to its own.        *)
(*                                                                         *)
(* The queues of the pools are locked; the round robin and the state of    *)
(* the servers are not, and are read and written in separate steps here.   *)
(* Servers stop, which kills their connections, and come back.             *)
(*                                                                         *)
(* Every caller uses the pools of key 1, so that there is one pair.        *)
(* Definitions whose comment begins with "Slip:" are no part of the model, *)
(* see AgentMgr.                                                           *)
(***************************************************************************)
EXTENDS Naturals, Sequences, FiniteSets

CONSTANTS
  Thread,       \* threads that use the database
  Conn,         \* the addresses connections may have
  ReadConf,     \* the entries of mysql.server1_read and of
  WriteConf,    \* mysql.server1: the server's name and how many fields it has
  None,
  CONN_IDLE_TIME,
  SERVER_RECOVER_TIMEOUT,
  MaxTime,      \* bound: of the clock
  MaxStops      \* bound: how often servers stop

Pool == {"read", "write"}

Reads == {"verify_queue_agent", "get_queue_info", "get_queue_list", "last_cvsid",
          "last_msgid", "get_msg", "load_allims", "load_ims"}

Writes == {"save_conversation_score", "save_conversation_info", "save_msg"}

Functions(home) == IF home = "write" THEN Writes ELSE Reads

\* MysqlDBServerInfo::parse: server and database are needed, user and password are not.
Parses(e) == e.fields >= 2

\* The entries of a configuration that parse, in their order.
Parsed(conf) ==
  LET at == {i \in DOMAIN conf : Parses(conf[i])}
      s  == CHOOSE s \in [1 .. Cardinality(at) -> at] :
              \A i, j \in DOMAIN s : i < j => s[i] < s[j]
  IN  [k \in DOMAIN s |-> conf[s[k]]]

m_db_svrs == [read |-> Parsed(ReadConf), write |-> Parsed(WriteConf)]

Entry == [name: STRING, fields: 0 .. 4]

Names == UNION {{m_db_svrs[p][i].name : i \in DOMAIN m_db_svrs[p]} : p \in Pool}

ASSUME PoolAssumption ==
  /\ IsFiniteSet(Conn) /\ IsFiniteSet(Thread)
  /\ ReadConf \in Seq(Entry) /\ WriteConf \in Seq(Entry)
  /\ None \notin Conn \cup [server: Names, alive: BOOLEAN]
  /\ CONN_IDLE_TIME \in Nat /\ SERVER_RECOVER_TIMEOUT \in Nat
  /\ MaxTime \in Nat /\ MaxStops \in Nat

VARIABLES
  now,            \* the clock
  up,             \* the servers that run
  stops,          \* how often one has stopped
  link,           \* the open connections: to which server, and whether it still answers
  m_conn_queue,   \* of each pool, oldest first
  m_round_robin,  \* of each pool, modulo the number of its servers
  m_ok, m_reborn, \* of each server of each pool; None is what memory held before set_bad
  th              \* what each thread is doing

vars == <<now, up, stops, link, m_conn_queue, m_round_robin, m_ok, m_reborn, th>>

Pc == {"idle", "grab", "index", "connect", "set_bad", "ping", "none", "run", "return"}

\* home is the pool ScopedConnection will release to, from the one a connection is
\* looked for in.  Which function the thread is in shows when it runs its statement:
\* before that all functions with the same home do the same.
Idle == [pc |-> "idle", home |-> None, from |-> None, conn |-> None, index |-> 0,
         tries |-> 0, ran |-> FALSE, ret |-> FALSE]

Servers(p) == Len(m_db_svrs[p])

Goes(t, f) == th' = [th EXCEPT ![t] = f]

-----------------------------------------------------------------------------
(* MysqlConnPool and MysqlDBServerInfo.                                    *)

\* Slip: pop_back is forgotten.
TakenStays(p) == m_conn_queue

\* back() and pop_back()
Taken(p) ==
  [m_conn_queue EXCEPT ![p] = SubSeq(@, 1, Len(@) - 1)]

\* Slip: the pool keeps two.
PooledMore(p) == Len(m_conn_queue[p]) > 2

Pooled(p) == Len(m_conn_queue[p]) > 1

\* The first half of grab, under the lock.
GrabPooled(t) ==
  LET p == th[t].from
  IN  /\ th[t].pc = "grab"
      /\ \/ /\ Pooled(p)
            /\ Goes(t, [th[t] EXCEPT !.pc = "ping",
                                     !.conn = m_conn_queue[p][Len(m_conn_queue[p])].conn])
            /\ m_conn_queue' = Taken(p)
         \/ /\ ~Pooled(p)
            /\ Goes(t, [th[t] EXCEPT !.pc = IF Servers(p) = 0 THEN "none" ELSE "index",
                                     !.tries = 0])
            /\ UNCHANGED m_conn_queue
  /\ UNCHANGED <<now, up, stops, link, m_round_robin, m_ok, m_reborn>>

\* m_round_robin is read; the incremented value is written in the next step.
Index(t) ==
  /\ th[t].pc = "index"
  /\ Goes(t, [th[t] EXCEPT !.pc = "connect", !.index = m_round_robin[th[t].from]])
  /\ UNCHANGED <<now, up, stops, link, m_conn_queue, m_round_robin, m_ok, m_reborn>>

\* What is_ok may return: it takes a server that was marked bad as long as its recovery
\* time has not come.  Before set_bad has written m_reborn anything may be in it.
is_ok(p, i) ==
  IF m_ok[p][i] THEN {TRUE}
  ELSE IF m_reborn[p][i] = None THEN BOOLEAN
  ELSE {m_reborn[p][i] >= now}

\* Slip: the index is not taken modulo the number of servers.
NextIndexPast(p, i) == i

NextIndex(p, i) == i % Servers(p)

\* One turn of the loop is over; after the last there is no connection.
NextTurn(t) ==
  [th[t] EXCEPT !.tries = @ + 1,
                !.pc = IF th[t].tries + 1 < Servers(th[t].from) THEN "index" ELSE "none"]

\* A server is tried.  connect is true, or it throws or returns false.  new returns NULL
\* if there is no address left.
Connect(t) ==
  LET p == th[t].from
      i == th[t].index + 1
      free == {c \in Conn : link[c] = None}
      name == m_db_svrs[p][i].name
  IN  /\ th[t].pc = "connect"
      /\ m_round_robin' = [m_round_robin EXCEPT ![p] = NextIndex(p, i)]
      /\ \E ok \in is_ok(p, i) :
           \/ /\ ~ok \/ free = {}
              /\ m_ok' = [m_ok EXCEPT ![p][i] = @ \/ ok]
              /\ Goes(t, NextTurn(t))
              /\ UNCHANGED link
           \/ /\ ok /\ name \in up
              /\ \E c \in free :
                   /\ link' = [link EXCEPT ![c] = [server |-> name, alive |-> TRUE]]
                   /\ Goes(t, [th[t] EXCEPT !.pc = "ping", !.conn = c])
              /\ m_ok' = [m_ok EXCEPT ![p][i] = TRUE]
           \/ /\ ok /\ free # {} /\ name \notin up
              /\ m_ok' = [m_ok EXCEPT ![p][i] = FALSE]
              /\ Goes(t, [th[t] EXCEPT !.pc = "set_bad"])
              /\ UNCHANGED link
      /\ UNCHANGED <<now, up, stops, m_conn_queue, m_reborn>>

\* The second half of set_bad; the connection is deleted.
set_bad(t) ==
  /\ th[t].pc = "set_bad"
  /\ m_reborn' = [m_reborn EXCEPT ![th[t].from][th[t].index + 1] = now + SERVER_RECOVER_TIMEOUT]
  /\ Goes(t, NextTurn(t))
  /\ UNCHANGED <<now, up, stops, link, m_conn_queue, m_round_robin, m_ok>>

\* Slip: the dead connection is not deleted.
DropKeeping(c) == link

Drop(c) == [link EXCEPT ![c] = None]

\* The loop of grab_and_ping.
Ping(t) ==
  LET c == th[t].conn
  IN  /\ th[t].pc = "ping"
      /\ \/ /\ link[c].alive
            /\ Goes(t, [th[t] EXCEPT !.pc = "run"])
            /\ UNCHANGED link
         \/ /\ ~link[c].alive
            /\ link' = Drop(c)
            /\ Goes(t, [th[t] EXCEPT !.pc = "grab", !.conn = None])
      /\ UNCHANGED <<now, up, stops, m_conn_queue, m_round_robin, m_ok, m_reborn>>

\* Slip: only the front is looked at.
RestOne(q) == IF q # <<>> /\ now - q[1].last_used > CONN_IDLE_TIME THEN Tail(q) ELSE q

\* What the loop of release leaves: it stops at the first one used lately.
Rest(q) ==
  LET young == {i \in DOMAIN q : now - q[i].last_used <= CONN_IDLE_TIME}
  IN  IF young = {} THEN <<>>
      ELSE SubSeq(q, CHOOSE i \in young : \A j \in young : i <= j, Len(q))

Released(p, c) ==
  [m_conn_queue EXCEPT ![p] = Append(Rest(@), [conn |-> c, last_used |-> now])]

Conns(q) == {q[i].conn : i \in DOMAIN q}

\* Slip: a connection is always released to the pool for writing.
HomeOfWrite(t) == "write"

HomeOf(t) == th[t].home

\* The function returns, and ~ScopedConnection releases what it holds.
Return(t) ==
  LET p == HomeOf(t)
      q == m_conn_queue[p]
  IN  /\ th[t].pc = "return"
      /\ Goes(t, Idle)
      /\ IF th[t].conn = None THEN UNCHANGED <<link, m_conn_queue>>
         ELSE /\ m_conn_queue' = Released(p, th[t].conn)
              /\ link' = [c \in Conn |-> IF c \in Conns(q) \ Conns(Rest(q)) THEN None
                                         ELSE link[c]]
      /\ UNCHANGED <<now, up, stops, m_round_robin, m_ok, m_reborn>>

-----------------------------------------------------------------------------
(* The functions.                                                          *)

\* SCOPED_KEY_CONN_READ and SCOPED_KEY_CONN_WRITE begin: grab_and_ping on the own pool.
Call(t, p) ==
  /\ th[t].pc = "idle"
  /\ Goes(t, [Idle EXCEPT !.pc = "grab", !.home = p, !.from = p])
  /\ UNCHANGED <<now, up, stops, link, m_conn_queue, m_round_robin, m_ok, m_reborn>>

\* SCOPED_CONN_READ turns to the pool for writing.
FallBack(t) ==
  /\ th[t].pc = "none" /\ th[t].from = "read"
  /\ Goes(t, [th[t] EXCEPT !.pc = "grab", !.from = "write"])
  /\ UNCHANGED <<now, up, stops, link, m_conn_queue, m_round_robin, m_ok, m_reborn>>

\* What a caller makes of the -1 the macros return: most functions are of type bool.
MinusOne(fn) == fn \notin {"load_allims", "load_ims"}

\* There is no connection to be had.
NoConnection(t) ==
  /\ th[t].pc = "none" /\ th[t].from = "write"
  /\ \E fn \in Functions(th[t].home) :
       Goes(t, [th[t] EXCEPT !.pc = "return", !.ret = MinusOne(fn)])
  /\ UNCHANGED <<now, up, stops, link, m_conn_queue, m_round_robin, m_ok, m_reborn>>

Done == [ran |-> TRUE, ret |-> TRUE]
NoRows == [ran |-> TRUE, ret |-> FALSE]
Failed == [ran |-> FALSE, ret |-> FALSE]

\* Slip: the handler of the exception falls through to the return of success.
CaughtTrue == [ran |-> FALSE, ret |-> TRUE]

\* The statement throws; every function catches that and returns failure.
Caught == Failed

\* Function fn runs its statement: it throws if the connection has died since the ping;
\* otherwise it has one of the outcomes, which tell whether the statement was carried
\* out and what fn returns.
Statement(t, fn, outcomes) ==
  /\ th[t].pc = "run" /\ fn \in Functions(th[t].home)
  /\ \E o \in IF link[th[t].conn].alive THEN outcomes ELSE {Caught} :
       Goes(t, [th[t] EXCEPT !.pc = "return", !.ran = o.ran, !.ret = o.ret])
  /\ UNCHANGED <<now, up, stops, link, m_conn_queue, m_round_robin, m_ok, m_reborn>>

verify_queue_agent(t) == Statement(t, "verify_queue_agent", {Done, NoRows})

get_queue_info(t) == Statement(t, "get_queue_info", {Done, NoRows})

\* No rows are an empty list.
get_queue_list(t) == Statement(t, "get_queue_list", {Done})

\* There is always the row of max().
last_cvsid(t) == Statement(t, "last_cvsid", {Done})

last_msgid(t) == Statement(t, "last_msgid", {Done})

get_msg(t) == Statement(t, "get_msg", {Done})

\* The statement misspells the table: it is never carried out.
save_conversation_score(t) == Statement(t, "save_conversation_score", {Failed})

\* Carried out is the statement, as it stands: it inserts a row, but where there is one
\* already its update branch writes a truth value into agent_id and no score
\* (CSMySqlDbMgr.cpp:174), and reports success all the same.  CSQueue has what that does
\* to the table (Saved).
save_conversation_info(t) == Statement(t, "save_conversation_info", {Done})

\* The id may be taken.
save_msg(t) == Statement(t, "save_msg", {Done, Failed})

load_allims(t) == Statement(t, "load_allims", {Done, NoRows})

load_ims(t) == Statement(t, "load_ims", {Done, NoRows})

-----------------------------------------------------------------------------
(* The world.                                                              *)

Tick ==
  /\ now < MaxTime
  /\ now' = now + 1
  /\ UNCHANGED <<up, stops, link, m_conn_queue, m_round_robin, m_ok, m_reborn, th>>

\* A server stops; what is connected to it does not answer any more.
Stop(s) ==
  /\ stops < MaxStops
  /\ s \in up
  /\ up' = up \ {s}
  /\ stops' = stops + 1
  /\ link' = [c \in Conn |-> IF link[c] # None /\ link[c].server = s
                             THEN [link[c] EXCEPT !.alive = FALSE] ELSE link[c]]
  /\ UNCHANGED <<now, m_conn_queue, m_round_robin, m_ok, m_reborn, th>>

Start(s) ==
  /\ s \in Names \ up
  /\ up' = up \cup {s}
  /\ UNCHANGED <<now, stops, link, m_conn_queue, m_round_robin, m_ok, m_reborn, th>>

\* load refuses a configuration without a server to write to.
Init ==
  /\ Servers("write") > 0
  /\ now = 0
  /\ up = Names
  /\ stops = 0
  /\ link = [c \in Conn |-> None]
  /\ m_conn_queue = [p \in Pool |-> <<>>]
  /\ m_round_robin = [p \in Pool |-> 0]
  /\ m_ok = [p \in Pool |-> [i \in 1 .. Servers(p) |-> TRUE]]
  /\ m_reborn = [p \in Pool |-> [i \in 1 .. Servers(p) |-> None]]
  /\ th = [t \in Thread |-> Idle]

Execute(t) ==
  \/ verify_queue_agent(t)
  \/ get_queue_info(t)
  \/ get_queue_list(t)
  \/ last_cvsid(t)
  \/ last_msgid(t)
  \/ get_msg(t)
  \/ save_conversation_score(t)
  \/ save_conversation_info(t)
  \/ save_msg(t)
  \/ load_allims(t)
  \/ load_ims(t)

\* The thread goes on with the function it has called.
Run(t) ==
  \/ GrabPooled(t)
  \/ Index(t)
  \/ Connect(t)
  \/ set_bad(t)
  \/ Ping(t)
  \/ FallBack(t)
  \/ NoConnection(t)
  \/ Execute(t)
  \/ Return(t)

Next ==
  \/ \E t \in Thread : Run(t) \/ \E p \in Pool : Call(t, p)
  \/ Tick
  \/ \E s \in Names : Stop(s) \/ Start(s)

Spec == Init /\ [][Next]_vars

-----------------------------------------------------------------------------
(* Properties.                                                             *)

Holding(t) == th[t].conn # None

ThreadType(r) ==
  /\ r.pc \in Pc /\ r.home \in Pool \cup {None}
  /\ r.from \in Pool \cup {None} /\ r.conn \in Conn \cup {None}
  /\ r.index \in Nat /\ r.tries \in Nat /\ r.ran \in BOOLEAN /\ r.ret \in BOOLEAN

TypeOK ==
  /\ now \in Nat /\ stops \in Nat /\ up \subseteq Names
  /\ link \in [Conn -> [server: Names, alive: BOOLEAN] \cup {None}]
  /\ m_conn_queue \in [Pool -> Seq([conn: Conn, last_used: Nat])]
  /\ \A p \in Pool :
       /\ m_round_robin[p] \in Nat /\ (m_round_robin[p] = 0 \/ m_round_robin[p] < Servers(p))
       /\ m_ok[p] \in [1 .. Servers(p) -> BOOLEAN]
       /\ m_reborn[p] \in [1 .. Servers(p) -> Nat \cup {None}]
  /\ \A t \in Thread : ThreadType(th[t])

\* No connection is used by two threads, or by one while it is in a pool, or is twice
\* in the pools: MySQL connections are not thread-safe.
Exclusive ==
  /\ \A t, s \in Thread : Holding(t) /\ th[t].conn = th[s].conn => t = s
  /\ \A t \in Thread, p \in Pool : th[t].conn \notin Conns(m_conn_queue[p])
  /\ \A p, q \in Pool : \A i \in DOMAIN m_conn_queue[p], j \in DOMAIN m_conn_queue[q] :
       m_conn_queue[p][i].conn = m_conn_queue[q][j].conn => p = q /\ i = j

\* Every open connection is used by a thread or in a pool, and these are open: none is
\* leaked, and none used after it was deleted.
Accounted ==
  {c \in Conn : link[c] # None} =
    {th[t].conn : t \in {s \in Thread : Holding(s)}}
      \cup UNION {Conns(m_conn_queue[p]) : p \in Pool}

\* A thread counts for the pool it will release to from when it has seen that it cannot
\* take a connection there.
Counts(t, p) ==
  /\ th[t].pc # "idle" /\ th[t].home = p
  /\ ~(th[t].pc = "grab" /\ th[t].from = p)

\* Though no pool has a limit, and readers bring connections from the other pool, a pool
\* and its users never have more than one connection beyond the number of threads.
Limited ==
  \A p \in Pool :
    Len(m_conn_queue[p]) + Cardinality({t \in Thread : Counts(t, p)}) <= Cardinality(Thread) + 1

\* Releasing looks at the oldest connections only, yet leaves none that has not been used
\* for CONN_IDLE_TIME.
ReleasePrunes ==
  [][\A p \in Pool : Len(m_conn_queue'[p]) > 0 /\ m_conn_queue'[p] # m_conn_queue[p]
        /\ m_conn_queue'[p][Len(m_conn_queue'[p])] \notin
             {m_conn_queue[p][i] : i \in DOMAIN m_conn_queue[p]}
       => \A i \in DOMAIN m_conn_queue'[p] :
            now - m_conn_queue'[p][i].last_used <= CONN_IDLE_TIME]_vars

\* What writes is connected to a server for writing, though readers mix connections of
\* both kinds.
WritersWrite ==
  \A t \in Thread :
    Holding(t) /\ th[t].home = "write" =>
      \E i \in 1 .. Servers("write") :
        link[th[t].conn] # None /\ link[th[t].conn].server = m_db_svrs["write"][i].name

\* Who reports success and had a connection has had its statement carried out.  This is
\* about the statement and not about the row: an update of a conversation counts, though
\* it writes a truth value into agent_id (CSMySqlDbMgr.cpp:174).
WrittenIfConnected ==
  \A t \in Thread :
    th[t].pc = "return" /\ Holding(t) /\ th[t].home = "write" /\ th[t].ret => th[t].ran

\* Who reports success has had its statement carried out, with or without a connection.
ReportedIsWritten ==
  \A t \in Thread : th[t].pc = "return" /\ th[t].home = "write" /\ th[t].ret => th[t].ran

=============================================================================
