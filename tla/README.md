# CustomService: models, checks and proofs

CustomService (`src/CustomService`) puts users who ask for advice in touch with
agents.  Users and agents are signed on at IM servers; an IM server holds a
connection to CustomService through a client library (`src/CustomServiceClient`)
that a patch of the IM server (`src/ims_patch`) calls.  CustomService keeps, per
queue, the agents with their capacities and loads, the users who wait, and the
conversations, and saves the conversations to MySQL.

This directory holds TLA+ modules translated from that code, TLC configurations
that check them on small instances, and proofs, checked by TLAPS, of what holds for
every instance.  `PROJECT.json` names, for each definition, the lines of the code
it stands for, and lists the runs, the theorems, the hazards of the code and the
disagreements between code and documents that the runs show.

## The system

| Component | State | Operations | Talks to |
|---|---|---|---|
| Agent pool (`Agent.*`, `CSAgentMgr.*`) | agents by uin; a hand-made doubly linked list of them, ordered by load and capacity; the set of agents an answer is expected from | insert, erase, accept, refuse, invite, add and remove a conversation, `order_to_tail`, `order_to_head` | called by QUEUE only |
| Queue (`Queue.*`, `CSConversationMgr.*`, `Conversation.h`, `Sequence.h`) | agent pool, waiting users, live conversations, one mutex; the counter of conversations is common to all queues | the eleven handlers `agent_presence` ... `conversation_end`, and reads | agent pool, conversation table |
| Queue manager (`CSQueueMgr.*`) | the map of queues, filled on demand from MySQL | one `process...` per request: find the queue, call its handler, send the answer, the invitations and the positions | QUEUE, database, IM connections |
| Database (`CSMySqlDbMgr.*`) | tables `conversation`, `queue`, `message` | save, score, last id, queue info, messages | connection pool |
| Connection pool (`CSMySqlConnMgr.*`) | free connections, the state of each MySQL server | grab, ping, release, mark bad | libmysql |
| IM connections (`CSImsMgr.*`, `CSImsInfoMgr.*`, `ImsMap.h`, `CSImsHandler.*`) | handlers by server id, addresses | connect on demand, send notifications | IM servers |
| Server network handler and pool (`CSNetHandler.*`, `CSThreadPool.*`) | none | a packet becomes a task of a thread pool | queue manager |
| Client library (`CallbackQueue.*`, `CSClient.*`, `CSProcessTask.*`, `CSNetHandler.*`) | the queue of pending callbacks with its wrapping index | fifteen `Request_...` functions; a response is matched to its callback | CustomService |
| IM server relay (`UserProcessCustomService.cpp`) | one context per request in flight | requests of users and agents; callbacks that answer them and notify others | client library |

What is hard in it:

- *A list kept in order by partial moves.*  After each change of a load one agent is
  moved.  `order_to_head` would move it towards the head, and does not work: it
  either does nothing or never returns.
- *State that refers to other state.*  A conversation points to its agent, an agent
  has the ids of its conversations, the loop of `agent_offline` iterates over a set
  that its body erases from, an agent that is erased may still be invited.
- *Requests in any order*, with arguments that are stale or wrong: a redirect of a
  conversation that has ended, or from an agent that does not hold it.
- *The process dies and comes back*: what is in memory is lost, the counter is read
  back from the table, and ids must not be used again.  Statements are lost when no
  database can be reached, and functions of type `bool` then return -1, "true".
- *Many threads*: everything sent is sent after the queue's mutex has been released,
  but MySQL is asked under it, and under the lock of the map of queues too; that map is
  read without its lock; `get_cvs` reads a conversation without
  the queue's mutex.
- *Locks that are not there.*  The lock of `CSImsMgr.cpp:61` is a temporary and is
  released in the same statement; `m_round_robin` and the state of MySQL servers have
  none.
- *Connections that die while they are pooled*, or between the ping and the
  statement; readers that take connections from the pool for writing and release
  them to their own.
- *Contexts that two threads hand over*: the relay's callback may run, and free the
  context, before the handler that made it has returned, and after its user has gone.
- *Two functions per message*, one for writing and one for reading, kept equal by hand.
- *Answers in any order, late or never*, found in the client by their distance from
  the front of a queue whose index wraps.

What makes the components correct:

- agent pool: the list links each present agent once and in order; loads count
  conversations; who shows as invited can answer; nobody accepts more conversations than
  it has announced;
- queue: the agent of a live conversation is present and knows it; users are served
  in turn and leave by their own wish or for a reason; an id is used once in the life of
  the table; where users wait, whoever can serve them is invited; every handler ends and
  reports what it did;
- client: a callback is called once, with the answer to its own request; a readable
  answer leads to a call; a request taken back is silent; nothing is left behind;
- server: a queue changes only under its mutex, who has a lock waits for no other, a
  queue that is loaded is not replaced by an empty one, every request is answered unless
  it is stuck in or behind a handler that hangs or a query that is not answered;
- connection pool: no connection is used by two threads or lost, no pool grows beyond
  the number of threads, who writes is connected to a server for writing, what is
  reported as written was written;
- relay: a context lives as long as somebody will use it and no longer, a packet is
  answered once, 200 means what it says, whoever stays signed on is answered;
- messages: what one side reads is what the other wrote.

## The modules

`AgentMgr` -- the agents of one queue as a value with three fields, and the
operations of `AGENT` and `CSAgentMgr` as operators from one value to the next.
The `prev`/`next` links are represented by the sequence they spell (`order`), and a
loop of `order_to_tail` by the place where it ends.  That is faithful as long as the
links are those of a list, which they are until `order_to_head` enters its loop: from
then on no operation of the queue runs again, because the loop never ends and the
mutex is held (predicate `Hangs`).  `AgentList` shows all this.

`AgentList` -- the links themselves, a state machine: `prev` and `next` of every AGENT
and of `head`, which stands before the first.  An operation without a loop is one
step; `order_to_tail`, `order_to_head` and the walk of `do_invite` take a step per
round, assignment by assignment.  `order_to_head` reads a pointer it has just
overwritten, so that a round leaves two agents that point at each other, and the next
round does the same.

`AgentPool` -- the operators of `AgentMgr` as actions, one per operation: the abstract
specification that `AgentList` is shown to implement (`ImplementsPool`).  An operation
with a loop takes effect where the loop begins: `Completed` maps a state within a loop
to what will be when it has ended, and the rounds are stutters.

`CSQueue` -- one queue and all that it touches, a state machine.  Its variables are
`mgr` (`m_agentmgr`), `users` (`m_user_que`), `cvs` (`m_cvsmgr`), `seq`
(`Sequence::cvs_seq`), `rows` (the table `conversation`), `phase` (idle, within the
loop of `agent_offline`, hung with the mutex held, or no process), `job` (locals of
that loop) and `out` (what the last handler returns).  All handlers lock
`m_queue_mutex_ptr` in their first line, so each handler is one action, including
the save to the table and the `do_invite` at its end.  `agent_offline` is one action
per iteration of its loop, because it may hang or crash half way: it erases the set
element its iterator stands on (`Queue.cpp:87`), and `it++` (line 70) then reads a freed
node.  What that read gives is undefined, and the model takes every outcome a build can
produce: the process dies, or the iterator finds in the node what the erasure left there
(`Resumes`).  An element that was the first of its set had no left child, and leads on
to the next one.  Any other may, once the tree has been mended around it, lead to an
element that has been passed already, to a later one, or to the end.  `Kill` is the death of the process at any
moment, and the restart of one that hangs; `Restart` reads the counter back.  A
redirect of an unknown conversation reads through a null pointer and ends the
process (`Die`).

`ServiceDesk` -- what the queue promises its users, in terms of a line, the
conversations, the numbers spent and the last request with its answer (`asked`): an
abstract specification without agents, lists or invitations.  A guest leaves the line only
by his own request (`Leave`), which takes his first place in it; he leaves a conversation
only when the request is to end that very one (`Finish`), or while a lost agent is signed
off, and then to the head of the line (`GoBack`); he is served from the head only, under a
number that was never used, by an accept that is answered with 200 (`Serve`); no other
request touches line or conversations (`Other`).  The desk does not promise more than the
code does: a guest may join twice, and is then in the line twice (`Queue.cpp:181`), and
the desk may close without notice, by a kill or by a request that hangs or crashes, which
can only be a redirect, an offline or an end (`Close`); whoever was there is gone.
`CSQueue` is shown to implement it (`ImplementsDesk`).

`CSService` -- the threads around the queues.  A packet becomes a task
(`handle_packet`), a thread takes it, finds its queue without a lock, or inserts it
under the lock of the map, under which the database is asked (`load`, `inserting`;
`CSQueueMgr.cpp:132`), locks the queue's mutex, does what its handler does, some of it
after asking the database under that mutex (`Queries`; `Queue.cpp:21, 86, 125, 164, 217,
240`), unlocks, and then sends to one IM server after the other
(`dispatch`, `connect`, `file`) and answers (`respond`).  Each of these is a step,
so that everything that is not under a lock interleaves, and a thread may wait for the
database for ever, with the lock it has (`Stall`).  A queue is here what the
others depend on: how many users wait and which conversations are live; each of the
fifteen `process...` functions is an action with the change it makes to that and the
servers it notifies.  A find while another thread inserts may miss or crash (a data
race on a `std::map`); `Get_cvs`, the unlocked read of a conversation while another
thread ends one, may crash too.  `made` counts connections, to show what the lock
that is dropped at once still guarantees.

`ConnPool` -- `CSMySqlConnMgr` with two pools, and the functions of `CMySqlDbMgr`
and `CSImsInfoMgr` that use them.  A thread calls a function (`Call`), takes a
connection or goes through the servers (`GrabPooled`, `Index`, `Connect`, `set_bad`),
pings it, falls back to the pool for writing, runs its statement and releases
(`Return`).  `link` is which connections are open and whether they still answer.
`is_ok` is as in the code: a server marked bad is taken as long as its recovery time
has *not* come.  Servers stop, which kills their connections, and start.

`CallbackQueue` -- the client: `CCallbackQueue` with the functions of `CSClient`
that push, the server that answers in any order or not at all, the threads that deal
a response and call what they find, and the timeouts.  `m_mutex` is held within
`AddCallback`, `RemoveCallback`, `Deal` and the first half of `CheckQueue`, so each
is one step, and between them everything interleaves; a found callback is called
in a step of its own.  The fifteen request functions and the fifteen responses have
one form and are one action each.

`Wire` -- the messages of the fifteen commands as the fields their `encode` and
`decode` functions name, in their order and widths, and a request and its answer
going from one side to the other.  Bytes have `Base` values: a list of four elements
with `Base = 4` stands for one of 256, which an index of one byte does not reach.
How a number, a string or a list becomes bytes is a library's (`base::packet`),
which is not in the repository, and is marked external.

`ImsRelay` -- the custom-service part of the IM server: the dispatch of
`UserProcess.cpp`, the fourteen `OnCS...` handlers of `UserProcessCustomService.cpp`
and their callbacks.  Per packet it keeps how far its handler is (`step`), whether its
`CS_REQUEST_CONTEXT` lives (`context`), whether CustomService has it (`asked`), what
CustomService answered (`reply`) and what the client was told (`told`).  The answer
may come before the handler returns; users log off (`OfflineAndCleanup`) at any moment; client
objects, sends, answers and notifications fail.  That a callback is called at most
once and with its own answer is what `CallbackQueue` shows.

`MCQueue`, `MCList`, `MCService`, `MCPool`, `MCCallback`, `MCRelay`, `MCWire` --
instances for TLC.  `AgentMgr_proofs`, `AgentList_proofs`, `CSQueue_proofs`,
`CSService_proofs`, `ConnPool_proofs`, `CallbackQueue_proofs`, `ImsRelay_proofs`,
`Wire_proofs` -- the proofs.  Each states the facts about numbers it needs.

A definition whose comment begins with "Slip:" is not used by the model.  It is the
definition that follows it, with a plausible mistake; put in that definition's place
it makes the property fail that is there to notice the mistake.  `PROJECT.json`
pairs each property with one ("mutants").

## The runs

| Run | What it asks |
|---|---|
| `queue_all` | Two agents and two users, one capacity, two conversations, every request (wrong redirects, kills) but `user_score`: does a conversation's agent stay present and know it (`OwnerHolds`), do loads count ids (`LoadIsCount`), can the invited answer (`InvitedCanAnswer`), is every live conversation on record under its user (`LiveOnRecord`), do agents accept no more than they have announced, whatever is redirected to them (`AcceptsWithinCapacity`), does no step but the end of a conversation leave a user waiting beside a free agent, as long as no stale invitation is counted (`OnlyEndLeavesIdle`), and does the queue implement `ServiceDesk` (`ImplementsDesk`)?  Redirects leave stale ids in an agent's set; does the loop over it end, wherever its invalid iterator leads, under weak fairness of its steps (`OfflineEnds`)?  All hold. |
| `queue_three` | Three agents of two capacities, no redirects, no database: the list is long enough for one agent to pass two others.  It is complete and in order (`ListInOrder`), loads are the conversations really served (`LoadIsServed`), an agent reported offline is gone (`OfflineFrees`). |
| `list_all` | Three agents of two capacities, the links of their list changed round by round: do they link every present agent once and both ways after every round (`Linked`), and does each operation do what `AgentMgr` says of sequences (`ImplementsPool`)?  Both hold. |
| `service_all` | Two threads, two clients, one queue the database has and one it has not, a server of a 16-bit id, failures of the database and of connections, handlers that hang and queries that are never answered: who waits for a lock waits for one that loads a queue or is in a handler of the same queue, and that may wait for MySQL but for no other lock (`NoChainOfWaits`), a queue changes only by who has its mutex and is never replaced (`OnlyHoldersChange`), no more connections per server than threads (`FewConnections`), every request is answered unless the process dies, or it is stuck in or behind a handler that hangs or a query that is not answered, or all threads are (`Served`). |
| `pool_all` | Two threads, a server for each pool and an entry that does not parse, four addresses, one stop: nobody shares a connection (`Exclusive`), none is leaked (`Accounted`), pools stay small (`Limited`), writers write to a server for writing (`WritersWrite`), who had a connection and reports success has had its statement carried out, whatever that statement writes (`WrittenIfConnected`), a release leaves nothing old although it looks at the front only (`ReleasePrunes`). |
| `callback_all` | Three requests, all faults (encoding and sending fail, answers are lost or unreadable), timeouts: right callback, at most once, silence of what was taken back, places that agree with indices, and every readable answer leads to a call. |
| `relay_all` | Two packets of two users, one of any command, all faults, log-offs: contexts live while they are needed (`ContextLives`) and only refusals leave one (`OnlyRefusalsKeep`), nothing is answered twice (`OneAnswer`), 200 is true (`SuccessIsTrue`), the only thing that ends the process is the answer to an accept or message whose sender has gone (`SurvivesOthers`), who stays is answered (`StayersAnswered`). |
| `wire_all` | All fifteen commands with the least, the greatest and different bytes in every field, lists up to the reach of their index: what the server reads the client wrote (`RequestArrives`), what the client reads the server wrote (`AnswerArrives`, of all commands but the one of `wire_agents`), and every answer to a request that was read is readable (`AnswersReadable`). |

Four runs show the code doing what a document or comment says it does not; each is
listed under "findings" with the lines:

| Run | What the code does |
|---|---|
| `queue_hang` | `AGENT::order_to_head` never returns when the agent must pass its predecessor (`Agent.h:86`): the handler that ends a conversation keeps the queue's mutex for ever. |
| `queue_end` | `conversation_end` returns false whatever it did (`Queue.cpp:250`): the client is told 400 and the agent is not told at all. |
| `relay_dispatch` | commands are masked with `0xF000` and compared with `WY_CS_MASK`, which is `0xE300` (`cmd.h:662`): the relay answers every command of the custom service as invalid. |
| `wire_agents` | the list of the agents of a queue is written after the queue's id and read before it (`CSMsg_Agent_Get_QueueAgent.h:53`). |

The other runs of the relay are about what lies behind that dispatch: they take the
mask `0xE000` under which the branch is reached (`FoundMask` of `MCRelay`), and show
what the handlers do once the number is corrected.

### Further departures

These are not among the runs.  Each configuration below checks one property that
one would expect of the code; TLC finds it violated.

| Configuration | Property | What the code does |
|---|---|---|
| `MCQueue_record` | `RecordNamesAgent` | the second save of a conversation writes a truth value into `agent_id` (`CSMySqlDbMgr.cpp:174`) |
| `MCQueue_load` | `LoadIsServed` | a redirect with a wrong first agent is carried out (`CSConversationMgr.cpp:125`) and leaves that agent a load it does not have |
| `MCQueue_idle` | `NobodyLeftIdle` | `conversation_end` invites nobody (`Queue.cpp:243`): a user goes on waiting beside the agent that has just become free |
| `MCQueue_stale` | `NoneStale` | an agent that leaves while it is invited stays in `m_inviting_set` (`CSAgentMgr.cpp:55`): its uin counts as an invitation nobody will answer |
| `MCQueue_twice` | `InOnePlace` | `user_join` does not look whether the user is there already (`Queue.cpp:181`) |
| `MCQueue_capacity` | `WithinCapacity` | a redirect does not look at the capacity of the agent it gives the conversation to (`Queue.cpp:162`) |
| `MCService_stall` | `HeldUpByOwnQueue` | a queue is loaded from MySQL with the lock of the map held (`CSQueueMgr.cpp:132`): a query that is not answered stops the requests of every queue that is not loaded yet |
| `MCCallback_timeout` | `SentIsCalled` | the timeout is configured (`CSClientManager.cpp:43`) and nothing calls `CheckQueue`: a lost answer is never made up for |
| `MCCallback_left` | `NothingLeft` | a callback cleared in the middle stays at the front once it gets there by `RemoveCallback` (`CallbackQueue.cpp:54`), and everything behind it stays too |
| `MCPool_reported` | `ReportedIsWritten` | without a connection the macros return -1 from functions of type `bool` (`CSMySqlConnMgr.h:175`): the caller is told that it was written |
| `MCRelay_pending` | `PendingIsUnderWay` | the callback of a refusal does not delete its context (`UserProcessCustomService.cpp:172`) |
| `MCRelay_command` | `OwnCommand` | a failed request is answered with another request's command (`UserProcessCustomService.cpp:1250`) |
| `MCRelay_code` | `RefusalKept` | a refused accept is told 500 (`UserProcessCustomService.cpp:130`) |
| `MCRelay_text` | `TextArrives` | the text of a message is not read from the packet (`UserProcessCustomService.cpp:1213`) |
| `MCRelay_far` | `ReachesOtherServer` | a party on another IM server is looked for on this one (`UserProcessCustomService.cpp:495`) |
| `MCRelay_history` | `HistoryIsRead` | `Get_Msg` answers with the status 0, which the relay takes for a failure (`CSQueueMgr.cpp:658`) |
| `MCRelay_gone` | `GoneAgentsLeave` | CustomService is not told of a log-off (`UserProcess.cpp:286`) |

### Bounds

- *Agents and users.*  Two agents are needed for a list with an order, a redirect
  and a wrong redirect; three for one to pass two; two users for turns to matter.
  Agents and users are interchangeable in what is checked by `queue_three`, `list_all`
  and the violations, so symmetry is used there and not with liveness.
- `MaxWaiting`: no user joins while so many wait.  A user may stand in the line
  twice, as in the code.  `agent_offline` may exceed it: with one (`queue_all`) the
  line gets as long as three when it puts two users back, which is where its order
  could go wrong.  In `list_all` it bounds how many users `do_invite` finds.
- `MaxCvs`: no conversation is opened after this one.  With two, one may be live
  while another has ended or been redirected; with three, an agent of capacity two
  can be full while another serves.
- `Capacities`: {1} in `queue_all`, where with two conversations an agent that has one is
  full, and a redirect fills it beyond; two capacities in `queue_three` and `list_all`,
  where agents rank.
- `Mpt` has one element: an agent that asks from a second terminal is refused like
  one that is absent.
- *The list.*  Three agents: one in front, one to pass and one behind, so that each
  pointer a round changes may be another agent's or nobody's.  Two conversations let
  loads differ by two.
- *The server.*  Two threads and two clients are needed for a race on the map, on a
  connection and on a conversation, and for one thread to hang while the other goes
  on or wait for its lock.  One waiting user and one conversation (`MaxLine`, `MaxCvs`) suffice to tell a
  changed queue from a new one.  The process may crash and both threads may hang, so
  the run does not check for deadlock.
- *The connection pools.*  Two threads, so that one pool can hold two connections, and
  four addresses, one more than two threads can need for either pool.  A clock of
  two values with limits of 0 is enough for a connection to be too old and a recovery
  time to be past.  `MaxStops`: each further stop repeats the first.
- *The client.*  Three requests on an index space of 8 that wraps at the second: one
  in front, one cleared and one behind.  `NotComeRound` keeps the index from
  reaching a number given out before, which takes 2^31 requests.  A request does not
  time out before its function has sent it.
- *The relay.*  Packets do not touch each other but through who is signed on and
  the notifications; two are enough for one to notify the sender of the other.  The
  clients send no more than `Req` packets, so that the runs do not check for deadlock.
- *Messages.*  Fields take their least and greatest value and one whose bytes all
  differ, which an exchange of fields or of bytes would show.  One request is under
  way at a time.

### Fairness

`FairSpec` of `CSQueue` is weakly fair to the steps of `agent_offline`'s loop: a
thread that runs keeps running.  No fairness is assumed of requests: nobody has to
join, answer or end anything.  `PoolFair` of `CallbackQueue` says that a task handed
to the pool is run and what it has found is called.  `ServedSpec` adds that
the server's threads come to every request, so that in `MCCallback_timeout` only the
lost answer is to blame.

`FairSpec` of `CSService` is weakly fair to what a thread does on its own and strongly
fair to taking a lock: a lock that is released again and again is got at last by
everyone who waits for it.  With weak fairness two threads could keep a third from the
mutex for ever, which an operating system's mutex does not let happen.  A handler that
hangs is not obliged to stop, and packets need not come.

`FairSpec` of `ImsRelay` says that a handler that has begun goes on and that the
callback of what was answered is called, which is what `CallbackQueue` shows; an answer
may be lost.

## The proofs

All theorems hold for any sets of accounts, capacities, scores, requests, threads,
queues, connections and servers, any bounds, any size of the index space and any
faults, under the named assumptions of the modules (`InstanceAssumption`,
`ListAssumption`, `CallbackAssumption`, `ServiceAssumption`, `PoolAssumption`,
`RelayAssumption`, `WireAssumption`), which say only what kind of values the constants
have, and of a byte that the high byte of an error code of 500 is not zero, as with 256
values.

*The list* (`AgentList_proofs`).  `ListLinked` says that `Linked` is an invariant and
`ListIsPool` that the linked list implements `AgentPool`: what the queue is modelled and
proved with, the operators of `AgentMgr`, is what the pointers do, for any number of
agents.  The invariant is

    ListInv == Typed /\ (~Hung => Linking(Order, DOMAIN agents, next, prev))
               /\ (pc = "invite" => Passed)

The first part gives the pointers their types; the second is that `Order`, the first so
many agents a walk from `head` meets, is a list (`Links`) that the pointers spell in both
directions (`Spell`); `Passed` says of the walk of `do_invite` that it has passed those it
has invited.  A walk is a recursive function; if pointers spell some sequence, the walk is
that sequence, because both start and go on in the same way and there is no first place
where they differ (`WalkIs`, `LinkingBy`).  So it is enough to name, for each change of
pointers, the sequence they spell afterwards (`InsertLinks`, `EraseLinks`, `SwapLinks`).

Each action has one lemma, which gives both the invariant and the step of `AgentPool`.
An operation with a loop makes its whole step when it enters the loop.  A round of
`order_to_tail` exchanges two neighbours and leaves the same agent to move to the same
place (`OrderToTailPasses`), and the loop ends where that place is (`OrderToTailEnds`); a
round of `do_invite` invites the first of those still to be invited, or nobody
(`FirstInvited`, `NobodyInvited`, `EnoughInvited`): `Completed` does not change.  When
`order_to_head` would pass an agent there is no list any more, which is what `Hangs` of
`AgentMgr` says (`RemoveStep`), and its rounds never lead out of that (`HeadStep`).
`ListOrdered` carries to the pointers what `AgentMgr_proofs` has of the operators: between
two operations they spell the agents in the order of load and capacity.

*The queue* (`AgentMgr_proofs`, `CSQueue_proofs`).  `TypeCorrect`, `OwnersPresent`,
`LoadsCount` and `InvitedAnswer` say that `TypeOK`, `OwnerHolds`, `LoadIsCount` and
`InvitedCanAnswer` are invariants.  None of them is inductive alone: the owner of a
conversation is moved in the list when its load changes, which is defined only if
the list links it; an agent is erased when its load is 0, which is safe only if the
load counts its ids.  So the invariant is

    Inv == TypeOK /\ ManagerOK(mgr) /\ OwnerHolds /\ OfflineAgentPresent
           /\ RowsBounded /\ DownIsEmpty

`ManagerOK` (types, the list links each agent once, loads count, the invited are
recorded) is preserved by each operation of `AgentMgr`: one lemma per operation,
cited by the actions.  `OfflineAgentPresent` says that the agent whose conversations
`agent_offline` walks stays in the pool.  `RowsBounded` is what makes `last_cvsid` a
number, and `DownIsEmpty` what makes `Restart` safe.  `LeastNat` gives the `CHOOSE`s of the model their values.

`ListOrdered` says that `ListInOrder` is an invariant, with redirects and all, and
`InvitesWhenever` that `OnlyEndLeavesIdle` holds of every step: where as many of the
present agents have been asked as users wait, or none that is free is left (`Free`), it is
so again after any handler but `conversation_end`.  States where an invitation is stale,
counted for an agent that has left or has come back since (`Stale`), are excluded; that
the code reaches them, and then does leave a user beside a free agent, is what
`MCQueue_stale` is about, as `MCQueue_idle` is about `conversation_end`.  The invariant adds to `Inv`

    TidyWhileServing /\ DownIsFresh

A manager is `Tidy` if `ManagerOK` holds of it, its list is in the order of load and
capacity (`Ranked`) and its invitations are finitely many; one lemma per operation
(`TidyInsert` to `TidyInvite`) says that it stays so.  Of what lets an agent overtake
others, only `order_to_tail` moves anything; `order_to_head` is either not needed or
hangs, and a queue that hangs no longer serves.  `DownIsFresh` is needed for `Restart`.
For the invitations each action ends with `do_invite`, which saturates
(`DoInviteSaturates`), or leaves nobody waiting, or makes neither more users wait nor more
agents free; where nothing is stale, what `do_invite` counts is the agents that have been
asked (`NothingToInvite`).

`LoadsServed` and `LostAgentGone` state `LoadIsServed` and `OfflineFrees` under the
hypothesis that no request is a redirect, which is what the code needs: a redirect names
the agent it takes a conversation from and nothing compares that name with the
conversation's agent, so that a wrong one leaves an agent ids it does not serve
(`MCQueue_load`).  The run that checks these properties has the same hypothesis.  The
invariant adds to the last one

    OwnConversations /\ NonePassed

the ids an agent holds are those of live conversations of its own (`Fits`) and none is
beyond the counter; the loop of `agent_offline` has not passed an id that is still
there, because only an id before the erased one would let the iterator lead anywhere but
on (`Rounds`), and there is none.

*The queue and the desk* (end of `CSQueue_proofs`).  `LiveRecorded` says that `LiveOnRecord`
is an invariant and `QueueIsDesk` that `Spec` implies `ImplementsDesk`, both under
`Reachable`, that is for `DbAnswers = {TRUE}`: when the database is out of reach a row is
not written, and a process that then starts counts from 0.  The invariant adds to `Inv`

    LiveOnRecord /\ NextIdIsNew /\ DownIsDeserted /\ LoopIsAsked

`NextIdIsNew`, that no row has a greater id than the counter, is what makes the next id
one the table has never had, in every life of the process; `DownIsDeserted` is what makes
`Restart` an `Open` of an empty desk; `LoopIsAsked`, that the request is an offline while
its loop runs, is what makes its rounds `GoBack`s.  Each action is first sorted by what it does to
users, conversations and table (`NextSorted`); of the few sorts of step there are, each
is then shown to keep the invariant (`SortedKeeps`) and to be a step of the desk or none
(`UnseenStutters` to `RestartOpens`).  That a conversation is saved before it is erased, also where the
queue then hangs or dies, adds no row because the conversation is on record
(`SavedAgain`): the refinement needs the invariant.

`CapacityKept` says that `AcceptsWithinCapacity` is an invariant, with redirects and all,
under `Reachable` and if no agent announces a capacity of 0.  Such an agent, when it signs
off while it is invited and comes back so, still has its old invitation, which `accept`
takes; and an accepted conversation whose row was lost cannot be told from one that was
redirected.  The invariant adds `Room` to that of the desk: an agent that is invited has
accepted fewer than it has announced.  `do_invite` sees to that (`RoomInvite`), because what
an agent has accepted is part of its load (`TookInLoad`); an accept uses the invitation up
(`RoomAccept`); and a conversation that is redirected does not count any more, for its
row, which `LiveRecorded` says it has, names nobody after it has been saved again
(`SavedNameless`, `RoomRedirect`).  Of what is redirected nothing can be promised
(`MCQueue_capacity`).

*The threads* (`CSService_proofs`).  `NoDeadlock` says that `NoChainOfWaits` is an
invariant and `HoldersChange` that `OnlyHoldersChange` holds of every step.  The
invariant is `Fields /\ Busy /\ Held /\ LocksHeld`: the records of the threads have their
fields, a thread that is not idle has a task, mutexes and tasks are of their types, and a
lock is held by just the thread that is between taking and giving it back, asks MySQL or
stays away for ever there.  A thread that has a lock is therefore not before one, which is
where the chain of waits ends; that it does not wait for the lock it has itself, for which
`boost::mutex` would block it, is part of that.  Without `Busy` and `Held` the queue whose
mutex a thread has would not be defined.  `HoldersChange` follows from it step by step: an
insertion leaves a queue that is there as it is, and a handler changes no queue but the
one it has locked.

`ServiceTypes` says that `TypeOK` is an invariant.  It adds to that one the types of what
is shared (`Stored`) and of each thread (`WellAt`): a thread past the map has its queue
there, without which the change a handler makes would have no type, and one that makes
or files a connection has a server to make it to.  That the notifications are a
sequence of IM servers needs that a finite set of numbers has an order
(`OrderExists`).  `ConnectionsFew` says that `FewConnections` is one.
Inductive is what `Counted` adds: as long as no connection to a server is filed, as many
have been made as threads are about to file one; once one is filed, those that have
been made and the threads that still make one are together no more than the threads.

*The connection pools* (`ConnPool_proofs`).  `NeverShared`, `NoneLost` and
`PoolsStaySmall` say that `Exclusive`, `Accounted` and `Limited` are invariants.  What
the steps of a thread do to connections is one of six things, each with a lemma:
keep what one has, find that nothing can be taken, take, open, drop, release.  Each
preserves

    IInv == Shapes /\ HeldOnce /\ HeldOrPooled /\ PooledOnce /\ Owned

the first for types, the next three for `Exclusive`, place by place, and `Owned`,
which says that the open connections are those held or pooled.  They need each other:
what is opened is fresh because whatever is held or pooled is open, and what a release
closes is in nobody's hands because nothing is both held and pooled.  That a release
closes a prefix of the queue, whatever the ages of its elements are, is
`RestIsTail`.  `Limited` is inductive together with that: a thread counts for the pool
it will release to from the moment it has seen that it cannot take from there, which
happens only when no more than one is left (`NoLonger`, `StepCounts`).

`PoolTypes` and `WritesAreReported` say that `TypeOK` and `WrittenIfConnected` are invariants.
Both follow from `TInv`, which adds to `IInv` the types of the servers' states and, for
each thread by itself (`Alone`), that it tries servers only of a pool that has some and
with an index that is one of theirs (`TurnOK`), that who writes takes from the pool for
writing only (`OwnPool`), and that what it reports it has done (`Reported`).  The
index comes from `m_round_robin`, which all threads change without a lock; each stores
a remainder, so that what another one reads is in range.  `WritersReachWriteServers`, of
`WritersWrite`, adds that each connection in the pool for writing, or taken from it,
leads to one of its servers (`WInv`): readers move such connections to their own pool, and
no step moves one back.  `ReleaseLeavesNoneOld` says that every step satisfies
`ReleasePrunes`: the queues are in the order of last use (`AInv`), because what is released
is put at the back with the time of now and `grab` takes from the back, so that what is
behind the first connection used lately was used lately too.

*The client* (`CallbackQueue_proofs`).  `TypeCorrect`, `AlwaysContiguous`,
`RightCalls`, `OneCall` and `ThrownNotCalled` say that every invariant of
`callback_all` holds of any number of requests.  `RemoveCallback` clears what stands
at the distance of an index from the front and does not look at it; that this is the
right entry rests on the entries having consecutive numbers modulo the index space,
on no number being given out twice, and on the queue never being longer than the
space (`SlotOfEntry`, `QueueFits`, with `Distance` and the other facts about remainders).  All
that `RemoveCallback`, `Deal` and `CheckQueue` do to the queue is to take entries
from its front and to clear callbacks (`Thinned`), which keeps all this.  A callback
is in one of three places, the queue (`Pending`), a thread (`DueOnce`) or done, and
moves on only (`CallbacksMove`): so it is called once.  `AnswersNumbered` and
`SeqOnce` make what `Deal` finds the callback of the request that is answered.

*The relay* (`ImsRelay_proofs`).  `ContextsLive`, `AnsweredOnce`, `OnlyRefusalsLeak`,
`SuccessTrue`, `OthersSurvived` and `RelayTypes` say that every invariant of `relay_all`
holds of any packets, users and servers.  The invariant is `Fine`, request by request:
there is no context before CustomService is asked and one as long as it has not
answered; until it has answered, nobody has told the client anything, unless the
handler has failed; a context that survives the answer is a refusal's; and what the
client was told is true.  A step changes one request (`Alone`), which is why there is
one lemma per form of handler and callback and none about pairs of packets.  For
`RelayTypes` the invariant adds `TypeOK` and that a request that has been received is
known (`Known`): the callback of a presence or absence takes its sender from it.

*The messages* (`Wire_proofs`).  `RoundTrip` says of any layout of numbers, strings and
lists that what is written with it and read with it is what it was, if each number fits
its width, each string and list its two-byte length, and each list its index: for any size
of a byte, either order of bytes and any number of fields.  Numbers, sequences of fields
and lists are computed step by step, by recursive functions, and facts about all of them
cannot be had by the induction theorems of the library.  They come from two lemmas: two
functions that begin alike and go on alike are alike (`Stepwise`), and what goes on within
a set exists (`Recursion`); both follow from the least number where they would fail.
`NumberOfDigits` is the round trip of a number, `ReadFieldIs` of a field, and `WalkExists`
carries it over the fields of an element, the elements of a list and the items of a
message: after each, what is left is what was written by the rest.  `ShortFails` and
`LongFails` say what is not read.

`WireRequests`, `WireAnswers` and `WireReadable` state the three properties of `wire_all`.
`Formed` is what they need of a command: that its two functions name the same fields, each
with the one width that its name tells (`FieldOf`), that the parameters of the client's
function are those of the request, and which field comes first.  There is one lemma per
command that it is so (`Formed_AGENT_PRESENCE` to `Formed_GET_MSG`): the lemma that cannot
be proved of `AGENT_GET_QUEUEAGENT`'s response is where `wire_agents` fails.  The invariant
is `WireInv`: what the server has is the request, or nothing after an error code of the
client's, and what the client has is the answer to that request, or an error code, which
is too short for a queue's id and too great for a count of queues (`CodeIsLong`).  The
values of fields are those of the patterns, in the theorems as in the run; `RoundTrip` is
about all values.

Only model-checked: everything under fairness (`OfflineEnds`, `AnsweredIsCalled`, `Served`,
`StayersAnswered`), with which the prover cannot deal, as with `ENABLED`.  All other properties of the passing runs
are stated by a theorem.  `ServiceTypes` and `RelayTypes` state a `TypeOK` that no run
lists, because it is proved.  `Ordered` of `CSService` and `Parsed` of `ConnPool` pick an
increasing sequence by `CHOOSE` rather than with `SortSeq` and `SelectSeq`, of which the
prover has no definition.

## Not modelled

- Start-up, configuration, logging, the simulators and the test clients: no state, or
  no behaviour beyond reading files.  The same goes for the client manager and the
  network managers, which create a reactor, a pool and a connection.
- `CImsCallbackQueue` and `ImsCallback`: a copy of the client's queue to which nothing
  adds, since `send_msg` is commented out.  `CancelQueue` is not called.
- The notifications in `ims_msg/` and the headers of packets, whose fields are not
  checked; the responses without a body.  What the IM servers send back, which the
  code discards.
- The texts of SQL statements but for what the update of a conversation destroys and
  for the misspelt table that makes `save_conversation_score` fail.
- The IM server but for what concerns the custom service: the repository holds whole
  files of it in which a few lines were patched.
- That the length of a queue is cut to 16 bits when it is sent (`Queue.cpp:191`), which
  takes 65536 waiting users; the order in which invitations and positions sent after an
  unlock arrive, for which a queue in `CSService` would have to keep who waits.
- A handler whose connection has closed and that stays filed (`CSImsMgr.cpp:59`): the
  code that would notice it is in a library.

## What could come next

Waiting users by name in `CSService`, so that it refines `CSQueue` queue by queue and the
order of notifications can be stated; the library that turns fields into bytes, should its
source become available, to replace the operators of `Wire` that are marked external.
