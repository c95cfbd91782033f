------------------------------ MODULE CSQueue ------------------------------
(***************************************************************************)
(* One queue of the CustomService server: class QUEUE (Queue.h, Queue.cpp) *)
(* with its agents (AgentMgr), its conversations (CSConversationMgr), its  *)
(* waiting users, the conversation counter (Sequence.h) and the table the  *)
(* conversations are saved to (CSMySqlDbMgr).                              *)
(*                                                                         *)
(* Every handler of QUEUE holds m_queue_mutex_ptr from its first line to   *)
(* its return, so a handler is one action; agent_offline, whose loop may   *)
(* hang or crash half way, is an action per iteration, and no other        *)
(* handler runs while it holds the mutex.                                  *)
(***************************************************************************)
EXTENDS AgentMgr

CONSTANTS
  Staff,        \* the accounts that sign on as agents
  Customers,    \* the accounts that ask for advice
  Capacities,   \* the capacities agents announce
  Scores,       \* the scores users give
  Requests,     \* the kinds of request the IMS sends, "crash" for a killed process
  DbAnswers,    \* {TRUE}: MySQL is always reachable; BOOLEAN: some statements are lost
  Mangled,      \* what agent_id holds once the row has been saved a second time
  MaxWaiting,   \* bound: no user joins while so many wait
  MaxCvs        \* bound: no conversation is opened after this one

ASSUME InstanceAssumption ==
  /\ Staff \subseteq Uin
  /\ Customers \subseteq Uin
  /\ Capacities \subseteq Nat
  /\ Scores \subseteq Nat
  /\ DbAnswers \in (SUBSET BOOLEAN) \ {{}}
  /\ Mangled \notin Uin
  /\ MaxWaiting \in Nat
  /\ MaxCvs \in Nat

VARIABLES
  mgr,     \* m_agentmgr
  users,   \* m_user_que
  cvs,     \* m_cvsmgr: the live conversations, by id
  seq,     \* Sequence::cvs_seq, the last id given out
  rows,    \* the table `conversation`, which outlives the process
  phase,   \* who has the mutex, and whether there is a process at all
  job,     \* the locals of agent_offline while its loop runs
  out      \* the last handler: its request, its result, the notifications it returns

memory == <<mgr, users, cvs, seq>>
vars == <<mgr, users, cvs, seq, rows, phase, job, out>>

AgentId == [uin: Staff, mp: Mpt]
UserId == [uin: Customers, mp: Mpt]

Phase == {"idle", "offline", "hung", "down"}

NoScore == -1
NoJob == [agent |-> Mangled, last |-> 0, ended |-> {}]

Conversation == [agent: Uin, user: Umid, score: Scores \cup {NoScore}]
Row == [agent: Uin \cup {Mangled}, user: Uin, score: Scores \cup {NoScore}]
Ended == [id: Nat, user: Umid]

-----------------------------------------------------------------------------
(* What a handler was asked (the user of a join or a departure and the     *)
(* number of a conversation that is ended, where a property looks at them) *)
(* and what it hands back to CSQueueMgr: the status code of the answer (0  *)
(* while there is none), the agents to send an invitation to, the position *)
(* from which on the waiting users are told where they stand (0: nobody    *)
(* is), and the conversations whose users are told of the end.             *)

Says(op, who, number, code, invites, from, ended) ==
  out' = [op |-> op, who |-> who, number |-> number, code |-> code,
          invites |-> invites, from |-> from, ended |-> ended]

Result(op, code, invites, from, ended) == Says(op, {}, 0, code, invites, from, ended)

Fails(op) == Result(op, 400, {}, 0, {})
Unanswered(op) == Result(op, 0, {}, 0, {})

\* The early returns: nothing has changed.
Refused ==
  /\ Fails("none")
  /\ UNCHANGED <<memory, rows, phase, job>>

\* The handler never returns: it keeps the mutex, and whatever it has changed.
Hang(op) ==
  /\ phase' = "hung"
  /\ job' = NoJob
  /\ Unanswered(op)

\* The process is gone, and with it all but the table.
Die(op) ==
  /\ phase' = "down"
  /\ mgr' = Empty
  /\ users' = <<>>
  /\ cvs' = <<>>
  /\ seq' = 0
  /\ job' = NoJob
  /\ Unanswered(op)

\* Slip: the update writes its truth value to user_id.
SavedOverUser(c, r) ==
  IF c \in DOMAIN rows
  THEN [rows EXCEPT ![c].user = Mangled]
  ELSE [d \in DOMAIN rows \cup {c} |->
          IF d = c THEN [agent |-> r.agent, user |-> r.user.uin, score |-> r.score]
          ELSE rows[d]]

\* save_conversation_info: an insert or, if the id is known, an update whose
\* `agent_id = %1 and user_score = %5` assigns one truth value to agent_id.
Saved(c, r) ==
  IF c \in DOMAIN rows
  THEN [rows EXCEPT ![c].agent = Mangled]
  ELSE [d \in DOMAIN rows \cup {c} |->
          IF d = c THEN [agent |-> r.agent, user |-> r.user.uin, score |-> r.score]
          ELSE rows[d]]

\* No caller looks at what save_conversation_info returns.
Save(c, r) == \E reached \in DbAnswers : rows' = IF reached THEN Saved(c, r) ELSE rows

\* Slip: m_cvsmgr.erase with the end of the map as its second argument.
ClosedToTheEnd(c) == [d \in {e \in DOMAIN cvs : e < c} |-> cvs[d]]

Closed(c) == [d \in DOMAIN cvs \ {c} |-> cvs[d]]

\* do_invite, after the agents have become m and the waiting users u.
Invites(m, u) == Invited(m, Len(u))
InvitesInto(m, u) == mgr' = DoInvite(m, Len(u))

-----------------------------------------------------------------------------
(* Agents: presence, absence, accept, refuse, redirect.                    *)

AgentPresence(id, capacity, verified) ==
  LET m == Insert(mgr, id, capacity)
  IN  /\ phase = "idle"
      /\ \/ /\ ~verified \/ id.uin \in DOMAIN mgr.agents
            /\ Refused
         \/ /\ verified /\ id.uin \notin DOMAIN mgr.agents
            /\ InvitesInto(m, users)
            /\ Result("presence", 200, Invites(m, users), 0, {})
            /\ UNCHANGED <<users, cvs, seq, rows, phase, job>>

AgentAbsence(id) ==
  /\ phase = "idle"
  /\ IF Found(mgr, id) /\ mgr.agents[id.uin].load = 0
     THEN /\ mgr' = Erase(mgr, id.uin)
          /\ Result("absence", 200, {}, 0, {})
          /\ UNCHANGED <<users, cvs, seq, rows, phase, job>>
     ELSE Refused

\* An invitation is used up even if nobody waits any more.  The third early return,
\* an id that is already live, needs no disjunct: live ids are at most seq.
AgentAccept(id) ==
  LET m == Accept(mgr, id.uin)
      c == seq + 1
      r == [agent |-> id.uin, user |-> Head(users), score |-> NoScore]
      n == AddConversation(m, id.uin, c)
  IN  /\ phase = "idle"
      /\ \/ /\ ~(Found(mgr, id) /\ id.uin \in mgr.inviting)
            /\ Refused
         \/ /\ Found(mgr, id) /\ id.uin \in mgr.inviting /\ users = <<>>
            /\ mgr' = m
            /\ Fails("accept")
            /\ UNCHANGED <<users, cvs, seq, rows, phase, job>>
         \/ /\ Found(mgr, id) /\ id.uin \in mgr.inviting /\ users # <<>>
            /\ c <= MaxCvs
            /\ seq' = c
            /\ users' = Tail(users)
            /\ cvs' = [d \in DOMAIN cvs \cup {c} |-> IF d = c THEN r ELSE cvs[d]]
            /\ Save(c, r)
            /\ InvitesInto(n, Tail(users))
            /\ Result("accept", 200, Invites(n, Tail(users)),
                      IF Tail(users) = <<>> THEN 0 ELSE 1, {})
            /\ UNCHANGED <<phase, job>>

AgentRefuse(id) ==
  LET asked == Found(mgr, id) /\ id.uin \in mgr.inviting
      m == IF asked THEN Refuse(mgr, id.uin) ELSE mgr
  IN  /\ phase = "idle"
      /\ InvitesInto(m, users)
      /\ Result("refuse", IF asked THEN 200 ELSE 400, Invites(m, users), 0, {})
      /\ UNCHANGED <<users, cvs, seq, rows, phase, job>>

\* Slip: the conversation is added before it is removed.
RedirectedBackwards(c, from, to) ==
  RemoveConversation(AddConversation(mgr, to, c), from, c)

Redirected(c, from, to) == AddConversation(RemoveConversation(mgr, from, c), to, c)

\* The test that should refuse an unknown conversation, or one that is not
\* `from`'s, reads a null pointer in the first case and is false in the second.
AgentRedirect(c, from, to) ==
  LET m == Redirected(c, from.uin, to.uin)
      r == [cvs[c] EXCEPT !.agent = to.uin]
  IN  /\ phase = "idle"
      /\ \/ /\ ~(Found(mgr, from) /\ Found(mgr, to))
            /\ Refused
         \/ /\ Found(mgr, from) /\ Found(mgr, to) /\ c \notin DOMAIN cvs
            /\ Die("redirect")
            /\ UNCHANGED rows
         \/ /\ Found(mgr, from) /\ Found(mgr, to) /\ c \in DOMAIN cvs
            /\ Hangs(mgr, from.uin, c)
            /\ mgr' = RemoveConversation(mgr, from.uin, c)
            /\ Hang("redirect")
            /\ UNCHANGED <<users, cvs, seq, rows>>
         \/ /\ Found(mgr, from) /\ Found(mgr, to) /\ c \in DOMAIN cvs
            /\ ~Hangs(mgr, from.uin, c)
            /\ cvs' = [cvs EXCEPT ![c] = r]
            /\ Save(c, r)
            /\ InvitesInto(m, users)
            /\ Result("redirect", 200, Invites(m, users), 0, {})
            /\ UNCHANGED <<users, seq, phase, job>>

-----------------------------------------------------------------------------
(* agent_offline: a loop over the agent's own conversation set, whose body *)
(* erases the element the iterator stands on.                              *)

AgentOffline(id) ==
  /\ phase = "idle"
  /\ IF Found(mgr, id)
     THEN /\ phase' = "offline"
          /\ job' = [agent |-> id.uin, last |-> 0, ended |-> {}]
          /\ Unanswered("offline")
          /\ UNCHANGED <<memory, rows>>
     ELSE Refused

\* Slip: the iterator stays where it is.
RestUnadvanced ==
  {c \in mgr.agents[job.agent].cvs \cup {job.last} : c >= job.last}

\* Slip: the iterator is advanced once too often.
RestSkipping == {c \in mgr.agents[job.agent].cvs : c > job.last + 1}

Rest == {c \in mgr.agents[job.agent].cvs : c > job.last}

\* An id whose conversation is gone (it was redirected, then ended) is skipped.
OfflineSkip ==
  /\ phase = "offline"
  /\ \E c \in Rest \ DOMAIN cvs :
       /\ \A d \in Rest : c <= d
       /\ job' = [job EXCEPT !.last = c]
  /\ UNCHANGED <<memory, rows, phase, out>>

\* Where the iterator may stand after the element c has been erased under it, as the
\* id it has passed last.  The node is freed and still read.  If it was the first of
\* the set it leads to the next element, and if not to any element, one that has been
\* passed already or a later one, or to the end: the tree has been mended around it.
\* (That the read brings the process down is a disjunct of OfflineNext.)
Resumes(c) ==
  IF \E d \in mgr.agents[job.agent].cvs : d < c THEN 0 .. MaxCvs ELSE {c}

\* The user goes back to the front of the queue and the conversation is erased
\* from its owner, which is another agent if it was redirected with a wrong `from`;
\* otherwise the iterator is now invalid.
OfflineNext ==
  /\ phase = "offline"
  /\ \E c \in Rest \cap DOMAIN cvs :
       LET owner == cvs[c].agent
           returned == <<cvs[c].user>> \o users
       IN  /\ \A d \in Rest : c <= d
           /\ Save(c, cvs[c])
           /\ \/ /\ owner = job.agent /\ ~Hangs(mgr, owner, c)
                 /\ Die("offline")
              \/ /\ Hangs(mgr, owner, c)
                 /\ mgr' = RemoveConversation(mgr, owner, c)
                 /\ users' = returned
                 /\ Hang("offline")
                 /\ UNCHANGED <<cvs, seq>>
              \/ /\ ~Hangs(mgr, owner, c)
                 /\ mgr' = RemoveConversation(mgr, owner, c)
                 /\ users' = returned
                 /\ cvs' = Closed(c)
                 /\ \E passed \in IF owner = job.agent THEN Resumes(c) ELSE {c} :
                      job' = [job EXCEPT !.last = passed,
                                         !.ended = @ \cup {[id |-> c, user |-> cvs[c].user]}]
                 /\ UNCHANGED <<seq, phase, out>>

OfflineEnd ==
  LET m == Erase(mgr, job.agent)
  IN  /\ phase = "offline"
      /\ Rest = {}
      /\ InvitesInto(m, users)
      /\ phase' = "idle"
      /\ job' = NoJob
      /\ Result("offline", 200, Invites(m, users), 0, job.ended)
      /\ UNCHANGED <<users, cvs, seq, rows>>

-----------------------------------------------------------------------------
(* Users: join, depart, score; and the end of a conversation.              *)

UserJoin(u) ==
  /\ phase = "idle"
  /\ Len(users) < MaxWaiting
  /\ users' = Append(users, u)
  /\ InvitesInto(mgr, users')
  /\ Says("join", {u}, 0, 200, Invites(mgr, users'), 0, {})
  /\ UNCHANGED <<cvs, seq, rows, phase, job>>

\* The first entry of u goes; those behind it are told their new position.
UserDepart(u) ==
  /\ phase = "idle"
  /\ \/ /\ \A i \in DOMAIN users : users[i] # u
        /\ Refused
     \/ \E i \in DOMAIN users :
          /\ users[i] = u /\ \A j \in 1 .. i - 1 : users[j] # u
          /\ users' = SubSeq(users, 1, i - 1) \o SubSeq(users, i + 1, Len(users))
          /\ Says("depart", {u}, 0, 200, {}, IF i = Len(users) THEN 0 ELSE i, {})
          /\ UNCHANGED <<mgr, cvs, seq, rows, phase, job>>

\* Without a live conversation of that user the score should go to the table; the
\* statement misspells the table's name, so it fails; where no connection to a
\* database can be had the statement is skipped, and the -1 returned is taken for TRUE.
UserScore(u, c, score) ==
  /\ phase = "idle"
  /\ IF c \in DOMAIN cvs /\ cvs[c].user.uin = u.uin
     THEN /\ cvs' = [cvs EXCEPT ![c].score = score]
          /\ Result("score", 200, {}, 0, {})
          /\ UNCHANGED <<mgr, users, seq, rows, phase, job>>
     ELSE /\ \E reached \in DbAnswers :
               Result("score", IF reached THEN 400 ELSE 200, {}, 0, {})
          /\ UNCHANGED <<memory, rows, phase, job>>

\* Fails whatever it did, and invites nobody: lines 243 to 249 are a comment.
ConversationEnd(c) ==
  /\ phase = "idle"
  /\ \/ /\ c \notin DOMAIN cvs
        /\ Refused
     \/ /\ c \in DOMAIN cvs
        /\ Save(c, cvs[c])
        /\ mgr' = RemoveConversation(mgr, cvs[c].agent, c)
        /\ \/ /\ Hangs(mgr, cvs[c].agent, c)
              /\ Hang("end")
              /\ UNCHANGED cvs
           \/ /\ ~Hangs(mgr, cvs[c].agent, c)
              /\ cvs' = Closed(c)
              /\ Says("end", {}, c, 400, {}, 0, {})
              /\ UNCHANGED <<phase, job>>
        /\ UNCHANGED <<users, seq>>

-----------------------------------------------------------------------------
(* The process: it may be killed, a hung one has to be, and it is started  *)
(* again, with the counter read back from the table.                       *)

Kill ==
  /\ phase = "hung" \/ (phase # "down" /\ "crash" \in Requests)
  /\ Die("kill")
  /\ UNCHANGED rows

\* Slip: the counter starts from 0 in every life of the process.
LastIdZero == 0

LastId ==
  CHOOSE n \in DOMAIN rows \cup {0} : \A d \in DOMAIN rows : d <= n

\* CSQueueMgr::initialize; last_cvsid leaves 0 if it reaches no database.
Restart ==
  /\ phase = "down"
  /\ phase' = "idle"
  /\ \E reached \in DbAnswers : seq' = IF reached THEN LastId ELSE 0
  /\ Unanswered("restart")
  /\ UNCHANGED <<mgr, users, cvs, rows, job>>

Init ==
  /\ mgr = Empty
  /\ users = <<>>
  /\ cvs = <<>>
  /\ seq = 0
  /\ rows = <<>>
  /\ phase = "idle"
  /\ job = NoJob
  /\ out = [op |-> "restart", who |-> {}, number |-> 0, code |-> 0,
            invites |-> {}, from |-> 0, ended |-> {}]

OfflineLoop == OfflineSkip \/ OfflineNext \/ OfflineEnd

Next ==
  \/ /\ "presence" \in Requests
     /\ \E id \in AgentId, n \in Capacities, verified \in BOOLEAN :
          AgentPresence(id, n, verified)
  \/ "absence" \in Requests /\ \E id \in AgentId : AgentAbsence(id)
  \/ "accept" \in Requests /\ \E id \in AgentId : AgentAccept(id)
  \/ "refuse" \in Requests /\ \E id \in AgentId : AgentRefuse(id)
  \/ "redirect" \in Requests /\ \E c \in 1 .. MaxCvs, from, to \in AgentId :
                                  AgentRedirect(c, from, to)
  \/ "offline" \in Requests /\ \E id \in AgentId : AgentOffline(id)
  \/ OfflineLoop
  \/ "join" \in Requests /\ \E u \in UserId : UserJoin(u)
  \/ "depart" \in Requests /\ \E u \in UserId : UserDepart(u)
  \/ "score" \in Requests /\ \E u \in UserId, c \in 1 .. MaxCvs, s \in Scores :
                               UserScore(u, c, s)
  \/ "end" \in Requests /\ \E c \in 1 .. MaxCvs : ConversationEnd(c)
  \/ Kill
  \/ Restart

Spec == Init /\ [][Next]_vars

\* The thread that runs agent_offline goes on running it.
FairSpec == Spec /\ WF_vars(OfflineLoop)

-----------------------------------------------------------------------------
(* Properties.                                                             *)

\* The shapes of the state, each part of it between two statements of a handler.
TypeOK ==
  /\ ManagerType(mgr)
  /\ users \in Seq(Umid)
  /\ DOMAIN cvs \subseteq Nat /\ cvs \in [DOMAIN cvs -> Conversation]
  /\ seq \in Nat
  /\ DOMAIN rows \subseteq Nat /\ rows \in [DOMAIN rows -> Row]
  /\ phase \in Phase
  /\ job \in [agent: Uin \cup {Mangled}, last: Nat, ended: SUBSET Ended]
  /\ out.who \subseteq UserId /\ out.number \in Nat
  /\ out.code \in {0, 200, 400} /\ out.invites \subseteq Uin

\* A handler is running or about to: no thread has run into the endless loop.
Serving == phase \in {"idle", "offline"}

\* CONVERSATION::agent never dangles: it points to a present agent, and that agent
\* knows the conversation, so that its departure will find it (agent_absence looks
\* at the load, agent_offline at the set).
OwnerHolds ==
  Serving => \A c \in DOMAIN cvs :
               /\ cvs[c].agent \in DOMAIN mgr.agents
               /\ c \in mgr.agents[cvs[c].agent].cvs

\* The list the invitations walk is complete and in order whenever it can be walked,
\* though order_to_head has never once repaired it.
ListInOrder == Serving => ListsEachOnce(mgr) /\ Ranked(mgr)

\* The load an agent is compared by counts its conversation ids, after any sequence
\* of accepted, redirected, ended and lost conversations.
LoadIsCount == LoadCounts(mgr)

\* An agent shown as invited is one whose accept or refuse will be found.
InvitedCanAnswer == InvitationsRecorded(mgr)

\* Every live conversation is on record under its own user: no id of an earlier
\* life of the process is given out again, and no insert hits an older row.
LiveOnRecord ==
  Serving => \A c \in DOMAIN cvs : c \in DOMAIN rows /\ rows[c].user = cvs[c].user.uin

\* The agents that could be invited, and those an answer is expected from.
Free == {a \in DOMAIN mgr.agents :
           mgr.agents[a].state = "AVAILABLE" /\ mgr.agents[a].capacity > mgr.agents[a].load}
Asked == {a \in DOMAIN mgr.agents : mgr.agents[a].state = "INVITING"}

\* The uins in m_inviting_set nobody will answer for: the agent has left, or it has
\* come back since and knows of no invitation (CSAgentMgr.cpp:55).
Stale == mgr.inviting \ Asked

\* As many present agents are invited as users wait, or there is no agent to invite.
NobodyOverlooked == Cardinality(Asked) >= Len(users) \/ Free = {}

\* No user is left to wait beside a free agent by any handler but conversation_end, as
\* long as no invitation is stale: every handler that adds a user, frees an agent or
\* uses up an invitation also invites (Queue.cpp:243, CSAgentMgr.cpp:72).
OnlyEndLeavesIdle ==
  [][ /\ NobodyOverlooked \/ phase = "offline"
      /\ phase' = "idle" /\ out'.op # "end" /\ Stale' = {}
      => NobodyOverlooked' ]_vars

\* As long as the server runs, who has joined stays in the line or in a conversation until he
\* himself asks to depart, that very conversation is ended, or its agent is lost and he
\* goes back to the head of the line; he is taken from the head only, by an accept that is
\* answered with 200, into a conversation whose number was never used before; and of
\* the requests only a redirect, an offline or an end can stop the server.  A queue that
\* hangs is closed like one whose process is down.
Desk == INSTANCE ServiceDesk WITH
  Guest <- UserId,
  asked <- [kind |-> out.op, who |-> out.who, number |-> out.number, code |-> out.code],
  open <- Serving,
  waiting <- IF Serving THEN users ELSE <<>>,
  serving <- IF Serving THEN [c \in DOMAIN cvs |-> cvs[c].user] ELSE <<>>,
  spent <- DOMAIN rows

ImplementsDesk == Desk!Spec

\* The load an agent is compared by is the number of conversations it is in.
LoadIsServed ==
  Serving => \A a \in DOMAIN mgr.agents :
               mgr.agents[a].load = Cardinality({c \in DOMAIN cvs : cvs[c].agent = a})

\* The conversations agent a has accepted and still has.  A redirect saves the row
\* again, and then it names nobody.
AcceptedBy(a) ==
  {c \in mgr.agents[a].cvs : c \in DOMAIN rows /\ rows[c].agent = a}

\* Whatever is redirected to an agent and from it, and though it may leave and come back
\* between an invitation and its answer, the conversations it has accepted itself are
\* never more than it has announced (Agent.h:101 is not read when it accepts).
AcceptsWithinCapacity ==
  \A a \in DOMAIN mgr.agents : Cardinality(AcceptedBy(a)) <= mgr.agents[a].capacity

\* The loop over the conversation set misses none: an agent reported offline is gone.
OfflineFrees ==
  [][phase = "offline" /\ phase' = "idle" => job.agent \notin DOMAIN mgr'.agents]_vars

\* The loop over the conversation set ends, also where ids in it are stale and wherever
\* the invalid iterator leads, unless it crashes (Queue.cpp:70).
OfflineEnds == phase = "offline" ~> phase # "offline"

\* Every request that has been taken up is answered with a status code.
AlwaysAnswers ==
  out.code = 0 => phase = "offline" \/ out.op \in {"kill", "restart"}

\* A conversation that is ended is reported as ended: CSQueueMgr tells the agent of
\* it (send_agent_delcvs) only then.
EndIsReported ==
  [][out'.op = "end" /\ DOMAIN cvs' # DOMAIN cvs => out'.code = 200]_vars

\* No agent is in more conversations at once than it has announced it can handle.
WithinCapacity ==
  \A a \in DOMAIN mgr.agents : mgr.agents[a].load <= mgr.agents[a].capacity

\* Also the end of a conversation leaves nobody waiting beside a free agent.
NobodyLeftIdle ==
  [][ /\ NobodyOverlooked \/ phase = "offline"
      /\ phase' = "idle" /\ Stale' = {}
      => NobodyOverlooked' ]_vars

\* Whoever is counted as invited is present and knows it.
NoneStale == Stale = {}

\* No user stands in the line twice, or in the line and in a conversation.
InOnePlace ==
  \A u \in UserId :
    Cardinality({i \in DOMAIN users : users[i] = u})
      + Cardinality({c \in DOMAIN cvs : cvs[c].user = u}) <= 1

\* The table says who advises whom.
RecordNamesAgent ==
  Serving => \A c \in DOMAIN cvs : c \in DOMAIN rows => rows[c].agent = cvs[c].agent

=============================================================================
