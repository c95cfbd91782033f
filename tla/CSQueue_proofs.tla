---------------------------- MODULE CSQueue_proofs ----------------------------
(***************************************************************************)
(* What holds of a queue with any number of agents, users, conversations,  *)
(* lives of the process and unreachable databases.                         *)
(***************************************************************************)
EXTENDS CSQueue, AgentMgr_proofs

\* agent_offline's pointer to its agent stays good while its loop runs.
OfflineAgentPresent == phase = "offline" => job.agent \in DOMAIN mgr.agents

\* The inductive invariant.  ManagerOK is needed because the owner of a conversation
\* must be in the list it is moved in, and because only an agent without ids may go.
IInv ==
  /\ TypeOK
  /\ ManagerOK(mgr)
  /\ OwnerHolds
  /\ OfflineAgentPresent

-----------------------------------------------------------------------------
\* What TypeOK says of the parts of the state that are not the manager's.
UsersOK == users \in Seq(Umid)
CvsOK == DOMAIN cvs \subseteq Nat /\ cvs \in [DOMAIN cvs -> Conversation]
RowsOK == DOMAIN rows \subseteq Nat /\ rows \in [DOMAIN rows -> Row]
JobOK == job \in [agent: Uin \cup {Mangled}, last: Nat, ended: SUBSET Ended]
OutOK ==
  /\ out.who \subseteq UserId /\ out.number \in Nat
  /\ out.code \in {0, 200, 400} /\ out.invites \subseteq Uin

\* TypeOK, part by part.
LEMMA TypeParts ==
  TypeOK <=> /\ ManagerType(mgr) /\ UsersOK /\ CvsOK /\ seq \in Nat /\ RowsOK
             /\ phase \in Phase /\ JobOK /\ OutOK
BY DEF TypeOK, UsersOK, CvsOK, RowsOK, JobOK, OutOK

\* An answer with good invitations is a good answer, and so is a result.
LEMMA SaysOK ==
  ASSUME NEW op, NEW who, who \subseteq UserId, NEW number \in Nat,
         NEW code \in {0, 200, 400}, NEW invites, invites \subseteq Uin,
         NEW from, NEW ended, Says(op, who, number, code, invites, from, ended)
  PROVE  OutOK'
BY DEF Says, OutOK

LEMMA ResultOK ==
  ASSUME NEW op, NEW code \in {0, 200, 400}, NEW invites, invites \subseteq Uin,
         NEW from, NEW ended, Result(op, code, invites, from, ended)
  PROVE  OutOK'
BY SaysOK DEF Result

\* A saved conversation is a row, whether it is inserted or updated.
LEMMA SaveOK ==
  ASSUME RowsOK, NEW c \in Nat, NEW r \in Conversation, Save(c, r)
  PROVE  RowsOK'
<1>1. r.agent \in Uin /\ r.user \in Umid /\ r.user.uin \in Uin /\ r.score \in Scores \cup {NoScore}
  BY SMT DEF Conversation, Umid
<1>2. DOMAIN Saved(c, r) \subseteq Nat /\ Saved(c, r) \in [DOMAIN Saved(c, r) -> Row]
  <2>1. CASE c \in DOMAIN rows
    BY <2>1, SMT DEF Saved, RowsOK, Row
  <2>2. CASE c \notin DOMAIN rows
    <3> DEFINE new == [agent |-> r.agent, user |-> r.user.uin, score |-> r.score]
    <3>1. new \in Row
      BY <1>1, SMT DEF Row
    <3>2. Saved(c, r) = [d \in DOMAIN rows \cup {c} |-> IF d = c THEN new ELSE rows[d]]
      BY <2>2 DEF Saved
    <3> HIDE DEF new
    <3> QED
      BY <3>1, <3>2, SMT DEF RowsOK
  <2> QED
    BY <2>1, <2>2
<1>3. rows' = Saved(c, r) \/ rows' = rows
  BY DEF Save
<1> QED
  BY <1>2, <1>3 DEF RowsOK

\* A closed conversation leaves the others as they are.
LEMMA ClosedOK ==
  ASSUME CvsOK, NEW c
  PROVE  /\ DOMAIN Closed(c) = DOMAIN cvs \ {c}
         /\ Closed(c) \in [DOMAIN Closed(c) -> Conversation]
         /\ \A d \in DOMAIN cvs \ {c} : Closed(c)[d] = cvs[d]
BY SMT DEF CvsOK, Closed

-----------------------------------------------------------------------------
\* An empty queue.
LEMMA InitOK == InstanceAssumption /\ Init => IInv
<1> SUFFICES ASSUME InstanceAssumption, Init PROVE IInv
  OBVIOUS
<1>1. ManagerOK(mgr)
  BY EmptyOK DEF Init
<1>2. UsersOK /\ CvsOK /\ seq \in Nat /\ RowsOK /\ phase \in Phase
  BY SMT DEF Init, UsersOK, CvsOK, RowsOK, Phase
<1>3. JobOK /\ OutOK
  BY SMT DEF Init, NoJob, JobOK, OutOK
<1>4. OwnerHolds /\ OfflineAgentPresent
  BY SMT DEF Init, OwnerHolds, OfflineAgentPresent
<1> QED
  BY <1>1, <1>2, <1>3, <1>4, TypeParts DEF IInv, ManagerOK

-----------------------------------------------------------------------------
(* Steps several handlers share.                                           *)

\* A request that is refused changes nothing.
LEMMA RefusedOK == ASSUME IInv, Refused PROVE IInv'
<1>1. OutOK'
  BY ResultOK DEF Refused, Fails
<1>2. /\ mgr' = mgr /\ users' = users /\ cvs' = cvs /\ seq' = seq
      /\ rows' = rows /\ phase' = phase /\ job' = job
  BY DEF Refused, memory
<1>3. TypeOK'
  BY <1>1, <1>2, Zenon DEF IInv, TypeOK, OutOK
<1>4. OwnerHolds'
  BY <1>2, Zenon DEF IInv, OwnerHolds, Serving
<1>5. ManagerOK(mgr)' /\ OfflineAgentPresent'
  BY <1>2, Zenon DEF IInv, OfflineAgentPresent
<1> QED
  BY <1>3, <1>4, <1>5, Zenon DEF IInv

\* Whatever the tables hold, a process that is down has nothing in memory.
LEMMA DieOK == ASSUME RowsOK', NEW op, Die(op) PROVE IInv'
<1>1. ManagerOK(mgr)'
  BY EmptyOK DEF Die
<1>2. UsersOK' /\ CvsOK' /\ seq' \in Nat /\ phase' \in Phase
  BY SMT DEF Die, UsersOK, CvsOK, Phase
<1>3. JobOK' /\ OutOK'
  <2>1. JobOK'
    BY SMT DEF Die, NoJob, JobOK
  <2>2. OutOK'
    BY ResultOK DEF Die, Unanswered
  <2> QED
    BY <2>1, <2>2
<1>4. OwnerHolds' /\ OfflineAgentPresent'
  BY SMT DEF Die, OwnerHolds, Serving, OfflineAgentPresent
<1>5. TypeOK'
  BY <1>1, <1>2, <1>3, TypeParts DEF ManagerOK, TypeOK, UsersOK, CvsOK, RowsOK, JobOK, OutOK
<1> QED
  BY <1>1, <1>4, <1>5 DEF IInv

\* A queue that hangs: what it has changed is of the right shape.
LEMMA HangOK ==
  ASSUME NEW op, Hang(op), ManagerOK(mgr'), UsersOK', CvsOK', seq' \in Nat, RowsOK'
  PROVE  IInv'
<1>1. JobOK'
  BY SMT DEF Hang, NoJob, JobOK
<1>2. OutOK'
  BY ResultOK DEF Hang, Unanswered
<1>3. phase' = "hung"
  BY DEF Hang
<1>4. OwnerHolds' /\ OfflineAgentPresent'
  BY <1>3 DEF OwnerHolds, Serving, OfflineAgentPresent
<1>5. TypeOK'
  BY <1>1, <1>2, <1>3
     DEF ManagerOK, TypeOK, UsersOK, CvsOK, RowsOK, JobOK, OutOK, Phase
<1> QED
  BY <1>4, <1>5 DEF IInv

\* A handler that returns: the parts of the new state, put together.
LEMMA IdleOK ==
  ASSUME ManagerOK(mgr'), UsersOK', CvsOK', seq' \in Nat, RowsOK', JobOK', OutOK',
         phase' = "idle",
         \A c \in DOMAIN cvs' : /\ cvs'[c].agent \in DOMAIN mgr'.agents
                                /\ c \in mgr'.agents[cvs'[c].agent].cvs
  PROVE  IInv'
<1>1. OwnerHolds' /\ OfflineAgentPresent'
  BY DEF OwnerHolds, OfflineAgentPresent
<1>2. TypeOK'
  BY DEF ManagerOK, TypeOK, UsersOK, CvsOK, RowsOK, JobOK, OutOK, Phase
<1> QED
  BY <1>1, <1>2 DEF IInv

\* do_invite at the end of a handler.
LEMMA InvitesOK ==
  ASSUME NEW m, ManagerOK(m), NEW u
  PROVE  /\ InvitesInto(m, u) => ManagerOK(mgr') /\ Keeps(m, mgr')
         /\ Invites(m, u) \subseteq Uin
BY DoInviteOK DEF InvitesInto, Invites

\* What two operations keep one after the other is kept.
LEMMA KeepsTransitive ==
  ASSUME NEW k, NEW m, NEW n, Keeps(k, m), Keeps(m, n)
  PROVE  Keeps(k, n)
BY Zenon DEF Keeps

-----------------------------------------------------------------------------
\* An agent signs on.
LEMMA PresenceOK ==
  ASSUME InstanceAssumption, IInv, NEW id \in AgentId, NEW n \in Capacities,
         NEW verified \in BOOLEAN, AgentPresence(id, n, verified)
  PROVE  IInv'
<1>1. CASE Refused
  BY <1>1, RefusedOK
<1>2. CASE ~Refused
  <2> DEFINE m == Insert(mgr, id, n)
  <2>1. /\ phase = "idle" /\ id.uin \notin DOMAIN mgr.agents
        /\ InvitesInto(m, users)
        /\ Result("presence", 200, Invites(m, users), 0, {})
        /\ UNCHANGED <<users, cvs, seq, rows, phase, job>>
    BY <1>2 DEF AgentPresence
  <2>2. id \in Umid /\ n \in Nat /\ ManagerOK(mgr)
    BY SMT DEF InstanceAssumption, AgentId, Umid, IInv
  <2>3. /\ ManagerOK(m)
        /\ DOMAIN mgr.agents \subseteq DOMAIN m.agents
        /\ \A b \in DOMAIN mgr.agents : m.agents[b] = mgr.agents[b]
    BY <2>1, <2>2, InsertOK
  <2> HIDE DEF m
  <2>4. ManagerOK(mgr') /\ Keeps(m, mgr') /\ Invites(m, users) \subseteq Uin
    BY <2>1, <2>3, InvitesOK
  <2>5. OutOK'
    BY <2>1, <2>4, ResultOK
  <2>6. \A c \in DOMAIN cvs' : /\ cvs'[c].agent \in DOMAIN mgr'.agents
                               /\ c \in mgr'.agents[cvs'[c].agent].cvs
    BY <2>1, <2>3, <2>4 DEF IInv, OwnerHolds, Serving, Keeps
  <2>7. UsersOK' /\ CvsOK' /\ seq' \in Nat /\ RowsOK' /\ JobOK'
    BY <2>1, TypeParts DEF IInv, UsersOK, CvsOK, RowsOK, JobOK
  <2> QED
    BY <2>1, <2>4, <2>5, <2>6, <2>7, IdleOK
<1> QED
  BY <1>1, <1>2

\* An agent that serves nobody leaves.
LEMMA AbsenceOK ==
  ASSUME IInv, NEW id \in AgentId, AgentAbsence(id)
  PROVE  IInv'
<1>1. CASE Refused
  BY <1>1, RefusedOK
<1>2. CASE ~Refused
  <2>1. /\ phase = "idle" /\ Found(mgr, id) /\ mgr.agents[id.uin].load = 0
        /\ mgr' = Erase(mgr, id.uin)
        /\ Result("absence", 200, {}, 0, {})
        /\ UNCHANGED <<users, cvs, seq, rows, phase, job>>
    BY <1>2 DEF AgentAbsence
  <2>2. id.uin \in DOMAIN mgr.agents /\ ManagerOK(mgr)
    BY <2>1 DEF Found, IInv
  <2>3. ManagerOK(mgr')
    BY <2>1, <2>2, EraseOK
  <2>4. \A b \in DOMAIN mgr.agents :
          mgr.agents[b].cvs # {} => b \in DOMAIN mgr'.agents /\ mgr'.agents[b] = mgr.agents[b]
    BY <2>1, <2>2, EraseOK
  <2>5. OutOK'
    BY <2>1, ResultOK
  <2>6. \A c \in DOMAIN cvs' : /\ cvs'[c].agent \in DOMAIN mgr'.agents
                               /\ c \in mgr'.agents[cvs'[c].agent].cvs
    <3>1. \A c \in DOMAIN cvs : /\ cvs[c].agent \in DOMAIN mgr.agents
                                /\ c \in mgr.agents[cvs[c].agent].cvs
      BY <2>1 DEF IInv, OwnerHolds, Serving
    <3> QED
      BY <2>1, <2>4, <3>1
  <2>7. UsersOK' /\ CvsOK' /\ seq' \in Nat /\ RowsOK' /\ JobOK'
    BY <2>1, TypeParts DEF IInv, UsersOK, CvsOK, RowsOK, JobOK
  <2> QED
    BY <2>1, <2>3, <2>5, <2>6, <2>7, IdleOK
<1> QED
  BY <1>1, <1>2

\* Both outcomes of a taken invitation: a conversation, or, with nobody waiting, none.
LEMMA AcceptOK ==
  ASSUME InstanceAssumption, IInv, NEW id \in AgentId, AgentAccept(id)
  PROVE  IInv'
<1> DEFINE a == id.uin
           m == Accept(mgr, a)
           c == seq + 1
           r == [agent |-> a, user |-> Head(users), score |-> NoScore]
           n == AddConversation(m, a, c)
           from == IF Tail(users) = <<>> THEN 0 ELSE 1
<1>1. CASE Refused
  BY <1>1, RefusedOK
<1>2. CASE ~Refused
  <2>1. phase = "idle" /\ Found(mgr, id) /\ phase' = "idle" /\ job' = job
    BY <1>2 DEF AgentAccept
  <2>2. a \in DOMAIN mgr.agents /\ ManagerOK(mgr) /\ a \in Uin
    BY <2>1 DEF Found, IInv, ManagerOK, ManagerType
  <2>3. ManagerOK(m) /\ Keeps(mgr, m)
    BY <2>2, AnsweredOK DEF Accept
  <2>4. \A d \in DOMAIN cvs : /\ cvs[d].agent \in DOMAIN mgr.agents
                              /\ d \in mgr.agents[cvs[d].agent].cvs
    BY <2>1 DEF IInv, OwnerHolds, Serving
  <2>5. UsersOK /\ CvsOK /\ seq \in Nat /\ RowsOK /\ JobOK
    BY TypeParts DEF IInv
  <2>6. JobOK'
    BY <2>1, <2>5 DEF JobOK
  <2>7. CASE users = <<>>
    <3>1. mgr' = m /\ Fails("accept") /\ UNCHANGED <<users, cvs, seq, rows, phase, job>>
      BY <1>2, <2>7 DEF AgentAccept
    <3>2. OutOK'
      BY <3>1, ResultOK DEF Fails
    <3>3. UsersOK' /\ CvsOK' /\ seq' \in Nat /\ RowsOK'
      BY <2>5, <3>1 DEF UsersOK, CvsOK, RowsOK
    <3> HIDE DEF m
    <3>4. \A d \in DOMAIN cvs' : /\ cvs'[d].agent \in DOMAIN mgr'.agents
                                 /\ d \in mgr'.agents[cvs'[d].agent].cvs
      BY <2>3, <2>4, <3>1 DEF Keeps
    <3> QED
      BY <2>1, <2>3, <2>6, <3>1, <3>2, <3>3, <3>4, IdleOK
  <2>8. CASE users # <<>>
    <3>1. /\ seq' = c /\ users' = Tail(users)
          /\ cvs' = [d \in DOMAIN cvs \cup {c} |-> IF d = c THEN r ELSE cvs[d]]
          /\ Save(c, r)
          /\ InvitesInto(n, Tail(users))
          /\ Result("accept", 200, Invites(n, Tail(users)), from, {})
      BY <1>2, <2>8 DEF AgentAccept
    <3>2. c \in Nat /\ r \in Conversation
      BY <2>2, <2>5, <2>8, SMT DEF UsersOK, Conversation
    <3> HIDE DEF c, r
    <3>3. a \in DOMAIN m.agents
      BY <2>2, <2>3 DEF Keeps
    <3>4. ManagerOK(n) /\ Keeps(m, n) /\ c \in n.agents[a].cvs
      BY <2>3, <3>2, <3>3, AddConversationOK
    <3> HIDE DEF m, n, from
    <3>5. ManagerOK(mgr') /\ Keeps(n, mgr') /\ Invites(n, Tail(users)) \subseteq Uin
      BY <3>1, <3>4, InvitesOK
    <3>6. Keeps(mgr, mgr')
      BY <2>3, <3>4, <3>5, KeepsTransitive
    <3>7. OutOK'
      BY <3>1, <3>5, ResultOK
    <3>8. RowsOK'
      BY <2>5, <3>1, <3>2, SaveOK
    <3>9. CvsOK' /\ DOMAIN cvs' = DOMAIN cvs \cup {c} /\ cvs'[c] = r
          /\ \A d \in DOMAIN cvs : d # c => cvs'[d] = cvs[d]
      BY <2>5, <3>1, <3>2, SMT DEF CvsOK
    <3>10. UsersOK' /\ seq' \in Nat
      BY <2>5, <2>8, <3>1, <3>2, SMT DEF UsersOK
    <3>11. r.agent = a
      BY DEF r
    <3>12. a \in DOMAIN n.agents
      BY <3>3, <3>4 DEF Keeps
    <3>13. ASSUME NEW d \in DOMAIN cvs'
           PROVE  /\ cvs'[d].agent \in DOMAIN mgr'.agents
                  /\ d \in mgr'.agents[cvs'[d].agent].cvs
      <4>1. CASE d = c
        BY <3>4, <3>5, <3>9, <3>11, <3>12, <4>1 DEF Keeps
      <4>2. CASE d # c
        BY <2>4, <3>6, <3>9, <4>2 DEF Keeps
      <4> QED
        BY <4>1, <4>2
    <3> QED
      BY <2>1, <2>6, <3>5, <3>7, <3>8, <3>9, <3>10, <3>13, IdleOK
  <2> QED
    BY <2>7, <2>8
<1> QED
  BY <1>1, <1>2

\* An agent refuses its invitation.
LEMMA RefuseOK ==
  ASSUME IInv, NEW id \in AgentId, AgentRefuse(id)
  PROVE  IInv'
<1> DEFINE asked == Found(mgr, id) /\ id.uin \in mgr.inviting
           m == IF asked THEN Refuse(mgr, id.uin) ELSE mgr
           code == IF asked THEN 200 ELSE 400
<1>1. /\ phase = "idle"
      /\ InvitesInto(m, users)
      /\ Result("refuse", code, Invites(m, users), 0, {})
      /\ UNCHANGED <<users, cvs, seq, rows, phase, job>>
  BY DEF AgentRefuse
<1>2. ManagerOK(mgr)
  BY DEF IInv
<1>3. ManagerOK(m) /\ Keeps(mgr, m)
  <2>1. CASE asked
    <3>1. id.uin \in DOMAIN mgr.agents
      BY <2>1 DEF Found
    <3> QED
      BY <1>2, <2>1, <3>1, AnsweredOK DEF Refuse
  <2>2. CASE ~asked
    BY <1>2, <2>2 DEF Keeps
  <2> QED
    BY <2>1, <2>2
<1>4. code \in {0, 200, 400}
  OBVIOUS
<1> HIDE DEF m, code
<1>5. ManagerOK(mgr') /\ Keeps(m, mgr') /\ Invites(m, users) \subseteq Uin
  BY <1>1, <1>3, InvitesOK
<1>6. Keeps(mgr, mgr')
  BY <1>3, <1>5, KeepsTransitive
<1>7. OutOK'
  BY <1>1, <1>4, <1>5, ResultOK
<1>8. \A c \in DOMAIN cvs' : /\ cvs'[c].agent \in DOMAIN mgr'.agents
                             /\ c \in mgr'.agents[cvs'[c].agent].cvs
  BY <1>1, <1>6 DEF IInv, OwnerHolds, Serving, Keeps
<1>9. UsersOK' /\ CvsOK' /\ seq' \in Nat /\ RowsOK' /\ JobOK'
  BY <1>1, TypeParts DEF IInv, UsersOK, CvsOK, RowsOK, JobOK
<1> QED
  BY <1>1, <1>5, <1>7, <1>8, <1>9, IdleOK

-----------------------------------------------------------------------------
\* Redirected, dropped for want of a conversation, or hung half way.
LEMMA RedirectOK ==
  ASSUME InstanceAssumption, IInv, NEW c \in Nat, NEW from \in AgentId, NEW to \in AgentId,
         AgentRedirect(c, from, to)
  PROVE  IInv'
<1> DEFINE left == RemoveConversation(mgr, from.uin, c)
           m == AddConversation(left, to.uin, c)
           r == [cvs[c] EXCEPT !.agent = to.uin]
<1>1. CASE Refused
  BY <1>1, RefusedOK
<1>2. CASE Die("redirect") /\ UNCHANGED rows
  <2>1. RowsOK'
    BY <1>2, TypeParts DEF IInv, RowsOK
  <2> QED
    BY <1>2, <2>1, DieOK
<1>3. CASE ~Refused /\ ~(Die("redirect") /\ UNCHANGED rows)
  <2>1. phase = "idle" /\ Found(mgr, from) /\ Found(mgr, to) /\ c \in DOMAIN cvs
    BY <1>3 DEF AgentRedirect
  <2>2. /\ from.uin \in DOMAIN mgr.agents /\ to.uin \in DOMAIN mgr.agents
        /\ ManagerOK(mgr) /\ to.uin \in Uin
    BY <2>1 DEF Found, IInv, ManagerOK, ManagerType
  <2>3. /\ ManagerOK(left) /\ DOMAIN left.agents = DOMAIN mgr.agents
        /\ \A b \in DOMAIN mgr.agents : mgr.agents[b].cvs \ {c} \subseteq left.agents[b].cvs
    BY <2>2, RemoveConversationOK
  <2>4. UsersOK /\ CvsOK /\ seq \in Nat /\ RowsOK /\ JobOK
    BY TypeParts DEF IInv
  <2>5. CASE Hangs(mgr, from.uin, c)
    <3>1. mgr' = left /\ Hang("redirect") /\ UNCHANGED <<users, cvs, seq, rows>>
      BY <1>3, <2>1, <2>5 DEF AgentRedirect, Redirected
    <3>2. UsersOK' /\ CvsOK' /\ seq' \in Nat /\ RowsOK'
      BY <2>4, <3>1 DEF UsersOK, CvsOK, RowsOK
    <3> HIDE DEF left
    <3> QED
      BY <2>3, <3>1, <3>2, HangOK
  <2>6. CASE ~Hangs(mgr, from.uin, c)
    <3>1. /\ cvs' = [cvs EXCEPT ![c] = r]
          /\ Save(c, r)
          /\ InvitesInto(m, users)
          /\ Result("redirect", 200, Invites(m, users), 0, {})
          /\ UNCHANGED <<users, seq, phase, job>>
      BY <1>3, <2>1, <2>6 DEF AgentRedirect, Redirected
    <3>2. r \in Conversation /\ r.agent = to.uin
      BY <2>1, <2>2, <2>4, SMT DEF CvsOK, Conversation
    <3> HIDE DEF r, left
    <3>3. ManagerOK(m) /\ Keeps(left, m) /\ c \in m.agents[to.uin].cvs
      BY <2>2, <2>3, AddConversationOK
    <3> HIDE DEF m
    <3>4. ManagerOK(mgr') /\ Keeps(m, mgr') /\ Invites(m, users) \subseteq Uin
      BY <3>1, <3>3, InvitesOK
    <3>5. Keeps(left, mgr')
      BY <3>3, <3>4, KeepsTransitive
    <3>6. OutOK'
      BY <3>1, <3>4, ResultOK
    <3>7. RowsOK'
      BY <2>4, <3>1, <3>2, SaveOK
    <3>8. CvsOK' /\ DOMAIN cvs' = DOMAIN cvs /\ cvs'[c] = r
          /\ \A d \in DOMAIN cvs : d # c => cvs'[d] = cvs[d]
      BY <2>1, <2>4, <3>1, <3>2, SMT DEF CvsOK
    <3>9. UsersOK' /\ seq' \in Nat /\ JobOK' /\ phase' = "idle"
      BY <2>1, <2>4, <3>1 DEF UsersOK, JobOK
    <3>10. ASSUME NEW d \in DOMAIN cvs'
           PROVE  /\ cvs'[d].agent \in DOMAIN mgr'.agents
                  /\ d \in mgr'.agents[cvs'[d].agent].cvs
      <4>1. CASE d = c
        BY <2>2, <2>3, <3>2, <3>3, <3>4, <3>8, <4>1 DEF Keeps
      <4>2. CASE d # c
        <5>1. cvs'[d] = cvs[d] /\ d \in DOMAIN cvs
          BY <3>8, <4>2
        <5>2. /\ cvs[d].agent \in DOMAIN mgr.agents
              /\ d \in mgr.agents[cvs[d].agent].cvs
          BY <2>1, <5>1 DEF IInv, OwnerHolds, Serving
        <5>3. d \in left.agents[cvs[d].agent].cvs
          BY <2>3, <4>2, <5>2
        <5> QED
          BY <2>3, <3>5, <5>1, <5>2, <5>3 DEF Keeps
      <4> QED
        BY <4>1, <4>2
    <3> QED
      BY <3>4, <3>6, <3>7, <3>8, <3>9, <3>10, IdleOK
  <2> QED
    BY <2>5, <2>6
<1> QED
  BY <1>1, <1>2, <1>3

\* An agent is lost, and the loop over its conversations begins.
LEMMA OfflineOK ==
  ASSUME IInv, NEW id \in AgentId, AgentOffline(id)
  PROVE  IInv'
<1>1. CASE Refused
  BY <1>1, RefusedOK
<1>2. CASE ~Refused
  <2>1. /\ Found(mgr, id) /\ phase = "idle" /\ phase' = "offline"
        /\ job' = [agent |-> id.uin, last |-> 0, ended |-> {}]
        /\ Unanswered("offline")
        /\ mgr' = mgr /\ users' = users /\ cvs' = cvs /\ seq' = seq /\ rows' = rows
    BY <1>2 DEF AgentOffline, memory
  <2>2. id.uin \in DOMAIN mgr.agents /\ id.uin \in Uin
    BY <2>1 DEF Found, IInv, ManagerOK, ManagerType
  <2>3. JobOK'
    BY <2>1, <2>2, SMT DEF JobOK
  <2>4. OutOK'
    BY <2>1, ResultOK DEF Unanswered
  <2>5. OfflineAgentPresent'
    BY <2>1, <2>2 DEF OfflineAgentPresent
  <2>6. OwnerHolds'
    BY <2>1 DEF IInv, OwnerHolds, Serving
  <2>7. TypeOK'
    BY <2>1, <2>3, <2>4, TypeParts DEF IInv, TypeOK, JobOK, OutOK, Phase
  <2> QED
    BY <2>1, <2>5, <2>6, <2>7 DEF IInv
<1> QED
  BY <1>1, <1>2

\* The loop passes an id whose conversation is gone.
LEMMA OfflineSkipOK == ASSUME IInv, OfflineSkip PROVE IInv'
<1>1. PICK c \in Rest \ DOMAIN cvs : job' = [job EXCEPT !.last = c]
  BY DEF OfflineSkip
<1>2. /\ phase = "offline" /\ phase' = phase /\ out' = out
      /\ mgr' = mgr /\ users' = users /\ cvs' = cvs /\ seq' = seq /\ rows' = rows
  BY DEF OfflineSkip, memory
<1>3. job.agent \in DOMAIN mgr.agents
  BY <1>2 DEF IInv, OfflineAgentPresent
<1>4. c \in Nat
  <2>1. mgr.agents[job.agent] \in Agent
    BY <1>3 DEF IInv, ManagerOK, ManagerType
  <2>2. mgr.agents[job.agent].cvs \subseteq Nat
    BY <2>1, SMT DEF Agent
  <2> QED
    BY <2>2 DEF Rest
<1>5. JobOK' /\ job'.agent = job.agent
  BY <1>1, <1>4, TypeParts, SMT DEF IInv, JobOK
<1>6. TypeOK'
  BY <1>2, <1>5, TypeParts DEF IInv, TypeOK, JobOK
<1> QED
  BY <1>2, <1>5, <1>6 DEF IInv, OwnerHolds, Serving, OfflineAgentPresent

\* Erasing a conversation, from its owner and from the pool.
LEMMA ErasedOK ==
  ASSUME IInv, Serving, NEW c \in DOMAIN cvs
  PROVE  LET m == RemoveConversation(mgr, cvs[c].agent, c)
         IN  /\ ManagerOK(m) /\ DOMAIN m.agents = DOMAIN mgr.agents
             /\ \A d \in DOMAIN cvs \ {c} : /\ cvs[d].agent \in DOMAIN m.agents
                                           /\ d \in m.agents[cvs[d].agent].cvs
<1>1. /\ \A d \in DOMAIN cvs : /\ cvs[d].agent \in DOMAIN mgr.agents
                              /\ d \in mgr.agents[cvs[d].agent].cvs
      /\ ManagerOK(mgr)
  BY DEF IInv, OwnerHolds
<1>2. c \in Nat
  BY TypeParts DEF IInv, CvsOK
<1> DEFINE m == RemoveConversation(mgr, cvs[c].agent, c)
<1>3. /\ ManagerOK(m) /\ DOMAIN m.agents = DOMAIN mgr.agents
      /\ \A b \in DOMAIN mgr.agents : mgr.agents[b].cvs \ {c} \subseteq m.agents[b].cvs
  BY <1>1, <1>2, RemoveConversationOK
<1> HIDE DEF m
<1>4. ASSUME NEW d \in DOMAIN cvs \ {c}
      PROVE  cvs[d].agent \in DOMAIN m.agents /\ d \in m.agents[cvs[d].agent].cvs
  BY <1>1, <1>3
<1> QED
  BY <1>3, <1>4 DEF m

\* The round of the loop that ends well: c is closed, and the iterator goes on behind
\* `passed`.
Returns(c, passed) ==
  /\ ~Hangs(mgr, cvs[c].agent, c)
  /\ mgr' = RemoveConversation(mgr, cvs[c].agent, c)
  /\ users' = <<cvs[c].user>> \o users
  /\ cvs' = Closed(c)
  /\ job' = [job EXCEPT !.last = passed,
                        !.ended = @ \cup {[id |-> c, user |-> cvs[c].user]}]
  /\ UNCHANGED <<seq, phase, out>>

\* The three ways a round of the loop can go.  Only an id before c that has been left in
\* the set lets the iterator go anywhere but on.
LEMMA Rounds ==
  ASSUME IInv, OfflineNext
  PROVE  \E c \in Rest \cap DOMAIN cvs :
           /\ \A d \in Rest : c <= d
           /\ Save(c, cvs[c])
           /\ \/ /\ cvs[c].agent = job.agent /\ ~Hangs(mgr, cvs[c].agent, c)
                 /\ Die("offline")
              \/ /\ Hangs(mgr, cvs[c].agent, c)
                 /\ mgr' = RemoveConversation(mgr, cvs[c].agent, c)
                 /\ users' = <<cvs[c].user>> \o users
                 /\ Hang("offline")
                 /\ UNCHANGED <<cvs, seq>>
              \/ \E passed \in Nat :
                   /\ Returns(c, passed)
                   /\ \/ passed = c
                      \/ \E d \in mgr.agents[job.agent].cvs : d < c
<1>1. PICK c \in Rest \cap DOMAIN cvs :
        /\ \A d \in Rest : c <= d
        /\ Save(c, cvs[c])
        /\ \/ /\ cvs[c].agent = job.agent /\ ~Hangs(mgr, cvs[c].agent, c)
              /\ Die("offline")
           \/ /\ Hangs(mgr, cvs[c].agent, c)
              /\ mgr' = RemoveConversation(mgr, cvs[c].agent, c)
              /\ users' = <<cvs[c].user>> \o users
              /\ Hang("offline")
              /\ UNCHANGED <<cvs, seq>>
           \/ \E passed \in IF cvs[c].agent = job.agent THEN Resumes(c) ELSE {c} :
                Returns(c, passed)
  BY Zenon DEF OfflineNext, Returns
<1>2. c \in Nat
  BY TypeParts DEF IInv, CvsOK
<1>3. ASSUME NEW passed \in IF cvs[c].agent = job.agent THEN Resumes(c) ELSE {c}
      PROVE  /\ passed \in Nat
             /\ passed = c \/ \E d \in mgr.agents[job.agent].cvs : d < c
  <2>1. CASE passed = c
    BY <1>2, <2>1
  <2>2. CASE passed # c
    <3>1. passed \in 0 .. MaxCvs /\ \E d \in mgr.agents[job.agent].cvs : d < c
      BY <2>2, Zenon DEF Resumes
    <3>2. passed \in Nat
      BY <3>1, SMT
    <3> QED
      BY <3>1, <3>2
  <2> QED
    BY <2>1, <2>2
<1> QED
  BY <1>1, <1>3, Zenon

\* The loop puts a user back and closes the conversation.
LEMMA OfflineNextOK == ASSUME IInv, OfflineNext PROVE IInv'
<1>1. phase = "offline"
  BY DEF OfflineNext
<1>2. PICK c \in Rest \cap DOMAIN cvs :
        /\ \A d \in Rest : c <= d
        /\ Save(c, cvs[c])
        /\ \/ Die("offline")
           \/ /\ mgr' = RemoveConversation(mgr, cvs[c].agent, c)
              /\ users' = <<cvs[c].user>> \o users
              /\ Hang("offline")
              /\ UNCHANGED <<cvs, seq>>
           \/ \E passed \in Nat : Returns(c, passed)
  BY Rounds, Zenon
<1> DEFINE m == RemoveConversation(mgr, cvs[c].agent, c)
           returned == <<cvs[c].user>> \o users
           e == [id |-> c, user |-> cvs[c].user]
<1>3. UsersOK /\ CvsOK /\ seq \in Nat /\ RowsOK /\ JobOK /\ OutOK
  BY TypeParts DEF IInv
<1>4. c \in Nat /\ cvs[c] \in Conversation /\ cvs[c].user \in Umid
  BY <1>3, SMT DEF CvsOK, Conversation
<1>5. RowsOK'
  BY <1>2, <1>3, <1>4, SaveOK
<1>6. /\ ManagerOK(m) /\ DOMAIN m.agents = DOMAIN mgr.agents
      /\ \A d \in DOMAIN cvs \ {c} : /\ cvs[d].agent \in DOMAIN m.agents
                                    /\ d \in m.agents[cvs[d].agent].cvs
  BY <1>1, ErasedOK DEF Serving
<1>7. returned \in Seq(Umid)
  BY <1>3, <1>4, SMT DEF UsersOK
<1> HIDE DEF m
<1>8. CASE Die("offline")
  BY <1>5, <1>8, DieOK
<1>9. CASE /\ mgr' = m /\ users' = returned /\ Hang("offline") /\ UNCHANGED <<cvs, seq>>
  <2>1. UsersOK' /\ CvsOK' /\ seq' \in Nat
    BY <1>3, <1>7, <1>9 DEF UsersOK, CvsOK
  <2> QED
    BY <1>5, <1>6, <1>9, <2>1, HangOK
<1>10. ASSUME NEW passed \in Nat, Returns(c, passed)
       PROVE  IInv'
  <2>0. /\ mgr' = m /\ users' = returned /\ cvs' = Closed(c)
        /\ job' = [job EXCEPT !.last = passed, !.ended = @ \cup {e}]
        /\ UNCHANGED <<seq, phase, out>>
    BY <1>10 DEF Returns, m
  <2>1. UsersOK' /\ seq' \in Nat /\ OutOK' /\ phase' = "offline"
    BY <1>1, <1>3, <1>7, <2>0 DEF UsersOK, OutOK
  <2>2. /\ DOMAIN cvs' = DOMAIN cvs \ {c} /\ CvsOK'
        /\ \A d \in DOMAIN cvs' : cvs'[d] = cvs[d]
    BY <1>3, <2>0, ClosedOK DEF CvsOK
  <2>3. JobOK' /\ job'.agent = job.agent
    <3>1. e \in Ended
      BY <1>4, SMT DEF Ended
    <3> DEFINE j == [job EXCEPT !.last = passed]
    <3> HIDE DEF e
    <3>2. /\ j \in [agent: Uin \cup {Mangled}, last: Nat, ended: SUBSET Ended]
          /\ j.agent = job.agent /\ j.ended = job.ended
      BY <1>3, <1>4, SMT DEF JobOK
    <3>3. job' = [j EXCEPT !.ended = j.ended \cup {e}]
      BY <2>0, <3>2
    <3> HIDE DEF j
    <3>4. /\ [j EXCEPT !.ended = j.ended \cup {e}] \in
               [agent: Uin \cup {Mangled}, last: Nat, ended: SUBSET Ended]
          /\ [j EXCEPT !.ended = j.ended \cup {e}].agent = j.agent
      BY <3>1, <3>2, SMT
    <3> QED
      BY <3>2, <3>3, <3>4 DEF JobOK
  <2>4. OwnerHolds'
    BY <1>6, <2>0, <2>2 DEF OwnerHolds
  <2>5. OfflineAgentPresent'
    BY <1>1, <1>6, <2>0, <2>3 DEF IInv, OfflineAgentPresent
  <2>6. TypeOK'
    BY <1>5, <1>6, <2>0, <2>1, <2>2, <2>3
       DEF ManagerOK, TypeOK, UsersOK, CvsOK, RowsOK, JobOK, OutOK, Phase
  <2> QED
    BY <1>6, <2>0, <2>4, <2>5, <2>6 DEF IInv
<1> QED
  BY <1>2, <1>8, <1>9, <1>10 DEF m

\* The loop is over, and the agent is erased.
LEMMA OfflineEndOK == ASSUME IInv, OfflineEnd PROVE IInv'
<1> DEFINE m == Erase(mgr, job.agent)
<1>1. /\ phase = "offline" /\ phase' = "idle" /\ job' = NoJob
      /\ InvitesInto(m, users)
      /\ Result("offline", 200, Invites(m, users), 0, job.ended)
      /\ UNCHANGED <<users, cvs, seq, rows>>
  BY DEF OfflineEnd
<1>2. job.agent \in DOMAIN mgr.agents /\ ManagerOK(mgr)
  BY <1>1 DEF IInv, OfflineAgentPresent
<1>3. /\ ManagerOK(m)
      /\ \A b \in DOMAIN mgr.agents :
           mgr.agents[b].cvs # {} => b \in DOMAIN m.agents /\ m.agents[b] = mgr.agents[b]
  BY <1>2, EraseOK
<1> HIDE DEF m
<1>4. ManagerOK(mgr') /\ Keeps(m, mgr') /\ Invites(m, users) \subseteq Uin
  BY <1>1, <1>3, InvitesOK
<1>5. OutOK'
  BY <1>1, <1>4, ResultOK
<1>6. ASSUME NEW c \in DOMAIN cvs'
      PROVE  cvs'[c].agent \in DOMAIN mgr'.agents /\ c \in mgr'.agents[cvs'[c].agent].cvs
  <2>1. cvs[c].agent \in DOMAIN mgr.agents /\ c \in mgr.agents[cvs[c].agent].cvs /\ cvs' = cvs
    BY <1>1 DEF IInv, OwnerHolds, Serving
  <2>2. cvs[c].agent \in DOMAIN m.agents /\ c \in m.agents[cvs[c].agent].cvs
    BY <1>3, <2>1
  <2> QED
    BY <1>4, <2>1, <2>2 DEF Keeps
<1>7. UsersOK' /\ CvsOK' /\ seq' \in Nat /\ RowsOK'
  BY <1>1, TypeParts DEF IInv, UsersOK, CvsOK, RowsOK
<1>8. JobOK'
  BY <1>1, SMT DEF NoJob, JobOK
<1> QED
  BY <1>1, <1>4, <1>5, <1>6, <1>7, <1>8, IdleOK

-----------------------------------------------------------------------------
\* A user joins.
LEMMA JoinOK ==
  ASSUME InstanceAssumption, IInv, NEW u \in UserId, UserJoin(u)
  PROVE  IInv'
<1>1. /\ phase = "idle" /\ users' = Append(users, u)
      /\ InvitesInto(mgr, users')
      /\ Says("join", {u}, 0, 200, Invites(mgr, users'), 0, {})
      /\ UNCHANGED <<cvs, seq, rows, phase, job>>
  BY DEF UserJoin
<1>2. ManagerOK(mgr) /\ UsersOK /\ u \in Umid
  BY TypeParts, SMT DEF IInv, InstanceAssumption, UserId, Umid
<1>3. ManagerOK(mgr') /\ Keeps(mgr, mgr') /\ Invites(mgr, users') \subseteq Uin
  BY <1>1, <1>2, InvitesOK
<1>4. OutOK'
  <2>1. {u} \subseteq UserId
    OBVIOUS
  <2> QED
    BY <1>1, <1>3, <2>1, SMT DEF Says, OutOK
<1>5. UsersOK'
  BY <1>1, <1>2, SMT DEF UsersOK
<1>6. CvsOK' /\ seq' \in Nat /\ RowsOK' /\ JobOK'
  BY <1>1, TypeParts DEF IInv, CvsOK, RowsOK, JobOK
<1>7. \A c \in DOMAIN cvs' : /\ cvs'[c].agent \in DOMAIN mgr'.agents
                             /\ c \in mgr'.agents[cvs'[c].agent].cvs
  BY <1>1, <1>3 DEF IInv, OwnerHolds, Serving, Keeps
<1> QED
  BY <1>1, <1>3, <1>4, <1>5, <1>6, <1>7, IdleOK

\* A user leaves the queue.
LEMMA DepartOK ==
  ASSUME IInv, NEW u \in UserId, UserDepart(u)
  PROVE  IInv'
<1>1. CASE Refused
  BY <1>1, RefusedOK
<1>2. CASE ~Refused
  <2>1. PICK i \in DOMAIN users :
          /\ users' = SubSeq(users, 1, i - 1) \o SubSeq(users, i + 1, Len(users))
          /\ Says("depart", {u}, 0, 200, {}, IF i = Len(users) THEN 0 ELSE i, {})
          /\ UNCHANGED <<mgr, cvs, seq, rows, phase, job>>
    BY <1>2 DEF UserDepart
  <2>2. phase = "idle"
    BY DEF UserDepart
  <2> DEFINE from == IF i = Len(users) THEN 0 ELSE i
  <2> HIDE DEF from
  <2>3. OutOK'
    <3>1. Says("depart", {u}, 0, 200, {}, from, {})
      BY <2>1 DEF from
    <3> QED
      BY <3>1, SaysOK
  <2>4. UsersOK'
    <3>1. UsersOK
      BY TypeParts DEF IInv
    <3>2. i \in 1 .. Len(users) /\ Len(users) \in Nat
      BY <3>1, SMT DEF UsersOK
    <3>3. SubSeq(users, 1, i - 1) \in Seq(Umid)
      BY <3>1, <3>2, SMT DEF UsersOK
    <3>4. SubSeq(users, i + 1, Len(users)) \in Seq(Umid)
      BY <3>1, <3>2, SMT DEF UsersOK
    <3> QED
      BY <2>1, <3>3, <3>4, SMT DEF UsersOK
  <2>5. ManagerOK(mgr') /\ CvsOK' /\ seq' \in Nat /\ RowsOK' /\ JobOK'
    BY <2>1, TypeParts DEF IInv, CvsOK, RowsOK, JobOK
  <2>6. \A c \in DOMAIN cvs' : /\ cvs'[c].agent \in DOMAIN mgr'.agents
                               /\ c \in mgr'.agents[cvs'[c].agent].cvs
    BY <2>1, <2>2 DEF IInv, OwnerHolds, Serving
  <2> QED
    BY <2>1, <2>2, <2>3, <2>4, <2>5, <2>6, IdleOK
<1> QED
  BY <1>1, <1>2

\* A user scores a conversation.
LEMMA ScoreOK ==
  ASSUME IInv, NEW u \in UserId, NEW c, NEW score \in Scores, UserScore(u, c, score)
  PROVE  IInv'
<1>1. phase = "idle" /\ UNCHANGED <<mgr, users, seq, rows, phase, job>>
  BY DEF UserScore, memory
<1>2. CvsOK /\ UsersOK /\ seq \in Nat /\ RowsOK /\ JobOK
  BY TypeParts DEF IInv
<1>3. ManagerOK(mgr') /\ UsersOK' /\ seq' \in Nat /\ RowsOK' /\ JobOK'
  BY <1>1, <1>2 DEF IInv, UsersOK, RowsOK, JobOK
<1>4. CvsOK' /\ DOMAIN cvs' = DOMAIN cvs /\ \A d \in DOMAIN cvs : cvs'[d].agent = cvs[d].agent
  <2>1. CASE c \in DOMAIN cvs /\ cvs' = [cvs EXCEPT ![c].score = score]
    BY <1>2, <2>1, SMT DEF CvsOK, Conversation
  <2>2. CASE cvs' = cvs
    BY <1>2, <2>2 DEF CvsOK
  <2> QED
    BY <2>1, <2>2 DEF UserScore, memory
<1>5. OutOK'
  <2>1. CASE Result("score", 200, {}, 0, {})
    BY <2>1, ResultOK
  <2>2. CASE Result("score", 400, {}, 0, {})
    BY <2>2, ResultOK
  <2> QED
    BY <2>1, <2>2 DEF UserScore
<1>6. \A d \in DOMAIN cvs' : /\ cvs'[d].agent \in DOMAIN mgr'.agents
                             /\ d \in mgr'.agents[cvs'[d].agent].cvs
  BY <1>1, <1>4 DEF IInv, OwnerHolds, Serving
<1> QED
  BY <1>1, <1>3, <1>4, <1>5, <1>6, IdleOK

\* A conversation ends.
LEMMA EndOK ==
  ASSUME IInv, NEW c \in Nat, ConversationEnd(c)
  PROVE  IInv'
<1>1. CASE Refused
  BY <1>1, RefusedOK
<1>2. CASE ~Refused
  <2> DEFINE m == RemoveConversation(mgr, cvs[c].agent, c)
  <2>1. /\ phase = "idle" /\ c \in DOMAIN cvs /\ Save(c, cvs[c]) /\ mgr' = m
        /\ UNCHANGED <<users, seq>>
    BY <1>2 DEF ConversationEnd
  <2>2. \/ Hang("end") /\ UNCHANGED cvs
        \/ cvs' = Closed(c) /\ Says("end", {}, c, 400, {}, 0, {}) /\ UNCHANGED <<phase, job>>
    BY <1>2 DEF ConversationEnd
  <2>3. UsersOK /\ CvsOK /\ seq \in Nat /\ RowsOK /\ JobOK
    BY TypeParts DEF IInv
  <2>4. RowsOK'
    <3>1. cvs[c] \in Conversation
      BY <2>1, <2>3 DEF CvsOK
    <3> QED
      BY <2>1, <2>3, <3>1, SaveOK
  <2>5. /\ ManagerOK(m) /\ DOMAIN m.agents = DOMAIN mgr.agents
        /\ \A d \in DOMAIN cvs \ {c} : /\ cvs[d].agent \in DOMAIN m.agents
                                      /\ d \in m.agents[cvs[d].agent].cvs
    BY <2>1, ErasedOK DEF Serving
  <2>6. UsersOK' /\ seq' \in Nat
    BY <2>1, <2>3 DEF UsersOK
  <2> HIDE DEF m
  <2>7. CASE Hang("end") /\ UNCHANGED cvs
    <3>1. CvsOK'
      BY <2>3, <2>7 DEF CvsOK
    <3> QED
      BY <2>1, <2>4, <2>5, <2>6, <2>7, <3>1, HangOK
  <2>8. CASE cvs' = Closed(c) /\ Says("end", {}, c, 400, {}, 0, {}) /\ UNCHANGED <<phase, job>>
    <3>1. OutOK'
      BY <2>8, SaysOK
    <3>2. /\ DOMAIN cvs' = DOMAIN cvs \ {c} /\ CvsOK'
          /\ \A d \in DOMAIN cvs' : cvs'[d] = cvs[d]
      BY <2>3, <2>8, ClosedOK DEF CvsOK
    <3>3. JobOK' /\ phase' = "idle"
      BY <2>1, <2>3, <2>8 DEF JobOK
    <3>4. \A d \in DOMAIN cvs' : /\ cvs'[d].agent \in DOMAIN mgr'.agents
                                 /\ d \in mgr'.agents[cvs'[d].agent].cvs
      BY <2>1, <2>5, <3>2
    <3> QED
      BY <2>1, <2>4, <2>5, <2>6, <3>1, <3>2, <3>3, <3>4, IdleOK
  <2> QED
    BY <2>2, <2>7, <2>8
<1> QED
  BY <1>1, <1>2

-----------------------------------------------------------------------------
\* The process dies.
LEMMA KillOK == ASSUME IInv, Kill PROVE IInv'
<1>1. RowsOK'
  BY TypeParts DEF IInv, Kill, RowsOK
<1> QED
  BY <1>1, DieOK DEF Kill

-----------------------------------------------------------------------------
(* A process that starts again: last_cvsid is a number because the table   *)
(* is finite, and nothing in memory survives that could point anywhere.    *)

\* The table has a largest id.
RowsBounded == \E n \in Nat : \A d \in DOMAIN rows : d <= n

\* A process that is down has no conversations to start with.
DownIsEmpty == phase = "down" => cvs = <<>>

\* One more row leaves the table bounded.
LEMMA SaveBounded ==
  ASSUME RowsBounded, NEW c \in Nat, NEW r, Save(c, r), DOMAIN rows \subseteq Nat
  PROVE  RowsBounded'
<1>1. PICK n \in Nat : \A d \in DOMAIN rows : d <= n
  BY DEF RowsBounded
<1>2. DOMAIN Saved(c, r) \subseteq DOMAIN rows \cup {c}
  BY SMT DEF Saved
<1>3. DOMAIN rows' \subseteq DOMAIN rows \cup {c}
  BY <1>2 DEF Save
<1>4. n + c \in Nat /\ \A d \in DOMAIN rows' : d <= n + c
  BY <1>1, <1>3, SMT
<1> QED
  BY <1>4 DEF RowsBounded

\* Every action leaves the table bounded: none but Save touches it.
LEMMA RowsBoundedKept ==
  ASSUME InstanceAssumption, IInv, RowsBounded, [Next]_vars
  PROVE  RowsBounded'
<1>1. CvsOK /\ seq \in Nat /\ DOMAIN rows \subseteq Nat
  BY TypeParts DEF IInv, RowsOK
<1>2. CASE UNCHANGED rows
  BY <1>2 DEF RowsBounded
<1>3. CASE \E c \in Nat : \E r : Save(c, r)
  BY <1>1, <1>3, SaveBounded
<1>4. (\E c \in Nat : \E r : Save(c, r)) \/ UNCHANGED rows
  <2>1. CASE UNCHANGED vars
    BY <2>1 DEF vars
  <2>2. ASSUME NEW id \in AgentId, NEW n, NEW v, AgentPresence(id, n, v)
        PROVE  UNCHANGED rows
    BY <2>2 DEF AgentPresence, Refused
  <2>3. ASSUME NEW id, AgentAbsence(id) PROVE UNCHANGED rows
    BY <2>3 DEF AgentAbsence, Refused
  <2>4. ASSUME NEW id, AgentAccept(id) PROVE (\E c \in Nat : \E r : Save(c, r)) \/ UNCHANGED rows
    <3>1. seq + 1 \in Nat
      BY <1>1
    <3> QED
      BY <2>4, <3>1, Zenon DEF AgentAccept, Refused
  <2>5. ASSUME NEW id, AgentRefuse(id) PROVE UNCHANGED rows
    BY <2>5 DEF AgentRefuse
  <2>6. ASSUME NEW c \in 1 .. MaxCvs, NEW from, NEW to, AgentRedirect(c, from, to)
        PROVE  (\E d \in Nat : \E r : Save(d, r)) \/ UNCHANGED rows
    <3>1. c \in Nat
      BY SMT DEF InstanceAssumption
    <3> QED
      BY <2>6, <3>1, Zenon DEF AgentRedirect, Refused
  <2>7. ASSUME NEW id, AgentOffline(id) PROVE UNCHANGED rows
    BY <2>7 DEF AgentOffline, Refused
  <2>8. CASE OfflineSkip
    BY <2>8 DEF OfflineSkip
  <2>9. CASE OfflineNext
    <3>1. PICK c \in Rest \cap DOMAIN cvs : Save(c, cvs[c])
      BY <2>9 DEF OfflineNext
    <3>2. c \in Nat
      BY <1>1 DEF CvsOK
    <3> QED
      BY <3>1, <3>2
  <2>10. CASE OfflineEnd
    BY <2>10 DEF OfflineEnd
  <2>11. ASSUME NEW u, UserJoin(u) PROVE UNCHANGED rows
    BY <2>11 DEF UserJoin
  <2>12. ASSUME NEW u, UserDepart(u) PROVE UNCHANGED rows
    BY <2>12 DEF UserDepart, Refused
  <2>13. ASSUME NEW u, NEW c, NEW s, UserScore(u, c, s) PROVE UNCHANGED rows
    BY <2>13 DEF UserScore
  <2>14. ASSUME NEW c \in 1 .. MaxCvs, ConversationEnd(c)
         PROVE  (\E d \in Nat : \E r : Save(d, r)) \/ UNCHANGED rows
    <3>1. c \in Nat
      BY SMT DEF InstanceAssumption
    <3> QED
      BY <2>14, <3>1, Zenon DEF ConversationEnd, Refused
  <2>15. CASE Kill
    BY <2>15 DEF Kill
  <2>16. CASE Restart
    BY <2>16 DEF Restart
  <2> QED
    BY <2>1, <2>2, <2>3, <2>4, <2>5, <2>6, <2>7, <2>8, <2>9, <2>10, <2>11, <2>12,
       <2>13, <2>14, <2>15, <2>16 DEF Next, OfflineLoop
<1> QED
  BY <1>2, <1>3, <1>4

\* Only a process that dies gets into "down", and only a restart leaves it.
LEMMA DownIsEmptyKept ==
  ASSUME IInv, DownIsEmpty, [Next]_vars
  PROVE  DownIsEmpty'
<1>1. CASE UNCHANGED vars
  BY <1>1 DEF vars, DownIsEmpty
<1>2. CASE \E op : Die(op)
  BY <1>2 DEF Die, DownIsEmpty
<1>3. CASE phase' # "down"
  BY <1>3 DEF DownIsEmpty
<1>4. \/ UNCHANGED vars
      \/ \E op : Die(op)
      \/ phase' # "down"
  <2>1. CASE phase = "idle" /\ phase' = phase
    BY <2>1
  <2>2. ASSUME NEW id \in AgentId, NEW n, NEW v, AgentPresence(id, n, v)
        PROVE  phase = "idle" /\ phase' = phase
    BY <2>2 DEF AgentPresence, Refused
  <2>3. ASSUME NEW id, AgentAbsence(id) PROVE phase = "idle" /\ phase' = phase
    BY <2>3 DEF AgentAbsence, Refused
  <2>4. ASSUME NEW id, AgentAccept(id) PROVE phase = "idle" /\ phase' = phase
    BY <2>4, Zenon DEF AgentAccept, Refused
  <2>5. ASSUME NEW id, AgentRefuse(id) PROVE phase = "idle" /\ phase' = phase
    BY <2>5 DEF AgentRefuse
  <2>6. ASSUME NEW c, NEW from, NEW to, AgentRedirect(c, from, to)
        PROVE  (\E op : Die(op)) \/ phase' # "down"
    <3>1. phase = "idle"
      BY <2>6 DEF AgentRedirect
    <3>2. \/ Refused \/ Die("redirect") \/ Hang("redirect") \/ UNCHANGED phase
      BY <2>6, Zenon DEF AgentRedirect
    <3> QED
      BY <3>1, <3>2 DEF Refused, Hang
  <2>7. ASSUME NEW id, AgentOffline(id) PROVE phase' # "down"
    BY <2>7 DEF AgentOffline, Refused
  <2>8. CASE OfflineSkip
    BY <2>8 DEF OfflineSkip
  <2>9. CASE OfflineNext
    <3>1. phase = "offline"
      BY <2>9 DEF OfflineNext
    <3>2. Die("offline") \/ Hang("offline") \/ UNCHANGED phase
      BY <2>9, Zenon DEF OfflineNext
    <3> QED
      BY <3>1, <3>2 DEF Hang
  <2>10. CASE OfflineEnd
    BY <2>10 DEF OfflineEnd
  <2>11. ASSUME NEW u, UserJoin(u) PROVE phase = "idle" /\ phase' = phase
    BY <2>11 DEF UserJoin
  <2>12. ASSUME NEW u, UserDepart(u) PROVE phase = "idle" /\ phase' = phase
    BY <2>12 DEF UserDepart, Refused
  <2>13. ASSUME NEW u, NEW c, NEW s, UserScore(u, c, s)
         PROVE  phase = "idle" /\ phase' = phase
    BY <2>13 DEF UserScore
  <2>14. ASSUME NEW c, ConversationEnd(c) PROVE phase' # "down"
    BY <2>14, Zenon DEF ConversationEnd, Refused, Hang
  <2>15. CASE Kill
    BY <2>15 DEF Kill
  <2>16. CASE Restart
    BY <2>16 DEF Restart
  <2> QED
    BY <2>1, <2>2, <2>3, <2>4, <2>5, <2>6, <2>7, <2>8, <2>9, <2>10, <2>11, <2>12,
       <2>13, <2>14, <2>15, <2>16 DEF Next, OfflineLoop
<1> QED
  BY <1>1, <1>2, <1>3, <1>4

\* The largest id of the table exists: the table is finite.
LEMMA LastIdOK ==
  ASSUME RowsBounded, DOMAIN rows \subseteq Nat
  PROVE  LastId \in Nat /\ \A d \in DOMAIN rows : d <= LastId
<1> DEFINE D == DOMAIN rows \cup {0}
           U == {n \in Nat : \A d \in D : d <= n}
<1>1. U # {} /\ U \subseteq Nat
  BY DEF RowsBounded
<1>2. PICK n \in U : \A k \in U : n <= k
  <2> HIDE DEF U
  <2> QED
    BY <1>1, LeastNat
<1>3. n \in D
  <2> SUFFICES ASSUME n \notin D PROVE FALSE
    OBVIOUS
  <2>1. n # 0 /\ n \in Nat /\ D \subseteq Nat
    BY <1>2
  <2>2. \A d \in D : d <= n
    BY <1>2
  <2>3. \A d \in D : d <= n - 1
    <3> HIDE DEF D
    <3> QED
      BY <2>1, <2>2, SMT
  <2>4. n - 1 \in U
    <3>1. n - 1 \in Nat
      BY <2>1, SMT
    <3> HIDE DEF D
    <3> QED
      BY <2>3, <3>1
  <2> HIDE DEF U
  <2>5. n <= n - 1
    BY <1>2, <2>4
  <2> QED
    BY <2>1, <2>5, SMT
<1>4. \E k \in D : \A d \in DOMAIN rows : d <= k
  BY <1>2, <1>3
<1>5. LastId \in D /\ \A d \in DOMAIN rows : d <= LastId
  BY <1>4, Zenon DEF LastId
<1> QED
  BY <1>5, SMT

\* The process starts again.
LEMMA RestartOK ==
  ASSUME IInv, RowsBounded, DownIsEmpty, Restart
  PROVE  IInv'
<1>1. /\ phase = "down" /\ phase' = "idle" /\ Unanswered("restart")
      /\ UNCHANGED <<mgr, users, cvs, rows, job>>
  BY DEF Restart
<1>2. ManagerOK(mgr) /\ UsersOK /\ CvsOK /\ RowsOK /\ JobOK
  BY TypeParts DEF IInv
<1>3. seq' \in Nat
  <2>1. LastId \in Nat
    BY <1>2, LastIdOK DEF RowsOK
  <2> QED
    BY <2>1 DEF Restart
<1>4. OutOK'
  BY <1>1, ResultOK DEF Unanswered
<1>5. cvs' = <<>>
  BY <1>1 DEF DownIsEmpty
<1>6. UsersOK' /\ CvsOK' /\ RowsOK' /\ JobOK' /\ ManagerOK(mgr')
  BY <1>1, <1>2 DEF UsersOK, CvsOK, RowsOK, JobOK
<1>7. \A c \in DOMAIN cvs' : /\ cvs'[c].agent \in DOMAIN mgr'.agents
                             /\ c \in mgr'.agents[cvs'[c].agent].cvs
  BY <1>5, SMT
<1> QED
  BY <1>1, <1>3, <1>4, <1>6, <1>7, IdleOK

-----------------------------------------------------------------------------
(* Every step, and what follows for every behaviour.                       *)

Inv == IInv /\ RowsBounded /\ DownIsEmpty

\* Every step keeps the invariant.
LEMMA NextOK == ASSUME InstanceAssumption, Inv, [Next]_vars PROVE Inv'
<1> USE DEF Inv
<1>1. RowsBounded' /\ DownIsEmpty'
  BY RowsBoundedKept, DownIsEmptyKept
<1>2. IInv'
  <2>1. CASE UNCHANGED vars
    BY <2>1, Zenon DEF vars, IInv, TypeOK, OwnerHolds, Serving, OfflineAgentPresent
  <2>2. ASSUME NEW id \in AgentId, NEW n \in Capacities, NEW v \in BOOLEAN,
               AgentPresence(id, n, v)
        PROVE  IInv'
    BY <2>2, PresenceOK
  <2>3. ASSUME NEW id \in AgentId, AgentAbsence(id) PROVE IInv'
    BY <2>3, AbsenceOK
  <2>4. ASSUME NEW id \in AgentId, AgentAccept(id) PROVE IInv'
    BY <2>4, AcceptOK
  <2>5. ASSUME NEW id \in AgentId, AgentRefuse(id) PROVE IInv'
    BY <2>5, RefuseOK
  <2>6. ASSUME NEW c \in 1 .. MaxCvs, NEW from \in AgentId, NEW to \in AgentId,
               AgentRedirect(c, from, to)
        PROVE  IInv'
    <3>1. c \in Nat
      BY SMT DEF InstanceAssumption
    <3> QED
      BY <2>6, <3>1, RedirectOK
  <2>7. ASSUME NEW id \in AgentId, AgentOffline(id) PROVE IInv'
    BY <2>7, OfflineOK
  <2>8. CASE OfflineSkip
    BY <2>8, OfflineSkipOK
  <2>9. CASE OfflineNext
    BY <2>9, OfflineNextOK
  <2>10. CASE OfflineEnd
    BY <2>10, OfflineEndOK
  <2>11. ASSUME NEW u \in UserId, UserJoin(u) PROVE IInv'
    BY <2>11, JoinOK
  <2>12. ASSUME NEW u \in UserId, UserDepart(u) PROVE IInv'
    BY <2>12, DepartOK
  <2>13. ASSUME NEW u \in UserId, NEW c, NEW s \in Scores, UserScore(u, c, s)
         PROVE  IInv'
    BY <2>13, ScoreOK
  <2>14. ASSUME NEW c \in 1 .. MaxCvs, ConversationEnd(c) PROVE IInv'
    <3>1. c \in Nat
      BY SMT DEF InstanceAssumption
    <3> QED
      BY <2>14, <3>1, EndOK
  <2>15. CASE Kill
    BY <2>15, KillOK
  <2>16. CASE Restart
    BY <2>16, RestartOK
  <2> QED
    BY <2>1, <2>2, <2>3, <2>4, <2>5, <2>6, <2>7, <2>8, <2>9, <2>10, <2>11, <2>12,
       <2>13, <2>14, <2>15, <2>16 DEF Next, OfflineLoop
<1> QED
  BY <1>1, <1>2

\* The invariant holds in every reachable state.
LEMMA Inductive == Spec => []Inv
<1>1. Init => Inv
  <2>1. Init => IInv
    BY InitOK, InstanceAssumption
  <2>2. Init => RowsBounded /\ DownIsEmpty
    BY SMT DEF Init, RowsBounded, DownIsEmpty
  <2> QED
    BY <2>1, <2>2 DEF Inv
<1>2. Inv /\ [Next]_vars => Inv'
  BY NextOK, InstanceAssumption
<1> QED
  BY <1>1, <1>2, PTL DEF Spec

\* The state always has its shape, also between two iterations of agent_offline and
\* in a queue that hangs.
THEOREM TypeCorrect == Spec => []TypeOK
<1>1. Inv => TypeOK
  BY DEF Inv, IInv
<1> QED
  BY <1>1, Inductive, PTL

\* CONVERSATION::agent never dangles, so that the handlers may follow it unchecked,
\* as conversation_end and agent_offline do; the sets of the agents and m_cvsmgr,
\* changed by different handlers, never lose sight of one another.
THEOREM OwnersPresent == Spec => []OwnerHolds
<1>1. Inv => OwnerHolds
  BY DEF Inv, IInv
<1> QED
  BY <1>1, Inductive, PTL

\* The counter absence looks at before it deletes an agent is the size of the set
\* conversations point into, whatever was redirected from whom.
THEOREM LoadsCount == Spec => []LoadIsCount
<1>1. Inv => LoadIsCount
  BY DEF Inv, IInv, ManagerOK, LoadIsCount
<1> QED
  BY <1>1, Inductive, PTL

\* No agent is left in a state from which neither accept nor refuse gets it.
THEOREM InvitedAnswer == Spec => []InvitedCanAnswer
<1>1. Inv => InvitedCanAnswer
  BY DEF Inv, IInv, ManagerOK, InvitedCanAnswer
<1> QED
  BY <1>1, Inductive, PTL

-----------------------------------------------------------------------------
(* The list and the invitations.                                           *)

\* A manager whose list can be walked, in order, and whose invitations can be counted.
Tidy(m) == ManagerOK(m) /\ Ranked(m) /\ IsFiniteSet(m.inviting)

\* Nobody has signed on.
LEMMA TidyEmpty == Tidy(Empty)
<1>1. Empty.order = <<>> /\ Empty.inviting = {}
  BY SMT DEF Empty
<1>2. Ranked(Empty)
  BY <1>1, SMT DEF Ranked
<1> QED
  BY <1>1, <1>2, EmptyOK, FS_EmptySet DEF Tidy

\* Each operation leaves a tidy manager, order_to_head unless it hangs.  An agent
\* is put in.
LEMMA TidyInsert ==
  ASSUME NEW m, Tidy(m), NEW id \in Umid, id.uin \notin DOMAIN m.agents, NEW k \in Nat
  PROVE  Tidy(Insert(m, id, k))
<1>1. ManagerOK(Insert(m, id, k))
  BY InsertOK DEF Tidy
<1>2. Ranked(Insert(m, id, k))
  BY InsertRanks DEF Tidy
<1>3. Insert(m, id, k).inviting = m.inviting
  BY InsertAgents DEF Tidy
<1> QED
  BY <1>1, <1>2, <1>3 DEF Tidy

\* An agent is taken out of the list, or stays because it still serves somebody.
LEMMA TidyErase ==
  ASSUME NEW m, Tidy(m), NEW a \in DOMAIN m.agents
  PROVE  Tidy(Erase(m, a)) /\ Erase(m, a).inviting = m.inviting
<1>1. Erase(m, a).inviting = m.inviting
  <2>1. CASE m.agents[a].load > 0
    BY <2>1 DEF Erase
  <2>2. CASE ~(m.agents[a].load > 0)
    BY <2>2, EraseDoes DEF Tidy
  <2> QED
    BY <2>1, <2>2
<1> QED
  BY <1>1, EraseOK, EraseRanks DEF Tidy

\* An invitation is taken or refused: the states do not rank.
LEMMA TidyAnswered ==
  ASSUME NEW m, Tidy(m), NEW a \in DOMAIN m.agents, NEW state \in {"AVAILABLE", "REFUSE"}
  PROVE  Tidy(Answered(m, a, state)) /\ DOMAIN Answered(m, a, state).agents = DOMAIN m.agents
<1> DEFINE n == Answered(m, a, state)
<1>1. ManagerOK(n)
  BY AnsweredOK DEF Tidy
<1>2. SameButStates(m, n) /\ n.inviting = m.inviting \ {a}
  <2>1. state \in AgentState
    BY DEF AgentState
  <2> QED
    BY <2>1, AnsweredDoes DEF Tidy
<1>3. Ranked(n)
  BY <1>1, <1>2, StatesDoNotRank DEF Tidy
<1>4. IsFiniteSet(n.inviting)
  BY <1>2, FS_RemoveElement DEF Tidy
<1> QED
  BY <1>1, <1>2, <1>3, <1>4 DEF Tidy, SameButStates

\* A conversation is added, and the agent moved back behind those with less to do.
LEMMA TidyAdd ==
  ASSUME NEW m, Tidy(m), NEW a \in DOMAIN m.agents, NEW c \in Nat
  PROVE  Tidy(AddConversation(m, a, c))
<1>1. AddConversation(m, a, c).inviting = m.inviting
  <2>1. CASE c \in m.agents[a].cvs
    BY <2>1 DEF AddConversation
  <2>2. CASE c \notin m.agents[a].cvs
    BY <2>2, AddConversationDoes DEF Tidy
  <2> QED
    BY <2>1, <2>2
<1> QED
  BY <1>1, AddConversationOK, AddConversationRanks DEF Tidy

\* A conversation is removed, and the agent moved back behind those with less to do.
LEMMA TidyRemove ==
  ASSUME NEW m, Tidy(m), NEW a \in DOMAIN m.agents, NEW c \in Nat, ~Hangs(m, a, c)
  PROVE  /\ Tidy(RemoveConversation(m, a, c))
         /\ DOMAIN RemoveConversation(m, a, c).agents = DOMAIN m.agents
<1>1. RemoveConversation(m, a, c).inviting = m.inviting
  <2>1. CASE c \notin m.agents[a].cvs
    BY <2>1 DEF RemoveConversation
  <2>2. CASE c \in m.agents[a].cvs
    BY <2>2, RemoveConversationDoes DEF Tidy
  <2> QED
    BY <2>1, <2>2
<1> QED
  BY <1>1, RemoveConversationOK, RemoveConversationRanks DEF Tidy

\* do_invite changes states only.
LEMMA TidyInvite ==
  ASSUME NEW m, Tidy(m), NEW k \in Nat
  PROVE  Tidy(DoInvite(m, k))
<1>1. ManagerOK(DoInvite(m, k)) /\ IsFiniteSet(DoInvite(m, k).inviting)
  BY DoInviteOK, DoInviteSaturates DEF Tidy
<1>2. SameButStates(m, DoInvite(m, k))
  BY DoInviteDoes DEF Tidy
<1> QED
  BY <1>1, <1>2, StatesDoNotRank DEF Tidy

-----------------------------------------------------------------------------
\* Between two requests the manager is tidy, and a process that is down has none.
TidyWhileServing == Serving => Tidy(mgr)
DownIsFresh == phase = "down" => mgr = Empty /\ users = <<>>

\* The inductive invariant.
ListInv == Inv /\ TidyWhileServing /\ DownIsFresh

\* A handler that ends either has invited, or has left nobody to invite for, or has
\* neither added a user nor freed an agent; only conversation_end does otherwise.
Offers ==
  \/ \E m : Tidy(m) /\ mgr' = DoInvite(m, Len(users'))
  \/ users' = <<>>
  \/ /\ phase = "idle" /\ Len(users') <= Len(users)
     /\ mgr'.inviting = mgr.inviting /\ Invitable(mgr') \subseteq Invitable(mgr)
  \/ out'.op = "end"

\* What is shown of every action.
KeepsList == TidyWhileServing' /\ DownIsFresh' /\ (phase' = "idle" => Offers)

\* The facts about the state that the actions need.
LEMMA ListParts ==
  ASSUME ListInv
  PROVE  /\ ManagerOK(mgr) /\ users \in Seq(Umid) /\ Len(users) \in Nat
         /\ seq \in Nat /\ DOMAIN cvs \subseteq Nat /\ OwnerHolds
         /\ Serving => Tidy(mgr)
         /\ phase = "offline" => job.agent \in DOMAIN mgr.agents
<1>1. users \in Seq(Umid) /\ DOMAIN cvs \subseteq Nat /\ seq \in Nat
  BY TypeParts DEF ListInv, Inv, IInv, UsersOK, CvsOK
<1>2. Len(users) \in Nat
  BY <1>1, SMT
<1> QED
  BY <1>1, <1>2 DEF ListInv, Inv, IInv, TidyWhileServing, OfflineAgentPresent

\* A manager that has invited for the users there are.
LEMMA InvitesList ==
  ASSUME NEW m, Tidy(m), InvitesInto(m, users'), Len(users') \in Nat, phase' # "down"
  PROVE  KeepsList
<1>1. mgr' = DoInvite(m, Len(users'))
  BY DEF InvitesInto
<1>2. Tidy(mgr')
  BY <1>1, TidyInvite
<1>3. Offers
  BY <1>1 DEF Offers
<1> QED
  BY <1>2, <1>3 DEF KeepsList, TidyWhileServing, DownIsFresh

\* A request that is refused.
LEMMA RefusedList ==
  ASSUME ListInv, phase = "idle", Refused
  PROVE  KeepsList
<1>1. mgr' = mgr /\ users' = users /\ phase' = phase
  BY DEF Refused, memory
<1>2. Len(users') <= Len(users) /\ Invitable(mgr') \subseteq Invitable(mgr)
  BY <1>1, ListParts, SMT
<1>3. Offers
  BY <1>1, <1>2 DEF Offers
<1> QED
  BY <1>1, <1>3, ListParts DEF KeepsList, TidyWhileServing, DownIsFresh, Serving

\* A handler that hangs or dies.
LEMMA StopsList ==
  ASSUME NEW op, Hang(op) \/ Die(op)
  PROVE  KeepsList
BY DEF Hang, Die, KeepsList, TidyWhileServing, DownIsFresh, Serving

\* A handler that neither ends agent_offline nor touches anything but the manager's
\* conversations goes on with a tidy manager.
LEMMA LoopList ==
  ASSUME Tidy(mgr'), phase' = "offline"
  PROVE  KeepsList
BY DEF KeepsList, TidyWhileServing, DownIsFresh

\* An agent signs on, and is at once invited if somebody waits.
LEMMA PresenceList ==
  ASSUME ListInv, NEW id \in AgentId, NEW n \in Capacities, NEW v, AgentPresence(id, n, v)
  PROVE  KeepsList
<1>1. phase = "idle"
  BY DEF AgentPresence
<1>2. CASE Refused
  BY <1>1, <1>2, RefusedList
<1>3. CASE ~Refused
  <2>1. /\ id.uin \notin DOMAIN mgr.agents
        /\ InvitesInto(Insert(mgr, id, n), users)
        /\ users' = users /\ phase' = phase
    BY <1>3, Zenon DEF AgentPresence
  <2>2. id \in Umid /\ n \in Nat
    BY InstanceAssumption, SMT DEF InstanceAssumption, AgentId, Umid
  <2>3. Tidy(mgr) /\ Len(users') \in Nat
    BY <1>1, <2>1, ListParts DEF Serving
  <2>4. Tidy(Insert(mgr, id, n))
    BY <2>1, <2>2, <2>3, TidyInsert
  <2> QED
    BY <1>1, <2>1, <2>3, <2>4, InvitesList
<1> QED
  BY <1>2, <1>3

\* An agent leaves: there is one less to invite, and no invitation is taken back.
LEMMA AbsenceList ==
  ASSUME ListInv, NEW id, AgentAbsence(id)
  PROVE  KeepsList
<1>1. phase = "idle"
  BY DEF AgentAbsence
<1>2. CASE Refused
  BY <1>1, <1>2, RefusedList
<1>3. CASE ~Refused
  <2>1. /\ id.uin \in DOMAIN mgr.agents /\ mgr.agents[id.uin].load = 0
        /\ mgr' = Erase(mgr, id.uin) /\ users' = users /\ phase' = phase
    BY <1>3, Zenon DEF AgentAbsence, Found
  <2>2. Tidy(mgr)
    BY <1>1, ListParts DEF Serving
  <2>3. Tidy(mgr') /\ mgr'.inviting = mgr.inviting
    BY <2>1, <2>2, TidyErase
  <2>4. /\ DOMAIN mgr'.agents \subseteq DOMAIN mgr.agents
        /\ \A b \in DOMAIN mgr'.agents : mgr'.agents[b] = mgr.agents[b]
    <3>1. ~(mgr.agents[id.uin].load > 0)
      BY <2>1, SMT
    <3> QED
      BY <2>1, <2>2, <3>1, EraseDoes DEF Tidy
  <2>5. Invitable(mgr') \subseteq Invitable(mgr)
    BY <2>3, <2>4, Zenon DEF Invitable
  <2>6. Len(users') <= Len(users)
    BY <2>1, ListParts, SMT
  <2>7. Offers
    BY <1>1, <2>3, <2>5, <2>6 DEF Offers
  <2> QED
    BY <1>1, <2>1, <2>3, <2>7 DEF KeepsList, TidyWhileServing, DownIsFresh
<1> QED
  BY <1>2, <1>3

\* An accepted invitation: a user is served and the next agents are invited, or
\* nobody waits.
LEMMA AcceptList ==
  ASSUME ListInv, NEW id, AgentAccept(id)
  PROVE  KeepsList
<1> DEFINE a == id.uin
           m == Accept(mgr, a)
           c == seq + 1
<1>1. phase = "idle" /\ Tidy(mgr)
  BY ListParts DEF AgentAccept, Serving
<1>2. CASE Refused
  BY <1>1, <1>2, RefusedList
<1>3. CASE ~Refused
  <2>1. /\ a \in DOMAIN mgr.agents /\ phase' = phase
        /\ \/ users = <<>> /\ users' = users /\ mgr' = m
           \/ users # <<>> /\ users' = Tail(users)
              /\ InvitesInto(AddConversation(m, a, c), Tail(users))
    BY <1>3, Zenon DEF AgentAccept, Found
  <2>2. Tidy(m) /\ DOMAIN m.agents = DOMAIN mgr.agents
    BY <1>1, <2>1, TidyAnswered DEF Accept
  <2> HIDE DEF m
  <2>3. c \in Nat
    BY ListParts
  <2>4. CASE users = <<>> /\ users' = users /\ mgr' = m
    BY <1>1, <2>1, <2>2, <2>4 DEF KeepsList, Offers, TidyWhileServing, DownIsFresh
  <2>5. CASE users # <<>> /\ users' = Tail(users)
             /\ InvitesInto(AddConversation(m, a, c), Tail(users))
    <3>1. Len(users') \in Nat
      BY <2>5, ListParts, SMT
    <3>2. Tidy(AddConversation(m, a, c))
      BY <2>1, <2>2, <2>3, TidyAdd
    <3> QED
      BY <1>1, <2>1, <2>5, <3>1, <3>2, InvitesList
  <2> QED
    BY <2>1, <2>4, <2>5
<1> QED
  BY <1>2, <1>3

\* A refused invitation goes to the next agent.
LEMMA RefuseList ==
  ASSUME ListInv, NEW id, AgentRefuse(id)
  PROVE  KeepsList
<1>1. phase = "idle" /\ Tidy(mgr)
  BY ListParts DEF AgentRefuse, Serving
<1>2. PICK m : /\ m = mgr \/ (id.uin \in DOMAIN mgr.agents /\ m = Refuse(mgr, id.uin))
               /\ InvitesInto(m, users) /\ users' = users /\ phase' = phase
  BY Zenon DEF AgentRefuse, Found
<1>3. Tidy(m)
  BY <1>1, <1>2, TidyAnswered DEF Refuse
<1>4. Len(users') \in Nat
  BY <1>2, ListParts
<1> QED
  BY <1>1, <1>2, <1>3, <1>4, InvitesList

\* A conversation moves, and the agent that loses it may be invited.
LEMMA RedirectList ==
  ASSUME ListInv, NEW c \in Nat, NEW from, NEW to, AgentRedirect(c, from, to)
  PROVE  KeepsList
<1> DEFINE r == RemoveConversation(mgr, from.uin, c)
           m == AddConversation(r, to.uin, c)
<1>1. phase = "idle" /\ Tidy(mgr)
  BY ListParts DEF AgentRedirect, Serving
<1>2. CASE Refused
  BY <1>1, <1>2, RefusedList
<1>3. CASE Die("redirect") \/ Hang("redirect")
  BY <1>3, StopsList
<1>4. CASE /\ from.uin \in DOMAIN mgr.agents /\ to.uin \in DOMAIN mgr.agents
           /\ ~Hangs(mgr, from.uin, c)
           /\ InvitesInto(m, users) /\ users' = users /\ phase' = phase
  <2>1. Tidy(r) /\ to.uin \in DOMAIN r.agents
    BY <1>1, <1>4, TidyRemove
  <2> HIDE DEF r
  <2>2. Tidy(m)
    BY <2>1, TidyAdd
  <2>3. Len(users') \in Nat
    BY <1>4, ListParts
  <2> QED
    BY <1>1, <1>4, <2>2, <2>3, InvitesList
<1> QED
  BY <1>2, <1>3, <1>4, Zenon DEF AgentRedirect, Found, Redirected

\* agent_offline: the loop leaves a tidy manager, and its end invites for the users
\* it has put back.
LEMMA OfflineList ==
  ASSUME ListInv, (\E id : AgentOffline(id)) \/ OfflineLoop
  PROVE  KeepsList
<1>1. ASSUME NEW id, AgentOffline(id) PROVE KeepsList
  <2>1. phase = "idle" /\ Tidy(mgr)
    BY <1>1, ListParts DEF AgentOffline, Serving
  <2>2. CASE Refused
    BY <2>1, <2>2, RefusedList
  <2>3. CASE ~Refused
    <3>1. mgr' = mgr /\ phase' = "offline"
      BY <1>1, <2>3, Zenon DEF AgentOffline, memory
    <3> QED
      BY <2>1, <3>1, LoopList
  <2> QED
    BY <2>2, <2>3
<1>2. CASE OfflineSkip
  <2>1. mgr' = mgr /\ phase = "offline" /\ phase' = "offline"
    BY <1>2 DEF OfflineSkip, memory
  <2> QED
    BY <2>1, LoopList, ListParts DEF Serving
<1>3. CASE OfflineNext
  <2>1. phase = "offline" /\ Tidy(mgr)
    BY <1>3, ListParts DEF OfflineNext, Serving
  <2>2. PICK c \in DOMAIN cvs :
          \/ Die("offline")
          \/ Hang("offline")
          \/ /\ ~Hangs(mgr, cvs[c].agent, c)
             /\ mgr' = RemoveConversation(mgr, cvs[c].agent, c) /\ phase' = phase
    BY <1>3, Zenon DEF OfflineNext
  <2>3. CASE Die("offline") \/ Hang("offline")
    BY <2>3, StopsList
  <2>4. CASE /\ ~Hangs(mgr, cvs[c].agent, c)
             /\ mgr' = RemoveConversation(mgr, cvs[c].agent, c) /\ phase' = phase
    <3>1. c \in Nat /\ cvs[c].agent \in DOMAIN mgr.agents
      BY <2>1, ListParts DEF OwnerHolds, Serving
    <3>2. Tidy(mgr')
      BY <2>1, <2>4, <3>1, TidyRemove
    <3> QED
      BY <2>1, <2>4, <3>2, LoopList
  <2> QED
    BY <2>2, <2>3, <2>4
<1>4. CASE OfflineEnd
  <2>1. /\ phase = "offline" /\ InvitesInto(Erase(mgr, job.agent), users)
        /\ users' = users /\ phase' = "idle"
    BY <1>4 DEF OfflineEnd
  <2>2. Tidy(Erase(mgr, job.agent)) /\ Len(users') \in Nat
    BY <2>1, ListParts, TidyErase DEF Serving
  <2> QED
    BY <2>1, <2>2, InvitesList
<1> QED
  BY <1>1, <1>2, <1>3, <1>4 DEF OfflineLoop

\* A user joins and an agent is invited for it; one departs; one scores.
LEMMA UsersList ==
  ASSUME ListInv, NEW u \in UserId,
         UserJoin(u) \/ UserDepart(u) \/ (\E c, s : UserScore(u, c, s))
  PROVE  KeepsList
<1>1. phase = "idle" /\ Tidy(mgr) /\ users \in Seq(Umid) /\ Len(users) \in Nat
  BY ListParts DEF UserJoin, UserDepart, UserScore, Serving
<1>2. CASE UserJoin(u)
  <2>1. users' = Append(users, u) /\ InvitesInto(mgr, users') /\ phase' = phase
    BY <1>2 DEF UserJoin
  <2>2. u \in Umid
    BY InstanceAssumption, SMT DEF InstanceAssumption, UserId, Umid
  <2>3. Len(users') \in Nat
    BY <1>1, <2>1, <2>2, SMT
  <2> QED
    BY <1>1, <2>1, <2>3, InvitesList
<1>3. CASE Refused
  BY <1>1, <1>3, RefusedList
<1>4. CASE UserDepart(u) /\ ~Refused
  <2>1. PICK i \in DOMAIN users :
          /\ users' = SubSeq(users, 1, i - 1) \o SubSeq(users, i + 1, Len(users))
          /\ mgr' = mgr /\ phase' = phase
    BY <1>4, Zenon DEF UserDepart
  <2>2. Len(users') <= Len(users)
    BY <1>1, <2>1, SMT
  <2>3. Offers
    BY <1>1, <2>1, <2>2 DEF Offers
  <2> QED
    BY <1>1, <2>1, <2>3 DEF KeepsList, TidyWhileServing, DownIsFresh
<1>5. CASE \E c, s : UserScore(u, c, s)
  <2>1. mgr' = mgr /\ users' = users /\ phase' = phase
    BY <1>5 DEF UserScore, memory
  <2>2. Len(users') <= Len(users)
    BY <1>1, <2>1, SMT
  <2>3. Offers
    BY <1>1, <2>1, <2>2 DEF Offers
  <2> QED
    BY <1>1, <2>1, <2>3 DEF KeepsList, TidyWhileServing, DownIsFresh
<1> QED
  BY <1>2, <1>3, <1>4, <1>5

\* conversation_end leaves a tidy manager, and is the one that does not invite.
LEMMA EndList ==
  ASSUME ListInv, NEW c, ConversationEnd(c)
  PROVE  KeepsList
<1>1. phase = "idle" /\ Tidy(mgr)
  BY ListParts DEF ConversationEnd, Serving
<1>2. CASE Refused
  BY <1>1, <1>2, RefusedList
<1>3. CASE ~Refused
  <2>1. /\ c \in DOMAIN cvs
        /\ \/ Hang("end")
           \/ /\ ~Hangs(mgr, cvs[c].agent, c)
              /\ Says("end", {}, c, 400, {}, 0, {}) /\ phase' = phase
              /\ mgr' = RemoveConversation(mgr, cvs[c].agent, c)
    BY <1>3, Zenon DEF ConversationEnd
  <2>2. CASE Hang("end")
    BY <2>2, StopsList
  <2>3. CASE /\ ~Hangs(mgr, cvs[c].agent, c)
             /\ Says("end", {}, c, 400, {}, 0, {}) /\ phase' = phase
             /\ mgr' = RemoveConversation(mgr, cvs[c].agent, c)
    <3>1. c \in Nat /\ cvs[c].agent \in DOMAIN mgr.agents
      BY <1>1, <2>1, ListParts DEF OwnerHolds, Serving
    <3>2. Tidy(mgr')
      BY <1>1, <2>3, <3>1, TidyRemove
    <3>3. out'.op = "end"
      BY <2>3 DEF Says
    <3> QED
      BY <1>1, <2>3, <3>2, <3>3 DEF KeepsList, Offers, TidyWhileServing, DownIsFresh
  <2> QED
    BY <2>1, <2>2, <2>3
<1> QED
  BY <1>2, <1>3

\* Every step keeps the list tidy and offers what it can.
LEMMA NextList == ASSUME ListInv, [Next]_vars PROVE KeepsList
<1>1. CASE UNCHANGED vars
  <2>1. mgr' = mgr /\ users' = users /\ phase' = phase
    BY <1>1 DEF vars
  <2>2. Len(users') <= Len(users)
    BY <2>1, ListParts, SMT
  <2>3. phase' = "idle" => Offers
    BY <2>1, <2>2 DEF Offers
  <2> QED
    BY <2>1, <2>3 DEF KeepsList, ListInv, TidyWhileServing, DownIsFresh, Serving
<1>2. ASSUME NEW id \in AgentId, NEW n \in Capacities, NEW v \in BOOLEAN,
             AgentPresence(id, n, v)
      PROVE  KeepsList
  BY <1>2, PresenceList
<1>3. ASSUME NEW id, AgentAbsence(id) \/ AgentAccept(id) \/ AgentRefuse(id)
      PROVE  KeepsList
  BY <1>3, AbsenceList, AcceptList, RefuseList
<1>4. ASSUME NEW c \in 1 .. MaxCvs, NEW from, NEW to, AgentRedirect(c, from, to)
      PROVE  KeepsList
  <2>1. c \in Nat
    BY InstanceAssumption, SMT DEF InstanceAssumption
  <2> QED
    BY <1>4, <2>1, RedirectList
<1>5. CASE (\E id : AgentOffline(id)) \/ OfflineLoop
  BY <1>5, OfflineList
<1>6. ASSUME NEW u \in UserId,
             UserJoin(u) \/ UserDepart(u) \/ (\E c, s : UserScore(u, c, s))
      PROVE  KeepsList
  BY <1>6, UsersList
<1>7. ASSUME NEW c, ConversationEnd(c) PROVE KeepsList
  BY <1>7, EndList
<1>8. CASE Kill
  BY <1>8, StopsList DEF Kill
<1>9. CASE Restart
  <2>1. phase = "down" /\ phase' = "idle" /\ mgr' = mgr /\ users' = users
    BY <1>9 DEF Restart
  <2>2. mgr' = Empty /\ users' = <<>>
    BY <2>1 DEF ListInv, DownIsFresh
  <2> QED
    BY <2>1, <2>2, TidyEmpty DEF KeepsList, Offers, TidyWhileServing, DownIsFresh
<1> QED
  BY <1>1, <1>2, <1>3, <1>4, <1>5, <1>6, <1>7, <1>8, <1>9, Zenon DEF Next

\* The invariant holds in every reachable state.
LEMMA ListInductive == Spec => []ListInv
<1>1. Init => TidyWhileServing /\ DownIsFresh
  BY TidyEmpty DEF Init, TidyWhileServing, DownIsFresh
<1>2. ListInv /\ [Next]_vars => (TidyWhileServing /\ DownIsFresh)'
  BY NextList DEF KeepsList
<1> QED
  BY <1>1, <1>2, Inductive, PTL DEF Spec, ListInv

\* The list the invitations walk holds every agent once, the one with the least to
\* do first, whatever was accepted, redirected, ended, lost or restarted, although
\* order_to_head never moves anybody: it hangs where it would have to.
THEOREM ListOrdered == Spec => []ListInOrder
<1>1. ListInv => ListInOrder
  BY DEF ListInv, TidyWhileServing, Tidy, ManagerOK, ListInOrder
<1> QED
  BY <1>1, ListInductive, PTL

\* What do_invite looks at: it counts every uin in m_inviting_set, stale ones too, and
\* passes over them.
Saturated == Cardinality(mgr.inviting) >= Len(users) \/ Invitable(mgr) = {}

\* Where present agents are asked for everybody, or none is free, do_invite would find
\* nobody to invite.
LEMMA NothingToInvite ==
  ASSUME ManagerOK(mgr), IsFiniteSet(mgr.inviting), Len(users) \in Nat, NobodyOverlooked
  PROVE  Saturated
<1>1. Asked \subseteq mgr.inviting
  BY DEF ManagerOK, InvitationsRecorded, Asked
<1>2. /\ Cardinality(Asked) <= Cardinality(mgr.inviting)
      /\ Cardinality(Asked) \in Nat /\ Cardinality(mgr.inviting) \in Nat
  BY <1>1, FS_Subset, FS_CardinalityType
<1>3. Invitable(mgr) \subseteq Free
  BY DEF Invitable, Free
<1>4. Cardinality(Asked) >= Len(users) => Cardinality(mgr.inviting) >= Len(users)
  BY <1>2, SMT
<1> QED
  BY <1>3, <1>4 DEF NobodyOverlooked, Saturated

\* Every handler that adds a user, frees an agent or uses up an invitation leaves present
\* agents invited for everybody who waits, or no free agent, as long as no invitation is
\* stale; only conversation_end, whose invitations are commented out, may leave a user
\* waiting beside a free agent then.
THEOREM InvitesWhenever == Spec => OnlyEndLeavesIdle
<1>1. ListInv /\ ListInv' /\ [Next]_vars
      => [ /\ NobodyOverlooked \/ phase = "offline"
           /\ phase' = "idle" /\ out'.op # "end" /\ Stale' = {}
           => NobodyOverlooked' ]_vars
  <2> SUFFICES ASSUME ListInv, ListInv', [Next]_vars, NobodyOverlooked \/ phase = "offline",
                      phase' = "idle", out'.op # "end", Stale' = {}
               PROVE  NobodyOverlooked'
    OBVIOUS
  <2>1. Offers
    BY NextList DEF KeepsList
  <2>2. Tidy(mgr') /\ Len(users') \in Nat
    <3>1. Serving' /\ TidyWhileServing' /\ TypeOK'
      BY DEF ListInv, Inv, IInv, Serving
    <3>2. users' \in Seq(Umid)
      BY <3>1 DEF TypeOK
    <3>3. Len(users') \in Nat
      BY <3>2, SMT
    <3> QED
      BY <3>1, <3>3 DEF TidyWhileServing
  <2>3. Cardinality(mgr'.inviting) \in Nat
    BY <2>2, FS_CardinalityType DEF Tidy
  <2>4. Saturated'
    <3>1. CASE \E m : Tidy(m) /\ mgr' = DoInvite(m, Len(users'))
      BY <2>2, <3>1, DoInviteSaturates DEF Tidy, Saturated
    <3>2. CASE users' = <<>>
      BY <2>3, <3>2, SMT DEF Saturated
    <3>3. CASE /\ phase = "idle" /\ Len(users') <= Len(users)
               /\ mgr'.inviting = mgr.inviting /\ Invitable(mgr') \subseteq Invitable(mgr)
      <4>1. Len(users) \in Nat /\ Tidy(mgr)
        BY <3>3, ListParts DEF Serving
      <4>2. Saturated
        BY <3>3, <4>1, NothingToInvite DEF Tidy
      <4>3. CASE Invitable(mgr) = {}
        BY <3>3, <4>3 DEF Saturated
      <4>4. CASE Cardinality(mgr.inviting) >= Len(users)
        BY <2>2, <2>3, <3>3, <4>1, <4>4, SMT DEF Saturated
      <4> QED
        BY <4>2, <4>3, <4>4 DEF Saturated
    <3> QED
      BY <2>1, <3>1, <3>2, <3>3 DEF Offers
  <2>5. (NobodyOverlooked <=> Saturated)'
    <3>1. ManagerOK(mgr') /\ IsFiniteSet(mgr'.inviting)
      BY <2>2 DEF Tidy
    <3>2. Asked' \subseteq mgr'.inviting
      BY <3>1 DEF ManagerOK, InvitationsRecorded, Asked
    <3>3. Asked' = mgr'.inviting
      BY <3>2 DEF Stale
    <3>4. Free' = Invitable(mgr')
      BY <3>3 DEF Free, Invitable, Asked
    <3> QED
      BY <3>3, <3>4 DEF Saturated, NobodyOverlooked
  <2> QED
    BY <2>4, <2>5
<1> QED
  BY <1>1, ListInductive, PTL DEF Spec, OnlyEndLeavesIdle

-----------------------------------------------------------------------------
(* Without redirects.  A redirect names the agent it takes a conversation  *)
(* from, and nothing compares that with the agent that has it; where none  *)
(* arrives, an agent's set holds just the conversations it serves.         *)

\* The ids an agent holds are those of live conversations of its own.
Fits(m, C) ==
  \A a \in DOMAIN m.agents : \A c \in m.agents[a].cvs : c \in DOMAIN C /\ C[c].agent = a

\* The next id is no live one, so that an accept gives an agent a new conversation.
OwnConversations == Serving => Fits(mgr, cvs) /\ DOMAIN cvs \subseteq 1 .. seq

\* agent_offline has passed no conversation that is still its agent's.
NonePassed == phase = "offline" => \A c \in mgr.agents[job.agent].cvs : c > job.last

\* The inductive invariant, on top of ListInv.
OwnInv == ListInv /\ OwnConversations /\ NonePassed

\* What is shown of every action.
KeepsOwn == OwnConversations' /\ NonePassed'

-----------------------------------------------------------------------------
\* Operations that change states and invitations only.
LEMMA FitsStates ==
  ASSUME NEW m, NEW n, SameButStates(m, n), NEW C, Fits(m, C)
  PROVE  Fits(n, C)
BY DEF SameButStates, Fits

\* do_invite.
LEMMA OwnInvite ==
  ASSUME NEW m, ManagerOK(m), NEW k
  PROVE  /\ \A C : Fits(m, C) => Fits(DoInvite(m, k), C)
         /\ DOMAIN DoInvite(m, k).agents = DOMAIN m.agents
<1>1. SameButStates(m, DoInvite(m, k))
  BY DoInviteDoes
<1> QED
  BY <1>1, FitsStates, Zenon DEF SameButStates

\* accept and refuse, up to the end of the invitation.
LEMMA OwnAnswered ==
  ASSUME NEW m, ManagerOK(m), NEW a \in DOMAIN m.agents, NEW state \in {"AVAILABLE", "REFUSE"}
  PROVE  \A C : Fits(m, C) => Fits(Answered(m, a, state), C)
<1>1. state \in AgentState
  BY DEF AgentState
<1>2. SameButStates(m, Answered(m, a, state))
  BY <1>1, AnsweredDoes
<1> QED
  BY <1>2, FitsStates, Zenon

\* A new agent holds nothing.
LEMMA OwnInsert ==
  ASSUME NEW m, ManagerOK(m), NEW id \in Umid, id.uin \notin DOMAIN m.agents, NEW k \in Nat
  PROVE  \A C : Fits(m, C) => Fits(Insert(m, id, k), C)
<1> DEFINE n == Insert(m, id, k)
           u == id.uin
<1>1. /\ DOMAIN n.agents = DOMAIN m.agents \cup {u}
      /\ n.agents[u].cvs = {}
      /\ \A b \in DOMAIN m.agents : n.agents[b] = m.agents[b]
  BY InsertAgents
<1> HIDE DEF n, u
<1>2. \A C : Fits(m, C) => Fits(n, C)
  BY <1>1 DEF Fits
<1> QED
  BY <1>2 DEF n

\* An agent without conversations goes, one with conversations stays.
LEMMA OwnErase ==
  ASSUME NEW m, ManagerOK(m), NEW a \in DOMAIN m.agents
  PROVE  /\ \A C : Fits(m, C) => Fits(Erase(m, a), C)
         /\ m.agents[a].cvs = {} => a \notin DOMAIN Erase(m, a).agents
<1>1. CASE m.agents[a].load > 0
  <2>1. Erase(m, a) = m
    BY <1>1 DEF Erase
  <2>2. m.agents[a].cvs # {}
    <3>1. m.agents[a].load = Cardinality(m.agents[a].cvs)
      BY DEF ManagerOK, LoadCounts
    <3>2. m.agents[a].load # 0
      BY <1>1, SMT
    <3> QED
      BY <3>1, <3>2, FS_EmptySet
  <2> QED
    BY <2>1, <2>2
<1>2. CASE ~(m.agents[a].load > 0)
  <2> DEFINE n == Erase(m, a)
  <2>1. /\ DOMAIN n.agents = DOMAIN m.agents \ {a}
        /\ \A b \in DOMAIN n.agents : n.agents[b] = m.agents[b]
        /\ n.inviting = m.inviting
    BY <1>2, EraseDoes
  <2> HIDE DEF n
  <2> QED
    BY <2>1 DEF n, Fits
<1> QED
  BY <1>1, <1>2

\* A conversation that is not live yet is given to an agent.
LEMMA OwnAdd ==
  ASSUME NEW m, ManagerOK(m), NEW a \in DOMAIN m.agents, NEW c \in Nat,
         NEW C, Fits(m, C), c \notin DOMAIN C
  PROVE  \A D : /\ DOMAIN D = DOMAIN C \cup {c} /\ D[c].agent = a
                /\ \A d \in DOMAIN C : D[d] = C[d]
               => Fits(AddConversation(m, a, c), D)
<1> SUFFICES ASSUME NEW D, DOMAIN D = DOMAIN C \cup {c}, D[c].agent = a,
                    \A d \in DOMAIN C : D[d] = C[d]
             PROVE  Fits(AddConversation(m, a, c), D)
  OBVIOUS
<1> DEFINE n == AddConversation(m, a, c)
<1>1. c \notin m.agents[a].cvs
  BY DEF Fits
<1>2. /\ DOMAIN n.agents = DOMAIN m.agents
      /\ n.agents[a].cvs = m.agents[a].cvs \cup {c}
      /\ n.agents[a].load = m.agents[a].load + 1
      /\ n.agents[a].capacity = m.agents[a].capacity
      /\ \A b \in DOMAIN m.agents \ {a} : n.agents[b] = m.agents[b]
      /\ n.inviting = m.inviting
  BY <1>1, AddConversationDoes
<1> HIDE DEF n
<1>3. Fits(n, D)
  <2> SUFFICES ASSUME NEW b \in DOMAIN m.agents, NEW d \in n.agents[b].cvs
               PROVE  d \in DOMAIN D /\ D[d].agent = b
    BY <1>2 DEF Fits
  <2>1. CASE d \in m.agents[b].cvs
    BY <2>1 DEF Fits
  <2>2. CASE b = a /\ d = c
    BY <2>2
  <2> QED
    BY <1>2, <2>1, <2>2
<1> QED
  BY <1>3 DEF n

\* A conversation is taken from an agent.
LEMMA OwnRemove ==
  ASSUME NEW m, ManagerOK(m), NEW a \in DOMAIN m.agents, NEW c
  PROVE  LET n == RemoveConversation(m, a, c)
         IN  /\ DOMAIN n.agents = DOMAIN m.agents
             /\ n.agents[a].cvs = m.agents[a].cvs \ {c}
             /\ n.agents[a].capacity = m.agents[a].capacity
             /\ \A b \in DOMAIN m.agents \ {a} : n.agents[b] = m.agents[b]
             /\ n.inviting = m.inviting
<1>1. CASE c \notin m.agents[a].cvs
  BY <1>1 DEF RemoveConversation
<1>2. CASE c \in m.agents[a].cvs
  BY <1>2, RemoveConversationDoes
<1> QED
  BY <1>1, <1>2

-----------------------------------------------------------------------------
\* The facts about the state that the actions need.
LEMMA OwnParts ==
  ASSUME OwnInv
  PROVE  /\ ListInv /\ ManagerOK(mgr) /\ seq \in Nat
         /\ DOMAIN cvs \subseteq Nat /\ cvs \in [DOMAIN cvs -> Conversation]
         /\ Serving => Fits(mgr, cvs) /\ DOMAIN cvs \subseteq 1 .. seq
         /\ Serving => \A c \in DOMAIN cvs : cvs[c].agent \in DOMAIN mgr.agents
         /\ phase = "offline" => job.agent \in DOMAIN mgr.agents
<1>1. DOMAIN cvs \subseteq Nat /\ cvs \in [DOMAIN cvs -> Conversation]
  BY TypeParts DEF OwnInv, ListInv, Inv, IInv, CvsOK
<1>2. ManagerOK(mgr) /\ seq \in Nat /\ OwnerHolds
      /\ (phase = "offline" => job.agent \in DOMAIN mgr.agents)
  BY ListParts DEF OwnInv, ListInv, Inv, IInv, OfflineAgentPresent
<1> QED
  BY <1>1, <1>2 DEF OwnInv, OwnConversations, OwnerHolds

\* Nothing changes that an agent or a conversation depends on.
LEMMA RestsOwn ==
  ASSUME OwnInv, mgr' = mgr, cvs' = cvs, seq' = seq, phase' = phase, job' = job
  PROVE  KeepsOwn
BY DEF OwnInv, KeepsOwn, OwnConversations, NonePassed, Serving

\* A handler returns that has invited.
LEMMA InvitesOwn ==
  ASSUME NEW m, ManagerOK(m), NEW u, InvitesInto(m, u), phase' = "idle",
         Fits(m, cvs'), DOMAIN cvs' \subseteq 1 .. seq'
  PROVE  KeepsOwn
<1>1. Fits(mgr', cvs')
  BY OwnInvite DEF InvitesInto
<1> QED
  BY <1>1 DEF KeepsOwn, OwnConversations, NonePassed

\* A handler hangs or dies.
LEMMA StopsOwn ==
  ASSUME NEW op, Die(op) \/ Hang(op)
  PROVE  KeepsOwn
<1>1. phase' \notin {"idle", "offline"}
  BY DEF Die, Hang
<1> QED
  BY <1>1 DEF KeepsOwn, OwnConversations, NonePassed, Serving

\* An agent signs on, with nothing to do.
LEMMA PresenceOwn ==
  ASSUME OwnInv, NEW id \in AgentId, NEW n \in Capacities, NEW v, AgentPresence(id, n, v)
  PROVE  KeepsOwn
<1>1. CASE Refused
  BY <1>1, RestsOwn DEF Refused, memory
<1>2. CASE ~Refused
  <2> DEFINE m == Insert(mgr, id, n)
  <2>1. /\ phase = "idle" /\ id.uin \notin DOMAIN mgr.agents /\ InvitesInto(m, users)
        /\ cvs' = cvs /\ seq' = seq /\ phase' = phase
    BY <1>2, Zenon DEF AgentPresence
  <2>2. id \in Umid /\ n \in Nat
    BY InstanceAssumption, SMT DEF InstanceAssumption, AgentId, Umid
  <2>3. ManagerOK(m)
    BY <2>1, <2>2, OwnParts, InsertOK
  <2>4. Fits(m, cvs)
    BY <2>1, <2>2, OwnParts, OwnInsert DEF Serving
  <2>5. DOMAIN cvs' \subseteq 1 .. seq'
    BY <2>1, OwnParts DEF Serving
  <2> HIDE DEF m
  <2> QED
    BY <2>1, <2>3, <2>4, <2>5, InvitesOwn
<1> QED
  BY <1>1, <1>2

\* An agent without conversations leaves.
LEMMA AbsenceOwn ==
  ASSUME OwnInv, NEW id, AgentAbsence(id)
  PROVE  KeepsOwn
<1>1. CASE Refused
  BY <1>1, RestsOwn DEF Refused, memory
<1>2. CASE ~Refused
  <2>1. /\ phase = "idle" /\ id.uin \in DOMAIN mgr.agents /\ mgr' = Erase(mgr, id.uin)
        /\ cvs' = cvs /\ seq' = seq /\ phase' = phase
    BY <1>2, Zenon DEF AgentAbsence, Found
  <2>2. Fits(mgr', cvs')
    BY <2>1, OwnParts, OwnErase DEF Serving
  <2>3. DOMAIN cvs' \subseteq 1 .. seq'
    BY <2>1, OwnParts DEF Serving
  <2> QED
    BY <2>1, <2>2, <2>3 DEF KeepsOwn, OwnConversations, NonePassed
<1> QED
  BY <1>1, <1>2

\* The conversation an accept opens is new.
LEMMA AcceptOwn ==
  ASSUME OwnInv, NEW id, AgentAccept(id)
  PROVE  KeepsOwn
<1> DEFINE a == id.uin
           m == Accept(mgr, a)
           r == [agent |-> a, user |-> Head(users), score |-> NoScore]
<1>1. CASE Refused
  BY <1>1, RestsOwn DEF Refused, memory
<1>2. CASE ~Refused
  <2>1. PICK c : c = seq + 1
    OBVIOUS
  <2>2. /\ phase = "idle" /\ phase' = phase /\ a \in DOMAIN mgr.agents
        /\ \/ mgr' = m /\ cvs' = cvs /\ seq' = seq
           \/ /\ seq' = c
              /\ cvs' = [d \in DOMAIN cvs \cup {c} |-> IF d = c THEN r ELSE cvs[d]]
              /\ InvitesInto(AddConversation(m, a, c), Tail(users))
    BY <1>2, <2>1, Zenon DEF AgentAccept, Found
  <2>3. Fits(mgr, cvs) /\ DOMAIN cvs \subseteq 1 .. seq /\ seq \in Nat
    BY <2>2, OwnParts DEF Serving
  <2>4. /\ ManagerOK(m) /\ DOMAIN m.agents = DOMAIN mgr.agents /\ Fits(m, cvs)
    BY <2>2, <2>3, OwnParts, OwnAnswered, AnsweredOK DEF Accept, Keeps
  <2> HIDE DEF m
  <2>6. CASE mgr' = m /\ cvs' = cvs /\ seq' = seq
    BY <2>2, <2>3, <2>4, <2>6 DEF KeepsOwn, OwnConversations, NonePassed
  <2>7. CASE /\ seq' = c
             /\ cvs' = [d \in DOMAIN cvs \cup {c} |-> IF d = c THEN r ELSE cvs[d]]
             /\ InvitesInto(AddConversation(m, a, c), Tail(users))
    <3>1. c \in Nat /\ c \notin DOMAIN cvs /\ DOMAIN cvs \cup {c} \subseteq 1 .. c
      BY <2>1, <2>3, SMT
    <3>2. r.agent = a
      OBVIOUS
    <3> HIDE DEF r, a
    <3>3. /\ DOMAIN cvs' = DOMAIN cvs \cup {c} /\ cvs'[c].agent = a
          /\ \A d \in DOMAIN cvs : cvs'[d] = cvs[d]
      BY <2>7, <3>1, <3>2
    <3>4. Fits(AddConversation(m, a, c), cvs')
      <4>1. a \in DOMAIN m.agents
        BY <2>2, <2>4
      <4>2. \A D : /\ DOMAIN D = DOMAIN cvs \cup {c} /\ D[c].agent = a
                    /\ \A d \in DOMAIN cvs : D[d] = cvs[d]
                   => Fits(AddConversation(m, a, c), D)
        BY <2>4, <3>1, <4>1, OwnAdd
      <4> QED
        BY <3>3, <4>2
    <3>5. ManagerOK(AddConversation(m, a, c))
      BY <2>2, <2>4, <3>1, AddConversationOK
    <3> QED
      BY <2>2, <2>7, <3>1, <3>3, <3>4, <3>5, InvitesOwn
  <2> QED
    BY <2>2, <2>6, <2>7
<1> QED
  BY <1>1, <1>2

\* An agent refuses, and the next is invited.
LEMMA RefuseOwn ==
  ASSUME OwnInv, NEW id, AgentRefuse(id)
  PROVE  KeepsOwn
<1>1. PICK m : /\ m = mgr \/ (id.uin \in DOMAIN mgr.agents /\ m = Refuse(mgr, id.uin))
               /\ InvitesInto(m, users) /\ phase = "idle"
               /\ cvs' = cvs /\ seq' = seq /\ phase' = phase
  BY Zenon DEF AgentRefuse, Found
<1>2. ManagerOK(mgr) /\ Fits(mgr, cvs) /\ DOMAIN cvs \subseteq 1 .. seq
  BY <1>1, OwnParts DEF Serving
<1>3. ManagerOK(m) /\ Fits(m, cvs)
  BY <1>1, <1>2, OwnAnswered, AnsweredOK DEF Refuse
<1> QED
  BY <1>1, <1>2, <1>3, InvitesOwn

\* A live conversation is taken from its owner, which has it and no other agent.
LEMMA ClosedOwn ==
  ASSUME OwnInv, Serving, NEW c \in DOMAIN cvs
  PROVE  LET m == RemoveConversation(mgr, cvs[c].agent, c)
         IN  /\ Fits(m, Closed(c)) /\ DOMAIN Closed(c) \subseteq 1 .. seq
             /\ m.agents[cvs[c].agent].cvs = mgr.agents[cvs[c].agent].cvs \ {c}
<1>1. /\ ManagerOK(mgr) /\ Fits(mgr, cvs) /\ DOMAIN cvs \subseteq 1 .. seq
      /\ c \in Nat /\ cvs[c].agent \in DOMAIN mgr.agents
  BY OwnParts
<1>2. /\ DOMAIN Closed(c) = DOMAIN cvs \ {c}
      /\ \A d \in DOMAIN Closed(c) : Closed(c)[d] = cvs[d]
  BY DEF Closed
<1>3. PICK m : m = RemoveConversation(mgr, cvs[c].agent, c)
  OBVIOUS
<1>4. /\ DOMAIN m.agents = DOMAIN mgr.agents
      /\ m.agents[cvs[c].agent].cvs = mgr.agents[cvs[c].agent].cvs \ {c}
      /\ \A b \in DOMAIN mgr.agents \ {cvs[c].agent} : m.agents[b] = mgr.agents[b]
  BY <1>1, <1>3, OwnRemove
<1>5. ASSUME NEW b \in DOMAIN m.agents, NEW d \in m.agents[b].cvs
      PROVE  d \in DOMAIN Closed(c) /\ Closed(c)[d].agent = b
  <2>1. d \in mgr.agents[b].cvs /\ (b = cvs[c].agent => d # c)
    BY <1>4, <1>5
  <2>2. d \in DOMAIN cvs /\ cvs[d].agent = b
    BY <1>1, <1>4, <2>1 DEF Fits
  <2>3. d # c
    BY <2>1, <2>2
  <2> QED
    BY <1>2, <2>2, <2>3
<1>6. Fits(m, Closed(c))
  BY <1>5 DEF Fits
<1>7. DOMAIN Closed(c) \subseteq 1 .. seq
  BY <1>1, <1>2
<1> QED
  BY <1>3, <1>4, <1>6, <1>7

\* agent_offline: the ids its iterator meets are all of live conversations of the
\* agent, so that each iteration takes one id off and moves past it.
LEMMA OfflineOwn ==
  ASSUME OwnInv, (\E id : AgentOffline(id)) \/ OfflineLoop
  PROVE  KeepsOwn
<1>1. ASSUME NEW id, AgentOffline(id) PROVE KeepsOwn
  <2>1. CASE Refused
    BY <2>1, RestsOwn DEF Refused, memory
  <2>2. CASE ~Refused
    <3>1. /\ phase = "idle" /\ phase' = "offline" /\ id.uin \in DOMAIN mgr.agents
          /\ job' = [agent |-> id.uin, last |-> 0, ended |-> {}]
          /\ mgr' = mgr /\ cvs' = cvs /\ seq' = seq
      BY <1>1, <2>2, Zenon DEF AgentOffline, Found, memory
    <3>2. Fits(mgr, cvs) /\ DOMAIN cvs \subseteq 1 .. seq /\ seq \in Nat
      BY <3>1, OwnParts DEF Serving
    <3>3. \A c \in mgr.agents[id.uin].cvs : c \in 1 .. seq
      BY <3>1, <3>2 DEF Fits
    <3>4. \A c \in mgr.agents[id.uin].cvs : c > 0
      BY <3>2, <3>3, SMT
    <3>5. job'.agent = id.uin /\ job'.last = 0
      BY <3>1
    <3> QED
      BY <3>1, <3>2, <3>4, <3>5
         DEF OwnInv, KeepsOwn, OwnConversations, NonePassed
  <2> QED
    BY <2>1, <2>2
<1>2. CASE OfflineSkip
  <2>1. phase = "offline" /\ \E c \in mgr.agents[job.agent].cvs : c \notin DOMAIN cvs
    BY <1>2, Zenon DEF OfflineSkip, Rest
  <2> QED
    BY <2>1, OwnParts DEF Serving, Fits
<1>3. CASE OfflineNext
  <2>1. PICK c \in Rest \cap DOMAIN cvs :
          /\ phase = "offline" /\ \A d \in Rest : c <= d
          /\ \/ Die("offline")
             \/ /\ mgr' = RemoveConversation(mgr, cvs[c].agent, c)
                /\ Hang("offline")
             \/ /\ mgr' = RemoveConversation(mgr, cvs[c].agent, c)
                /\ cvs' = Closed(c) /\ seq' = seq /\ phase' = phase
                /\ job'.agent = job.agent /\ job'.last = c
    <3>1. JobOK /\ IInv /\ phase = "offline"
      BY <1>3, TypeParts DEF OwnInv, ListInv, Inv, IInv, OfflineNext
    <3>2. PICK c \in Rest \cap DOMAIN cvs :
            /\ \A d \in Rest : c <= d
            /\ \/ Die("offline")
               \/ /\ mgr' = RemoveConversation(mgr, cvs[c].agent, c)
                  /\ Hang("offline")
               \/ \E passed \in Nat :
                    /\ Returns(c, passed)
                    /\ \/ passed = c
                       \/ \E d \in mgr.agents[job.agent].cvs : d < c
      BY <1>3, <3>1, Rounds, Zenon
    <3>3. ~ \E d \in mgr.agents[job.agent].cvs : d < c
      <4> SUFFICES ASSUME NEW d \in mgr.agents[job.agent].cvs, d < c PROVE FALSE
        OBVIOUS
      <4>1. d \in Rest
        BY <3>1 DEF OwnInv, NonePassed, Rest
      <4>2. c <= d /\ c \in Nat /\ d \in Nat
        <5>1. mgr.agents[job.agent].cvs \in SUBSET Nat
          BY <3>1, OwnParts, ManagerParts
        <5> QED
          BY <3>2, <4>1, <5>1, OwnParts
      <4> QED
        BY <4>2, SMT
    <3>4. ASSUME Returns(c, c)
          PROVE  /\ mgr' = RemoveConversation(mgr, cvs[c].agent, c)
                 /\ cvs' = Closed(c) /\ seq' = seq /\ phase' = phase
                 /\ job'.agent = job.agent /\ job'.last = c
      <4>1. \A S : LET j == [job EXCEPT !.last = c, !.ended = S]
                   IN  j.agent = job.agent /\ j.last = c
        BY <3>1, SMT DEF JobOK
      <4> QED
        BY <3>4, <4>1 DEF Returns
    <3> QED
      BY <3>1, <3>2, <3>3, <3>4
  <2>2. c \in mgr.agents[job.agent].cvs /\ c > job.last /\ Serving
    BY <2>1 DEF Rest, Serving
  <2>3. cvs[c].agent = job.agent
    BY <2>1, <2>2, OwnParts DEF Fits
  <2>4. LET m == RemoveConversation(mgr, cvs[c].agent, c)
        IN  /\ Fits(m, Closed(c)) /\ DOMAIN Closed(c) \subseteq 1 .. seq
            /\ m.agents[job.agent].cvs = mgr.agents[job.agent].cvs \ {c}
    BY <2>2, <2>3, ClosedOwn
  <2>5. CASE Die("offline")
    BY <2>5, StopsOwn
  <2>6. CASE mgr' = RemoveConversation(mgr, cvs[c].agent, c) /\ Hang("offline")
    BY <2>6, StopsOwn
  <2>7. CASE /\ mgr' = RemoveConversation(mgr, cvs[c].agent, c)
             /\ cvs' = Closed(c) /\ seq' = seq /\ phase' = phase
             /\ job'.agent = job.agent /\ job'.last = c
    <3>1. Fits(mgr', cvs') /\ DOMAIN cvs' \subseteq 1 .. seq'
      BY <2>4, <2>7
    <3>2. ASSUME NEW d \in mgr'.agents[job'.agent].cvs PROVE d > job'.last
      <4>1. d \in mgr.agents[job.agent].cvs /\ d # c
        BY <2>4, <2>7
      <4>2. d \in Rest
        BY <2>1, <4>1 DEF OwnInv, NonePassed, Rest
      <4>3. c <= d /\ c \in Nat /\ d \in Nat
        <5>1. mgr.agents[job.agent].cvs \in SUBSET Nat
          BY <2>1, OwnParts, ManagerParts
        <5> QED
          BY <2>1, <2>2, <4>1, <4>2, <5>1
      <4>4. d > c
        BY <4>1, <4>3, SMT
      <4> QED
        BY <2>7, <4>4
    <3> QED
      BY <3>1, <3>2 DEF KeepsOwn, OwnConversations, NonePassed
  <2> QED
    BY <2>1, <2>5, <2>6, <2>7
<1>4. CASE OfflineEnd
  <2> DEFINE m == Erase(mgr, job.agent)
  <2>1. /\ phase = "offline" /\ phase' = "idle" /\ InvitesInto(m, users)
        /\ cvs' = cvs /\ seq' = seq
    BY <1>4 DEF OfflineEnd
  <2>2. job.agent \in DOMAIN mgr.agents /\ DOMAIN cvs' \subseteq 1 .. seq'
    BY <2>1, OwnParts DEF Serving
  <2>3. ManagerOK(m) /\ Fits(m, cvs')
    BY <2>1, <2>2, OwnParts, OwnErase, EraseOK DEF Serving
  <2> HIDE DEF m
  <2> QED
    BY <2>1, <2>2, <2>3, InvitesOwn
<1> QED
  BY <1>1, <1>2, <1>3, <1>4 DEF OfflineLoop

\* A user joins, departs or scores; no agent gets or loses a conversation.
LEMMA UsersOwn ==
  ASSUME OwnInv, NEW u, UserJoin(u) \/ UserDepart(u) \/ (\E c, s : UserScore(u, c, s))
  PROVE  KeepsOwn
<1>1. CASE Refused
  BY <1>1, RestsOwn DEF Refused, memory
<1>2. CASE UserJoin(u)
  <2>1. /\ phase = "idle" /\ phase' = "idle" /\ InvitesInto(mgr, users')
        /\ cvs' = cvs /\ seq' = seq
    BY <1>2 DEF UserJoin
  <2> QED
    BY <2>1, OwnParts, InvitesOwn DEF Serving
<1>3. CASE UserDepart(u) /\ ~Refused
  BY <1>3, RestsOwn, Zenon DEF UserDepart
<1>4. CASE \E c, s : UserScore(u, c, s)
  <2>1. PICK c, s : UserScore(u, c, s)
    BY <1>4
  <2>2. phase = "idle" /\ UNCHANGED <<mgr, seq, phase, job>>
    BY <2>1 DEF UserScore, memory
  <2>3. CASE c \in DOMAIN cvs /\ cvs' = [cvs EXCEPT ![c].score = s]
    <3>1. DOMAIN cvs' = DOMAIN cvs /\ \A d \in DOMAIN cvs : cvs'[d].agent = cvs[d].agent
      BY <2>3, OwnParts, SMT DEF Conversation
    <3>2. Fits(mgr, cvs) /\ DOMAIN cvs \subseteq 1 .. seq
      BY <2>2, OwnParts DEF Serving
    <3>3. Fits(mgr, cvs')
      BY <3>1, <3>2 DEF Fits
    <3> QED
      BY <2>2, <3>1, <3>2, <3>3
         DEF OwnInv, KeepsOwn, OwnConversations, NonePassed
  <2>4. CASE cvs' = cvs
    BY <2>2, <2>4, RestsOwn
  <2> QED
    BY <2>1, <2>3, <2>4 DEF UserScore, memory
<1> QED
  BY <1>1, <1>2, <1>3, <1>4

\* A conversation ends.
LEMMA EndOwn ==
  ASSUME OwnInv, NEW c, ConversationEnd(c)
  PROVE  KeepsOwn
<1>1. CASE Refused
  BY <1>1, RestsOwn DEF Refused, memory
<1>2. CASE ~Refused
  <2>1. /\ phase = "idle" /\ c \in DOMAIN cvs /\ seq' = seq
        /\ mgr' = RemoveConversation(mgr, cvs[c].agent, c)
        /\ Hang("end") \/ (cvs' = Closed(c) /\ phase' = phase)
    BY <1>2, Zenon DEF ConversationEnd
  <2>2. Fits(mgr', Closed(c)) /\ DOMAIN Closed(c) \subseteq 1 .. seq'
    BY <2>1, ClosedOwn DEF Serving
  <2>3. CASE Hang("end")
    BY <2>3, StopsOwn
  <2>4. CASE cvs' = Closed(c) /\ phase' = phase
    BY <2>1, <2>2, <2>4 DEF KeepsOwn, OwnConversations, NonePassed
  <2> QED
    BY <2>1, <2>3, <2>4
<1> QED
  BY <1>1, <1>2

\* Every step but a redirect keeps the invariant.
LEMMA NextOwn ==
  ASSUME "redirect" \notin Requests, OwnInv, [Next]_vars
  PROVE  KeepsOwn
<1>1. CASE UNCHANGED vars
  BY <1>1, RestsOwn DEF vars
<1>2. ASSUME NEW id \in AgentId, NEW n \in Capacities, NEW v, AgentPresence(id, n, v)
      PROVE  KeepsOwn
  BY <1>2, PresenceOwn
<1>3. ASSUME NEW id, AgentAbsence(id) \/ AgentAccept(id) \/ AgentRefuse(id)
      PROVE  KeepsOwn
  BY <1>3, AbsenceOwn, AcceptOwn, RefuseOwn
<1>4. CASE (\E id : AgentOffline(id)) \/ OfflineLoop
  BY <1>4, OfflineOwn
<1>5. ASSUME NEW u, UserJoin(u) \/ UserDepart(u) \/ (\E c, s : UserScore(u, c, s))
      PROVE  KeepsOwn
  BY <1>5, UsersOwn
<1>6. ASSUME NEW c, ConversationEnd(c) PROVE KeepsOwn
  BY <1>6, EndOwn
<1>7. CASE Kill
  BY <1>7, StopsOwn DEF Kill
<1>8. CASE Restart
  <2>1. phase = "down" /\ phase' = "idle" /\ mgr' = Empty /\ cvs' = <<>>
    BY <1>8 DEF Restart, OwnInv, ListInv, Inv, DownIsFresh, DownIsEmpty
  <2>2. DOMAIN mgr'.agents = {} /\ DOMAIN cvs' = {}
    BY <2>1, SMT DEF Empty
  <2> QED
    BY <2>1, <2>2
       DEF KeepsOwn, OwnConversations, NonePassed, Fits
<1> QED
  BY <1>1, <1>2, <1>3, <1>4, <1>5, <1>6, <1>7, <1>8, Zenon DEF Next

\* Where no conversation is redirected, the invariant holds in every reachable state.
LEMMA OwnInductive == ASSUME "redirect" \notin Requests PROVE Spec => []OwnInv
<1>1. Init => OwnConversations /\ NonePassed
  <2> SUFFICES ASSUME Init PROVE OwnConversations /\ NonePassed
    OBVIOUS
  <2>1. DOMAIN mgr.agents = {} /\ DOMAIN cvs = {} /\ phase = "idle"
    BY SMT DEF Init, Empty
  <2> QED
    BY <2>1 DEF OwnConversations, NonePassed, Fits
<1>2. OwnInv /\ [Next]_vars => (OwnConversations /\ NonePassed)'
  BY NextOwn DEF KeepsOwn
<1> QED
  BY <1>1, <1>2, ListInductive, PTL DEF Spec, OwnInv

\* Where no conversation is redirected, the load by which the agents are ordered and
\* refused more is the number of conversations they are in: accept, conversation_end
\* and agent_offline change the agent's set and m_cvsmgr alike.
THEOREM LoadsServed == "redirect" \notin Requests => (Spec => []LoadIsServed)
<1> SUFFICES ASSUME "redirect" \notin Requests PROVE Spec => []LoadIsServed
  OBVIOUS
<1>1. OwnInv => LoadIsServed
  <2> SUFFICES ASSUME OwnInv, Serving, NEW a \in DOMAIN mgr.agents
               PROVE  mgr.agents[a].load = Cardinality({c \in DOMAIN cvs : cvs[c].agent = a})
    BY DEF LoadIsServed
  <2>1. mgr.agents[a].load = Cardinality(mgr.agents[a].cvs)
    BY OwnParts DEF ManagerOK, LoadCounts
  <2>2. mgr.agents[a].cvs = {c \in DOMAIN cvs : cvs[c].agent = a}
    BY DEF OwnInv, OwnConversations, ListInv, Inv, IInv, OwnerHolds, Fits
  <2> QED
    BY <2>1, <2>2
<1> QED
  BY <1>1, OwnInductive, PTL

\* Where no conversation is redirected, the loop of agent_offline, which erases the
\* element its iterator stands on, misses none: at its end the agent's load is 0, and
\* erase takes it out.
THEOREM LostAgentGone == "redirect" \notin Requests => (Spec => OfflineFrees)
<1> SUFFICES ASSUME "redirect" \notin Requests PROVE Spec => OfflineFrees
  OBVIOUS
<1>1. ASSUME OwnInv, [Next]_vars, phase = "offline", phase' = "idle"
      PROVE  job.agent \notin DOMAIN mgr'.agents
  <2>1. OfflineEnd
    <3>1. \A op : ~Die(op) /\ ~Hang(op)
      BY <1>1 DEF Die, Hang
    <3>2. ~Kill /\ ~Restart /\ ~UNCHANGED vars
      BY <1>1, <3>1 DEF Kill, Restart, vars
    <3>3. ~OfflineSkip /\ ~OfflineNext
      BY <1>1, <3>1, Zenon DEF OfflineSkip, OfflineNext
    <3>4. /\ \A id, n, v : ~AgentPresence(id, n, v)
          /\ \A id : ~AgentAbsence(id) /\ ~AgentAccept(id) /\ ~AgentRefuse(id)
                    /\ ~AgentOffline(id)
          /\ \A c, from, to : ~AgentRedirect(c, from, to)
          /\ \A u : ~UserJoin(u) /\ ~UserDepart(u)
          /\ \A u, c, s : ~UserScore(u, c, s)
          /\ \A c : ~ConversationEnd(c)
      BY <1>1 DEF AgentPresence, AgentAbsence, AgentAccept, AgentRefuse, AgentOffline,
                  AgentRedirect, UserJoin, UserDepart, UserScore, ConversationEnd
    <3> QED
      BY <1>1, <3>2, <3>3, <3>4, Zenon DEF Next, OfflineLoop
  <2>2. mgr.agents[job.agent].cvs = {}
    BY <1>1, <2>1 DEF OwnInv, NonePassed, OfflineEnd, Rest
  <2>3. mgr' = DoInvite(Erase(mgr, job.agent), Len(users))
    BY <2>1 DEF OfflineEnd, InvitesInto
  <2>4. job.agent \in DOMAIN mgr.agents /\ ManagerOK(mgr)
    BY <1>1, OwnParts
  <2>5. ManagerOK(Erase(mgr, job.agent)) /\ job.agent \notin DOMAIN Erase(mgr, job.agent).agents
    BY <2>2, <2>4, OwnErase, EraseOK
  <2> QED
    BY <2>3, <2>5, OwnInvite
<1>2. OwnInv /\ [Next]_vars
      => [phase = "offline" /\ phase' = "idle" => job.agent \notin DOMAIN mgr'.agents]_vars
  BY <1>1
<1> QED
  BY <1>2, OwnInductive, PTL DEF Spec, OfflineFrees

-----------------------------------------------------------------------------
(* The queue and the service desk.  While MySQL is always reachable, every  *)
(* live conversation is on record and a queue does what the service desk    *)
(* promises.  The agents play no part in either, so each action is first    *)
(* sorted by what it does to users, conversations and table; the invariant  *)
(* and the refinement are then shown for the few sorts of step there are.   *)

\* A statement that is sent to the database is executed.
Reachable == DbAnswers = {TRUE}

\* The counter is not behind the table, so that its next id is new.
NextIdIsNew == Serving => \A c \in DOMAIN rows : c <= seq

\* Whoever was waiting or served is gone when the process is.
DownIsDeserted == phase = "down" => users = <<>> /\ cvs = <<>>

\* The request the desk sees.
Question == [kind |-> out.op, who |-> out.who, number |-> out.number, code |-> out.code]
Asks(op, who, number, code) ==
  Question' = [kind |-> op, who |-> who, number |-> number, code |-> code]

\* While the loop of agent_offline runs, it is the one request there is.
LoopIsAsked ==
  phase = "offline" =>
    Question = [kind |-> "offline", who |-> {}, number |-> 0, code |-> 0]

\* The inductive invariant, on top of Inv.
DeskInv == Inv /\ LiveOnRecord /\ NextIdIsNew /\ DownIsDeserted /\ LoopIsAsked

-----------------------------------------------------------------------------
(* The sorts of step.                                                      *)

\* Each live conversation goes on with the user it has.
SameGuests ==
  /\ DOMAIN cvs' = DOMAIN cvs
  /\ \A c \in DOMAIN cvs : cvs'[c].user = cvs[c].user

GoesOn == Serving /\ Serving' /\ seq' = seq

\* A row is written for a conversation that is live.
SavesLive ==
  \E c \in DOMAIN cvs, r \in Conversation :
    r.user = cvs[c].user /\ rows' = Saved(c, r)

\* A request the desk need not know, or none.
Quiet ==
  \/ out' = out
  \/ \E op, code : /\ Asks(op, {}, 0, code)
                   /\ op \notin {"join", "depart", "end", "kill"}
                   /\ op = "accept" => code = 400

\* Agents come and go, scores are given, conversations change hands.
Unseen ==
  /\ GoesOn /\ SameGuests /\ Quiet
  /\ users' = users
  /\ rows' = rows \/ SavesLive

InLine ==
  /\ GoesOn /\ cvs' = cvs /\ rows' = rows
  /\ \/ \E u \in UserId : users' = Append(users, u) /\ Asks("join", {u}, 0, 200)
     \/ \E i \in DOMAIN users :
          /\ Asks("depart", {users[i]}, 0, 200)
          /\ \A j \in 1 .. i - 1 : users[j] # users[i]
          /\ users' = SubSeq(users, 1, i - 1) \o SubSeq(users, i + 1, Len(users))

Accepted ==
  /\ Serving /\ Serving' /\ users # <<>>
  /\ Asks("accept", {}, 0, 200)
  /\ seq' = seq + 1
  /\ users' = Tail(users)
  /\ \E r \in Conversation :
       /\ r.user = Head(users)
       /\ cvs' = [d \in DOMAIN cvs \cup {seq + 1} |-> IF d = seq + 1 THEN r ELSE cvs[d]]
       /\ rows' = Saved(seq + 1, r)

Over ==
  /\ GoesOn
  /\ \E c \in DOMAIN cvs :
       /\ cvs' = Closed(c) /\ rows' = Saved(c, cvs[c])
       /\ \/ users' = users /\ Asks("end", {}, c, 400)
          \/ users' = <<cvs[c].user>> \o users /\ phase = "offline" /\ out' = out

Stops ==
  /\ phase # "down"
  /\ \E op \in {"kill", "redirect", "offline", "end"} :
       Asks(op, {}, 0, 0) /\ (~Serving => op = "kill")
  /\ \/ Serving /\ phase' = "hung"
     \/ \E op : Die(op)
  /\ \/ rows' = rows
     \/ Serving /\ SavesLive

Sorted == Unseen \/ InLine \/ Accepted \/ Over \/ Stops \/ Restart \/ UNCHANGED vars

-----------------------------------------------------------------------------
\* The parts of Inv the steps rest on.
LEMMA InvParts ==
  ASSUME Inv
  PROVE  /\ users \in Seq(Umid) /\ CvsOK /\ seq \in Nat
         /\ DOMAIN rows \subseteq Nat /\ rows \in [DOMAIN rows -> Row] /\ RowsBounded
         /\ \A c \in DOMAIN cvs : cvs[c] \in Conversation /\ c \in Nat
BY TypeParts, SMT DEF Inv, IInv, UsersOK, CvsOK, RowsOK

\* Save writes, if the database is reachable.
LEMMA SaveWrites ==
  ASSUME Reachable, NEW c, NEW r, Save(c, r)
  PROVE  rows' = Saved(c, r)
BY DEF Reachable, Save

\* What a handler says is what the desk is asked.
LEMMA SaysAsks ==
  ASSUME NEW op, NEW who, NEW number, NEW code, NEW invites, NEW from, NEW ended,
         Says(op, who, number, code, invites, from, ended)
  PROVE  Asks(op, who, number, code)
BY SMT DEF Says, Asks, Question

\* Most results are of no concern to the desk.
LEMMA QuietResult ==
  ASSUME NEW op, NEW code, NEW invites, NEW from, NEW ended,
         Result(op, code, invites, from, ended),
         op \notin {"join", "depart", "end", "kill"}, op = "accept" => code = 400
  PROVE  Quiet
BY SaysAsks DEF Result, Quiet

\* A request that is refused shows nothing.
LEMMA RefusedUnseen ==
  ASSUME phase = "idle", Refused
  PROVE  Unseen
<1>1. Quiet
  BY QuietResult DEF Refused, Fails
<1> QED
  BY <1>1 DEF Refused, memory, Unseen, GoesOn, Serving, SameGuests

\* presence, absence, refuse: only the agents change.
LEMMA AgentsUnseen ==
  ASSUME NEW id,
         \/ \E n, v : AgentPresence(id, n, v)
         \/ AgentAbsence(id) \/ AgentRefuse(id) \/ AgentOffline(id)
  PROVE  Unseen
<1>1. phase = "idle"
  BY DEF AgentPresence, AgentAbsence, AgentRefuse, AgentOffline
<1>2. CASE Refused
  BY <1>1, <1>2, RefusedUnseen
<1>3. CASE ~Refused
  <2>1. UNCHANGED <<users, cvs, seq, rows>> /\ phase' \in {"idle", "offline"}
    BY <1>1, <1>3, Zenon DEF AgentPresence, AgentAbsence, AgentRefuse, AgentOffline, memory
  <2>2. \/ \E i : Result("presence", 200, i, 0, {})
        \/ Result("absence", 200, {}, 0, {})
        \/ \E code, i : Result("refuse", code, i, 0, {})
        \/ Result("offline", 0, {}, 0, {})
    BY <1>3, Zenon DEF AgentPresence, AgentAbsence, AgentRefuse, AgentOffline, Unanswered
  <2>3. Quiet
    <3>1. ASSUME NEW i, Result("presence", 200, i, 0, {}) PROVE Quiet
      BY <3>1, QuietResult
    <3>2. ASSUME NEW code, NEW i, Result("refuse", code, i, 0, {}) PROVE Quiet
      BY <3>2, QuietResult
    <3>3. ASSUME Result("absence", 200, {}, 0, {}) PROVE Quiet
      BY <3>3, QuietResult
    <3>4. ASSUME Result("offline", 0, {}, 0, {}) PROVE Quiet
      BY <3>4, QuietResult
    <3> QED
      BY <2>2, <3>1, <3>2, <3>3, <3>4
  <2> QED
    BY <1>1, <2>1, <2>3 DEF Unseen, GoesOn, Serving, SameGuests
<1> QED
  BY <1>2, <1>3

\* accept: refused, an invitation for nothing, or a conversation.
LEMMA AcceptSorted ==
  ASSUME Reachable, Inv, NEW id \in AgentId, AgentAccept(id)
  PROVE  Unseen \/ Accepted
<1> DEFINE r == [agent |-> id.uin, user |-> Head(users), score |-> NoScore]
<1>1. phase = "idle"
  BY DEF AgentAccept
<1>2. CASE Refused
  BY <1>1, <1>2, RefusedUnseen
<1>3. CASE Fails("accept") /\ UNCHANGED <<users, cvs, seq, rows, phase, job>>
  <2>1. Quiet
    BY <1>3, QuietResult DEF Fails
  <2> QED
    BY <1>1, <1>3, <2>1 DEF Unseen, GoesOn, Serving, SameGuests
<1>4. CASE /\ users # <<>> /\ seq' = seq + 1 /\ users' = Tail(users)
           /\ cvs' = [d \in DOMAIN cvs \cup {seq + 1} |-> IF d = seq + 1 THEN r ELSE cvs[d]]
           /\ Save(seq + 1, r) /\ UNCHANGED <<phase, job>>
           /\ \E i, from : Result("accept", 200, i, from, {})
  <2>1. r \in Conversation
    <3>1. Head(users) \in Umid
      BY <1>4, InvParts, SMT
    <3>2. id.uin \in Uin
      BY InstanceAssumption, SMT DEF AgentId, InstanceAssumption
    <3> QED
      BY <3>1, <3>2, SMT DEF Conversation
  <2>2. r.user = Head(users)
    BY SMT
  <2>3. rows' = Saved(seq + 1, r)
    BY <1>4, SaveWrites
  <2>4. Asks("accept", {}, 0, 200)
    BY <1>4, SaysAsks DEF Result
  <2> HIDE DEF r
  <2> QED
    BY <1>1, <1>4, <2>1, <2>2, <2>3, <2>4 DEF Accepted, Serving
<1> QED
  BY <1>2, <1>3, <1>4, Zenon DEF AgentAccept

\* A handler that hangs or dies asks nothing more.
LEMMA StopsAsk ==
  ASSUME NEW op, Die(op) \/ Hang(op)
  PROVE  Asks(op, {}, 0, 0)
BY SaysAsks DEF Die, Hang, Unanswered, Result

\* redirect: refused, a crash, a hang, or another agent for the same user.
LEMMA RedirectSorted ==
  ASSUME Reachable, Inv, NEW c, NEW from, NEW to \in AgentId, AgentRedirect(c, from, to)
  PROVE  Unseen \/ Stops
<1> DEFINE r == [cvs[c] EXCEPT !.agent = to.uin]
<1>1. phase = "idle"
  BY DEF AgentRedirect
<1>2. CASE Refused
  BY <1>1, <1>2, RefusedUnseen
<1>3. CASE (Die("redirect") \/ Hang("redirect")) /\ rows' = rows
  <2>1. Asks("redirect", {}, 0, 0)
    BY <1>3, StopsAsk
  <2> QED
    BY <1>1, <1>3, <2>1 DEF Stops, Serving, Hang
<1>4. CASE /\ c \in DOMAIN cvs /\ cvs' = [cvs EXCEPT ![c] = r] /\ Save(c, r)
           /\ \E i : Result("redirect", 200, i, 0, {})
           /\ UNCHANGED <<users, seq, phase, job>>
  <2>1. cvs[c] \in Conversation
    BY <1>4, InvParts
  <2>2. to.uin \in Uin
    BY InstanceAssumption, SMT DEF AgentId, InstanceAssumption
  <2>3. r \in Conversation /\ r.user = cvs[c].user
    BY <2>1, <2>2, SMT DEF Conversation
  <2> HIDE DEF r
  <2>4. SavesLive
    BY <1>4, <2>3, SaveWrites DEF SavesLive
  <2>5. SameGuests
    BY <1>4, <2>3, SMT DEF SameGuests
  <2>6. Quiet
    BY <1>4, QuietResult
  <2> QED
    BY <1>1, <1>4, <2>4, <2>5, <2>6 DEF Unseen, GoesOn, Serving
<1> QED
  BY <1>2, <1>3, <1>4, Zenon DEF AgentRedirect

\* The loop of agent_offline: an iteration that skips, one that ends a conversation,
\* hangs or crashes, and the way out.
LEMMA LoopSorted ==
  ASSUME Reachable, Inv, OfflineLoop
  PROVE  Unseen \/ Over \/ Stops
<1>1. CASE OfflineSkip
  BY <1>1 DEF OfflineSkip, memory, Unseen, GoesOn, Serving, SameGuests, Quiet
<1>2. CASE OfflineEnd
  <2>1. \E i, e : Result("offline", 200, i, 0, e)
    BY <1>2, Zenon DEF OfflineEnd
  <2>2. Quiet
    BY <2>1, QuietResult
  <2> QED
    BY <1>2, <2>2 DEF OfflineEnd, Unseen, GoesOn, Serving, SameGuests
<1>3. CASE OfflineNext
  <2>1. phase = "offline"
    BY <1>3 DEF OfflineNext
  <2>2. PICK c \in DOMAIN cvs :
          /\ Save(c, cvs[c])
          /\ \/ Die("offline")
             \/ Hang("offline")
             \/ /\ users' = <<cvs[c].user>> \o users /\ cvs' = Closed(c)
                /\ UNCHANGED <<seq, phase, out>>
    BY <1>3, Zenon DEF OfflineNext
  <2>3. rows' = Saved(c, cvs[c]) /\ cvs[c] \in Conversation
    BY <2>2, SaveWrites, InvParts
  <2>4. SavesLive
    BY <2>3 DEF SavesLive
  <2>5. CASE Die("offline") \/ Hang("offline")
    <3>1. Asks("offline", {}, 0, 0)
      BY <2>5, StopsAsk
    <3> QED
      BY <2>1, <2>4, <2>5, <3>1 DEF Stops, Serving, Hang
  <2>6. CASE /\ users' = <<cvs[c].user>> \o users /\ cvs' = Closed(c)
             /\ UNCHANGED <<seq, phase, out>>
    BY <2>1, <2>3, <2>6 DEF Over, GoesOn, Serving
  <2> QED
    BY <2>2, <2>5, <2>6
<1> QED
  BY <1>1, <1>2, <1>3 DEF OfflineLoop

\* join and depart: the line; depart may be refused.
LEMMA LineSorted ==
  ASSUME NEW u \in UserId, UserJoin(u) \/ UserDepart(u)
  PROVE  Unseen \/ InLine
<1>1. phase = "idle"
  BY DEF UserJoin, UserDepart
<1>2. CASE Refused
  BY <1>1, <1>2, RefusedUnseen
<1>3. CASE UserJoin(u)
  <2>1. Asks("join", {u}, 0, 200)
    BY <1>3, SaysAsks DEF UserJoin
  <2> QED
    BY <1>3, <2>1 DEF UserJoin, InLine, GoesOn, Serving
<1>4. CASE UserDepart(u) /\ ~Refused
  <2>1. PICK i \in DOMAIN users :
          /\ users[i] = u /\ \A j \in 1 .. i - 1 : users[j] # u
          /\ users' = SubSeq(users, 1, i - 1) \o SubSeq(users, i + 1, Len(users))
          /\ \E from : Says("depart", {u}, 0, 200, {}, from, {})
          /\ UNCHANGED <<mgr, cvs, seq, rows, phase, job>>
    BY <1>4, Zenon DEF UserDepart
  <2>2. Asks("depart", {users[i]}, 0, 200)
    BY <2>1, SaysAsks
  <2> QED
    BY <1>1, <2>1, <2>2 DEF InLine, GoesOn, Serving
<1> QED
  BY <1>2, <1>3, <1>4

\* score: a field the desk does not know.
LEMMA ScoreSorted ==
  ASSUME Inv, NEW u, NEW c, NEW score, UserScore(u, c, score)
  PROVE  Unseen
<1>1. phase = "idle" /\ UNCHANGED <<users, seq, rows, phase>>
  BY DEF UserScore, memory
<1>2. cvs' = cvs \/ (c \in DOMAIN cvs /\ cvs' = [cvs EXCEPT ![c].score = score])
  BY DEF UserScore, memory
<1>3. \A d \in DOMAIN cvs : cvs[d] \in Conversation
  BY InvParts
<1>4. SameGuests
  BY <1>2, <1>3, SMT DEF SameGuests, Conversation
<1>5. Quiet
  <2>1. Result("score", 200, {}, 0, {}) \/ Result("score", 400, {}, 0, {})
    BY DEF UserScore
  <2> QED
    BY <2>1, QuietResult
<1> QED
  BY <1>1, <1>4, <1>5 DEF Unseen, GoesOn, Serving

\* end: refused, over, or a hang after the row has been written.
LEMMA EndSorted ==
  ASSUME Reachable, Inv, NEW c, ConversationEnd(c)
  PROVE  Unseen \/ Over \/ Stops
<1>1. phase = "idle"
  BY DEF ConversationEnd
<1>2. CASE Refused
  BY <1>1, <1>2, RefusedUnseen
<1>3. CASE ~Refused
  <2>1. /\ c \in DOMAIN cvs /\ Save(c, cvs[c])
        /\ \/ Hang("end")
           \/ cvs' = Closed(c) /\ Says("end", {}, c, 400, {}, 0, {}) /\ UNCHANGED phase
        /\ UNCHANGED <<users, seq>>
    BY <1>3, Zenon DEF ConversationEnd
  <2>2. rows' = Saved(c, cvs[c]) /\ cvs[c] \in Conversation
    BY <2>1, SaveWrites, InvParts
  <2>3. CASE Hang("end")
    <3>1. SavesLive
      BY <2>1, <2>2 DEF SavesLive
    <3>2. Asks("end", {}, 0, 0)
      BY <2>3, StopsAsk
    <3> QED
      BY <1>1, <2>3, <3>1, <3>2 DEF Stops, Serving, Hang
  <2>4. CASE cvs' = Closed(c) /\ Says("end", {}, c, 400, {}, 0, {}) /\ UNCHANGED phase
    <3>1. Asks("end", {}, c, 400)
      BY <2>4, SaysAsks
    <3> QED
      BY <1>1, <2>1, <2>2, <2>4, <3>1 DEF Over, GoesOn, Serving
  <2> QED
    BY <2>1, <2>3, <2>4
<1> QED
  BY <1>2, <1>3

\* Every step is of one of the sorts.
LEMMA NextSorted == ASSUME Reachable, Inv, [Next]_vars PROVE Sorted
<1> USE DEF Sorted
<1>1. CASE UNCHANGED vars
  BY <1>1
<1>2. ASSUME NEW id \in AgentId,
             \/ \E n \in Capacities, v \in BOOLEAN : AgentPresence(id, n, v)
             \/ AgentAbsence(id) \/ AgentRefuse(id) \/ AgentOffline(id)
      PROVE  Sorted
  BY <1>2, AgentsUnseen
<1>3. ASSUME NEW id \in AgentId, AgentAccept(id) PROVE Sorted
  BY <1>3, AcceptSorted
<1>4. ASSUME NEW c, NEW from, NEW to \in AgentId, AgentRedirect(c, from, to) PROVE Sorted
  BY <1>4, RedirectSorted
<1>5. CASE OfflineLoop
  BY <1>5, LoopSorted
<1>6. ASSUME NEW u \in UserId, UserJoin(u) \/ UserDepart(u) PROVE Sorted
  BY <1>6, LineSorted
<1>7. ASSUME NEW u, NEW c, NEW s, UserScore(u, c, s) PROVE Sorted
  BY <1>7, ScoreSorted
<1>8. ASSUME NEW c, ConversationEnd(c) PROVE Sorted
  BY <1>8, EndSorted
<1>9. CASE Kill
  <2>1. phase # "down" /\ Die("kill") /\ rows' = rows
    BY <1>9 DEF Kill
  <2>2. Asks("kill", {}, 0, 0)
    BY <2>1, StopsAsk
  <2> QED
    BY <2>1, <2>2 DEF Stops
<1>10. CASE Restart
  BY <1>10
<1> HIDE DEF Sorted
<1> QED
  BY <1>1, <1>2, <1>3, <1>4, <1>5, <1>6, <1>7, <1>8, <1>9, <1>10, Zenon DEF Next

-----------------------------------------------------------------------------
(* Every sort of step keeps the invariant.                                 *)

\* Saving a conversation that is on record adds no row and changes no user.
LEMMA SavedAgain ==
  ASSUME Inv, Serving, LiveOnRecord, SavesLive
  PROVE  /\ DOMAIN rows' = DOMAIN rows
         /\ \A d \in DOMAIN rows : rows'[d].user = rows[d].user
<1>1. PICK c \in DOMAIN cvs, r \in Conversation : rows' = Saved(c, r)
  BY DEF SavesLive
<1>2. c \in DOMAIN rows
  BY DEF LiveOnRecord
<1>3. rows' = [rows EXCEPT ![c].agent = Mangled]
  BY <1>1, <1>2 DEF Saved
<1> QED
  BY <1>2, <1>3, InvParts, SMT DEF Row

\* Saving a new conversation adds its row.
LEMMA SavedFirst ==
  ASSUME NEW c \in Nat, NEW r, rows' = Saved(c, r), c \notin DOMAIN rows
  PROVE  /\ DOMAIN rows' = DOMAIN rows \cup {c}
         /\ \A d \in DOMAIN rows : rows'[d] = rows[d]
         /\ rows'[c].user = r.user.uin
BY SMT DEF Saved

\* Rows only get lost with the table: what is recorded of the live stays recorded.
LEMMA SortedKeeps ==
  ASSUME Reachable, DeskInv, Sorted
  PROVE  LiveOnRecord' /\ NextIdIsNew' /\ DownIsDeserted'
<1> USE DEF DeskInv
<1>1. CASE Unseen
  <2>1. Serving /\ seq' = seq /\ phase' # "down" /\ SameGuests
    BY <1>1 DEF Unseen, GoesOn, Serving
  <2>2. /\ DOMAIN rows' = DOMAIN rows
        /\ \A d \in DOMAIN rows : rows'[d].user = rows[d].user
    BY <1>1, <2>1, SavedAgain DEF Unseen
  <2>3. LiveOnRecord' /\ NextIdIsNew'
    BY <2>1, <2>2, Zenon DEF LiveOnRecord, NextIdIsNew, SameGuests
  <2> QED
    BY <2>1, <2>3 DEF DownIsDeserted
<1>2. CASE InLine
  BY <1>2 DEF InLine, GoesOn, Serving, LiveOnRecord, NextIdIsNew, DownIsDeserted
<1>3. CASE Accepted
  <2>1. PICK r \in Conversation :
          /\ cvs' = [d \in DOMAIN cvs \cup {seq + 1} |-> IF d = seq + 1 THEN r ELSE cvs[d]]
          /\ rows' = Saved(seq + 1, r)
    BY <1>3 DEF Accepted
  <2>2. Serving /\ seq' = seq + 1 /\ phase' # "down"
    BY <1>3 DEF Accepted, Serving
  <2>3. seq + 1 \in Nat /\ seq + 1 \notin DOMAIN rows
    BY <2>2, InvParts, SMT DEF NextIdIsNew
  <2>4. /\ DOMAIN rows' = DOMAIN rows \cup {seq + 1}
        /\ \A d \in DOMAIN rows : rows'[d] = rows[d]
        /\ rows'[seq + 1].user = r.user.uin
    BY <2>1, <2>3, SavedFirst
  <2>5. NextIdIsNew'
    <3>1. \A c \in DOMAIN rows : c <= seq /\ c \in Nat
      BY <2>2, InvParts DEF NextIdIsNew
    <3>2. \A c \in DOMAIN rows' : c <= seq'
      BY <2>2, <2>4, <3>1, InvParts, SMT
    <3> QED
      BY <3>2 DEF NextIdIsNew
  <2>6. LiveOnRecord'
    <3> SUFFICES ASSUME NEW c \in DOMAIN cvs'
                 PROVE  c \in DOMAIN rows' /\ rows'[c].user = cvs'[c].user.uin
      BY DEF LiveOnRecord
    <3>1. CASE c = seq + 1
      BY <2>1, <2>4, <3>1
    <3>2. CASE c # seq + 1
      <4>1. c \in DOMAIN cvs /\ cvs'[c] = cvs[c]
        BY <2>1, <3>2
      <4> QED
        BY <2>2, <2>4, <4>1 DEF LiveOnRecord
    <3> QED
      BY <3>1, <3>2
  <2> QED
    BY <2>2, <2>5, <2>6 DEF DownIsDeserted
<1>4. CASE Over
  <2>1. PICK c \in DOMAIN cvs : cvs' = Closed(c) /\ rows' = Saved(c, cvs[c])
    BY <1>4 DEF Over
  <2>2. Serving /\ seq' = seq /\ phase' # "down"
    BY <1>4 DEF Over, GoesOn, Serving
  <2>3. SavesLive
    BY <2>1, InvParts DEF SavesLive
  <2>4. /\ DOMAIN rows' = DOMAIN rows
        /\ \A d \in DOMAIN rows : rows'[d].user = rows[d].user
    BY <2>2, <2>3, SavedAgain
  <2>5. DOMAIN cvs' = DOMAIN cvs \ {c} /\ \A d \in DOMAIN cvs' : cvs'[d] = cvs[d]
    BY <2>1, InvParts, ClosedOK
  <2>6. LiveOnRecord' /\ NextIdIsNew'
    BY <2>2, <2>4, <2>5, Zenon DEF LiveOnRecord, NextIdIsNew
  <2> QED
    BY <2>2, <2>6 DEF DownIsDeserted
<1>5. CASE Stops
  BY <1>5 DEF Stops, Die, Serving, LiveOnRecord, NextIdIsNew, DownIsDeserted
<1>6. CASE Restart
  <2>1. phase = "down" /\ phase' = "idle" /\ cvs' = cvs /\ rows' = rows
    BY <1>6 DEF Restart
  <2>2. cvs' = <<>>
    BY <2>1 DEF DownIsDeserted
  <2>3. LiveOnRecord'
    BY <2>2, SMT DEF LiveOnRecord
  <2>4. seq' = LastId
    BY <1>6, Zenon DEF Restart, Reachable
  <2>5. NextIdIsNew'
    BY <2>1, <2>4, InvParts, LastIdOK DEF NextIdIsNew
  <2> QED
    BY <2>1, <2>3, <2>5 DEF DownIsDeserted
<1>7. CASE UNCHANGED vars
  BY <1>7 DEF vars, Serving, LiveOnRecord, NextIdIsNew, DownIsDeserted
<1> QED
  BY <1>1, <1>2, <1>3, <1>4, <1>5, <1>6, <1>7 DEF Sorted

\* The loop of agent_offline is begun by its request, and leaves `out` alone.
LEMMA LoopStaysAsked ==
  ASSUME LoopIsAsked, [Next]_vars
  PROVE  LoopIsAsked'
<1> SUFFICES ASSUME phase' = "offline"
             PROVE  Question' = [kind |-> "offline", who |-> {}, number |-> 0, code |-> 0]
  BY DEF LoopIsAsked
<1>1. CASE phase = "offline" /\ out' = out
  BY <1>1 DEF LoopIsAsked, Question
<1>2. CASE \E id : AgentOffline(id)
  <2>1. Result("offline", 0, {}, 0, {})
    BY <1>2, Zenon DEF AgentOffline, Refused, Unanswered
  <2> QED
    BY <2>1, SaysAsks DEF Result, Asks
<1>3. ASSUME ~ \E id : AgentOffline(id)
      PROVE  phase = "offline" /\ out' = out
  <2>1. \A op : ~Die(op) /\ ~Hang(op)
    BY DEF Die, Hang
  <2>2. ~Kill /\ ~Restart /\ ~OfflineEnd
    BY <2>1 DEF Kill, Restart, OfflineEnd
  <2>3. ~(phase = "idle" /\ phase' = phase) /\ ~(phase = "idle" /\ Refused)
    BY DEF Refused
  <2>4. /\ \A id, n, v : ~AgentPresence(id, n, v)
        /\ \A id : ~AgentAbsence(id) /\ ~AgentAccept(id) /\ ~AgentRefuse(id)
        /\ \A u : ~UserJoin(u) /\ ~UserDepart(u)
        /\ \A u, c, n : ~UserScore(u, c, n)
    BY <2>3, Zenon DEF AgentPresence, AgentAbsence, AgentAccept, AgentRefuse,
                       UserJoin, UserDepart, UserScore
  <2>5. /\ \A c, from, to : ~AgentRedirect(c, from, to)
        /\ \A c : ~ConversationEnd(c)
    BY <2>1, <2>3, Zenon DEF AgentRedirect, ConversationEnd
  <2>6. CASE OfflineSkip
    BY <2>6 DEF OfflineSkip
  <2>7. CASE OfflineNext
    BY <2>1, <2>7, Zenon DEF OfflineNext
  <2>8. CASE UNCHANGED vars
    BY <2>8 DEF vars
  <2> QED
    BY <1>3, <2>2, <2>4, <2>5, <2>6, <2>7, <2>8, Zenon DEF Next, OfflineLoop
<1> QED
  BY <1>1, <1>2, <1>3

\* The invariant holds in every reachable state.
LEMMA DeskInductive == ASSUME Reachable PROVE Spec => []DeskInv
<1>1. Init => LiveOnRecord /\ NextIdIsNew /\ DownIsDeserted /\ LoopIsAsked
  BY SMT DEF Init, LiveOnRecord, NextIdIsNew, DownIsDeserted, LoopIsAsked
<1>2. DeskInv /\ [Next]_vars
      => (LiveOnRecord /\ NextIdIsNew /\ DownIsDeserted /\ LoopIsAsked)'
  BY NextSorted, SortedKeeps, LoopStaysAsked DEF DeskInv
<1> QED
  BY <1>1, <1>2, Inductive, PTL DEF Spec, DeskInv

\* No id of an earlier life of the process is given out again: whatever is live, and
\* whatever table an earlier process has left, each conversation has a row of its own
\* with its own user.
THEOREM LiveRecorded == Reachable => (Spec => []LiveOnRecord)
<1> SUFFICES ASSUME Reachable PROVE Spec => []LiveOnRecord
  OBVIOUS
<1>1. DeskInv => LiveOnRecord
  BY DEF DeskInv
<1> QED
  BY <1>1, DeskInductive, PTL

-----------------------------------------------------------------------------
(* What an agent accepts.  Whatever others hand it, it has room for one    *)
(* more conversation of its own as long as it is invited.                  *)

\* The conversations of agent a that its own accept has brought it.
Took(m, R, a) == {c \in m.agents[a].cvs : c \in DOMAIN R /\ R[c].agent = a}

Room(m, R) ==
  \A a \in DOMAIN m.agents :
    /\ Cardinality(Took(m, R, a)) <= m.agents[a].capacity
    /\ a \in m.inviting => Cardinality(Took(m, R, a)) < m.agents[a].capacity

\* The inductive invariant, on top of DeskInv.
RoomInv == DeskInv /\ Room(mgr, rows)

\* What an agent has taken is part of its load.
LEMMA TookInLoad ==
  ASSUME NEW m, ManagerOK(m), NEW a \in DOMAIN m.agents, NEW R
  PROVE  /\ IsFiniteSet(Took(m, R, a)) /\ Cardinality(Took(m, R, a)) \in Nat
         /\ Cardinality(Took(m, R, a)) <= m.agents[a].load
         /\ m.agents[a].capacity \in Nat /\ m.agents[a].load \in Nat
<1>1. IsFiniteSet(m.agents[a].cvs) /\ m.agents[a].load = Cardinality(m.agents[a].cvs)
  BY DEF ManagerOK, LoadCounts
<1>2. Took(m, R, a) \subseteq m.agents[a].cvs
  BY DEF Took
<1> HIDE DEF Took
<1>3. /\ IsFiniteSet(Took(m, R, a))
      /\ Cardinality(Took(m, R, a)) <= Cardinality(m.agents[a].cvs)
  BY <1>1, <1>2, FS_Subset
<1> QED
  BY <1>1, <1>3, FS_CardinalityType, ManagerParts

\* Agents leave, or lose what they have taken.
LEMMA RoomFewer ==
  ASSUME NEW m, ManagerOK(m), NEW R, Room(m, R), NEW n, NEW S,
         DOMAIN n.agents \subseteq DOMAIN m.agents, n.inviting \subseteq m.inviting,
         \A b \in DOMAIN n.agents : /\ n.agents[b].capacity = m.agents[b].capacity
                                    /\ Took(n, S, b) \subseteq Took(m, R, b)
  PROVE  Room(n, S)
<1> SUFFICES ASSUME NEW b \in DOMAIN n.agents
             PROVE  /\ Cardinality(Took(n, S, b)) <= n.agents[b].capacity
                    /\ b \in n.inviting => Cardinality(Took(n, S, b)) < n.agents[b].capacity
  BY DEF Room
<1>1. IsFiniteSet(Took(m, R, b)) /\ Cardinality(Took(m, R, b)) \in Nat
      /\ m.agents[b].capacity \in Nat
  BY TookInLoad
<1>2. /\ IsFiniteSet(Took(n, S, b))
      /\ Cardinality(Took(n, S, b)) <= Cardinality(Took(m, R, b))
  BY <1>1, FS_Subset
<1>3. Cardinality(Took(n, S, b)) \in Nat
  BY <1>2, FS_CardinalityType
<1>4. /\ Cardinality(Took(m, R, b)) <= m.agents[b].capacity
      /\ b \in m.inviting => Cardinality(Took(m, R, b)) < m.agents[b].capacity
      /\ n.agents[b].capacity = m.agents[b].capacity
  BY DEF Room
<1> HIDE DEF Took
<1> QED
  BY <1>1, <1>2, <1>3, <1>4, SMT

\* do_invite asks only agents that have room.
LEMMA RoomInvite ==
  ASSUME NEW m, ManagerOK(m), NEW R, Room(m, R), NEW k
  PROVE  Room(DoInvite(m, k), R)
<1> DEFINE n == DoInvite(m, k)
<1>1. SameButStates(m, n) /\ n.inviting = m.inviting \cup Invited(m, k)
  BY DoInviteDoes
<1> HIDE DEF n
<1>2. /\ DOMAIN n.agents = DOMAIN m.agents
      /\ \A b \in DOMAIN m.agents : /\ n.agents[b].capacity = m.agents[b].capacity
                                    /\ n.agents[b].cvs = m.agents[b].cvs
  BY <1>1 DEF SameButStates
<1> SUFFICES ASSUME NEW b \in DOMAIN n.agents
             PROVE  /\ Cardinality(Took(n, R, b)) <= n.agents[b].capacity
                    /\ b \in n.inviting => Cardinality(Took(n, R, b)) < n.agents[b].capacity
  BY DEF Room, n
<1>3. Took(n, R, b) = Took(m, R, b) /\ b \in DOMAIN m.agents
  BY <1>2 DEF Took
<1>4. /\ Cardinality(Took(m, R, b)) <= m.agents[b].capacity
      /\ b \in m.inviting => Cardinality(Took(m, R, b)) < m.agents[b].capacity
  BY <1>3 DEF Room
<1>5. b \in Invited(m, k) => m.agents[b].capacity > m.agents[b].load
  BY DEF Invited, Invitable
<1>6. b \in Invited(m, k) => Cardinality(Took(m, R, b)) < m.agents[b].capacity
  BY <1>3, <1>5, TookInLoad, SMT
<1> QED
  BY <1>1, <1>2, <1>3, <1>4, <1>6

\* An agent that signs on has room, if it will take anybody at all.
LEMMA RoomInsert ==
  ASSUME NEW m, ManagerOK(m), NEW R, Room(m, R), NEW id \in Umid,
         id.uin \notin DOMAIN m.agents, NEW k \in Nat, k # 0
  PROVE  Room(Insert(m, id, k), R)
<1> DEFINE n == Insert(m, id, k)
           u == id.uin
<1>1. /\ DOMAIN n.agents = DOMAIN m.agents \cup {u}
      /\ n.agents[u].cvs = {} /\ n.agents[u].capacity = k
      /\ \A b \in DOMAIN m.agents : n.agents[b] = m.agents[b]
      /\ n.inviting = m.inviting
  BY InsertAgents
<1> HIDE DEF n, u
<1> SUFFICES ASSUME NEW b \in DOMAIN n.agents
             PROVE  /\ Cardinality(Took(n, R, b)) <= n.agents[b].capacity
                    /\ b \in n.inviting => Cardinality(Took(n, R, b)) < n.agents[b].capacity
  BY DEF Room, n
<1>2. CASE b \in DOMAIN m.agents
  <2>1. Took(n, R, b) = Took(m, R, b)
    BY <1>1, <1>2 DEF Took
  <2> QED
    BY <1>1, <1>2, <2>1 DEF Room
<1>3. CASE b = u
  <2>1. Took(n, R, b) = {}
    BY <1>1, <1>3 DEF Took
  <2>2. Cardinality(Took(n, R, b)) = 0
    BY <2>1, FS_EmptySet
  <2> QED
    BY <1>1, <1>3, <2>2, SMT
<1> QED
  BY <1>1, <1>2, <1>3

\* The answer to an invitation ends it, and what the agent takes then fits.
LEMMA RoomAccept ==
  ASSUME NEW m, ManagerOK(m), NEW R, Room(m, R), NEW a \in DOMAIN m.agents,
         a \in m.inviting, NEW c \in Nat, NEW S, S[c].agent = a,
         \A d \in DOMAIN S \ {c} : d \in DOMAIN R /\ S[d] = R[d]
  PROVE  Room(AddConversation(Accept(m, a), a, c), S)
<1> DEFINE l == Accept(m, a)
           n == AddConversation(l, a, c)
<1>1. ManagerOK(l) /\ SameButStates(m, l) /\ l.inviting = m.inviting \ {a}
  BY AnsweredOK, AnsweredDoes DEF Accept, AgentState
<1>2. /\ DOMAIN l.agents = DOMAIN m.agents
      /\ \A b \in DOMAIN m.agents : /\ l.agents[b].capacity = m.agents[b].capacity
                                    /\ l.agents[b].cvs = m.agents[b].cvs
  BY <1>1 DEF SameButStates
<1> HIDE DEF l
<1>3. /\ DOMAIN n.agents = DOMAIN l.agents
      /\ n.agents[a].cvs \subseteq l.agents[a].cvs \cup {c}
      /\ n.agents[a].capacity = l.agents[a].capacity
      /\ \A b \in DOMAIN l.agents \ {a} : n.agents[b] = l.agents[b]
      /\ n.inviting = l.inviting
  <2>1. CASE c \in l.agents[a].cvs
    BY <2>1 DEF AddConversation
  <2>2. CASE c \notin l.agents[a].cvs
    BY <1>1, <1>2, <2>2, AddConversationDoes
  <2> QED
    BY <2>1, <2>2
<1> HIDE DEF n
<1> SUFFICES ASSUME NEW b \in DOMAIN m.agents
             PROVE  /\ Cardinality(Took(n, S, b)) <= n.agents[b].capacity
                    /\ b \in n.inviting => Cardinality(Took(n, S, b)) < n.agents[b].capacity
  BY <1>2, <1>3 DEF Room, n, l
<1>4. /\ IsFiniteSet(Took(m, R, b)) /\ Cardinality(Took(m, R, b)) \in Nat
      /\ m.agents[b].capacity \in Nat
  BY TookInLoad
<1>5. /\ Cardinality(Took(m, R, b)) <= m.agents[b].capacity
      /\ b \in m.inviting => Cardinality(Took(m, R, b)) < m.agents[b].capacity
  BY DEF Room
<1>6. CASE b # a
  <2>1. n.agents[b].cvs = m.agents[b].cvs /\ n.agents[b].capacity = m.agents[b].capacity
        /\ (b \in n.inviting => b \in m.inviting)
    BY <1>1, <1>2, <1>3, <1>6
  <2>2. Took(n, S, b) \subseteq Took(m, R, b)
    BY <2>1, <1>6 DEF Took
  <2> HIDE DEF Took
  <2>3. /\ IsFiniteSet(Took(n, S, b))
        /\ Cardinality(Took(n, S, b)) <= Cardinality(Took(m, R, b))
    BY <1>4, <2>2, FS_Subset
  <2>4. Cardinality(Took(n, S, b)) \in Nat
    BY <2>3, FS_CardinalityType
  <2> QED
    BY <1>4, <1>5, <2>1, <2>3, <2>4, SMT
<1>7. CASE b = a
  <2>1. Took(n, S, b) \subseteq Took(m, R, b) \cup {c}
    BY <1>2, <1>3, <1>7 DEF Took
  <2>2. b \notin n.inviting /\ n.agents[b].capacity = m.agents[b].capacity
    BY <1>1, <1>2, <1>3, <1>7
  <2> HIDE DEF Took
  <2>3. /\ IsFiniteSet(Took(m, R, b) \cup {c})
        /\ \/ Cardinality(Took(m, R, b) \cup {c}) = Cardinality(Took(m, R, b))
           \/ Cardinality(Took(m, R, b) \cup {c}) = Cardinality(Took(m, R, b)) + 1
    BY <1>4, FS_AddElement
  <2>4. /\ IsFiniteSet(Took(n, S, b))
        /\ Cardinality(Took(n, S, b)) <= Cardinality(Took(m, R, b) \cup {c})
    BY <2>1, <2>3, FS_Subset
  <2>5. Cardinality(Took(n, S, b)) \in Nat
    BY <2>4, FS_CardinalityType
  <2> QED
    BY <1>4, <1>5, <1>7, <2>2, <2>3, <2>4, <2>5, SMT
<1> QED
  BY <1>6, <1>7

\* A conversation that is on record is taken from one agent and may be given to another,
\* to whom it does not count.
LEMMA RoomRedirect ==
  ASSUME NEW m, ManagerOK(m), NEW R, Room(m, R), NEW a \in DOMAIN m.agents,
         NEW b \in DOMAIN m.agents, NEW c \in Nat, NEW S, DOMAIN S = DOMAIN R,
         S[c].agent \notin Uin, \A d \in DOMAIN R \ {c} : S[d] = R[d]
  PROVE  /\ Room(RemoveConversation(m, a, c), S)
         /\ Room(AddConversation(RemoveConversation(m, a, c), b, c), S)
<1> DEFINE l == RemoveConversation(m, a, c)
           n == AddConversation(l, b, c)
<1>1. ManagerOK(l)
  BY RemoveConversationOK
<1>2. /\ DOMAIN l.agents = DOMAIN m.agents /\ l.inviting = m.inviting
      /\ \A e \in DOMAIN m.agents : /\ l.agents[e].capacity = m.agents[e].capacity
                                    /\ l.agents[e].cvs \subseteq m.agents[e].cvs
  <2>1. /\ DOMAIN l.agents = DOMAIN m.agents
        /\ l.agents[a].cvs = m.agents[a].cvs \ {c}
        /\ l.agents[a].capacity = m.agents[a].capacity
        /\ \A e \in DOMAIN m.agents \ {a} : l.agents[e] = m.agents[e]
        /\ l.inviting = m.inviting
    BY OwnRemove
  <2> HIDE DEF l
  <2> QED
    BY <2>1
<1> HIDE DEF l
<1>3. /\ DOMAIN n.agents = DOMAIN m.agents /\ n.inviting = m.inviting
      /\ \A e \in DOMAIN m.agents : /\ n.agents[e].capacity = m.agents[e].capacity
                                    /\ n.agents[e].cvs \subseteq m.agents[e].cvs \cup {c}
  <2>1. CASE c \in l.agents[b].cvs
    BY <1>2, <2>1 DEF AddConversation
  <2>2. CASE c \notin l.agents[b].cvs
    <3>1. /\ DOMAIN n.agents = DOMAIN l.agents
          /\ n.agents[b].cvs = l.agents[b].cvs \cup {c}
          /\ n.agents[b].capacity = l.agents[b].capacity
          /\ \A e \in DOMAIN l.agents \ {b} : n.agents[e] = l.agents[e]
          /\ n.inviting = l.inviting
      BY <1>1, <1>2, <2>2, AddConversationDoes
    <3> HIDE DEF n
    <3> QED
      BY <1>2, <3>1
  <2> QED
    BY <2>1, <2>2
<1> HIDE DEF n
<1>4. DOMAIN m.agents \subseteq Uin
  BY ManagerParts
<1>5. ASSUME NEW e \in DOMAIN m.agents
      PROVE  Took(l, S, e) \subseteq Took(m, R, e) /\ Took(n, S, e) \subseteq Took(m, R, e)
  BY <1>2, <1>3, <1>4 DEF Took
<1>6. Room(l, S)
  BY <1>2, <1>5, RoomFewer
<1>7. Room(n, S)
  BY <1>3, <1>5, RoomFewer
<1> QED
  BY <1>6, <1>7 DEF l, n

-----------------------------------------------------------------------------
\* The facts about the state that the actions need.
LEMMA RoomParts ==
  ASSUME RoomInv
  PROVE  /\ IInv /\ ManagerOK(mgr) /\ Room(mgr, rows)
         /\ Serving => \A c \in DOMAIN cvs : c \in DOMAIN rows /\ c \in Nat
         /\ \A c \in DOMAIN rows : c \in Nat
         /\ Serving => \A c \in DOMAIN cvs : cvs[c].agent \in DOMAIN mgr.agents
         /\ phase = "offline" => job.agent \in DOMAIN mgr.agents
<1>1. Inv /\ IInv /\ LiveOnRecord
  BY DEF RoomInv, DeskInv, Inv
<1>2. DOMAIN rows \subseteq Nat
  BY <1>1, InvParts
<1> QED
  BY <1>1, <1>2 DEF RoomInv, IInv, LiveOnRecord, OwnerHolds, OfflineAgentPresent

\* Saving a conversation that is on record leaves its row with nobody's name.
LEMMA SavedNameless ==
  ASSUME Reachable, RoomInv, Serving, NEW c \in DOMAIN cvs, NEW r, Save(c, r)
  PROVE  /\ DOMAIN rows' = DOMAIN rows /\ rows'[c].agent \notin Uin
         /\ \A d \in DOMAIN rows \ {c} : rows'[d] = rows[d]
<1>1. rows' = Saved(c, r) /\ c \in DOMAIN rows
  BY SaveWrites, RoomParts
<1>2. rows' = [rows EXCEPT ![c].agent = Mangled]
  BY <1>1 DEF Saved
<1>3. rows[c] \in Row
  BY <1>1, InvParts DEF RoomInv, DeskInv
<1>4. Mangled \notin Uin
  BY InstanceAssumption DEF InstanceAssumption
<1>5. [rows[c] EXCEPT !.agent = Mangled].agent = Mangled
  BY <1>3, SMT DEF Row
<1> QED
  BY <1>1, <1>2, <1>4, <1>5

\* A handler invites before it returns.
LEMMA InvitesRoom ==
  ASSUME NEW m, ManagerOK(m), Room(m, rows'), NEW u, InvitesInto(m, u)
  PROVE  Room(mgr', rows')
BY RoomInvite DEF InvitesInto

\* Nothing changes that an agent's room depends on.
LEMMA RestsRoom ==
  ASSUME RoomInv, mgr' = mgr, rows' = rows
  PROVE  Room(mgr', rows')
BY DEF RoomInv

\* A process that is gone has no agents.
LEMMA DieRoom ==
  ASSUME NEW op, Die(op)
  PROVE  Room(mgr', rows')
BY DEF Die, Empty, Room

\* Agents sign on, leave and refuse.
LEMMA AgentsRoom ==
  ASSUME RoomInv, 0 \notin Capacities, NEW id \in AgentId,
         \/ \E k \in Capacities, v \in BOOLEAN : AgentPresence(id, k, v)
         \/ AgentAbsence(id) \/ AgentRefuse(id)
  PROVE  Room(mgr', rows')
<1>1. CASE Refused
  BY <1>1, RestsRoom DEF Refused, memory
<1>2. ASSUME NEW k \in Capacities, NEW v, AgentPresence(id, k, v), ~Refused
      PROVE  Room(mgr', rows')
  <2>1. /\ id.uin \notin DOMAIN mgr.agents /\ InvitesInto(Insert(mgr, id, k), users)
        /\ rows' = rows
    BY <1>2, Zenon DEF AgentPresence
  <2>2. id \in Umid /\ k \in Nat /\ k # 0
    BY InstanceAssumption, SMT DEF InstanceAssumption, AgentId, Umid
  <2>3. /\ ManagerOK(Insert(mgr, id, k))
        /\ Room(Insert(mgr, id, k), rows)
    BY <2>1, <2>2, RoomParts, InsertOK, RoomInsert
  <2> QED
    BY <2>1, <2>3, InvitesRoom
<1>3. CASE AgentAbsence(id) /\ ~Refused
  <2>1. /\ id.uin \in DOMAIN mgr.agents /\ mgr.agents[id.uin].load = 0
        /\ mgr' = Erase(mgr, id.uin) /\ rows' = rows
    BY <1>3, Zenon DEF AgentAbsence, Found
  <2>2. /\ DOMAIN mgr'.agents = DOMAIN mgr.agents \ {id.uin}
        /\ \A b \in DOMAIN mgr'.agents : mgr'.agents[b] = mgr.agents[b]
        /\ mgr'.inviting = mgr.inviting
    <3>1. ~(mgr.agents[id.uin].load > 0)
      BY <2>1, SMT
    <3> QED
      BY <2>1, <3>1, RoomParts, EraseDoes
  <2>3. \A b \in DOMAIN mgr'.agents :
          /\ mgr'.agents[b].capacity = mgr.agents[b].capacity
          /\ Took(mgr', rows', b) \subseteq Took(mgr, rows, b)
    BY <2>1, <2>2 DEF Took
  <2> QED
    BY <2>2, <2>3, RoomParts, RoomFewer
<1>4. CASE AgentRefuse(id)
  <2>1. PICK m : /\ m = mgr \/ (id.uin \in DOMAIN mgr.agents /\ m = Refuse(mgr, id.uin))
                 /\ InvitesInto(m, users) /\ rows' = rows
    BY <1>4, Zenon DEF AgentRefuse, Found
  <2>2. ManagerOK(m) /\ Room(m, rows)
    <3>1. CASE m = mgr
      BY <3>1, RoomParts
    <3>2. CASE id.uin \in DOMAIN mgr.agents /\ m = Refuse(mgr, id.uin)
      <4>1. ManagerOK(m) /\ SameButStates(mgr, m) /\ m.inviting = mgr.inviting \ {id.uin}
        BY <3>2, RoomParts, AnsweredOK, AnsweredDoes DEF Refuse, AgentState
      <4>2. /\ DOMAIN m.agents = DOMAIN mgr.agents /\ m.inviting \subseteq mgr.inviting
            /\ \A b \in DOMAIN m.agents :
                 /\ m.agents[b].capacity = mgr.agents[b].capacity
                 /\ Took(m, rows, b) \subseteq Took(mgr, rows, b)
        BY <4>1 DEF SameButStates, Took
      <4> QED
        BY <4>1, <4>2, RoomParts, RoomFewer
    <3> QED
      BY <2>1, <3>1, <3>2
  <2> QED
    BY <2>1, <2>2, InvitesRoom
<1> QED
  BY <1>1, <1>2, <1>3, <1>4

\* An agent answers an invitation, perhaps one it was sent before it left and came back.
LEMMA AcceptRoom ==
  ASSUME Reachable, RoomInv, NEW id \in AgentId, AgentAccept(id)
  PROVE  Room(mgr', rows')
<1> DEFINE a == id.uin
           m == Accept(mgr, a)
           r == [agent |-> a, user |-> Head(users), score |-> NoScore]
<1>1. CASE Refused
  BY <1>1, RestsRoom DEF Refused, memory
<1>2. CASE ~Refused
  <2>1. PICK c : c = seq + 1
    OBVIOUS
  <2>2. /\ phase = "idle" /\ a \in DOMAIN mgr.agents /\ a \in mgr.inviting
        /\ \/ mgr' = m /\ rows' = rows
           \/ Save(c, r) /\ InvitesInto(AddConversation(m, a, c), Tail(users))
    BY <1>2, <2>1, Zenon DEF AgentAccept, Found
  <2>3. /\ ManagerOK(m) /\ SameButStates(mgr, m) /\ m.inviting = mgr.inviting \ {a}
    BY <2>2, RoomParts, AnsweredOK, AnsweredDoes DEF Accept, AgentState
  <2>4. a \in DOMAIN m.agents
    BY <2>2, <2>3 DEF SameButStates
  <2>5. CASE mgr' = m /\ rows' = rows
    <3>1. /\ DOMAIN m.agents = DOMAIN mgr.agents /\ m.inviting \subseteq mgr.inviting
          /\ \A b \in DOMAIN m.agents :
               /\ m.agents[b].capacity = mgr.agents[b].capacity
               /\ Took(m, rows, b) \subseteq Took(mgr, rows, b)
      BY <2>3 DEF SameButStates, Took
    <3> QED
      BY <2>5, <3>1, RoomParts, RoomFewer
  <2>6. CASE Save(c, r) /\ InvitesInto(AddConversation(m, a, c), Tail(users))
    <3>1. c \in Nat /\ c \notin DOMAIN rows
      BY <2>1, <2>2, InvParts, SMT DEF RoomInv, DeskInv, NextIdIsNew, Serving
    <3>2. rows' = Saved(c, r)
      BY <2>6, SaveWrites
    <3>3. rows' = [d \in DOMAIN rows \cup {c} |->
                     IF d = c THEN [agent |-> r.agent, user |-> r.user.uin, score |-> r.score]
                     ELSE rows[d]]
      BY <3>1, <3>2, Zenon DEF Saved
    <3>4. r.agent = a
      OBVIOUS
    <3> HIDE DEF r
    <3>5. /\ rows'[c].agent = a
          /\ \A d \in DOMAIN rows' \ {c} : d \in DOMAIN rows /\ rows'[d] = rows[d]
      BY <3>3, <3>4
    <3>6. Room(AddConversation(m, a, c), rows')
      BY <2>2, <3>1, <3>5, RoomParts, RoomAccept
    <3>7. ManagerOK(AddConversation(m, a, c))
      BY <2>3, <2>4, <3>1, AddConversationOK
    <3> QED
      BY <2>6, <3>6, <3>7, InvitesRoom
  <2> QED
    BY <2>2, <2>5, <2>6
<1> QED
  BY <1>1, <1>2

\* A conversation is redirected, from whomever: its row is saved a second time.
LEMMA RedirectRoom ==
  ASSUME Reachable, RoomInv, NEW c, NEW from, NEW to, AgentRedirect(c, from, to)
  PROVE  Room(mgr', rows')
<1> DEFINE l == RemoveConversation(mgr, from.uin, c)
           m == AddConversation(l, to.uin, c)
<1>1. CASE Refused
  BY <1>1, RestsRoom DEF Refused, memory
<1>2. CASE Die("redirect")
  BY <1>2, DieRoom
<1>3. CASE ~Refused /\ ~Die("redirect")
  <2>1. /\ phase = "idle" /\ c \in DOMAIN cvs
        /\ from.uin \in DOMAIN mgr.agents /\ to.uin \in DOMAIN mgr.agents
        /\ \/ mgr' = l /\ rows' = rows
           \/ Save(c, [cvs[c] EXCEPT !.agent = to.uin]) /\ InvitesInto(m, users)
    BY <1>3, Zenon DEF AgentRedirect, Found, Redirected
  <2>2. c \in Nat /\ ManagerOK(mgr) /\ Room(mgr, rows)
    BY <2>1, RoomParts DEF Serving
  <2>3. CASE mgr' = l /\ rows' = rows
    <3>1. /\ DOMAIN l.agents = DOMAIN mgr.agents
          /\ l.agents[from.uin].cvs = mgr.agents[from.uin].cvs \ {c}
          /\ l.agents[from.uin].capacity = mgr.agents[from.uin].capacity
          /\ \A b \in DOMAIN mgr.agents \ {from.uin} : l.agents[b] = mgr.agents[b]
          /\ l.inviting = mgr.inviting
      BY <2>1, <2>2, OwnRemove
    <3> HIDE DEF l
    <3>2. \A b \in DOMAIN l.agents : /\ l.agents[b].capacity = mgr.agents[b].capacity
                                     /\ Took(l, rows, b) \subseteq Took(mgr, rows, b)
      BY <3>1 DEF Took
    <3> QED
      BY <2>2, <2>3, <3>1, <3>2, RoomFewer
  <2>4. CASE Save(c, [cvs[c] EXCEPT !.agent = to.uin]) /\ InvitesInto(m, users)
    <3>1. /\ DOMAIN rows' = DOMAIN rows /\ rows'[c].agent \notin Uin
          /\ \A d \in DOMAIN rows \ {c} : rows'[d] = rows[d]
      BY <2>1, <2>4, SavedNameless DEF Serving
    <3>2. Room(m, rows')
      BY <2>1, <2>2, <3>1, RoomRedirect
    <3>3. ManagerOK(l) /\ DOMAIN l.agents = DOMAIN mgr.agents
      BY <2>1, <2>2, RemoveConversationOK
    <3>4. ManagerOK(m)
      BY <2>1, <2>2, <3>3, AddConversationOK
    <3> QED
      BY <2>4, <3>2, <3>4, InvitesRoom
  <2> QED
    BY <2>1, <2>3, <2>4
<1> QED
  BY <1>1, <1>2, <1>3

\* A conversation is closed: saved again, and taken from its owner.
LEMMA OverRoom ==
  ASSUME Reachable, RoomInv, Serving, NEW c \in DOMAIN cvs, Save(c, cvs[c]),
         mgr' = RemoveConversation(mgr, cvs[c].agent, c)
  PROVE  Room(mgr', rows')
<1>1. /\ DOMAIN rows' = DOMAIN rows /\ rows'[c].agent \notin Uin
      /\ \A d \in DOMAIN rows \ {c} : rows'[d] = rows[d]
  BY SavedNameless
<1>2. cvs[c].agent \in DOMAIN mgr.agents /\ c \in Nat
  BY RoomParts
<1> QED
  BY <1>1, <1>2, RoomParts, RoomRedirect

\* The loop of agent_offline.
LEMMA LoopRoom ==
  ASSUME Reachable, RoomInv, OfflineLoop
  PROVE  Room(mgr', rows')
<1>0. Serving
  BY DEF OfflineLoop, OfflineSkip, OfflineNext, OfflineEnd, Serving
<1>1. CASE OfflineSkip
  BY <1>1, RestsRoom DEF OfflineSkip, memory
<1>2. CASE OfflineNext
  <2>1. PICK c \in Rest \cap DOMAIN cvs :
          /\ Save(c, cvs[c])
          /\ Die("offline") \/ mgr' = RemoveConversation(mgr, cvs[c].agent, c)
    BY <1>2, RoomParts, Rounds, Zenon DEF Returns
  <2> QED
    BY <1>0, <2>1, DieRoom, OverRoom
<1>3. CASE OfflineEnd
  <2> DEFINE m == Erase(mgr, job.agent)
  <2>1. phase = "offline" /\ InvitesInto(m, users) /\ rows' = rows
    BY <1>3 DEF OfflineEnd
  <2>2. job.agent \in DOMAIN mgr.agents /\ ManagerOK(m)
    BY <2>1, RoomParts, EraseOK
  <2>3. Room(m, rows)
    <3>1. CASE mgr.agents[job.agent].load > 0
      BY <3>1, RoomParts DEF Erase
    <3>2. CASE ~(mgr.agents[job.agent].load > 0)
      <4>1. /\ DOMAIN m.agents = DOMAIN mgr.agents \ {job.agent}
            /\ \A b \in DOMAIN m.agents : m.agents[b] = mgr.agents[b]
            /\ m.inviting = mgr.inviting
        BY <2>2, <3>2, RoomParts, EraseDoes
      <4> HIDE DEF m
      <4>2. \A b \in DOMAIN m.agents : /\ m.agents[b].capacity = mgr.agents[b].capacity
                                       /\ Took(m, rows, b) \subseteq Took(mgr, rows, b)
        BY <4>1 DEF Took
      <4> QED
        BY <4>1, <4>2, RoomParts, RoomFewer
    <3> QED
      BY <3>1, <3>2
  <2> QED
    BY <2>1, <2>2, <2>3, InvitesRoom
<1> QED
  BY <1>1, <1>2, <1>3 DEF OfflineLoop

\* Users come, go and give scores; conversations end.
LEMMA UsersRoom ==
  ASSUME Reachable, RoomInv,
         \/ \E u : UserJoin(u) \/ UserDepart(u)
         \/ \E u, c, s : UserScore(u, c, s)
         \/ \E c : ConversationEnd(c)
  PROVE  Room(mgr', rows')
<1>1. ASSUME NEW u, UserJoin(u) PROVE Room(mgr', rows')
  <2>1. InvitesInto(mgr, users') /\ rows' = rows
    BY <1>1 DEF UserJoin
  <2> QED
    BY <2>1, RoomParts, InvitesRoom
<1>2. ASSUME NEW u, UserDepart(u) PROVE Room(mgr', rows')
  <2>1. mgr' = mgr /\ rows' = rows
    BY <1>2, Zenon DEF UserDepart, Refused, memory
  <2> QED
    BY <2>1, RestsRoom
<1>3. ASSUME NEW u, NEW c, NEW s, UserScore(u, c, s) PROVE Room(mgr', rows')
  <2>1. mgr' = mgr /\ rows' = rows
    BY <1>3 DEF UserScore, memory
  <2> QED
    BY <2>1, RestsRoom
<1>4. ASSUME NEW c, ConversationEnd(c) PROVE Room(mgr', rows')
  <2>1. CASE Refused
    BY <2>1, RestsRoom DEF Refused, memory
  <2>2. CASE ~Refused
    <3>1. /\ phase = "idle" /\ c \in DOMAIN cvs /\ Save(c, cvs[c])
          /\ mgr' = RemoveConversation(mgr, cvs[c].agent, c)
      BY <1>4, <2>2, Zenon DEF ConversationEnd
    <3> QED
      BY <3>1, OverRoom DEF Serving
  <2> QED
    BY <2>1, <2>2
<1> QED
  BY <1>1, <1>2, <1>3, <1>4

\* Every step leaves an invited agent room.
LEMMA NextRoom ==
  ASSUME Reachable, 0 \notin Capacities, RoomInv, [Next]_vars
  PROVE  Room(mgr', rows')
<1>1. CASE UNCHANGED vars
  BY <1>1, RestsRoom DEF vars
<1>2. ASSUME NEW id \in AgentId,
             \/ \E k \in Capacities, v \in BOOLEAN : AgentPresence(id, k, v)
             \/ AgentAbsence(id) \/ AgentRefuse(id)
      PROVE  Room(mgr', rows')
  BY <1>2, AgentsRoom
<1>3. ASSUME NEW id \in AgentId, AgentAccept(id) PROVE Room(mgr', rows')
  BY <1>3, AcceptRoom
<1>4. ASSUME NEW id, AgentOffline(id) PROVE Room(mgr', rows')
  <2>1. mgr' = mgr /\ rows' = rows
    BY <1>4 DEF AgentOffline, Refused, memory
  <2> QED
    BY <2>1, RestsRoom
<1>5. ASSUME NEW c, NEW from, NEW to, AgentRedirect(c, from, to) PROVE Room(mgr', rows')
  BY <1>5, RedirectRoom
<1>6. CASE OfflineLoop
  BY <1>6, LoopRoom
<1>7. ASSUME \/ \E u : UserJoin(u) \/ UserDepart(u)
             \/ \E u, c, s : UserScore(u, c, s)
             \/ \E c : ConversationEnd(c)
      PROVE  Room(mgr', rows')
  BY <1>7, UsersRoom
<1>8. CASE Kill
  BY <1>8, DieRoom DEF Kill
<1>9. CASE Restart
  BY <1>9, RestsRoom DEF Restart
<1> QED
  BY <1>1, <1>2, <1>3, <1>4, <1>5, <1>6, <1>7, <1>8, <1>9, Zenon DEF Next

\* The conversations an agent has accepted are never more than it has announced,
\* whatever is redirected to it and from it and by whomever, if agents leave and come
\* back while they are invited, and over restarts: accept need not look at the capacity,
\* because an invitation always leaves room for one.  An agent that announces 0 is
\* excepted (a stale invitation lets it accept), and so are lost statements (an
\* accepted conversation that was not saved is not told from a redirected one).
THEOREM CapacityKept ==
  Reachable /\ 0 \notin Capacities => (Spec => []AcceptsWithinCapacity)
<1> SUFFICES ASSUME Reachable, 0 \notin Capacities
             PROVE  Spec => []AcceptsWithinCapacity
  OBVIOUS
<1>1. Init => Room(mgr, rows)
  BY DEF Init, Empty, Room
<1>2. RoomInv /\ [Next]_vars => Room(mgr, rows)'
  BY NextRoom
<1>3. RoomInv => AcceptsWithinCapacity
  BY DEF RoomInv, Room, Took, AcceptsWithinCapacity, AcceptedBy
<1> QED
  BY <1>1, <1>2, <1>3, DeskInductive, PTL DEF Spec, RoomInv

-----------------------------------------------------------------------------
(* The refinement: every sort of step is a step of the desk, or none.      *)

\* What the desk sees of a queue.
Line == IF Serving THEN users ELSE <<>>
Served == IF Serving THEN [c \in DOMAIN cvs |-> cvs[c].user] ELSE <<>>

\* A step of an open desk that stays open.
LEMMA OpenStep ==
  ASSUME Serving, Serving',
         \/ \E g \in UserId : Desk!Join(g)
         \/ \E i \in DOMAIN Line : Desk!Leave(i)
         \/ \E c \in (DOMAIN rows)' : Desk!Serve(c)
         \/ \E c \in DOMAIN Served : Desk!GoBack(c) \/ Desk!Finish(c)
         \/ Desk!Other
  PROVE  Desk!Next
BY DEF Desk!Next, Line, Served

\* Conversations that change hands or get a score do not concern the desk.
LEMMA UnseenStutters ==
  ASSUME DeskInv, Unseen
  PROVE  Desk!Next \/ UNCHANGED Desk!desk
<1>1. Serving /\ Serving' /\ SameGuests /\ users' = users
  BY DEF Unseen, GoesOn
<1>2. DOMAIN rows' = DOMAIN rows
  BY <1>1, SavedAgain DEF Unseen, DeskInv
<1>3. [c \in DOMAIN cvs |-> cvs[c].user]' = [c \in DOMAIN cvs |-> cvs[c].user]
  BY <1>1 DEF SameGuests
<1>4. CASE out' = out
  BY <1>1, <1>2, <1>3, <1>4 DEF Desk!desk
<1>5. ASSUME NEW op, NEW code, Asks(op, {}, 0, code),
             op \notin {"join", "depart", "end", "kill"}, op = "accept" => code = 400
      PROVE  Desk!Next
  <2>1. /\ Question'.kind \notin {"join", "depart", "end", "kill"}
        /\ Question'.kind = "accept" => Question'.code = 400
    BY <1>5, SMT DEF Asks
  <2>2. Desk!Other
    BY <1>1, <1>2, <1>3, <2>1 DEF Desk!Other, Question
  <2> QED
    BY <1>1, <2>2, OpenStep
<1> QED
  BY <1>4, <1>5, Zenon DEF Unseen, Quiet

\* join is Join, depart is Leave.
LEMMA InLineSteps ==
  ASSUME InLine
  PROVE  Desk!Next
<1>1. Serving /\ Serving' /\ cvs' = cvs /\ rows' = rows
  BY DEF InLine, GoesOn
<1>2. CASE \E u \in UserId : users' = Append(users, u) /\ Asks("join", {u}, 0, 200)
  <2>1. \E u \in UserId : Desk!Join(u)
    BY <1>1, <1>2 DEF Desk!Join, Asks, Question
  <2> QED
    BY <1>1, <2>1, OpenStep
<1>3. CASE \E i \in DOMAIN users :
             /\ Asks("depart", {users[i]}, 0, 200)
             /\ \A j \in 1 .. i - 1 : users[j] # users[i]
             /\ users' = SubSeq(users, 1, i - 1) \o SubSeq(users, i + 1, Len(users))
  <2>0. Line = users /\ Line' = users'
    BY <1>1 DEF Line
  <2>1. PICK i \in DOMAIN users :
          /\ Asks("depart", {users[i]}, 0, 200)
          /\ \A j \in 1 .. i - 1 : users[j] # users[i]
          /\ users' = SubSeq(users, 1, i - 1) \o SubSeq(users, i + 1, Len(users))
    BY <1>3
  <2>2. UNCHANGED <<Served, DOMAIN rows>>
    BY <1>1 DEF Served
  <2>3. Question' = [kind |-> "depart", who |-> {Line[i]}, number |-> 0, code |-> 200]
    BY <2>0, <2>1 DEF Asks
  <2>4. /\ \A j \in 1 .. i - 1 : Line[j] # Line[i]
        /\ Line' = SubSeq(Line, 1, i - 1) \o SubSeq(Line, i + 1, Len(Line))
    BY <2>0, <2>1
  <2>5. \E k \in DOMAIN Line : Desk!Leave(k)
    BY <2>0, <2>1, <2>2, <2>3, <2>4, Zenon DEF Desk!Leave, Line, Served, Question
  <2> QED
    BY <1>1, <2>5, OpenStep
<1> QED
  BY <1>2, <1>3 DEF InLine

\* accept is Serve, with an id the table has never had.
LEMMA AcceptedServes ==
  ASSUME DeskInv, Accepted
  PROVE  Desk!Next
<1>1. Serving /\ Serving' /\ users # <<>> /\ users' = Tail(users) /\ Asks("accept", {}, 0, 200)
  BY DEF Accepted
<1>2. PICK c \in Nat : c = seq + 1
  BY InvParts, SMT DEF DeskInv
<1>3. PICK r \in Conversation :
        /\ r.user = Head(users)
        /\ cvs' = [d \in DOMAIN cvs \cup {c} |-> IF d = c THEN r ELSE cvs[d]]
        /\ rows' = Saved(c, r)
  BY <1>2 DEF Accepted
<1>4. c \notin DOMAIN rows
  BY <1>2, <1>1, InvParts, SMT DEF DeskInv, NextIdIsNew
<1>5. DOMAIN rows' = DOMAIN rows \cup {c}
  BY <1>3, <1>4, SavedFirst
<1>6. [d \in DOMAIN cvs |-> cvs[d].user]' =
      [d \in DOMAIN [e \in DOMAIN cvs |-> cvs[e].user] \cup {c} |->
         IF d = c THEN Head(users) ELSE [e \in DOMAIN cvs |-> cvs[e].user][d]]
  BY <1>3, SMT
<1>7. Desk!Serve(c)
  BY <1>1, <1>4, <1>5, <1>6 DEF Desk!Serve, Asks, Question
<1>8. \E d \in (DOMAIN rows)' : Desk!Serve(d)
  BY <1>5, <1>7
<1> QED
  BY <1>1, <1>8, OpenStep, Zenon

\* A conversation that ends is a Finish, or a GoBack if its agent was lost.
LEMMA OverSteps ==
  ASSUME DeskInv, Over
  PROVE  Desk!Next
<1>1. Serving /\ Serving'
  BY DEF Over, GoesOn
<1>2. PICK c \in DOMAIN cvs :
        /\ cvs' = Closed(c) /\ rows' = Saved(c, cvs[c])
        /\ \/ users' = users /\ Asks("end", {}, c, 400)
           \/ users' = <<cvs[c].user>> \o users /\ phase = "offline" /\ out' = out
  BY DEF Over
<1>3. SavesLive
  BY <1>2, InvParts DEF SavesLive, DeskInv
<1>4. DOMAIN rows' = DOMAIN rows
  BY <1>1, <1>3, SavedAgain DEF DeskInv
<1>5. [d \in DOMAIN cvs |-> cvs[d].user]' =
      [d \in DOMAIN [e \in DOMAIN cvs |-> cvs[e].user] \ {c} |->
         [e \in DOMAIN cvs |-> cvs[e].user][d]]
  BY <1>2, SMT DEF Closed
<1>6. Desk!Drop(c)
  BY <1>1, <1>5 DEF Desk!Drop
<1>7. Desk!GoBack(c) \/ Desk!Finish(c)
  <2>1. CASE users' = users /\ Asks("end", {}, c, 400)
    <3>1. Question'.kind = "end" /\ Question'.number = c
      BY <2>1, SMT DEF Asks
    <3>2. Desk!Finish(c)
      BY <1>1, <1>4, <1>6, <2>1, <3>1 DEF Desk!Finish, Question
    <3> QED
      BY <3>2
  <2>2. CASE users' = <<cvs[c].user>> \o users /\ phase = "offline" /\ out' = out
    <3>1. Question' = [kind |-> "offline", who |-> {}, number |-> 0, code |-> 0]
      BY <2>2 DEF DeskInv, LoopIsAsked, Question
    <3>2. Desk!GoBack(c)
      BY <1>1, <1>4, <1>6, <2>2, <3>1 DEF Desk!GoBack, Question
    <3> QED
      BY <3>2
  <2> QED
    BY <1>2, <2>1, <2>2
<1>8. c \in DOMAIN Served
  BY <1>1, <1>2 DEF Served
<1> QED
  BY <1>1, <1>7, <1>8, OpenStep

\* A queue that hangs or dies is a desk that closes; one that is killed while it
\* hangs was closed already.
LEMMA StopsCloses ==
  ASSUME DeskInv, Stops
  PROVE  Desk!Next
<1>1. ~Serving'
  BY DEF Stops, Die, Serving
<1>2. DOMAIN rows' = DOMAIN rows
  BY SavedAgain DEF Stops, DeskInv
<1>3. /\ Question'.kind \in {"kill", "redirect", "offline", "end"} /\ Question'.code = 0
      /\ ~Serving => Question'.kind = "kill"
  BY SMT DEF Stops, Asks
<1>4. CASE Serving
  <2>1. Desk!Close
    BY <1>1, <1>2, <1>3, <1>4 DEF Desk!Close, Question
  <2> QED
    BY <2>1 DEF Desk!Next
<1>5. CASE ~Serving
  <2>1. Desk!StayClosed
    BY <1>1, <1>2, <1>3, <1>5 DEF Desk!StayClosed, Question
  <2> QED
    BY <2>1 DEF Desk!Next
<1> QED
  BY <1>4, <1>5

\* The desk opens again with nobody in it.
LEMMA RestartOpens ==
  ASSUME DeskInv, Restart
  PROVE  Desk!Next
<1>1. phase = "down" /\ phase' = "idle" /\ UNCHANGED <<users, cvs, rows>>
  BY DEF Restart
<1>2. users' = <<>> /\ cvs' = <<>>
  BY <1>1 DEF DeskInv, DownIsDeserted
<1>3. ~Serving /\ Serving'
  BY <1>1 DEF Serving
<1>4. [c \in DOMAIN cvs |-> cvs[c].user]' = <<>>
  BY <1>2, SMT
<1>5. Question'.kind = "restart"
  <2>1. Result("restart", 0, {}, 0, {})
    BY DEF Restart, Unanswered
  <2>2. Asks("restart", {}, 0, 0)
    BY <2>1, SaysAsks DEF Result
  <2> QED
    BY <2>2, SMT DEF Asks
<1>6. Desk!Open
  BY <1>1, <1>2, <1>3, <1>4, <1>5 DEF Desk!Open, Question
<1> QED
  BY <1>6 DEF Desk!Next

\* While MySQL is reachable and the server runs, whoever has joined stays in the line or
\* in a conversation through every request of others, is served from the head of the line
\* by an accept, leaves by a request for just that, and goes back to the head when his
\* agent is lost; no conversation id is used again, over hangs, kills and restarts.
THEOREM QueueIsDesk == Reachable => (Spec => ImplementsDesk)
<1> SUFFICES ASSUME Reachable PROVE Spec => ImplementsDesk
  OBVIOUS
<1>1. Init => Desk!Init
  <2> SUFFICES ASSUME Init PROVE Desk!Init
    OBVIOUS
  <2>1. Serving /\ users = <<>> /\ cvs = <<>> /\ rows = <<>>
    BY DEF Init, Serving
  <2>2. [c \in DOMAIN cvs |-> cvs[c].user] = <<>> /\ DOMAIN rows = {}
    BY <2>1, SMT
  <2>3. Question = [kind |-> "restart", who |-> {}, number |-> 0, code |-> 0]
    BY SMT DEF Init, Question
  <2> QED
    BY <2>1, <2>2, <2>3 DEF Desk!Init, Question
<1>2. DeskInv /\ [Next]_vars => [Desk!Next]_(Desk!desk)
  <2> SUFFICES ASSUME DeskInv, [Next]_vars PROVE Desk!Next \/ UNCHANGED Desk!desk
    OBVIOUS
  <2>1. Sorted
    BY NextSorted DEF DeskInv
  <2>2. UNCHANGED vars => UNCHANGED Desk!desk
    BY Zenon DEF vars, Serving, Desk!desk
  <2> QED
    BY <2>1, <2>2, UnseenStutters, InLineSteps, AcceptedServes, OverSteps, StopsCloses,
       RestartOpens DEF Sorted
<1> QED
  BY <1>1, <1>2, DeskInductive, PTL DEF Spec, ImplementsDesk, Desk!Spec

=============================================================================
