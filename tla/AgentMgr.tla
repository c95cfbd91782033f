------------------------------ MODULE AgentMgr ------------------------------
(***************************************************************************)
(* The agents of one queue as the value CSAgentMgr keeps (CustomService,   *)
(* Agent.h, Agent.cpp, CSAgentMgr.h, CSAgentMgr.cpp), and its operations   *)
(* as operators from one such value to the next.  A manager m is a record  *)
(*                                                                         *)
(*   m.agents    m_agent_pool: the present agents, by uin                  *)
(*   m.order     the list of AGENT::prev/next links behind `head`, as the  *)
(*               sequence of uins met when it is walked from the head      *)
(*   m.inviting  m_inviting_set: the uins an answer is expected from       *)
(*                                                                         *)
(* Every operator is called with the queue's mutex held, so that none of   *)
(* them is interrupted; CSQueue adds the queue around them.                *)
(*                                                                         *)
(* A definition whose comment begins with "Slip:" is no part of the model: *)
(* it is the definition after it, with a mistake the properties have to    *)
(* notice.                                                                 *)
(***************************************************************************)
EXTENDS Integers, Sequences, FiniteSets

CONSTANTS
  Uin,   \* the account numbers agents and users have
  Mpt    \* the "multipoint" values: which terminal an account is signed on at

AgentState == {"AVAILABLE", "INVITING", "REFUSE"}

Umid == [uin: Uin, mp: Mpt]

Agent == [mp: Mpt, capacity: Nat, load: Nat, state: AgentState, cvs: SUBSET Nat]

Empty == [agents |-> <<>>, order |-> <<>>, inviting |-> {}]

-----------------------------------------------------------------------------
(* The order of the list: the agent an invitation should reach last.       *)

\* AGENT::operator>
Outranks(x, y) ==
  \/ x.load > y.load
  \/ x.load = y.load /\ x.capacity < y.capacity

Place(order, a) == CHOOSE i \in DOMAIN order : order[i] = a

\* Slip: at most one agent is passed, as if `while` were `if`.
TailPlaceOneStep(agents, order, a) ==
  LET p == Place(order, a)
  IN  IF p < Len(order) /\ ~Outranks(agents[order[p + 1]], agents[a]) THEN p + 1 ELSE p

\* AGENT::order_to_tail: `a` passes the agents after it, up to the first that
\* outranks it.
TailPlace(agents, order, a) ==
  CHOOSE q \in Place(order, a) .. Len(order) :
    /\ q < Len(order) => Outranks(agents[order[q + 1]], agents[a])
    /\ \A i \in Place(order, a) + 1 .. q : ~Outranks(agents[order[i]], agents[a])

OrderToTail(agents, order, a) ==
  LET p == Place(order, a)
      q == TailPlace(agents, order, a)
  IN  [i \in 1 .. Len(order) |->
         IF i < p \/ i > q THEN order[i] ELSE IF i = q THEN a ELSE order[i + 1]]

\* The exit test of AGENT::order_to_head.  An agent for which it fails at its
\* first predecessor never leaves the loop: line 86 runs after line 85 has
\* changed agent_ptr->prev, so it links the agent to itself and not to the
\* agent before, and the two nodes go on pointing at each other.
MustPassPrevious(m, a) ==
  LET p == Place(m.order, a)
  IN  p > 1 /\ ~Outranks(m.agents[a], m.agents[m.order[p - 1]])

Without(order, a) ==
  LET p == Place(order, a)
  IN  [i \in 1 .. Len(order) - 1 |-> IF i < p THEN order[i] ELSE order[i + 1]]

-----------------------------------------------------------------------------
(* AGENT: the conversations an agent holds.                                *)

Holding(x, held, n) == [x EXCEPT !.cvs = held, !.load = n]

\* Slip: the result of m_conversation_set.insert is not looked at.
AddConversationTwice(m, a, c) ==
  LET agents == [m.agents EXCEPT ![a] = Holding(@, @.cvs \cup {c}, @.load + 1)]
  IN  [m EXCEPT !.agents = agents, !.order = OrderToTail(agents, m.order, a)]

AddConversation(m, a, c) ==
  LET agents == [m.agents EXCEPT ![a] = Holding(@, @.cvs \cup {c}, @.load + 1)]
  IN  IF c \in m.agents[a].cvs
      THEN m
      ELSE [m EXCEPT !.agents = agents, !.order = OrderToTail(agents, m.order, a)]

\* Slip: the load is not taken back.
RemoveConversationKeepsLoad(m, a, c) == [m EXCEPT !.agents[a].cvs = @ \ {c}]

\* What AGENT::remove_conversation has done when it reaches order_to_head, which
\* either leaves the list as it is or, where Hangs holds, never returns.
RemoveConversation(m, a, c) ==
  LET agents == [m.agents EXCEPT ![a] = Holding(@, @.cvs \ {c}, @.load - 1)]
  IN  IF c \in m.agents[a].cvs THEN [m EXCEPT !.agents = agents] ELSE m

Hangs(m, a, c) ==
  /\ c \in m.agents[a].cvs
  /\ MustPassPrevious(RemoveConversation(m, a, c), a)

-----------------------------------------------------------------------------
(* CSAgentMgr.                                                             *)

Found(m, id) ==
  /\ id.uin \in DOMAIN m.agents
  /\ m.agents[id.uin].mp = id.mp

\* A new agent enters at the head of the list and is then ordered to the tail.
Insert(m, id, capacity) ==
  LET new == [mp |-> id.mp, capacity |-> capacity, load |-> 0,
              state |-> "AVAILABLE", cvs |-> {}]
      agents == [a \in DOMAIN m.agents \cup {id.uin} |->
                   IF a = id.uin THEN new ELSE m.agents[a]]
  IN  [m EXCEPT !.agents = agents,
                !.order = OrderToTail(agents, <<id.uin>> \o m.order, id.uin)]

\* m_inviting_set keeps the uin of an agent that leaves while invited.
Erase(m, a) ==
  IF m.agents[a].load > 0
  THEN m
  ELSE [m EXCEPT !.agents = [b \in DOMAIN m.agents \ {a} |-> m.agents[b]],
                 !.order = Without(m.order, a)]

\* The second halves of accept and refuse, past their early returns.
Answered(m, a, state) ==
  LET agents == [m.agents EXCEPT ![a].state = state]
  IN  [m EXCEPT !.agents = agents, !.inviting = @ \ {a}]

\* Slip: the state is left as it is.
AcceptKeepsState(m, a) == [m EXCEPT !.inviting = @ \ {a}]

Accept(m, a) == Answered(m, a, "AVAILABLE")

Refuse(m, a) == Answered(m, a, "REFUSE")

\* Slip: >= for >.
InvitableWhenFull(m) ==
  {a \in DOMAIN m.agents : /\ m.agents[a].capacity >= m.agents[a].load
                           /\ m.agents[a].state = "AVAILABLE"
                           /\ a \notin m.inviting}

\* The agents CSAgentMgr::invite stops at: is_strong_aval, and not yet invited.
Invitable(m) ==
  {a \in DOMAIN m.agents : /\ m.agents[a].capacity > m.agents[a].load
                           /\ m.agents[a].state = "AVAILABLE"
                           /\ a \notin m.inviting}

\* Slip: one invitation too few.
InvitedOneShort(m, n) ==
  {a \in Invitable(m) :
     LET before == {b \in Invitable(m) : Place(m.order, b) < Place(m.order, a)}
     IN  Cardinality(m.inviting) + Cardinality(before) + 1 < n}

\* The agents one QUEUE::do_invite picks with n users waiting: it walks the list
\* once, from the head, for as long as fewer agents are being invited than wait.
Invited(m, n) ==
  {a \in Invitable(m) :
     LET before == {b \in Invitable(m) : Place(m.order, b) < Place(m.order, a)}
     IN  Cardinality(m.inviting) + Cardinality(before) < n}

DoInvite(m, n) ==
  [m EXCEPT !.agents = [a \in DOMAIN m.agents |->
                          IF a \in Invited(m, n)
                          THEN [m.agents[a] EXCEPT !.state = "INVITING"]
                          ELSE m.agents[a]],
            !.inviting = @ \cup Invited(m, n)]

-----------------------------------------------------------------------------
(* What holds of a manager between two operations.                         *)

ManagerType(m) ==
  /\ m = [agents |-> m.agents, order |-> m.order, inviting |-> m.inviting]
  /\ DOMAIN m.agents \subseteq Uin
  /\ m.agents \in [DOMAIN m.agents -> Agent]
  /\ m.order \in Seq(Uin)
  /\ m.inviting \subseteq Uin

\* The list links every present agent exactly once.
ListsEachOnce(m) ==
  /\ \A i \in DOMAIN m.order : m.order[i] \in DOMAIN m.agents
  /\ \A a \in DOMAIN m.agents : \E i \in DOMAIN m.order : m.order[i] = a
  /\ \A i, j \in DOMAIN m.order : m.order[i] = m.order[j] => i = j

\* No agent stands behind one it should be invited before.
Ranked(m) ==
  \A i, j \in DOMAIN m.order :
    i < j => ~Outranks(m.agents[m.order[i]], m.agents[m.order[j]])

\* The counter the order and the capacity test read is the number of held ids.
LoadCounts(m) ==
  \A a \in DOMAIN m.agents :
    IsFiniteSet(m.agents[a].cvs) /\ m.agents[a].load = Cardinality(m.agents[a].cvs)

\* An agent that has been asked can answer: accept and refuse look its uin up.
InvitationsRecorded(m) ==
  \A a \in DOMAIN m.agents : m.agents[a].state = "INVITING" => a \in m.inviting

=============================================================================
