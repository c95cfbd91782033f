------------------------------ MODULE AgentList ------------------------------
(***************************************************************************)
(* The hand-made list of agents, link by link (CustomService, Agent.h,     *)
(* Agent.cpp), with the operations of CSAgentMgr around it.                *)
(*                                                                         *)
(* Agents are AGENT structures with two pointers; `head` is one that is in *)
(* no map and stands before the first.  Everything here runs with the      *)
(* queue's mutex held, one operation at a time.  An operation without a    *)
(* loop is one step; order_to_tail, order_to_head and the walk of          *)
(* do_invite take a step per round, and next to the pointers that the      *)
(* rounds have changed so far stand the fields that others will read.      *)
(*                                                                         *)
(* The operations of AgentMgr, which the queue is modelled with, know no   *)
(* links: they are what a whole operation makes of the sequence of agents. *)
(* That the links do that is ImplementsPool.                               *)
(***************************************************************************)
EXTENDS AgentMgr

CONSTANTS
  HEAD,       \* CSAgentMgr::head
  NULL,       \* no agent
  Capacities, \* the capacities agents announce
  Cvs,        \* the ids conversations have
  MaxWaiting  \* bound: the users that wait when agents are invited

ASSUME ListAssumption ==
  /\ HEAD \notin Uin /\ NULL \notin Uin \cup {HEAD}
  /\ Capacities \subseteq Nat /\ Cvs \subseteq Nat /\ MaxWaiting \in Nat

Node == Uin \cup {HEAD}

VARIABLES
  agents,   \* m_agent_pool, without the pointers
  inviting, \* m_inviting_set
  prev,     \* AGENT::prev and
  next,     \* AGENT::next; what they are of an agent that is not there is never read
  pc,       \* the loop that is running, if any
  this,     \* the agent it moves, or, in do_invite, the last it has looked at
  waiting   \* the users do_invite finds waiting

vars == <<agents, inviting, prev, next, pc, this, waiting>>

Init ==
  /\ agents = <<>> /\ inviting = {}
  /\ prev = [x \in Node |-> NULL] /\ next = [x \in Node |-> NULL]
  /\ pc = "idle" /\ this = NULL /\ waiting = 0

Enters(loop, a) == pc' = loop /\ this' = a

Returns == pc' = "idle" /\ this' = NULL

-----------------------------------------------------------------------------
(* The operations, up to their loops.                                      *)

\* CSAgentMgr::insert calls head.insert, which links the new agent behind head.
insert(id, n) ==
  LET a == id.uin
      first == next[HEAD]
      back == [prev EXCEPT ![a] = HEAD]
  IN  /\ pc = "idle" /\ a \notin DOMAIN agents
      /\ agents' = [b \in DOMAIN agents \cup {a} |->
                      IF b = a
                      THEN [mp |-> id.mp, capacity |-> n, load |-> 0, state |-> "AVAILABLE", cvs |-> {}]
                      ELSE agents[b]]
      /\ next' = [next EXCEPT ![a] = first, ![HEAD] = a]
      /\ prev' = IF first = NULL THEN back ELSE [back EXCEPT ![first] = a]
      /\ Enters("tail", a)
      /\ UNCHANGED <<inviting, waiting>>

\* Slip: the pointer back of the agent behind is left as it is.
eraseHalf(a) ==
  /\ pc = "idle" /\ ~(agents[a].load > 0)
  /\ agents' = [b \in DOMAIN agents \ {a} |-> agents[b]]
  /\ next' = [next EXCEPT ![prev[a]] = next[a], ![a] = NULL]
  /\ prev' = [prev EXCEPT ![a] = NULL]
  /\ UNCHANGED <<inviting, pc, this, waiting>>

\* CSAgentMgr::erase and AGENT::erase, which does nothing to an agent that is not linked.
erase(a) ==
  LET back == IF next[a] = NULL THEN prev ELSE [prev EXCEPT ![next[a]] = prev[a]]
  IN  /\ pc = "idle" /\ ~(agents[a].load > 0)
      /\ agents' = [b \in DOMAIN agents \ {a} |-> agents[b]]
      /\ IF prev[a] = NULL
         THEN UNCHANGED <<prev, next>>
         ELSE /\ next' = [next EXCEPT ![prev[a]] = next[a], ![a] = NULL]
              /\ prev' = [back EXCEPT ![a] = NULL]
      /\ UNCHANGED <<inviting, pc, this, waiting>>

add_conversation(a, c) ==
  /\ pc = "idle" /\ c \notin agents[a].cvs
  /\ agents' = [agents EXCEPT ![a] = Holding(@, @.cvs \cup {c}, @.load + 1)]
  /\ Enters("tail", a)
  /\ UNCHANGED <<inviting, prev, next, waiting>>

remove_conversation(a, c) ==
  /\ pc = "idle" /\ c \in agents[a].cvs
  /\ agents' = [agents EXCEPT ![a] = Holding(@, @.cvs \ {c}, @.load - 1)]
  /\ Enters("head", a)
  /\ UNCHANGED <<inviting, prev, next, waiting>>

\* accept and refuse.
answer(a, state) ==
  /\ pc = "idle" /\ a \in inviting
  /\ inviting' = inviting \ {a}
  /\ agents' = [agents EXCEPT ![a].state = state]
  /\ UNCHANGED <<prev, next, pc, this, waiting>>

-----------------------------------------------------------------------------
(* The loops.                                                              *)

\* Is there an agent behind that does not outrank it?
PassesNext ==
  LET n == next[this]
  IN  n # NULL /\ ~Outranks(agents[n], agents[this])

\* The agent changes places with the one behind it, up to the first that outranks it.
order_to_tail ==
  LET n == next[this]
      p == prev[this]
      back == [prev EXCEPT ![n] = p, ![this] = n]
  IN  /\ pc = "tail"
      /\ \/ /\ ~PassesNext
            /\ Returns
            /\ UNCHANGED <<prev, next>>
         \/ /\ PassesNext
            /\ next' = [next EXCEPT ![p] = n, ![this] = next[n], ![n] = this]
            /\ prev' = IF next[n] = NULL THEN back ELSE [back EXCEPT ![next[n]] = this]
            /\ UNCHANGED <<pc, this>>
      /\ UNCHANGED <<agents, inviting, waiting>>

\* The test of order_to_head fails: it goes through the body of its loop.
PassesPrevious ==
  LET p == prev[this]
  IN  prev[p] # NULL /\ ~Outranks(agents[this], agents[p])

\* Assignment by assignment.  The third, agent_ptr->prev->next = this, finds in
\* agent_ptr->prev what the second has just put there.
order_to_head ==
  LET p == prev[this]
      back == [prev EXCEPT ![this] = prev[p], ![p] = this]
      on == [next EXCEPT ![back[p]] = this]
      over == [on EXCEPT ![p] = on[this]]
      past == [over EXCEPT ![this] = p]
  IN  /\ pc = "head"
      /\ \/ /\ ~PassesPrevious
            /\ Returns
            /\ UNCHANGED <<prev, next>>
         \/ /\ PassesPrevious
            /\ next' = past
            /\ prev' = IF past[p] = NULL THEN back ELSE [back EXCEPT ![past[p]] = p]
            /\ UNCHANGED <<pc, this>>
      /\ UNCHANGED <<agents, inviting, waiting>>

\* QUEUE::do_invite with n users in the line.
do_invite(n) ==
  /\ pc = "idle"
  /\ waiting' = n
  /\ Enters("invite", HEAD)
  /\ UNCHANGED <<agents, inviting, prev, next>>

is_strong_aval(a) == agents[a].capacity > agents[a].load /\ agents[a].state = "AVAILABLE"

\* Slip: the walk goes on whether or not enough are invited.
inviteAll ==
  LET a == next[this]
  IN  /\ pc = "invite"
      /\ \/ /\ a = NULL
            /\ Returns
            /\ waiting' = 0
            /\ UNCHANGED <<agents, inviting>>
         \/ /\ a # NULL
            /\ this' = a
            /\ IF is_strong_aval(a) /\ a \notin inviting
               THEN /\ inviting' = inviting \cup {a}
                    /\ agents' = [agents EXCEPT ![a].state = "INVITING"]
               ELSE UNCHANGED <<agents, inviting>>
            /\ UNCHANGED <<pc, waiting>>
      /\ UNCHANGED <<prev, next>>

\* Its loop and that of CSAgentMgr::invite, which the first calls: one agent further.
invite ==
  LET a == next[this]
  IN  /\ pc = "invite"
      /\ \/ /\ Cardinality(inviting) >= waiting \/ a = NULL
            /\ Returns
            /\ waiting' = 0
            /\ UNCHANGED <<agents, inviting>>
         \/ /\ Cardinality(inviting) < waiting /\ a # NULL
            /\ this' = a
            /\ IF is_strong_aval(a) /\ a \notin inviting
               THEN /\ inviting' = inviting \cup {a}
                    /\ agents' = [agents EXCEPT ![a].state = "INVITING"]
               ELSE UNCHANGED <<agents, inviting>>
            /\ UNCHANGED <<pc, waiting>>
      /\ UNCHANGED <<prev, next>>

Next ==
  \/ \E id \in Umid, n \in Capacities : insert(id, n)
  \/ \E a \in DOMAIN agents :
       \/ erase(a)
       \/ \E c \in Cvs : add_conversation(a, c) \/ remove_conversation(a, c)
       \/ \E state \in {"AVAILABLE", "REFUSE"} : answer(a, state)
  \/ order_to_tail
  \/ order_to_head
  \/ \E n \in 0 .. MaxWaiting : do_invite(n)
  \/ invite

Spec == Init /\ [][Next]_vars

-----------------------------------------------------------------------------
(* Properties.                                                             *)

\* Is order_to_head in the loop it never leaves?
Hung == pc = "head" /\ PassesPrevious

\* Whom a walk along the pointers `on` meets, and the list of so many agents as a sequence.
Walk(on) ==
  LET at[i \in Nat] == IF i = 0 THEN HEAD ELSE IF at[i - 1] = NULL THEN NULL ELSE on[at[i - 1]]
  IN  at

List(n, on) ==
  LET at == Walk(on)
  IN  [i \in 1 .. n |-> at[i]]

Order == IF Hung THEN <<>> ELSE List(Cardinality(DOMAIN agents), next)

\* Who stands at place i of the list s.
Stands(s, i) == IF i = 0 THEN HEAD ELSE IF i > Len(s) THEN NULL ELSE s[i]

\* Pointers `on` and `back` link the agents of S in the order s.
Spell(s, S, on, back) ==
  /\ \A i \in 0 .. Len(s) : on[Stands(s, i)] = Stands(s, i + 1)
  /\ \A i \in 1 .. Len(s) : back[s[i]] = Stands(s, i - 1)
  /\ back[HEAD] = NULL
  /\ \A i \in 1 .. Len(s) : s[i] \in S
  /\ \A a \in S : \E i \in 1 .. Len(s) : s[i] = a
  /\ \A i, j \in 1 .. Len(s) : s[i] = s[j] => i = j

\* Both ways the pointers link every present agent once and nobody else, before and
\* after every round of every loop, unless order_to_head has passed an agent (Agent.h:51,
\* Agent.h:76, Agent.cpp:41: a pointer to an agent that is gone would be read by the next walk).
Linked == Hung \/ Spell(Order, DOMAIN agents, next, prev)

\* The manager as AgentMgr has it, in the middle of a loop as well.
Manager == [agents |-> agents, order |-> Order, inviting |-> inviting]

\* What the loop that is running will have made of it when it ends.
Completed ==
  CASE pc = "tail" -> [Manager EXCEPT !.order = OrderToTail(agents, Order, this)]
    [] pc = "invite" -> DoInvite(Manager, waiting)
    [] OTHER -> Manager

Pool == INSTANCE AgentPool WITH mgr <- Completed, hung <- Hung

\* Each operation of the linked list does what AgentMgr says of sequences: an insertion
\* and a new conversation move one agent past those that do not outrank it, an invitation
\* reaches the first that are free, whatever the loops do in between (Agent.h:51,
\* CSAgentMgr.cpp:145, Queue.cpp:258).
ImplementsPool == Pool!Spec

=============================================================================
