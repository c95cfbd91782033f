------------------------------ MODULE AgentPool ------------------------------
(***************************************************************************)
(* What CSAgentMgr promises the queue that calls it: each of its           *)
(* operations takes one step, which is the operator AgentMgr has for it.   *)
(* The list of agents is a sequence here, and nothing is said of links.    *)
(*                                                                         *)
(* When the operation that takes a conversation from an agent does not     *)
(* return there is no list any more, and nothing happens any more.         *)
(***************************************************************************)
EXTENDS AgentMgr

CONSTANTS
  Capacities, \* the capacities agents announce
  Cvs,        \* the ids conversations have
  MaxWaiting  \* bound: the users that wait when agents are invited

VARIABLES
  mgr,  \* the manager, as in AgentMgr
  hung  \* has an operation been called that does not return?

pool == <<mgr, hung>>

Init == mgr = Empty /\ hung = FALSE

Arrive(id, n) ==
  /\ id.uin \notin DOMAIN mgr.agents
  /\ mgr' = Insert(mgr, id, n)
  /\ UNCHANGED hung

Leave(a) ==
  /\ mgr' = Erase(mgr, a)
  /\ UNCHANGED hung

TakeOn(a, c) ==
  /\ mgr' = AddConversation(mgr, a, c)
  /\ UNCHANGED hung

GiveUp(a, c) ==
  \/ /\ ~Hangs(mgr, a, c)
     /\ mgr' = RemoveConversation(mgr, a, c)
     /\ UNCHANGED hung
  \/ /\ Hangs(mgr, a, c)
     /\ mgr' = [RemoveConversation(mgr, a, c) EXCEPT !.order = <<>>]
     /\ hung' = TRUE

Answer(a) ==
  /\ a \in mgr.inviting
  /\ mgr' = Accept(mgr, a) \/ mgr' = Refuse(mgr, a)
  /\ UNCHANGED hung

Call(n) ==
  /\ mgr' = DoInvite(mgr, n)
  /\ UNCHANGED hung

Next ==
  /\ ~hung
  /\ \/ \E id \in Umid, n \in Capacities : Arrive(id, n)
     \/ \E a \in DOMAIN mgr.agents :
          Leave(a) \/ Answer(a) \/ \E c \in Cvs : TakeOn(a, c) \/ GiveUp(a, c)
     \/ \E n \in 0 .. MaxWaiting : Call(n)

Spec == Init /\ [][Next]_pool

=============================================================================
