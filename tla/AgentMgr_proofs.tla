--------------------------- MODULE AgentMgr_proofs ---------------------------
(***************************************************************************)
(* What the operations of CSAgentMgr preserve, for every manager and every *)
(* agent: lemmas about the operators of AgentMgr, which the proofs about   *)
(* CSQueue cite.                                                           *)
(***************************************************************************)
EXTENDS AgentMgr, FiniteSetTheorems, WellFoundedInduction, TLAPS

-----------------------------------------------------------------------------
(* Numbers.                                                                *)

\* A nonempty set of natural numbers has a least element.
LEMMA LeastNat ==
  ASSUME NEW T, T \subseteq Nat, T # {}
  PROVE  \E x \in T : \A y \in T : x <= y
<1> DEFINE R == OpToRel(<, Nat)
<1>1. \E x \in T : \A y \in T : ~(<<y, x>> \in R)
  <2> HIDE DEF R
  <2>1. IsWellFoundedOn(R, Nat)
    BY NatLessThanWellFounded DEF R
  <2> QED
    BY <2>1, WFMin
<1>2. PICK x \in T : \A y \in T : ~(<<y, x>> \in R)
  BY <1>1
<1>3. ASSUME NEW y \in T PROVE x <= y
  <2>1. <<y, x>> \in Nat \X Nat /\ <<y, x>>[1] = y /\ <<y, x>>[2] = x
    BY SMT
  <2>2. ASSUME y < x PROVE <<y, x>> \in R
    BY <2>1, <2>2, Zenon DEF OpToRel
  <2>3. ~(y < x)
    BY <1>2, <2>2, Zenon
  <2> HIDE DEF R
  <2> QED
    BY <2>3, SMT
<1> QED
  BY <1>3

-----------------------------------------------------------------------------
\* What every operation preserves, order_to_head's endless loop included.
ManagerOK(m) ==
  /\ ManagerType(m)
  /\ ListsEachOnce(m)
  /\ LoadCounts(m)
  /\ InvitationsRecorded(m)

\* The links, as a sequence: each agent of S once, and nobody else.
Links(order, S) ==
  /\ order \in Seq(S)
  /\ \A a \in S : \E i \in DOMAIN order : order[i] = a
  /\ \A i, j \in DOMAIN order : order[i] = order[j] => i = j

-----------------------------------------------------------------------------
\* An agent of the list has one place in it.
LEMMA PlaceIsPlace ==
  ASSUME NEW S, NEW order, Links(order, S), NEW a \in S
  PROVE  /\ Place(order, a) \in 1 .. Len(order)
         /\ order[Place(order, a)] = a
         /\ \A i \in 1 .. Len(order) : order[i] = a => i = Place(order, a)
<1>1. DOMAIN order = 1 .. Len(order)
  BY SMT DEF Links
<1>2. \E i \in DOMAIN order : order[i] = a
  BY DEF Links
<1>3. Place(order, a) \in DOMAIN order /\ order[Place(order, a)] = a
  BY <1>2, Zenon DEF Place
<1> QED
  BY <1>1, <1>3, SMT DEF Links

\* Where order_to_tail stops, and what it passes on the way.
LEMMA TailPlaceStops ==
  ASSUME NEW S, NEW order, Links(order, S), NEW a \in S, NEW agents
  PROVE  LET q == TailPlace(agents, order, a)
         IN  /\ q \in Place(order, a) .. Len(order)
             /\ q < Len(order) => Outranks(agents[order[q + 1]], agents[a])
             /\ \A i \in Place(order, a) + 1 .. q : ~Outranks(agents[order[i]], agents[a])
<1> DEFINE p == Place(order, a)
           n == Len(order)
           Stops(q) == q < n => Outranks(agents[order[q + 1]], agents[a])
           Passes(q) == \A i \in p + 1 .. q : ~Outranks(agents[order[i]], agents[a])
           T == {q \in p .. n : Stops(q)}
<1>1. p \in 1 .. n /\ n \in Nat
  BY PlaceIsPlace, SMT DEF Links
<1> HIDE DEF p, n
<1>2. T \subseteq Nat /\ n \in T
  BY <1>1, SMT
<1>3. PICK q \in T : \A r \in T : q <= r
  BY <1>2, LeastNat
<1>4. ASSUME NEW i \in p + 1 .. q PROVE ~Outranks(agents[order[i]], agents[a])
  <2>1. i - 1 \in p .. n /\ i - 1 < q /\ i - 1 < n /\ (i - 1) + 1 = i
    BY <1>1, <1>3, SMT
  <2>2. i - 1 \notin T
    BY <2>1, <1>1, <1>2, <1>3, SMT
  <2>3. ~Stops(i - 1)
    BY <2>1, <2>2
  <2> QED
    BY <2>1, <2>3
<1>5. q \in p .. n /\ Stops(q) /\ Passes(q)
  BY <1>3, <1>4
<1>6. TailPlace(agents, order, a) = CHOOSE r \in p .. n : Stops(r) /\ Passes(r)
  BY Zenon DEF TailPlace, p, n
<1> DEFINE t == TailPlace(agents, order, a)
<1>7. t \in p .. n /\ Stops(t) /\ Passes(t)
  <2> HIDE DEF Stops, Passes
  <2> QED
    BY <1>5, <1>6, Zenon
<1> QED
  BY <1>7 DEF p, n

\* order_to_tail moves one agent within the list and loses none.
LEMMA OrderToTailLinks ==
  ASSUME NEW S, NEW order, Links(order, S), NEW a \in S, NEW agents
  PROVE  Links(OrderToTail(agents, order, a), S)
<1> DEFINE p == Place(order, a)
           q == TailPlace(agents, order, a)
           n == Len(order)
           new == OrderToTail(agents, order, a)
<1>1. order \in [1 .. n -> S] /\ n \in Nat
  BY SMT DEF Links
<1>2. p \in 1 .. n /\ order[p] = a /\ q \in p .. n
  BY PlaceIsPlace, TailPlaceStops
<1>3. new = [i \in 1 .. n |->
               IF i < p \/ i > q THEN order[i] ELSE IF i = q THEN a ELSE order[i + 1]]
  BY Zenon DEF OrderToTail
<1>4. \A b \in S : \E i \in 1 .. n : order[i] = b
  BY <1>1, SMT DEF Links
<1>5. \A i, j \in 1 .. n : order[i] = order[j] => i = j
  BY <1>1, SMT DEF Links
<1> HIDE DEF p, q, n, new
<1>6. new \in [1 .. n -> S]
  BY <1>1, <1>2, <1>3, SMT
<1>7. new \in Seq(S) /\ DOMAIN new = 1 .. n
  BY <1>1, <1>6, SMT
<1>8. ASSUME NEW b \in S PROVE \E i \in 1 .. n : new[i] = b
  <2>1. PICK i \in 1 .. n : order[i] = b
    BY <1>4
  <2>2. CASE i < p \/ i > q
    BY <1>3, <2>1, <2>2, SMT
  <2>3. CASE i = p
    <3>1. new[q] = a
      BY <1>1, <1>2, <1>3, SMT
    <3> QED
      BY <1>1, <1>2, <2>1, <2>3, <3>1, SMT
  <2>4. CASE i > p /\ i <= q
    <3>1. i - 1 \in 1 .. n /\ ~(i - 1 < p) /\ ~(i - 1 > q) /\ i - 1 # q /\ (i - 1) + 1 = i
      BY <1>1, <1>2, <2>1, <2>4, SMT
    <3>2. new[i - 1] = order[i]
      BY <1>3, <3>1, SMT
    <3> QED
      BY <2>1, <3>1, <3>2
  <2> QED
    BY <1>1, <1>2, <2>1, <2>2, <2>3, <2>4, SMT
<1>9. ASSUME NEW i \in 1 .. n, NEW j \in 1 .. n, new[i] = new[j] PROVE i = j
  <2> DEFINE from(k) == IF k < p \/ k > q THEN k ELSE IF k = q THEN p ELSE k + 1
  <2>1. ASSUME NEW k \in 1 .. n PROVE new[k] = order[from(k)] /\ from(k) \in 1 .. n
    BY <1>1, <1>2, <1>3, SMT
  <2>2. order[from(i)] = order[from(j)] /\ from(i) \in 1 .. n /\ from(j) \in 1 .. n
    BY <1>9, <2>1
  <2>3. from(i) = from(j)
    BY <1>5, <2>2
  <2> QED
    BY <1>1, <1>2, <2>3, SMT
<1> QED
  BY <1>7, <1>8, <1>9 DEF Links, new

\* A new agent at the head of the list is a list of one agent more.
LEMMA ConsLinks ==
  ASSUME NEW S, NEW order, Links(order, S), NEW a, a \notin S
  PROVE  Links(<<a>> \o order, S \cup {a})
<1> DEFINE n == Len(order)
           new == <<a>> \o order
<1>1. order \in [1 .. n -> S] /\ n \in Nat
  BY SMT DEF Links
<1>2. new \in Seq(S \cup {a}) /\ DOMAIN new = 1 .. n + 1 /\ new[1] = a
  BY <1>1, SMT DEF Links
<1>3. \A i \in 2 .. n + 1 : new[i] = order[i - 1] /\ i - 1 \in 1 .. n
  BY <1>1, SMT DEF Links
<1>4. \A b \in S : \E i \in 1 .. n : order[i] = b
  BY <1>1, SMT DEF Links
<1>5. \A i, j \in 1 .. n : order[i] = order[j] => i = j
  BY <1>1, SMT DEF Links
<1> HIDE DEF n, new
<1>6. ASSUME NEW b \in S \cup {a} PROVE \E i \in DOMAIN new : new[i] = b
  <2>1. CASE b = a
    BY <1>1, <1>2, <2>1, SMT
  <2>2. CASE b \in S
    <3>1. PICK i \in 1 .. n : order[i] = b
      BY <1>4, <2>2
    <3>2. i + 1 \in 2 .. n + 1 /\ (i + 1) - 1 = i /\ i + 1 \in 1 .. n + 1
      BY <1>1, SMT
    <3>3. new[i + 1] = b
      BY <1>3, <3>1, <3>2, SMT
    <3> QED
      BY <1>2, <3>2, <3>3
  <2> QED
    BY <2>1, <2>2
<1>7. ASSUME NEW i \in 1 .. n + 1, NEW j \in 1 .. n + 1, new[i] = new[j] PROVE i = j
  <2>1. \A k \in 2 .. n + 1 : new[k] # a
    BY <1>1, <1>3, SMT
  <2>2. CASE i = 1 \/ j = 1
    BY <1>1, <1>2, <1>7, <2>1, <2>2, SMT
  <2>3. CASE i # 1 /\ j # 1
    <3>1. i \in 2 .. n + 1 /\ j \in 2 .. n + 1
      BY <1>1, <2>3, SMT
    <3>2. order[i - 1] = order[j - 1] /\ i - 1 \in 1 .. n /\ j - 1 \in 1 .. n
      BY <1>3, <1>7, <3>1, Zenon
    <3>3. i - 1 = j - 1
      BY <1>5, <3>2, Zenon
    <3> QED
      BY <1>1, <3>1, <3>3, SMT
  <2> QED
    BY <2>2, <2>3
<1> QED
  BY <1>2, <1>6, <1>7 DEF Links, new

\* AGENT::erase takes one agent out of the list and leaves the others.
LEMMA WithoutLinks ==
  ASSUME NEW S, NEW order, Links(order, S), NEW a \in S
  PROVE  Links(Without(order, a), S \ {a})
<1> DEFINE p == Place(order, a)
           n == Len(order)
           new == Without(order, a)
<1>1. order \in [1 .. n -> S] /\ n \in Nat
  BY SMT DEF Links
<1>2. p \in 1 .. n /\ order[p] = a /\ \A i \in 1 .. n : order[i] = a => i = p
  BY PlaceIsPlace
<1>3. new = [i \in 1 .. n - 1 |-> IF i < p THEN order[i] ELSE order[i + 1]]
  BY Zenon DEF Without
<1>4. \A b \in S : \E i \in 1 .. n : order[i] = b
  BY <1>1, SMT DEF Links
<1>5. \A i, j \in 1 .. n : order[i] = order[j] => i = j
  BY <1>1, SMT DEF Links
<1> HIDE DEF p, n, new
<1>6. new \in [1 .. n - 1 -> S \ {a}]
  BY <1>1, <1>2, <1>3, SMT
<1>7. new \in Seq(S \ {a}) /\ DOMAIN new = 1 .. n - 1
  BY <1>1, <1>2, <1>6, SMT
<1>8. ASSUME NEW b \in S \ {a} PROVE \E i \in 1 .. n - 1 : new[i] = b
  <2>1. PICK i \in 1 .. n : order[i] = b
    BY <1>4
  <2>2. CASE i < p
    BY <1>1, <1>2, <1>3, <2>1, <2>2, SMT
  <2>3. CASE i > p
    <3>1. i - 1 \in 1 .. n - 1 /\ ~(i - 1 < p) /\ (i - 1) + 1 = i
      BY <1>1, <1>2, <2>1, <2>3, SMT
    <3>2. new[i - 1] = order[i]
      BY <1>3, <3>1, SMT
    <3> QED
      BY <2>1, <3>1, <3>2
  <2> QED
    BY <1>1, <1>2, <2>1, <2>2, <2>3, SMT
<1>9. ASSUME NEW i \in 1 .. n - 1, NEW j \in 1 .. n - 1, new[i] = new[j] PROVE i = j
  BY <1>1, <1>2, <1>3, <1>5, <1>9, SMT
<1> QED
  BY <1>7, <1>8, <1>9 DEF Links, new

-----------------------------------------------------------------------------
\* The agents of n are those of m, and hold at least what they held.
Keeps(m, n) ==
  /\ DOMAIN n.agents = DOMAIN m.agents
  /\ \A b \in DOMAIN m.agents : m.agents[b].cvs \subseteq n.agents[b].cvs

\* Updates of two fields at once, in the form the provers can use.
LEMMA UpdateAgentsAndOrder ==
  ASSUME NEW m, m = [agents |-> m.agents, order |-> m.order, inviting |-> m.inviting],
         NEW x, NEW y
  PROVE  [m EXCEPT !.agents = x, !.order = y]
           = [agents |-> x, order |-> y, inviting |-> m.inviting]
<1> DEFINE n == [m EXCEPT !.agents = x]
<1>1. n = [agents |-> x, order |-> m.order, inviting |-> m.inviting]
  BY SMT
<1> HIDE DEF n
<1>2. [n EXCEPT !.order = y] = [agents |-> x, order |-> y, inviting |-> m.inviting]
  BY <1>1, SMT
<1> QED
  BY <1>2 DEF n

\* Two fields updated at once are a manager with those fields.
LEMMA UpdateAgentsAndInviting ==
  ASSUME NEW m, m = [agents |-> m.agents, order |-> m.order, inviting |-> m.inviting],
         NEW x, NEW y
  PROVE  [m EXCEPT !.agents = x, !.inviting = y]
           = [agents |-> x, order |-> m.order, inviting |-> y]
<1> DEFINE n == [m EXCEPT !.agents = x]
<1>1. n = [agents |-> x, order |-> m.order, inviting |-> m.inviting]
  BY SMT
<1> HIDE DEF n
<1>2. [n EXCEPT !.inviting = y] = [agents |-> x, order |-> m.order, inviting |-> y]
  BY <1>1, SMT
<1> QED
  BY <1>2 DEF n

\* An agent stays one when its set of conversations changes.
LEMMA HoldingAgent ==
  ASSUME NEW x \in Agent, NEW S \in SUBSET Nat, NEW n \in Nat
  PROVE  /\ Holding(x, S, n) \in Agent
         /\ Holding(x, S, n).cvs = S
         /\ Holding(x, S, n).load = n
         /\ Holding(x, S, n).state = x.state
<1> DEFINE y == [x EXCEPT !.cvs = S]
<1>1. y \in Agent /\ y.cvs = S /\ y.state = x.state
  BY SMT DEF Agent
<1> HIDE DEF y
<1>2. /\ [y EXCEPT !.load = n] \in Agent
      /\ [y EXCEPT !.load = n].cvs = S
      /\ [y EXCEPT !.load = n].load = n
      /\ [y EXCEPT !.load = n].state = x.state
  BY <1>1, SMT DEF Agent
<1> QED
  BY <1>2 DEF Holding, y

\* The two directions between a manager and its links.
LEMMA ManagerLinks ==
  ASSUME NEW m, ManagerOK(m)
  PROVE  Links(m.order, DOMAIN m.agents)
<1>1. m.order \in [1 .. Len(m.order) -> Uin] /\ Len(m.order) \in Nat
  BY SMT DEF ManagerOK, ManagerType
<1>2. m.order \in [1 .. Len(m.order) -> DOMAIN m.agents]
  BY <1>1, SMT DEF ManagerOK, ListsEachOnce
<1>3. m.order \in Seq(DOMAIN m.agents)
  BY <1>1, <1>2, SMT
<1> QED
  BY <1>3 DEF ManagerOK, ListsEachOnce, Links

\* A manager is OK if its list is linked and its agents are.
LEMMA LinkedManager ==
  ASSUME NEW agents, NEW order, NEW inviting,
         DOMAIN agents \subseteq Uin, agents \in [DOMAIN agents -> Agent],
         Links(order, DOMAIN agents), inviting \subseteq Uin,
         \A a \in DOMAIN agents :
           /\ IsFiniteSet(agents[a].cvs)
           /\ agents[a].load = Cardinality(agents[a].cvs)
           /\ agents[a].state = "INVITING" => a \in inviting
  PROVE  ManagerOK([agents |-> agents, order |-> order, inviting |-> inviting])
<1> DEFINE m == [agents |-> agents, order |-> order, inviting |-> inviting]
<1>1. m.agents = agents /\ m.order = order /\ m.inviting = inviting
  OBVIOUS
<1>2. order \in [1 .. Len(order) -> DOMAIN agents] /\ Len(order) \in Nat
  BY SMT DEF Links
<1>3. order \in Seq(Uin)
  BY <1>2, SMT
<1>4. m = [agents |-> m.agents, order |-> m.order, inviting |-> m.inviting]
  BY <1>1
<1> HIDE DEF m
<1>5. ManagerType(m)
  BY <1>1, <1>3, <1>4 DEF ManagerType
<1>6. ListsEachOnce(m)
  BY <1>1, <1>2, SMT DEF ListsEachOnce, Links
<1>7. LoadCounts(m) /\ InvitationsRecorded(m)
  BY <1>1 DEF LoadCounts, InvitationsRecorded
<1> QED
  BY <1>5, <1>6, <1>7 DEF ManagerOK, m

\* The manager nobody has signed on to.
LEMMA EmptyOK == ManagerOK(Empty)
<1>1. Links(<<>>, DOMAIN <<>>)
  BY SMT DEF Links
<1>2. DOMAIN <<>> = {} /\ <<>> \in [DOMAIN <<>> -> Agent]
  BY SMT
<1>3. ManagerOK([agents |-> <<>>, order |-> <<>>, inviting |-> {}])
  BY <1>1, <1>2, LinkedManager
<1> QED
  BY <1>3 DEF Empty

\* add_conversation gives the agent the conversation and takes none from anybody.
LEMMA AddConversationOK ==
  ASSUME NEW m, ManagerOK(m), NEW a \in DOMAIN m.agents, NEW c \in Nat
  PROVE  /\ ManagerOK(AddConversation(m, a, c))
         /\ Keeps(m, AddConversation(m, a, c))
         /\ c \in AddConversation(m, a, c).agents[a].cvs
<1> DEFINE n == AddConversation(m, a, c)
           agents == [m.agents EXCEPT ![a] = Holding(@, @.cvs \cup {c}, @.load + 1)]
           order == OrderToTail(agents, m.order, a)
<1>1. CASE c \in m.agents[a].cvs
  BY <1>1 DEF AddConversation, Keeps
<1>2. CASE c \notin m.agents[a].cvs
  <2>1. n = [m EXCEPT !.agents = agents, !.order = order]
    BY <1>2 DEF AddConversation
  <2>2. n = [agents |-> agents, order |-> order, inviting |-> m.inviting]
    BY <2>1, UpdateAgentsAndOrder DEF ManagerOK, ManagerType
  <2>3. Links(order, DOMAIN m.agents)
    BY ManagerLinks, OrderToTailLinks
  <2>4. /\ agents \in [DOMAIN m.agents -> Agent]
        /\ agents[a].cvs = m.agents[a].cvs \cup {c}
        /\ agents[a].load = m.agents[a].load + 1
        /\ agents[a].state = m.agents[a].state
        /\ \A b \in DOMAIN m.agents : b # a => agents[b] = m.agents[b]
    <3>1. m.agents \in [DOMAIN m.agents -> Agent]
      BY DEF ManagerOK, ManagerType
    <3> DEFINE S == m.agents[a].cvs \cup {c}
               k == m.agents[a].load + 1
    <3>2. S \in SUBSET Nat /\ k \in Nat
      BY <3>1, SMT DEF Agent
    <3>3. Holding(m.agents[a], S, k) \in Agent
      BY <3>1, <3>2, HoldingAgent
    <3>4. /\ Holding(m.agents[a], S, k).cvs = S
          /\ Holding(m.agents[a], S, k).load = k
          /\ Holding(m.agents[a], S, k).state = m.agents[a].state
      BY <3>1, <3>2, HoldingAgent
    <3>5. agents = [m.agents EXCEPT ![a] = Holding(m.agents[a], S, k)]
      OBVIOUS
    <3> QED
      BY <3>1, <3>3, <3>4, <3>5
  <2> HIDE DEF agents, order, n
  <2>5. /\ IsFiniteSet(m.agents[a].cvs \cup {c})
        /\ Cardinality(m.agents[a].cvs \cup {c}) = Cardinality(m.agents[a].cvs) + 1
    BY <1>2, FS_AddElement DEF ManagerOK, LoadCounts
  <2>6. \A b \in DOMAIN m.agents :
          /\ IsFiniteSet(agents[b].cvs)
          /\ agents[b].load = Cardinality(agents[b].cvs)
          /\ agents[b].state = "INVITING" => b \in m.inviting
    BY <2>4, <2>5 DEF ManagerOK, LoadCounts, InvitationsRecorded
  <2>7. DOMAIN agents = DOMAIN m.agents
    BY <2>4
  <2>8. DOMAIN agents \subseteq Uin /\ m.inviting \subseteq Uin
    BY <2>7 DEF ManagerOK, ManagerType
  <2>9. ManagerOK([agents |-> agents, order |-> order, inviting |-> m.inviting])
    BY <2>3, <2>4, <2>6, <2>7, <2>8, LinkedManager
  <2>10. n.agents = agents
    BY <2>2
  <2>11. Keeps(m, n) /\ c \in n.agents[a].cvs
    BY <2>4, <2>7, <2>10 DEF Keeps
  <2> QED
    BY <2>2, <2>9, <2>11 DEF n
<1> QED
  BY <1>1, <1>2

\* remove_conversation takes that conversation from that agent, and no other.
LEMMA RemoveConversationOK ==
  ASSUME NEW m, ManagerOK(m), NEW a \in DOMAIN m.agents, NEW c \in Nat
  PROVE  /\ ManagerOK(RemoveConversation(m, a, c))
         /\ DOMAIN RemoveConversation(m, a, c).agents = DOMAIN m.agents
         /\ \A b \in DOMAIN m.agents :
              m.agents[b].cvs \ {c} \subseteq RemoveConversation(m, a, c).agents[b].cvs
<1> DEFINE n == RemoveConversation(m, a, c)
           agents == [m.agents EXCEPT ![a] = Holding(@, @.cvs \ {c}, @.load - 1)]
<1>1. CASE c \notin m.agents[a].cvs
  BY <1>1 DEF RemoveConversation
<1>2. CASE c \in m.agents[a].cvs
  <2>1. n = [m EXCEPT !.agents = agents]
    BY <1>2 DEF RemoveConversation
  <2>2. n = [agents |-> agents, order |-> m.order, inviting |-> m.inviting]
    <3> HIDE DEF agents
    <3> QED
      BY <2>1, SMT DEF ManagerOK, ManagerType
  <2>3. /\ IsFiniteSet(m.agents[a].cvs \ {c})
        /\ Cardinality(m.agents[a].cvs \ {c}) = Cardinality(m.agents[a].cvs) - 1
        /\ Cardinality(m.agents[a].cvs \ {c}) \in Nat
        /\ m.agents[a].load = Cardinality(m.agents[a].cvs)
    BY <1>2, FS_RemoveElement, FS_CardinalityType DEF ManagerOK, LoadCounts
  <2>4. /\ agents \in [DOMAIN m.agents -> Agent]
        /\ agents[a].cvs = m.agents[a].cvs \ {c}
        /\ agents[a].load = m.agents[a].load - 1
        /\ agents[a].state = m.agents[a].state
        /\ \A b \in DOMAIN m.agents : b # a => agents[b] = m.agents[b]
    <3>1. m.agents \in [DOMAIN m.agents -> Agent]
      BY DEF ManagerOK, ManagerType
    <3> DEFINE S == m.agents[a].cvs \ {c}
               k == m.agents[a].load - 1
    <3>2. S \in SUBSET Nat /\ k \in Nat
      BY <2>3, <3>1, SMT DEF Agent
    <3>3. Holding(m.agents[a], S, k) \in Agent
      BY <3>1, <3>2, HoldingAgent
    <3>4. /\ Holding(m.agents[a], S, k).cvs = S
          /\ Holding(m.agents[a], S, k).load = k
          /\ Holding(m.agents[a], S, k).state = m.agents[a].state
      BY <3>1, <3>2, HoldingAgent
    <3>5. agents = [m.agents EXCEPT ![a] = Holding(m.agents[a], S, k)]
      OBVIOUS
    <3> QED
      BY <3>1, <3>3, <3>4, <3>5
  <2> HIDE DEF agents, n
  <2>6. \A b \in DOMAIN m.agents :
          /\ IsFiniteSet(agents[b].cvs)
          /\ agents[b].load = Cardinality(agents[b].cvs)
          /\ agents[b].state = "INVITING" => b \in m.inviting
    BY <2>3, <2>4 DEF ManagerOK, LoadCounts, InvitationsRecorded
  <2>7. DOMAIN agents = DOMAIN m.agents
    BY <2>4
  <2>8. DOMAIN agents \subseteq Uin /\ m.inviting \subseteq Uin
    BY <2>7 DEF ManagerOK, ManagerType
  <2>9. ManagerOK([agents |-> agents, order |-> m.order, inviting |-> m.inviting])
    BY <2>4, <2>6, <2>7, <2>8, LinkedManager, ManagerLinks
  <2>10. n.agents = agents
    BY <2>2
  <2>11. \A b \in DOMAIN m.agents : m.agents[b].cvs \ {c} \subseteq n.agents[b].cvs
    BY <2>4, <2>10
  <2> QED
    BY <2>2, <2>7, <2>9, <2>10, <2>11 DEF n
<1> QED
  BY <1>1, <1>2

\* presence: the new agent has no conversation, and the others keep theirs.
LEMMA InsertOK ==
  ASSUME NEW m, ManagerOK(m), NEW id \in Umid, id.uin \notin DOMAIN m.agents, NEW n \in Nat
  PROVE  /\ ManagerOK(Insert(m, id, n))
         /\ DOMAIN m.agents \subseteq DOMAIN Insert(m, id, n).agents
         /\ \A b \in DOMAIN m.agents : Insert(m, id, n).agents[b] = m.agents[b]
<1> DEFINE u == id.uin
           new == [mp |-> id.mp, capacity |-> n, load |-> 0,
                   state |-> "AVAILABLE", cvs |-> {}]
           agents == [a \in DOMAIN m.agents \cup {u} |->
                        IF a = u THEN new ELSE m.agents[a]]
           order == OrderToTail(agents, <<u>> \o m.order, u)
<1>1. u \in Uin /\ u \notin DOMAIN m.agents /\ new \in Agent
  BY SMT DEF Umid, Agent, AgentState
<1>2. /\ DOMAIN m.agents \subseteq Uin /\ m.inviting \subseteq Uin
      /\ m.agents \in [DOMAIN m.agents -> Agent]
      /\ m = [agents |-> m.agents, order |-> m.order, inviting |-> m.inviting]
  BY DEF ManagerOK, ManagerType
<1>3. new.state = "AVAILABLE" /\ IsFiniteSet(new.cvs) /\ new.load = Cardinality(new.cvs)
  BY FS_EmptySet
<1>4. Insert(m, id, n) = [m EXCEPT !.agents = agents, !.order = order]
  BY DEF Insert
<1>5. Insert(m, id, n) = [agents |-> agents, order |-> order, inviting |-> m.inviting]
  <2> HIDE DEF agents, order
  <2> QED
    BY <1>2, <1>4, UpdateAgentsAndOrder
<1> HIDE DEF u, new
<1>6. /\ DOMAIN agents = DOMAIN m.agents \cup {u}
      /\ agents \in [DOMAIN agents -> Agent]
      /\ \A b \in DOMAIN m.agents : agents[b] = m.agents[b]
      /\ agents[u] = new
  BY <1>1, <1>2, SMT
<1> HIDE DEF agents
<1>7. Links(<<u>> \o m.order, DOMAIN agents)
  BY <1>1, <1>6, ManagerLinks, ConsLinks
<1>8. Links(order, DOMAIN agents)
  BY <1>6, <1>7, OrderToTailLinks
<1> HIDE DEF order
<1>9. \A a \in DOMAIN agents :
        /\ IsFiniteSet(agents[a].cvs)
        /\ agents[a].load = Cardinality(agents[a].cvs)
        /\ agents[a].state = "INVITING" => a \in m.inviting
  BY <1>3, <1>6 DEF ManagerOK, LoadCounts, InvitationsRecorded
<1>10. ManagerOK([agents |-> agents, order |-> order, inviting |-> m.inviting])
  BY <1>1, <1>2, <1>6, <1>8, <1>9, LinkedManager
<1>11. Insert(m, id, n).agents = agents
  BY <1>5
<1> QED
  BY <1>5, <1>6, <1>10, <1>11

\* absence, and the end of offline: an agent without conversations goes.
LEMMA EraseOK ==
  ASSUME NEW m, ManagerOK(m), NEW a \in DOMAIN m.agents
  PROVE  /\ ManagerOK(Erase(m, a))
         /\ \A b \in DOMAIN m.agents :
              m.agents[b].cvs # {} =>
                b \in DOMAIN Erase(m, a).agents /\ Erase(m, a).agents[b] = m.agents[b]
<1> DEFINE agents == [b \in DOMAIN m.agents \ {a} |-> m.agents[b]]
           order == Without(m.order, a)
<1>1. CASE m.agents[a].load > 0
  BY <1>1 DEF Erase
<1>2. CASE ~(m.agents[a].load > 0)
  <2>1. /\ DOMAIN m.agents \subseteq Uin /\ m.inviting \subseteq Uin
        /\ m.agents \in [DOMAIN m.agents -> Agent]
        /\ m = [agents |-> m.agents, order |-> m.order, inviting |-> m.inviting]
    BY DEF ManagerOK, ManagerType
  <2>2. m.agents[a].cvs = {}
    <3>1. m.agents[a].load \in Nat
      BY <2>1, SMT DEF Agent
    <3>2. m.agents[a].load = 0
      BY <1>2, <3>1, SMT
    <3> QED
      BY <3>2, FS_EmptySet DEF ManagerOK, LoadCounts
  <2>3. Erase(m, a) = [m EXCEPT !.agents = agents, !.order = order]
    BY <1>2 DEF Erase
  <2>4. Erase(m, a) = [agents |-> agents, order |-> order, inviting |-> m.inviting]
    <3> HIDE DEF agents, order
    <3> QED
      BY <2>1, <2>3, UpdateAgentsAndOrder
  <2>5. /\ DOMAIN agents = DOMAIN m.agents \ {a}
        /\ agents \in [DOMAIN agents -> Agent]
        /\ \A b \in DOMAIN agents : agents[b] = m.agents[b]
    BY <2>1, SMT
  <2> HIDE DEF agents
  <2>6. Links(order, DOMAIN agents)
    BY <2>5, ManagerLinks, WithoutLinks
  <2> HIDE DEF order
  <2>7. \A b \in DOMAIN agents :
          /\ IsFiniteSet(agents[b].cvs)
          /\ agents[b].load = Cardinality(agents[b].cvs)
          /\ agents[b].state = "INVITING" => b \in m.inviting
    BY <2>5 DEF ManagerOK, LoadCounts, InvitationsRecorded
  <2>8. ManagerOK([agents |-> agents, order |-> order, inviting |-> m.inviting])
    BY <2>1, <2>5, <2>6, <2>7, LinkedManager
  <2>9. Erase(m, a).agents = agents
    BY <2>4
  <2> QED
    BY <2>2, <2>4, <2>5, <2>8, <2>9
<1> QED
  BY <1>1, <1>2

\* accept and refuse: the invitation and the state go together.
LEMMA AnsweredOK ==
  ASSUME NEW m, ManagerOK(m), NEW a \in DOMAIN m.agents, NEW state \in {"AVAILABLE", "REFUSE"}
  PROVE  ManagerOK(Answered(m, a, state)) /\ Keeps(m, Answered(m, a, state))
<1> DEFINE agents == [m.agents EXCEPT ![a].state = state]
           inviting == m.inviting \ {a}
<1>1. /\ DOMAIN m.agents \subseteq Uin /\ m.inviting \subseteq Uin
      /\ m.agents \in [DOMAIN m.agents -> Agent]
      /\ m = [agents |-> m.agents, order |-> m.order, inviting |-> m.inviting]
  BY DEF ManagerOK, ManagerType
<1>2. Answered(m, a, state) = [m EXCEPT !.agents = agents, !.inviting = inviting]
  BY DEF Answered
<1>3. Answered(m, a, state) = [agents |-> agents, order |-> m.order, inviting |-> inviting]
  <2> HIDE DEF agents, inviting
  <2> QED
    BY <1>1, <1>2, UpdateAgentsAndInviting
<1>4. /\ DOMAIN agents = DOMAIN m.agents
      /\ agents \in [DOMAIN agents -> Agent]
      /\ agents[a].state = state
      /\ \A b \in DOMAIN agents : /\ agents[b].cvs = m.agents[b].cvs
                                  /\ agents[b].load = m.agents[b].load
                                  /\ b # a => agents[b].state = m.agents[b].state
  BY <1>1, SMT DEF Agent, AgentState
<1> HIDE DEF agents
<1>5. \A b \in DOMAIN agents :
        /\ IsFiniteSet(agents[b].cvs)
        /\ agents[b].load = Cardinality(agents[b].cvs)
        /\ agents[b].state = "INVITING" => b \in inviting
  BY <1>4 DEF ManagerOK, LoadCounts, InvitationsRecorded
<1>6. inviting \subseteq Uin
  BY <1>1
<1> HIDE DEF inviting
<1>7. ManagerOK([agents |-> agents, order |-> m.order, inviting |-> inviting])
  BY <1>1, <1>4, <1>5, <1>6, LinkedManager, ManagerLinks
<1>8. Answered(m, a, state).agents = agents
  BY <1>3
<1> QED
  BY <1>3, <1>4, <1>7, <1>8 DEF Keeps

\* do_invite: whoever is shown as invited has been entered as invited.
LEMMA DoInviteOK ==
  ASSUME NEW m, ManagerOK(m), NEW n
  PROVE  /\ ManagerOK(DoInvite(m, n)) /\ Keeps(m, DoInvite(m, n))
         /\ Invited(m, n) \subseteq DOMAIN m.agents
         /\ Invited(m, n) \subseteq Uin
<1> DEFINE I == Invited(m, n)
           agents == [a \in DOMAIN m.agents |->
                        IF a \in I THEN [m.agents[a] EXCEPT !.state = "INVITING"]
                        ELSE m.agents[a]]
           inviting == m.inviting \cup I
<1>1. /\ DOMAIN m.agents \subseteq Uin /\ m.inviting \subseteq Uin
      /\ m.agents \in [DOMAIN m.agents -> Agent]
      /\ m = [agents |-> m.agents, order |-> m.order, inviting |-> m.inviting]
  BY DEF ManagerOK, ManagerType
<1>2. I \subseteq DOMAIN m.agents
  <2>1. Invitable(m) \subseteq DOMAIN m.agents
    BY Zenon DEF Invitable
  <2>2. I \subseteq Invitable(m)
    BY Zenon DEF Invited
  <2> QED
    BY <2>1, <2>2
<1>3. DoInvite(m, n) = [m EXCEPT !.agents = agents, !.inviting = inviting]
  BY Zenon DEF DoInvite
<1> HIDE DEF I
<1>4. DoInvite(m, n) = [agents |-> agents, order |-> m.order, inviting |-> inviting]
  <2> HIDE DEF agents, inviting
  <2> QED
    BY <1>1, <1>3, UpdateAgentsAndInviting
<1>5. ASSUME NEW a \in DOMAIN m.agents
      PROVE  /\ agents[a] \in Agent
             /\ agents[a].cvs = m.agents[a].cvs
             /\ agents[a].load = m.agents[a].load
             /\ agents[a].state = "INVITING" => m.agents[a].state = "INVITING" \/ a \in I
  <2>1. CASE a \in I
    BY <1>1, <2>1, SMT DEF Agent, AgentState
  <2>2. CASE a \notin I
    BY <1>1, <2>2
  <2> QED
    BY <2>1, <2>2
<1>6. DOMAIN agents = DOMAIN m.agents /\ agents \in [DOMAIN agents -> Agent]
  BY <1>5
<1> HIDE DEF agents
<1>7. \A b \in DOMAIN agents :
        /\ IsFiniteSet(agents[b].cvs)
        /\ agents[b].load = Cardinality(agents[b].cvs)
        /\ agents[b].state = "INVITING" => b \in inviting
  BY <1>5, <1>6 DEF ManagerOK, LoadCounts, InvitationsRecorded
<1>8. inviting \subseteq Uin /\ I \subseteq Uin
  BY <1>1, <1>2
<1> HIDE DEF inviting
<1>9. ManagerOK([agents |-> agents, order |-> m.order, inviting |-> inviting])
  BY <1>1, <1>6, <1>7, <1>8, LinkedManager, ManagerLinks
<1>10. DoInvite(m, n).agents = agents
  BY <1>4
<1> QED
  BY <1>2, <1>4, <1>5, <1>6, <1>8, <1>9, <1>10 DEF Keeps, I

-----------------------------------------------------------------------------
\* The list in order, without the manager around it.
InOrder(agents, order) ==
  \A i, j \in 1 .. Len(order) :
    i < j => ~Outranks(agents[order[i]], agents[order[j]])

\* operator> is a strict weak order.
LEMMA OutranksOrders ==
  ASSUME NEW x \in Agent, NEW y \in Agent, NEW z \in Agent
  PROVE  /\ ~Outranks(x, y) /\ ~Outranks(y, z) => ~Outranks(x, z)
         /\ Outranks(x, y) => ~Outranks(y, x)
<1>1. /\ x.load \in Nat /\ y.load \in Nat /\ z.load \in Nat
      /\ x.capacity \in Nat /\ y.capacity \in Nat /\ z.capacity \in Nat
  BY SMT DEF Agent
<1> QED
  BY <1>1, SMT DEF Outranks

\* order_to_tail puts an agent in its place, if all others are in theirs and none it
\* stands behind outranks it.
LEMMA OrderToTailRanks ==
  ASSUME NEW S, NEW order, Links(order, S), NEW a \in S,
         NEW agents, \A b \in S : agents[b] \in Agent,
         \A i, j \in 1 .. Len(order) :
           i < j /\ order[i] # a => ~Outranks(agents[order[i]], agents[order[j]])
  PROVE  InOrder(agents, OrderToTail(agents, order, a))
<1> DEFINE p == Place(order, a)
           q == TailPlace(agents, order, a)
           n == Len(order)
           new == OrderToTail(agents, order, a)
           from(k) == IF k < p \/ k > q THEN k ELSE IF k = q THEN p ELSE k + 1
           Out(i, j) == Outranks(agents[order[i]], agents[order[j]])
<1>1. order \in [1 .. n -> S] /\ n \in Nat
  BY SMT DEF Links
<1>2. p \in 1 .. n /\ order[p] = a /\ \A i \in 1 .. n : order[i] = a => i = p
  BY PlaceIsPlace
<1>3. /\ q \in p .. n
      /\ q < n => Outranks(agents[order[q + 1]], agents[a])
      /\ \A i \in p + 1 .. q : ~Outranks(agents[order[i]], agents[a])
  BY TailPlaceStops
<1>4. new = [i \in 1 .. n |->
               IF i < p \/ i > q THEN order[i] ELSE IF i = q THEN a ELSE order[i + 1]]
  BY Zenon DEF OrderToTail
<1>5. \A i, j \in 1 .. n : i < j /\ i # p => ~Out(i, j)
  BY <1>2
<1>6. (q < n => Out(q + 1, p)) /\ \A i \in p + 1 .. q : ~Out(i, p)
  BY <1>2, <1>3
<1>7. \A i, j, k \in 1 .. n : /\ ~Out(i, j) /\ ~Out(j, k) => ~Out(i, k)
                              /\ Out(i, j) => ~Out(j, i)
  BY <1>1, OutranksOrders
<1> HIDE DEF p, q, n, new, Out
<1>8. ASSUME NEW k \in 1 .. n PROVE new[k] = order[from(k)] /\ from(k) \in 1 .. n
  BY <1>1, <1>2, <1>3, <1>4, SMT
<1>9. Len(new) = n
  BY <1>1, <1>4, SMT
<1>10. ASSUME NEW j \in 1 .. n, j > q PROVE ~Out(p, j)
  <2>1. q + 1 \in 1 .. n /\ q < n /\ q + 1 # p
    BY <1>1, <1>2, <1>3, <1>10, SMT
  <2>2. ~Out(p, q + 1)
    BY <1>2, <1>6, <1>7, <2>1
  <2>3. CASE j = q + 1
    BY <2>2, <2>3
  <2>4. CASE j # q + 1
    <3>1. q + 1 < j
      BY <1>1, <1>3, <1>10, <2>4, SMT
    <3> QED
      BY <1>2, <1>5, <1>7, <2>1, <2>2, <3>1
  <2> QED
    BY <2>3, <2>4
<1>11. ASSUME NEW i \in 1 .. n, NEW j \in 1 .. n, i < j PROVE ~Out(from(i), from(j))
  <2>1. from(i) \in 1 .. n /\ from(j) \in 1 .. n
    BY <1>8
  <2>2. CASE i = q
    <3>1. from(i) = p /\ from(j) = j /\ j > q
      BY <1>1, <1>2, <1>3, <1>11, <2>2, SMT
    <3> QED
      BY <1>10, <3>1
  <2>3. CASE j = q
    <3>1. from(j) = p /\ (from(i) < p \/ from(i) \in p + 1 .. q) /\ from(i) # p
      BY <1>1, <1>2, <1>3, <1>11, <2>3, SMT
    <3> QED
      BY <1>2, <1>5, <1>6, <2>1, <3>1
  <2>4. CASE i # q /\ j # q
    <3>1. from(i) < from(j) /\ from(i) # p
      BY <1>1, <1>2, <1>3, <1>11, <2>4, SMT
    <3> QED
      BY <1>5, <2>1, <3>1
  <2> QED
    BY <2>2, <2>3, <2>4
<1>12. ASSUME NEW i \in 1 .. n, NEW j \in 1 .. n, i < j
       PROVE  ~Outranks(agents[new[i]], agents[new[j]])
  BY <1>8, <1>11, <1>12 DEF Out
<1> QED
  BY <1>9, <1>12 DEF InOrder, new

\* The list an agent has left is in order.
LEMMA WithoutRanks ==
  ASSUME NEW S, NEW order, Links(order, S), NEW a \in S, NEW agents, InOrder(agents, order)
  PROVE  InOrder(agents, Without(order, a))
<1> DEFINE p == Place(order, a)
           n == Len(order)
           new == Without(order, a)
           from(i) == IF i < p THEN i ELSE i + 1
<1>1. p \in 1 .. n /\ n \in Nat
  BY PlaceIsPlace, SMT DEF Links
<1>2. new = [i \in 1 .. n - 1 |-> IF i < p THEN order[i] ELSE order[i + 1]]
  BY Zenon DEF Without
<1>3. \A i, j \in 1 .. n : i < j => ~Outranks(agents[order[i]], agents[order[j]])
  BY DEF InOrder
<1> HIDE DEF p, n, new
<1>4. Len(new) = n - 1
  BY <1>1, <1>2, SMT
<1>5. ASSUME NEW i \in 1 .. n - 1 PROVE new[i] = order[from(i)] /\ from(i) \in 1 .. n
  BY <1>1, <1>2, SMT
<1>6. ASSUME NEW i \in 1 .. n - 1, NEW j \in 1 .. n - 1, i < j
      PROVE  ~Outranks(agents[new[i]], agents[new[j]])
  <2>1. from(i) < from(j)
    BY <1>1, <1>6, SMT
  <2> QED
    BY <1>3, <1>5, <2>1
<1> QED
  BY <1>4, <1>6 DEF InOrder, new

\* A manager's list is in order if its links are.
LEMMA RankedInOrder ==
  ASSUME NEW m, ManagerOK(m)
  PROVE  Ranked(m) <=> InOrder(m.agents, m.order)
<1>1. DOMAIN m.order = 1 .. Len(m.order)
  BY ManagerLinks, SMT DEF Links
<1> QED
  BY <1>1 DEF Ranked, InOrder

-----------------------------------------------------------------------------
(* What each operation does to every field of every agent.                 *)

\* A manager's parts have their types.
LEMMA ManagerParts ==
  ASSUME NEW m, ManagerOK(m)
  PROVE  /\ m = [agents |-> m.agents, order |-> m.order, inviting |-> m.inviting]
         /\ m.agents \in [DOMAIN m.agents -> Agent]
         /\ \A b \in DOMAIN m.agents :
              /\ m.agents[b] \in Agent /\ m.agents[b].load \in Nat
              /\ m.agents[b].capacity \in Nat /\ m.agents[b].cvs \in SUBSET Nat
         /\ DOMAIN m.agents \subseteq Uin /\ m.inviting \subseteq Uin
<1>1. m.agents \in [DOMAIN m.agents -> Agent]
  BY DEF ManagerOK, ManagerType
<1>2. \A b \in DOMAIN m.agents :
        /\ m.agents[b] \in Agent /\ m.agents[b].load \in Nat
        /\ m.agents[b].capacity \in Nat /\ m.agents[b].cvs \in SUBSET Nat
  BY <1>1, SMT DEF Agent
<1> QED
  BY <1>1, <1>2 DEF ManagerOK, ManagerType

\* An agent that holds another set of conversations is otherwise the same.
LEMMA HoldingKeeps ==
  ASSUME NEW x \in Agent, NEW S \in SUBSET Nat, NEW n \in Nat
  PROVE  /\ Holding(x, S, n).cvs = S
         /\ Holding(x, S, n).load = n
         /\ Holding(x, S, n).state = x.state
         /\ Holding(x, S, n).capacity = x.capacity
<1> DEFINE y == [x EXCEPT !.cvs = S]
<1>1. y \in Agent /\ y.cvs = S /\ y.state = x.state /\ y.capacity = x.capacity
  BY SMT DEF Agent
<1> HIDE DEF y
<1>2. /\ [y EXCEPT !.load = n].cvs = S
      /\ [y EXCEPT !.load = n].load = n
      /\ [y EXCEPT !.load = n].state = x.state
      /\ [y EXCEPT !.load = n].capacity = x.capacity
  BY <1>1, SMT DEF Agent
<1> QED
  BY <1>2 DEF Holding, y

\* add_conversation: one id and one unit of load more, and a new place in the list.
LEMMA AddConversationDoes ==
  ASSUME NEW m, ManagerOK(m), NEW a \in DOMAIN m.agents, NEW c \in Nat,
         c \notin m.agents[a].cvs, NEW n, n = AddConversation(m, a, c)
  PROVE  /\ DOMAIN n.agents = DOMAIN m.agents
         /\ n.agents[a].cvs = m.agents[a].cvs \cup {c}
         /\ n.agents[a].load = m.agents[a].load + 1
         /\ n.agents[a].state = m.agents[a].state
         /\ n.agents[a].capacity = m.agents[a].capacity
         /\ \A b \in DOMAIN m.agents \ {a} : n.agents[b] = m.agents[b]
         /\ n.order = OrderToTail(n.agents, m.order, a)
         /\ n.inviting = m.inviting
<1> DEFINE S == m.agents[a].cvs \cup {c}
           k == m.agents[a].load + 1
           agents == [m.agents EXCEPT ![a] = Holding(@, @.cvs \cup {c}, @.load + 1)]
           order == OrderToTail(agents, m.order, a)
<1>1. m.agents \in [DOMAIN m.agents -> Agent] /\ m.agents[a] \in Agent
  BY ManagerParts
<1>2. S \in SUBSET Nat /\ k \in Nat
  BY <1>1, SMT DEF Agent
<1>3. agents = [m.agents EXCEPT ![a] = Holding(m.agents[a], S, k)]
  OBVIOUS
<1>4. n = [m EXCEPT !.agents = agents, !.order = order]
  BY DEF AddConversation
<1>5. n = [agents |-> agents, order |-> order, inviting |-> m.inviting]
  <2> HIDE DEF agents, order
  <2> QED
    BY <1>4, ManagerParts, UpdateAgentsAndOrder
<1>6. /\ Holding(m.agents[a], S, k).cvs = S
      /\ Holding(m.agents[a], S, k).load = k
      /\ Holding(m.agents[a], S, k).state = m.agents[a].state
      /\ Holding(m.agents[a], S, k).capacity = m.agents[a].capacity
  <2> HIDE DEF S, k
  <2> QED
    BY <1>1, <1>2, HoldingKeeps
<1>7. /\ DOMAIN agents = DOMAIN m.agents
      /\ agents[a] = Holding(m.agents[a], S, k)
      /\ \A b \in DOMAIN m.agents \ {a} : agents[b] = m.agents[b]
  BY <1>1, <1>3
<1> HIDE DEF agents
<1> QED
  BY <1>5, <1>6, <1>7

\* remove_conversation: one id and one unit of load less.
LEMMA RemoveConversationDoes ==
  ASSUME NEW m, ManagerOK(m), NEW a \in DOMAIN m.agents, NEW c \in m.agents[a].cvs,
         NEW n, n = RemoveConversation(m, a, c)
  PROVE  /\ DOMAIN n.agents = DOMAIN m.agents
         /\ n.agents[a].cvs = m.agents[a].cvs \ {c}
         /\ n.agents[a].load = m.agents[a].load - 1
         /\ n.agents[a].state = m.agents[a].state
         /\ n.agents[a].capacity = m.agents[a].capacity
         /\ \A b \in DOMAIN m.agents \ {a} : n.agents[b] = m.agents[b]
         /\ n.order = m.order
         /\ n.inviting = m.inviting
<1> DEFINE S == m.agents[a].cvs \ {c}
           k == m.agents[a].load - 1
           agents == [m.agents EXCEPT ![a] = Holding(@, @.cvs \ {c}, @.load - 1)]
<1>1. m.agents \in [DOMAIN m.agents -> Agent] /\ m.agents[a] \in Agent
  BY ManagerParts
<1>2. S \in SUBSET Nat /\ k \in Nat
  <2>1. /\ Cardinality(m.agents[a].cvs \ {c}) = Cardinality(m.agents[a].cvs) - 1
        /\ Cardinality(m.agents[a].cvs \ {c}) \in Nat
        /\ m.agents[a].load = Cardinality(m.agents[a].cvs)
    BY FS_RemoveElement, FS_CardinalityType DEF ManagerOK, LoadCounts
  <2> QED
    BY <1>1, <2>1, SMT DEF Agent
<1>3. agents = [m.agents EXCEPT ![a] = Holding(m.agents[a], S, k)]
  OBVIOUS
<1>4. n = [m EXCEPT !.agents = agents]
  BY DEF RemoveConversation
<1>5. n = [agents |-> agents, order |-> m.order, inviting |-> m.inviting]
  <2> HIDE DEF agents
  <2> QED
    BY <1>4, ManagerParts, SMT
<1>6. /\ Holding(m.agents[a], S, k).cvs = S
      /\ Holding(m.agents[a], S, k).load = k
      /\ Holding(m.agents[a], S, k).state = m.agents[a].state
      /\ Holding(m.agents[a], S, k).capacity = m.agents[a].capacity
  <2> HIDE DEF S, k
  <2> QED
    BY <1>1, <1>2, HoldingKeeps
<1>7. /\ DOMAIN agents = DOMAIN m.agents
      /\ agents[a] = Holding(m.agents[a], S, k)
      /\ \A b \in DOMAIN m.agents \ {a} : agents[b] = m.agents[b]
  BY <1>1, <1>3
<1> HIDE DEF agents
<1> QED
  BY <1>5, <1>6, <1>7

\* presence: an agent without conversations, from the head of the list to its place.
LEMMA InsertDoes ==
  ASSUME NEW m, ManagerOK(m), NEW id \in Umid, id.uin \notin DOMAIN m.agents,
         NEW k \in Nat, NEW n, n = Insert(m, id, k)
  PROVE  /\ DOMAIN n.agents = DOMAIN m.agents \cup {id.uin}
         /\ n.agents[id.uin].cvs = {} /\ n.agents[id.uin].load = 0
         /\ n.agents[id.uin].capacity = k
         /\ \A b \in DOMAIN m.agents : n.agents[b] = m.agents[b]
         /\ n.order = OrderToTail(n.agents, <<id.uin>> \o m.order, id.uin)
         /\ n.inviting = m.inviting
<1> DEFINE u == id.uin
           new == [mp |-> id.mp, capacity |-> k, load |-> 0,
                   state |-> "AVAILABLE", cvs |-> {}]
           agents == [a \in DOMAIN m.agents \cup {u} |->
                        IF a = u THEN new ELSE m.agents[a]]
           order == OrderToTail(agents, <<u>> \o m.order, u)
<1>1. n = [m EXCEPT !.agents = agents, !.order = order]
  BY DEF Insert
<1>2. n = [agents |-> agents, order |-> order, inviting |-> m.inviting]
  <2> HIDE DEF agents, order
  <2> QED
    BY <1>1, ManagerParts, UpdateAgentsAndOrder
<1>3. new.cvs = {} /\ new.load = 0 /\ new.capacity = k
  OBVIOUS
<1> HIDE DEF new
<1>4. /\ DOMAIN agents = DOMAIN m.agents \cup {u} /\ agents[u] = new
      /\ \A b \in DOMAIN m.agents : agents[b] = m.agents[b]
  OBVIOUS
<1> HIDE DEF agents
<1> QED
  BY <1>2, <1>3, <1>4

\* The same but for the place in the list, for those who do not look at the order.
LEMMA InsertAgents ==
  ASSUME NEW m, ManagerOK(m), NEW id \in Umid, id.uin \notin DOMAIN m.agents,
         NEW k \in Nat
  PROVE  LET n == Insert(m, id, k)
         IN  /\ DOMAIN n.agents = DOMAIN m.agents \cup {id.uin}
             /\ n.agents[id.uin].cvs = {} /\ n.agents[id.uin].load = 0
             /\ n.agents[id.uin].capacity = k
             /\ \A b \in DOMAIN m.agents : n.agents[b] = m.agents[b]
             /\ n.inviting = m.inviting
<1> DEFINE n == Insert(m, id, k)
<1>1. /\ DOMAIN n.agents = DOMAIN m.agents \cup {id.uin}
      /\ n.agents[id.uin].cvs = {} /\ n.agents[id.uin].load = 0
      /\ n.agents[id.uin].capacity = k
      /\ \A b \in DOMAIN m.agents : n.agents[b] = m.agents[b]
      /\ n.order = OrderToTail(n.agents, <<id.uin>> \o m.order, id.uin)
      /\ n.inviting = m.inviting
  BY InsertDoes
<1> QED
  BY <1>1

\* absence and offline: an agent that serves nobody is taken out, the others stay.
LEMMA EraseDoes ==
  ASSUME NEW m, ManagerOK(m), NEW a \in DOMAIN m.agents,
         ~(m.agents[a].load > 0), NEW n, n = Erase(m, a)
  PROVE  /\ DOMAIN n.agents = DOMAIN m.agents \ {a}
         /\ \A b \in DOMAIN n.agents : n.agents[b] = m.agents[b]
         /\ n.order = Without(m.order, a)
         /\ n.inviting = m.inviting
<1> DEFINE agents == [b \in DOMAIN m.agents \ {a} |-> m.agents[b]]
           order == Without(m.order, a)
<1>1. n = [m EXCEPT !.agents = agents, !.order = order]
  BY DEF Erase
<1>2. n = [agents |-> agents, order |-> order, inviting |-> m.inviting]
  <2> HIDE DEF agents, order
  <2> QED
    BY <1>1, ManagerParts, UpdateAgentsAndOrder
<1>3. DOMAIN agents = DOMAIN m.agents \ {a} /\ \A b \in DOMAIN agents : agents[b] = m.agents[b]
  OBVIOUS
<1> HIDE DEF agents
<1> QED
  BY <1>2, <1>3

\* The agents of n are those of m and differ from them in their states only.
SameButStates(m, n) ==
  /\ DOMAIN n.agents = DOMAIN m.agents
  /\ n.order = m.order
  /\ \A b \in DOMAIN m.agents : /\ n.agents[b].cvs = m.agents[b].cvs
                                /\ n.agents[b].load = m.agents[b].load
                                /\ n.agents[b].capacity = m.agents[b].capacity

\* accept and refuse.
LEMMA AnsweredDoes ==
  ASSUME NEW m, ManagerOK(m), NEW a \in DOMAIN m.agents, NEW state \in AgentState,
         NEW n, n = Answered(m, a, state)
  PROVE  SameButStates(m, n) /\ n.inviting = m.inviting \ {a}
<1> DEFINE agents == [m.agents EXCEPT ![a].state = state]
           inviting == m.inviting \ {a}
<1>1. n = [m EXCEPT !.agents = agents, !.inviting = inviting]
  BY DEF Answered
<1>2. n = [agents |-> agents, order |-> m.order, inviting |-> inviting]
  <2> HIDE DEF agents, inviting
  <2> QED
    BY <1>1, ManagerParts, UpdateAgentsAndInviting
<1>3. /\ DOMAIN agents = DOMAIN m.agents
      /\ \A b \in DOMAIN agents : /\ agents[b].cvs = m.agents[b].cvs
                                  /\ agents[b].load = m.agents[b].load
                                  /\ agents[b].capacity = m.agents[b].capacity
  BY ManagerParts, SMT DEF Agent
<1> HIDE DEF agents
<1> QED
  BY <1>2, <1>3 DEF SameButStates

\* do_invite.
LEMMA DoInviteDoes ==
  ASSUME NEW m, ManagerOK(m), NEW k, NEW n, n = DoInvite(m, k)
  PROVE  /\ SameButStates(m, n) /\ n.inviting = m.inviting \cup Invited(m, k)
         /\ \A b \in DOMAIN m.agents \ Invited(m, k) : n.agents[b] = m.agents[b]
<1> DEFINE I == Invited(m, k)
           agents == [a \in DOMAIN m.agents |->
                        IF a \in I THEN [m.agents[a] EXCEPT !.state = "INVITING"]
                        ELSE m.agents[a]]
           inviting == m.inviting \cup I
<1>1. n = [m EXCEPT !.agents = agents, !.inviting = inviting]
  BY Zenon DEF DoInvite
<1> HIDE DEF I
<1>2. n = [agents |-> agents, order |-> m.order, inviting |-> inviting]
  <2> HIDE DEF agents, inviting
  <2> QED
    BY <1>1, ManagerParts, UpdateAgentsAndInviting
<1>3. DOMAIN agents = DOMAIN m.agents /\ \A b \in DOMAIN m.agents \ I : agents[b] = m.agents[b]
  OBVIOUS
<1>4. ASSUME NEW b \in DOMAIN m.agents
      PROVE  /\ agents[b].cvs = m.agents[b].cvs
             /\ agents[b].load = m.agents[b].load
             /\ agents[b].capacity = m.agents[b].capacity
  <2>1. m.agents[b] \in Agent
    BY ManagerParts
  <2>2. CASE b \in I
    <3>1. agents[b] = [m.agents[b] EXCEPT !.state = "INVITING"]
      BY <2>2
    <3> QED
      BY <2>1, <3>1, SMT DEF Agent
  <2>3. CASE b \notin I
    BY <2>3
  <2> QED
    BY <2>2, <2>3
<1> HIDE DEF agents
<1> QED
  BY <1>2, <1>3, <1>4 DEF SameButStates, I

-----------------------------------------------------------------------------
(* The list stays in order.                                                *)

\* An agent is ranked by its load and its capacity alone.
LEMMA OutranksByFields ==
  ASSUME NEW x, NEW y, NEW v, NEW w,
         x.load = v.load, x.capacity = v.capacity, y.load = w.load, y.capacity = w.capacity
  PROVE  Outranks(x, y) <=> Outranks(v, w)
BY DEF Outranks

\* Answers and invitations change no agent's rank.
LEMMA StatesDoNotRank ==
  ASSUME NEW m, ManagerOK(m), Ranked(m), NEW n, ManagerOK(n), SameButStates(m, n)
  PROVE  Ranked(n)
<1>1. \A i \in DOMAIN m.order : m.order[i] \in DOMAIN m.agents
  BY DEF ManagerOK, ListsEachOnce
<1>2. ASSUME NEW i \in DOMAIN n.order, NEW j \in DOMAIN n.order, i < j
      PROVE  ~Outranks(n.agents[n.order[i]], n.agents[n.order[j]])
  <2>1. i \in DOMAIN m.order /\ j \in DOMAIN m.order /\ n.order = m.order
    BY DEF SameButStates
  <2>2. ~Outranks(m.agents[m.order[i]], m.agents[m.order[j]])
    BY <1>2, <2>1 DEF Ranked
  <2>3. m.order[i] \in DOMAIN m.agents /\ m.order[j] \in DOMAIN m.agents
    BY <1>1, <2>1
  <2> QED
    BY <2>1, <2>2, <2>3, OutranksByFields DEF SameButStates
<1> QED
  BY <1>2 DEF Ranked

\* An agent with one conversation more is not outranked by those it was not outranked by.
LEMMA AddConversationRanks ==
  ASSUME NEW m, ManagerOK(m), Ranked(m), NEW a \in DOMAIN m.agents, NEW c \in Nat
  PROVE  Ranked(AddConversation(m, a, c))
<1> DEFINE n == AddConversation(m, a, c)
<1>1. CASE c \in m.agents[a].cvs
  BY <1>1 DEF AddConversation
<1>2. CASE c \notin m.agents[a].cvs
  <2>1. /\ DOMAIN n.agents = DOMAIN m.agents
        /\ n.agents[a].load = m.agents[a].load + 1
        /\ n.agents[a].capacity = m.agents[a].capacity
        /\ \A b \in DOMAIN m.agents \ {a} : n.agents[b] = m.agents[b]
        /\ n.order = OrderToTail(n.agents, m.order, a)
    BY <1>2, AddConversationDoes
  <2>2. ManagerOK(n)
    BY AddConversationOK
  <2> HIDE DEF n
  <2>3. Links(m.order, DOMAIN m.agents) /\ InOrder(m.agents, m.order)
    BY ManagerLinks, RankedInOrder
  <2>4. \A b \in DOMAIN m.agents : n.agents[b] \in Agent
    BY <2>1, <2>2, ManagerParts
  <2>5. ASSUME NEW i \in 1 .. Len(m.order), NEW j \in 1 .. Len(m.order),
               i < j, m.order[i] # a
        PROVE  ~Outranks(n.agents[m.order[i]], n.agents[m.order[j]])
    <3>1. m.order[i] \in DOMAIN m.agents /\ m.order[j] \in DOMAIN m.agents
      BY <2>3, SMT DEF Links
    <3>2. ~Outranks(m.agents[m.order[i]], m.agents[m.order[j]])
      BY <2>3, <2>5 DEF InOrder
    <3>3. n.agents[m.order[i]] = m.agents[m.order[i]]
      BY <2>1, <2>5, <3>1
    <3>4. CASE m.order[j] # a
      BY <2>1, <3>1, <3>2, <3>3, <3>4
    <3>5. CASE m.order[j] = a
      <4>1. m.agents[m.order[i]].load \in Nat /\ m.agents[a].load \in Nat
        BY <3>1, ManagerParts
      <4> QED
        BY <2>1, <3>2, <3>3, <3>5, <4>1, SMT DEF Outranks
    <3> QED
      BY <3>4, <3>5
  <2>6. InOrder(n.agents, n.order)
    BY <2>1, <2>3, <2>4, <2>5, OrderToTailRanks
  <2> QED
    BY <2>2, <2>6, RankedInOrder DEF n
<1> QED
  BY <1>1, <1>2

\* The new agent starts at the head, where nobody stands before it.
LEMMA InsertRanks ==
  ASSUME NEW m, ManagerOK(m), Ranked(m), NEW id \in Umid,
         id.uin \notin DOMAIN m.agents, NEW k \in Nat
  PROVE  Ranked(Insert(m, id, k))
<1> DEFINE n == Insert(m, id, k)
           u == id.uin
           order == <<u>> \o m.order
           l == Len(m.order)
<1>1. /\ DOMAIN n.agents = DOMAIN m.agents \cup {u}
      /\ \A b \in DOMAIN m.agents : n.agents[b] = m.agents[b]
      /\ n.order = OrderToTail(n.agents, order, u)
  BY InsertDoes
<1>2. ManagerOK(n)
  BY InsertOK
<1> HIDE DEF n, u
<1>3. Links(m.order, DOMAIN m.agents) /\ InOrder(m.agents, m.order) /\ l \in Nat
  BY ManagerLinks, RankedInOrder, SMT DEF Links
<1>4. u \notin DOMAIN m.agents
  BY DEF u
<1>5. Links(order, DOMAIN n.agents)
  BY <1>1, <1>3, <1>4, ConsLinks
<1>6. /\ Len(order) = l + 1 /\ order[1] = u
      /\ \A i \in 2 .. l + 1 : order[i] = m.order[i - 1] /\ i - 1 \in 1 .. l
  BY <1>3, SMT DEF Links
<1> HIDE DEF order, l
<1>7. \A b \in DOMAIN n.agents : n.agents[b] \in Agent
  BY <1>2, ManagerParts
<1>8. ASSUME NEW i \in 1 .. Len(order), NEW j \in 1 .. Len(order), i < j, order[i] # u
      PROVE  ~Outranks(n.agents[order[i]], n.agents[order[j]])
  <2>1. i \in 2 .. l + 1 /\ j \in 2 .. l + 1 /\ i - 1 < j - 1
    BY <1>3, <1>6, <1>8, SMT
  <2>2. /\ order[i] = m.order[i - 1] /\ i - 1 \in 1 .. l
        /\ order[j] = m.order[j - 1] /\ j - 1 \in 1 .. l
    BY <1>6, <2>1
  <2>3. m.order[i - 1] \in DOMAIN m.agents /\ m.order[j - 1] \in DOMAIN m.agents
    BY <1>3, <2>2, SMT DEF Links, l
  <2>4. ~Outranks(m.agents[m.order[i - 1]], m.agents[m.order[j - 1]])
    BY <1>3, <2>1, <2>2 DEF InOrder, l
  <2> QED
    BY <1>1, <2>2, <2>3, <2>4
<1>9. \A i, j \in 1 .. Len(order) :
        i < j /\ order[i] # u => ~Outranks(n.agents[order[i]], n.agents[order[j]])
  BY <1>8
<1>10. InOrder(n.agents, OrderToTail(n.agents, order, u))
  <2>1. u \in DOMAIN n.agents
    BY <1>1
  <2> QED
    BY <1>5, <1>7, <1>9, <2>1, OrderToTailRanks, Zenon
<1> QED
  BY <1>1, <1>2, <1>10, RankedInOrder DEF n

\* An agent leaves.
LEMMA EraseRanks ==
  ASSUME NEW m, ManagerOK(m), Ranked(m), NEW a \in DOMAIN m.agents
  PROVE  Ranked(Erase(m, a))
<1> DEFINE n == Erase(m, a)
<1>1. CASE m.agents[a].load > 0
  BY <1>1 DEF Erase
<1>2. CASE ~(m.agents[a].load > 0)
  <2>1. /\ DOMAIN n.agents = DOMAIN m.agents \ {a}
        /\ \A b \in DOMAIN n.agents : n.agents[b] = m.agents[b]
        /\ n.order = Without(m.order, a)
    BY <1>2, EraseDoes
  <2>2. ManagerOK(n)
    BY EraseOK
  <2> HIDE DEF n
  <2>3. Links(m.order, DOMAIN m.agents) /\ InOrder(m.agents, m.order)
    BY ManagerLinks, RankedInOrder
  <2>4. InOrder(m.agents, n.order)
    BY <2>1, <2>3, WithoutRanks
  <2>5. Links(n.order, DOMAIN n.agents)
    BY <2>2, ManagerLinks
  <2>6. \A i \in 1 .. Len(n.order) : n.order[i] \in DOMAIN n.agents
    BY <2>5, SMT DEF Links
  <2>7. InOrder(n.agents, n.order)
    BY <2>1, <2>4, <2>6 DEF InOrder
  <2> QED
    BY <2>2, <2>7, RankedInOrder DEF n
<1> QED
  BY <1>1, <1>2

\* order_to_head leaves the list as it is, or hangs: where it does not hang the agent
\* outranks all before it, though it holds one conversation less.
LEMMA RemoveConversationRanks ==
  ASSUME NEW m, ManagerOK(m), Ranked(m), NEW a \in DOMAIN m.agents, NEW c \in Nat,
         ~Hangs(m, a, c)
  PROVE  Ranked(RemoveConversation(m, a, c))
<1> DEFINE n == RemoveConversation(m, a, c)
           p == Place(m.order, a)
           l == Len(m.order)
<1>1. CASE c \notin m.agents[a].cvs
  BY <1>1 DEF RemoveConversation
<1>2. CASE c \in m.agents[a].cvs
  <2>1. /\ DOMAIN n.agents = DOMAIN m.agents
        /\ n.agents[a].load = m.agents[a].load - 1
        /\ n.agents[a].capacity = m.agents[a].capacity
        /\ \A b \in DOMAIN m.agents \ {a} : n.agents[b] = m.agents[b]
        /\ n.order = m.order
    BY <1>2, RemoveConversationDoes
  <2>2. ManagerOK(n)
    BY RemoveConversationOK
  <2>3. ~(p > 1 /\ ~Outranks(n.agents[a], n.agents[m.order[p - 1]]))
    BY <1>2, <2>1 DEF Hangs, MustPassPrevious
  <2> HIDE DEF n
  <2>4. Links(m.order, DOMAIN m.agents) /\ InOrder(m.agents, m.order) /\ l \in Nat
    BY ManagerLinks, RankedInOrder, SMT DEF Links
  <2>5. /\ p \in 1 .. l /\ m.order[p] = a
        /\ \A i \in 1 .. l : m.order[i] = a => i = p
    BY <2>4, PlaceIsPlace
  <2>6. \A i \in 1 .. l : m.order[i] \in DOMAIN m.agents
    BY <2>4, SMT DEF Links
  <2>7. \A i, j \in 1 .. l : i < j => ~Outranks(m.agents[m.order[i]], m.agents[m.order[j]])
    BY <2>4 DEF InOrder
  <2> HIDE DEF p, l
  <2>8. \A i \in 1 .. l \ {p} : n.agents[m.order[i]] = m.agents[m.order[i]]
    BY <2>1, <2>5, <2>6
  <2>9. \A b \in DOMAIN m.agents : n.agents[b] \in Agent
    BY <2>1, <2>2, ManagerParts
  <2>10. ASSUME NEW i \in 1 .. l, NEW j \in 1 .. l, i < j
         PROVE  ~Outranks(n.agents[m.order[i]], n.agents[m.order[j]])
    <3>1. ~Outranks(m.agents[m.order[i]], m.agents[m.order[j]])
      BY <2>7, <2>10
    <3>2. CASE i # p /\ j # p
      BY <2>8, <3>1, <3>2
    <3>3. CASE i = p
      <4>1. m.order[j] \in DOMAIN m.agents /\ j # p
        BY <2>5, <2>6, <2>10, <3>3, SMT
      <4>2. m.agents[a].load \in Nat /\ m.agents[m.order[j]].load \in Nat
        BY <4>1, ManagerParts
      <4> QED
        BY <2>1, <2>5, <2>8, <3>1, <3>3, <4>1, <4>2, SMT DEF Outranks
    <3>4. CASE j = p
      <4>1. p > 1 /\ p - 1 \in 1 .. l /\ (i = p - 1 \/ i < p - 1) /\ i # p /\ p - 1 # p
        BY <2>4, <2>5, <2>10, <3>4, SMT
      <4>2. Outranks(n.agents[a], n.agents[m.order[p - 1]])
        BY <2>3, <4>1
      <4>3. i = p - 1 \/ ~Outranks(n.agents[m.order[i]], n.agents[m.order[p - 1]])
        BY <2>7, <2>8, <4>1
      <4>4. /\ n.agents[m.order[i]] \in Agent /\ n.agents[a] \in Agent
            /\ n.agents[m.order[p - 1]] \in Agent
        BY <2>6, <2>9, <4>1
      <4>5. ~Outranks(n.agents[m.order[p - 1]], n.agents[a])
        BY <4>2, <4>4, OutranksOrders
      <4> QED
        BY <2>5, <3>4, <4>3, <4>4, <4>5, OutranksOrders
    <3> QED
      BY <3>2, <3>3, <3>4
  <2>11. InOrder(n.agents, n.order)
    BY <2>1, <2>10 DEF InOrder, l
  <2> QED
    BY <2>2, <2>11, RankedInOrder DEF n
<1> QED
  BY <1>1, <1>2

-----------------------------------------------------------------------------
(* Whoever can be invited is, as long as users wait.                       *)

\* The agents are as many as the list has places.
LEMMA AgentsFinite ==
  ASSUME NEW m, ManagerOK(m)
  PROVE  IsFiniteSet(DOMAIN m.agents)
<1> DEFINE l == Len(m.order)
<1>1. Links(m.order, DOMAIN m.agents) /\ l \in Nat /\ m.order \in [1 .. l -> DOMAIN m.agents]
  BY ManagerLinks, SMT DEF Links
<1>2. \A a \in DOMAIN m.agents : \E i \in 1 .. l : m.order[i] = a
  BY <1>1, SMT DEF Links
<1>3. m.order \in Surjection(1 .. l, DOMAIN m.agents)
  BY <1>1, <1>2 DEF Surjection
<1>4. IsFiniteSet(1 .. l)
  BY <1>1, FS_Interval
<1> QED
  BY <1>3, <1>4, FS_Surjection

\* do_invite leaves no user waiting for want of an invitation: it ends with as many
\* invitations out as users wait, or with nobody left to invite.
LEMMA DoInviteSaturates ==
  ASSUME NEW m, ManagerOK(m), IsFiniteSet(m.inviting), NEW k \in Nat,
         NEW n, n = DoInvite(m, k)
  PROVE  /\ IsFiniteSet(n.inviting)
         /\ Cardinality(n.inviting) >= k \/ Invitable(n) = {}
<1> DEFINE V == Invitable(m)
           I == Invited(m, k)
           Before(a) == {b \in V : Place(m.order, b) < Place(m.order, a)}
           i == Cardinality(m.inviting)
<1>1. V \subseteq DOMAIN m.agents /\ I \subseteq V /\ V \cap m.inviting = {}
  BY Zenon DEF Invitable, Invited
<1>2. IsFiniteSet(V) /\ IsFiniteSet(I) /\ \A a \in V : IsFiniteSet(Before(a))
  BY <1>1, AgentsFinite, FS_Subset
<1>3. n.inviting = m.inviting \cup I /\ \A b \in DOMAIN m.agents \ I : n.agents[b] = m.agents[b]
  BY DoInviteDoes
<1>4. DOMAIN n.agents = DOMAIN m.agents
  BY DoInviteDoes DEF SameButStates
<1>5. \A a \in V \ I : ~(i + Cardinality(Before(a)) < k)
  BY Zenon DEF Invited
<1>6. IsFiniteSet(n.inviting) /\ Cardinality(n.inviting) = i + Cardinality(I)
  <2>1. m.inviting \cap I = {}
    BY <1>1
  <2>2. Cardinality(m.inviting \cap I) = 0
    BY <2>1, FS_EmptySet
  <2>3. i \in Nat /\ Cardinality(I) \in Nat
    BY <1>2, FS_CardinalityType DEF i
  <2>4. /\ IsFiniteSet(m.inviting \cup I)
        /\ Cardinality(m.inviting \cup I) =
             Cardinality(m.inviting) + Cardinality(I) - Cardinality(m.inviting \cap I)
    BY <1>2, FS_Union
  <2> HIDE DEF I
  <2> QED
    BY <1>3, <2>2, <2>3, <2>4
<1>7. CASE I = V
  <2>1. ASSUME NEW a \in Invitable(n) PROVE FALSE
    <3>1. a \in DOMAIN n.agents /\ a \notin n.inviting
      BY DEF Invitable
    <3>2. a \in DOMAIN m.agents \ I /\ a \notin m.inviting /\ n.agents[a] = m.agents[a]
      BY <1>3, <1>4, <3>1
    <3>3. a \in V
      BY <3>2, Zenon DEF Invitable
    <3> QED
      BY <1>7, <3>2, <3>3
  <2> QED
    BY <1>6, <2>1
<1>8. CASE I # V
  <2> DEFINE P == {Place(m.order, a) : a \in V \ I}
  <2>1. \A a \in V : Place(m.order, a) \in Nat
    <3>1. \A a \in V : Place(m.order, a) \in 1 .. Len(m.order)
      BY <1>1, ManagerLinks, PlaceIsPlace
    <3>2. Len(m.order) \in Nat
      BY ManagerLinks, SMT DEF Links
    <3> QED
      BY <3>1, <3>2, SMT
  <2>2. P # {} /\ P \subseteq Nat
    BY <1>1, <1>8, <2>1
  <2>3. PICK p \in P : \A q \in P : p <= q
    <3> HIDE DEF P
    <3> QED
      BY <2>2, LeastNat
  <2>4. PICK a \in V \ I : p = Place(m.order, a)
    BY <2>3
  <2>5. Before(a) \subseteq I
    <3> SUFFICES ASSUME NEW b \in V, Place(m.order, b) < Place(m.order, a), b \notin I
                 PROVE  FALSE
      BY DEF Before
    <3>1. Place(m.order, b) \in P
      OBVIOUS
    <3>2. Place(m.order, a) <= Place(m.order, b)
      BY <2>3, <2>4, <3>1
    <3>3. Place(m.order, a) \in Nat /\ Place(m.order, b) \in Nat
      BY <2>1, <2>4
    <3> QED
      BY <3>2, <3>3, SMT
  <2> HIDE DEF P, I, V, Before, i
  <2>6. Cardinality(Before(a)) <= Cardinality(I)
    BY <1>2, <2>5, FS_Subset
  <2>7. Cardinality(Before(a)) \in Nat /\ Cardinality(I) \in Nat /\ i \in Nat
    BY <1>2, <2>4, FS_CardinalityType DEF i
  <2>8. ~(i + Cardinality(Before(a)) < k)
    BY <1>5, <2>4
  <2> QED
    BY <1>6, <2>6, <2>7, <2>8, SMT
<1> QED
  BY <1>7, <1>8

=============================================================================
