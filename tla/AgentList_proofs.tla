--------------------------- MODULE AgentList_proofs ---------------------------
(***************************************************************************)
(* The links of the list of agents, for any number of agents: they stay    *)
(* those of a list, and what a loop of order_to_tail or do_invite does     *)
(* round by round is what AgentMgr says of the whole operation.            *)
(***************************************************************************)
EXTENDS AgentList, AgentMgr_proofs

-----------------------------------------------------------------------------
(* A list as a walk meets it.                                              *)

\* Who can stand in a list: not the structure before it, and somebody.
Agents(S) == HEAD \notin S /\ NULL \notin S /\ HEAD # NULL

\* A list and the pointers that link it.
Linking(s, S, on, back) == Agents(S) /\ Links(s, S) /\ Spell(s, S, on, back)

\* What is said of a list, place by place.
LEMMA Places ==
  ASSUME NEW S, NEW s, NEW on, NEW back, Linking(s, S, on, back)
  PROVE  /\ Len(s) \in Nat /\ DOMAIN s = 1 .. Len(s) /\ s \in Seq(S)
         /\ s = [i \in 1 .. Len(s) |-> s[i]]
         /\ \A i \in 1 .. Len(s) : s[i] \in S /\ Stands(s, i) = s[i] /\ s[i] # HEAD /\ s[i] # NULL
         /\ \A i \in Nat : i > Len(s) => Stands(s, i) = NULL
         /\ Stands(s, 0) = HEAD
         /\ \A i \in 0 .. Len(s) : on[Stands(s, i)] = Stands(s, i + 1)
         /\ \A i \in 1 .. Len(s) : back[s[i]] = Stands(s, i - 1)
         /\ \A i \in 0 .. Len(s) : Stands(s, i) # NULL
         /\ \A i, j \in 0 .. Len(s) : Stands(s, i) = Stands(s, j) => i = j
<1> DEFINE l == Len(s)
<1>1. s \in Seq(S) /\ l \in Nat /\ DOMAIN s = 1 .. l
  BY SMT DEF Linking, Links
<1>2. s = [i \in 1 .. l |-> s[i]] /\ \A i \in 1 .. l : s[i] \in S
  BY <1>1, SMT
<1>3. \A i \in 0 .. l : on[Stands(s, i)] = Stands(s, i + 1)
  BY DEF Linking, Spell
<1>4. \A i \in 1 .. l : back[s[i]] = Stands(s, i - 1)
  BY DEF Linking, Spell
<1>5. HEAD \notin S /\ NULL \notin S /\ HEAD # NULL
  BY DEF Linking, Agents
<1>6. Stands(s, 0) = HEAD
  BY DEF Stands
<1>7. \A i \in Nat : i > l => Stands(s, i) = NULL
  BY <1>1, SMT DEF Stands
<1>8. \A i \in 1 .. l : Stands(s, i) = s[i]
  BY <1>1, SMT DEF Stands
<1>9. \A i, j \in 1 .. l : s[i] = s[j] => i = j
  BY <1>1 DEF Linking, Links
<1> HIDE DEF l
<1>10. \A i \in 0 .. l : Stands(s, i) # NULL
  BY <1>1, <1>2, <1>5, <1>6, <1>8, SMT
<1>11. ASSUME NEW i \in 0 .. l, NEW j \in 0 .. l, Stands(s, i) = Stands(s, j) PROVE i = j
  <2>1. CASE i = 0 \/ j = 0
    BY <1>1, <1>2, <1>5, <1>6, <1>8, <1>11, <2>1, SMT
  <2>2. CASE i # 0 /\ j # 0
    <3>1. i \in 1 .. l /\ j \in 1 .. l
      BY <1>1, <2>2, SMT
    <3> QED
      BY <1>8, <1>9, <1>11, <3>1
  <2> QED
    BY <2>1, <2>2
<1> QED
  BY <1>1, <1>2, <1>3, <1>4, <1>5, <1>6, <1>7, <1>8, <1>10, <1>11 DEF l

\* A walk meets the agents of the list in its order.
LEMMA WalkIs ==
  ASSUME NEW S, NEW s, NEW on, NEW back, Linking(s, S, on, back)
  PROVE  \A i \in Nat : Walk(on)[i] = Stands(s, i)
<1> DEFINE l == Len(s)
           Step(w) == [i \in Nat |-> IF i = 0 THEN HEAD ELSE IF w[i - 1] = NULL THEN NULL ELSE on[w[i - 1]]]
           at == CHOOSE w : w = Step(w)
           st == [i \in Nat |-> Stands(s, i)]
<1>1. l \in Nat /\ Stands(s, 0) = HEAD /\ \A i \in Nat : i > l => Stands(s, i) = NULL
  BY Places
<1>2. \A i \in 0 .. l : on[Stands(s, i)] = Stands(s, i + 1) /\ Stands(s, i) # NULL
  BY Places
<1> HIDE DEF l
<1>3. st = Step(st)
  <2>1. ASSUME NEW i \in Nat
        PROVE  st[i] = IF i = 0 THEN HEAD ELSE IF st[i - 1] = NULL THEN NULL ELSE on[st[i - 1]]
    <3>1. CASE i = 0
      BY <1>1, <3>1
    <3>2. CASE i # 0
      <4>1. i - 1 \in Nat /\ (i - 1) + 1 = i
        BY <3>2, SMT
      <4>2. st[i] = Stands(s, i) /\ st[i - 1] = Stands(s, i - 1)
        BY <4>1
      <4> HIDE DEF st
      <4>3. CASE i - 1 \in 0 .. l
        <5>1. on[Stands(s, i - 1)] = Stands(s, i) /\ Stands(s, i - 1) # NULL
          BY <1>2, <4>1, <4>3
        <5> QED
          BY <3>2, <4>2, <5>1
      <4>4. CASE i - 1 \notin 0 .. l
        <5>1. i > l /\ i - 1 > l
          BY <1>1, <4>1, <4>4, SMT
        <5> QED
          BY <1>1, <3>2, <4>1, <4>2, <5>1
      <4> QED
        BY <4>3, <4>4
    <3> QED
      BY <3>1, <3>2
  <2> QED
    BY <2>1
<1>4. at = Step(at)
  <2> HIDE DEF Step, st
  <2> QED
    BY <1>3
<1>5. Walk(on) = at
  BY DEF Walk
<1> HIDE DEF at
<1>6. \A i \in Nat : at[i] = IF i = 0 THEN HEAD ELSE IF at[i - 1] = NULL THEN NULL ELSE on[at[i - 1]]
  BY <1>4
<1> HIDE DEF Step
<1>7. ASSUME NEW i \in Nat PROVE at[i] = st[i]
  <2> DEFINE T == {k \in Nat : at[k] # st[k]}
  <2>1. SUFFICES ASSUME T # {} PROVE FALSE
    BY <2>1
  <2>2. PICK k \in T : \A j \in T : k <= j
    BY <2>1, LeastNat
  <2>3. k \in Nat /\ at[k] # st[k]
    BY <2>2
  <2>4. k # 0
    BY <1>1, <1>6, <2>3
  <2>5. k - 1 \in Nat /\ ~(k <= k - 1)
    BY <2>3, <2>4, SMT
  <2>6. at[k - 1] = st[k - 1]
    BY <2>2, <2>5
  <2>7. at[k] = IF at[k - 1] = NULL THEN NULL ELSE on[at[k - 1]]
    BY <1>6, <2>3, <2>4
  <2>8. st[k] = IF st[k - 1] = NULL THEN NULL ELSE on[st[k - 1]]
    BY <1>3, <2>3, <2>4 DEF Step
  <2> QED
    BY <2>3, <2>6, <2>7, <2>8
<1> QED
  BY <1>5, <1>7

\* So the sequence is the list, and there is only one.
LEMMA ListIs ==
  ASSUME NEW S, NEW s, NEW on, NEW back, Linking(s, S, on, back)
  PROVE  IsFiniteSet(S) /\ Cardinality(S) = Len(s) /\ List(Cardinality(S), on) = s
<1> DEFINE l == Len(s)
           at == Walk(on)
<1>1. l \in Nat /\ s = [i \in 1 .. l |-> s[i]] /\ \A i \in 1 .. l : Stands(s, i) = s[i]
  BY Places
<1>2. s \in Bijection(1 .. l, S)
  <2>1. DOMAIN s = 1 .. l /\ s \in Seq(S) /\ \A i \in 1 .. l : s[i] \in S
    BY Places
  <2>2. \A a \in S : \E i \in 1 .. l : s[i] = a
    BY <2>1 DEF Linking, Links
  <2>3. \A i, j \in 1 .. l : s[i] = s[j] => i = j
    BY <2>1 DEF Linking, Links
  <2> HIDE DEF l
  <2> QED
    BY <1>1, <2>1, <2>2, <2>3 DEF Bijection, Injection, Surjection, IsInjective
<1>3. IsFiniteSet(S) /\ Cardinality(S) = l
  BY <1>1, <1>2, FS_NatBijection, FS_CountingElements, Zenon DEF ExistsBijection
<1>4. \A i \in 1 .. l : at[i] = s[i]
  <2>1. \A i \in 1 .. l : i \in Nat
    BY <1>1, SMT
  <2> QED
    BY <1>1, <2>1, WalkIs
<1>5. List(l, on) = [i \in 1 .. l |-> at[i]]
  BY DEF List
<1> HIDE DEF at, l
<1> QED
  BY <1>1, <1>3, <1>4, <1>5 DEF l

\* What is left to show of a sequence of agents and the pointers that link it.
LEMMA LinkingBy ==
  ASSUME NEW S, NEW s, NEW on, NEW back, Agents(S), Links(s, S),
         \A i \in 0 .. Len(s) : on[Stands(s, i)] = Stands(s, i + 1),
         \A i \in 1 .. Len(s) : back[s[i]] = Stands(s, i - 1),
         back[HEAD] = NULL
  PROVE  Linking(s, S, on, back)
<1>1. DOMAIN s = 1 .. Len(s) /\ \A i \in 1 .. Len(s) : s[i] \in S
  BY SMT DEF Links
<1>2. /\ \A a \in S : \E i \in 1 .. Len(s) : s[i] = a
      /\ \A i, j \in 1 .. Len(s) : s[i] = s[j] => i = j
  BY <1>1 DEF Links
<1> QED
  BY <1>1, <1>2 DEF Linking, Spell

-----------------------------------------------------------------------------
(* What the assignments of the source do to the links.                     *)

\* head.insert: the new agent stands before the others.
LEMMA InsertLinks ==
  ASSUME NEW S, NEW s, NEW on, NEW back, Linking(s, S, on, back),
         NEW a, a \notin S \cup {HEAD, NULL}, NEW on2, NEW back2,
         on2[a] = on[HEAD], on2[HEAD] = a, \A x \in S : on2[x] = on[x],
         back2[a] = HEAD, back2[HEAD] = back[HEAD],
         \A x \in S : back2[x] = IF x = on[HEAD] THEN a ELSE back[x]
  PROVE  Linking(<<a>> \o s, S \cup {a}, on2, back2)
<1> DEFINE l == Len(s)
           t == <<a>> \o s
<1>1. /\ l \in Nat /\ s \in Seq(S)
      /\ \A i \in 1 .. l : s[i] \in S /\ Stands(s, i) = s[i]
      /\ Stands(s, 0) = HEAD
      /\ \A i \in 0 .. l : on[Stands(s, i)] = Stands(s, i + 1) /\ Stands(s, i) # NULL
  BY Places
<1>2. \A i, j \in 0 .. l : Stands(s, i) = Stands(s, j) => i = j
  BY Places
<1>3. \A i \in 1 .. l : back[s[i]] = Stands(s, i - 1)
  BY Places
<1>4. Stands(s, l + 1) = NULL
  BY <1>1, SMT DEF Stands
<1>5. Links(t, S \cup {a}) /\ Agents(S \cup {a}) /\ back[HEAD] = NULL
  BY ConsLinks DEF Linking, Agents, Spell
<1>6. Len(t) = l + 1 /\ t[1] = a /\ \A i \in 2 .. l + 1 : t[i] = s[i - 1]
  BY <1>1, SMT
<1>7. Stands(t, 0) = HEAD /\ \A i \in 1 .. l + 1 : Stands(t, i) = t[i]
  BY <1>1, <1>6, SMT DEF Stands
<1>8. Stands(t, l + 2) = NULL
  BY <1>1, <1>6, SMT DEF Stands
<1> HIDE DEF l, t
<1>9. \A i \in 2 .. l + 2 : Stands(t, i) = Stands(s, i - 1)
  <2> SUFFICES ASSUME NEW i \in 2 .. l + 2 PROVE Stands(t, i) = Stands(s, i - 1)
    OBVIOUS
  <2>1. CASE i = l + 2
    BY <1>1, <1>4, <1>8, <2>1, SMT
  <2>2. CASE i # l + 2
    <3>1. i \in 2 .. l + 1 /\ i \in 1 .. l + 1 /\ i - 1 \in 1 .. l
      BY <1>1, <2>2, SMT
    <3> QED
      BY <1>1, <1>6, <1>7, <3>1
  <2> QED
    BY <2>1, <2>2
<1>10. ASSUME NEW i \in 0 .. l + 1 PROVE on2[Stands(t, i)] = Stands(t, i + 1)
  <2>1. CASE i = 0
    <3>1. 1 \in 1 .. l + 1 /\ 0 + 1 = 1
      BY <1>1, SMT
    <3> QED
      BY <1>6, <1>7, <2>1, <3>1
  <2>2. CASE i = 1
    <3>1. 1 \in 1 .. l + 1 /\ 1 + 1 \in 2 .. l + 2 /\ (1 + 1) - 1 = 0 + 1 /\ 0 \in 0 .. l
      BY <1>1, SMT
    <3> QED
      BY <1>1, <1>6, <1>7, <1>9, <2>2, <3>1
  <2>3. CASE i > 1
    <3>1. /\ i \in 2 .. l + 2 /\ i + 1 \in 2 .. l + 2 /\ (i + 1) - 1 = (i - 1) + 1
          /\ i - 1 \in 1 .. l /\ i - 1 \in 0 .. l
      BY <1>1, <2>3, SMT
    <3>2. Stands(t, i) = Stands(s, i - 1) /\ Stands(t, i + 1) = Stands(s, (i - 1) + 1)
      BY <1>9, <3>1
    <3>3. Stands(s, i - 1) \in S
      BY <1>1, <3>1
    <3> QED
      BY <1>1, <3>1, <3>2, <3>3
  <2> QED
    BY <1>1, <2>1, <2>2, <2>3, SMT
<1>11. ASSUME NEW i \in 1 .. l + 1 PROVE back2[t[i]] = Stands(t, i - 1)
  <2>1. CASE i = 1
    BY <1>6, <1>7, <2>1, SMT
  <2>2. CASE i = 2
    <3>1. /\ 1 \in 1 .. l /\ i \in 2 .. l + 1 /\ i - 1 = 1 /\ 0 \in 0 .. l /\ 0 + 1 = 1
          /\ 1 \in 1 .. l + 1
      BY <1>1, <2>2, SMT
    <3>2. t[i] = s[1] /\ Stands(t, i - 1) = a /\ on[HEAD] = s[1] /\ s[1] \in S
      BY <1>1, <1>6, <1>7, <3>1
    <3> QED
      BY <3>2
  <2>3. CASE i > 2
    <3>1. /\ i \in 2 .. l + 1 /\ i - 1 \in 2 .. l + 2 /\ i - 1 \in 1 .. l /\ i - 1 \in 0 .. l
          /\ 1 \in 0 .. l /\ i - 1 # 1 /\ 0 \in 0 .. l /\ 0 + 1 = 1
      BY <1>1, <2>3, SMT
    <3>2. t[i] = s[i - 1] /\ Stands(t, i - 1) = Stands(s, (i - 1) - 1)
      BY <1>6, <1>9, <3>1
    <3>3. s[i - 1] \in S /\ s[i - 1] # on[HEAD]
      BY <1>1, <1>2, <3>1
    <3> QED
      BY <1>3, <3>1, <3>2, <3>3
  <2> QED
    BY <1>1, <2>1, <2>2, <2>3, SMT
<1>12. Linking(t, S \cup {a}, on2, back2)
  BY <1>5, <1>6, <1>10, <1>11, LinkingBy
<1> QED
  BY <1>12 DEF t

\* AGENT::erase: the agents before and behind are linked to each other.
LEMMA EraseLinks ==
  ASSUME NEW S, NEW s, NEW on, NEW back, Linking(s, S, on, back), NEW a \in S,
         NEW on2, NEW back2,
         \A x \in (S \cup {HEAD}) \ {a} : on2[x] = IF x = back[a] THEN on[a] ELSE on[x],
         \A x \in (S \cup {HEAD}) \ {a} : back2[x] = IF x = on[a] THEN back[a] ELSE back[x]
  PROVE  Linking(Without(s, a), S \ {a}, on2, back2)
<1> DEFINE l == Len(s)
           p == Place(s, a)
           t == Without(s, a)
<1>1. /\ l \in Nat /\ s \in Seq(S)
      /\ \A i \in 1 .. l : s[i] \in S /\ Stands(s, i) = s[i]
      /\ Stands(s, 0) = HEAD
      /\ \A i \in 0 .. l : on[Stands(s, i)] = Stands(s, i + 1) /\ Stands(s, i) # NULL
  BY Places
<1>2. \A i, j \in 0 .. l : Stands(s, i) = Stands(s, j) => i = j
  BY Places
<1>3. \A i \in 1 .. l : back[s[i]] = Stands(s, i - 1)
  BY Places
<1>4. Links(s, S) /\ back[HEAD] = NULL /\ HEAD \notin S /\ NULL \notin S /\ HEAD # NULL
  BY DEF Linking, Agents, Spell
<1>5. p \in 1 .. l /\ s[p] = a
  BY <1>4, PlaceIsPlace
<1>6. Links(t, S \ {a}) /\ Agents(S \ {a})
  BY <1>4, WithoutLinks DEF Agents
<1>7. t = [i \in 1 .. l - 1 |-> IF i < p THEN s[i] ELSE s[i + 1]]
  BY Zenon DEF Without
<1>8. Stands(s, l + 1) = NULL
  BY <1>1, SMT DEF Stands
<1> HIDE DEF l, p, t
<1>9. Len(t) = l - 1 /\ l - 1 \in Nat
  BY <1>1, <1>5, <1>7, <1>6, SMT DEF Links
<1>10. \A i \in 1 .. l - 1 : Stands(t, i) = t[i] /\ t[i] \in S \ {a}
  BY <1>6, <1>9, SMT DEF Stands, Links
<1>11. Stands(t, 0) = HEAD /\ Stands(t, l) = NULL
  BY <1>1, <1>5, <1>9, SMT DEF Stands
<1> DEFINE from(i) == IF i < p THEN i ELSE i + 1
<1>12. \A i \in 0 .. l : from(i) \in 0 .. l + 1 /\ from(i) # p
  BY <1>1, <1>5, SMT
<1>13. ASSUME NEW i \in 0 .. l PROVE Stands(t, i) = Stands(s, from(i))
  <2>1. CASE i = 0
    BY <1>1, <1>5, <1>11, <2>1, SMT
  <2>2. CASE i = l
    BY <1>1, <1>5, <1>8, <1>11, <2>2, SMT
  <2>3. CASE i # 0 /\ i # l
    <3>1. i \in 1 .. l - 1 /\ from(i) \in 1 .. l
      BY <1>1, <2>3, SMT
    <3>2. t[i] = s[from(i)]
      BY <1>7, <3>1
    <3> QED
      BY <1>1, <1>10, <3>1, <3>2
  <2> QED
    BY <2>1, <2>2, <2>3
<1>14. on[a] = Stands(s, p + 1) /\ back[a] = Stands(s, p - 1) /\ a = Stands(s, p)
  <2>1. p \in 0 .. l
    BY <1>1, <1>5, SMT
  <2> QED
    BY <1>1, <1>3, <1>5, <2>1
<1>15. \A i \in 0 .. l : Stands(s, i) \in S \cup {HEAD}
  BY <1>1, SMT
<1>16. ASSUME NEW i \in 0 .. l - 1 PROVE on2[Stands(t, i)] = Stands(t, i + 1)
  <2> DEFINE x == Stands(s, from(i))
  <2>1. from(i) \in 0 .. l /\ from(i) # p /\ i \in 0 .. l /\ i + 1 \in 0 .. l
        /\ p \in 0 .. l /\ p - 1 \in 0 .. l
    BY <1>1, <1>5, SMT
  <2>2. Stands(t, i) = x /\ Stands(t, i + 1) = Stands(s, from(i + 1))
    BY <1>13, <2>1
  <2>3. x \in (S \cup {HEAD}) \ {a}
    BY <1>2, <1>14, <1>15, <2>1
  <2>4. on2[x] = IF x = back[a] THEN on[a] ELSE on[x]
    BY <2>3
  <2>5. CASE i = p - 1
    <3>1. from(i) = p - 1 /\ from(i + 1) = p + 1
      BY <1>1, <1>5, <2>5, SMT
    <3> QED
      BY <1>14, <2>2, <2>4, <3>1
  <2>6. CASE i # p - 1
    <3>1. from(i) # p - 1 /\ from(i + 1) = from(i) + 1
      BY <1>1, <1>5, <2>6, SMT
    <3>2. x # back[a]
      BY <1>2, <1>14, <2>1, <3>1
    <3> QED
      BY <1>1, <2>1, <2>2, <2>4, <3>1, <3>2
  <2> QED
    BY <2>5, <2>6
<1>17. ASSUME NEW i \in 1 .. l - 1 PROVE back2[t[i]] = Stands(t, i - 1)
  <2> DEFINE x == s[from(i)]
  <2>1. /\ from(i) \in 1 .. l /\ from(i) \in 0 .. l /\ from(i) # p /\ i \in 0 .. l
        /\ i - 1 \in 0 .. l /\ p \in 0 .. l
    BY <1>1, <1>5, SMT
  <2>2. t[i] = x /\ Stands(t, i - 1) = Stands(s, from(i - 1))
    BY <1>7, <1>13, <2>1
  <2>3. x = Stands(s, from(i)) /\ x \in (S \cup {HEAD}) \ {a}
    BY <1>1, <1>2, <1>14, <2>1
  <2>4. back2[x] = IF x = on[a] THEN back[a] ELSE back[x]
    BY <2>3
  <2>5. CASE i = p
    <3>1. from(i) = p + 1 /\ from(i - 1) = p - 1
      BY <1>1, <1>5, <2>5, SMT
    <3> QED
      BY <1>14, <2>2, <2>3, <2>4, <3>1
  <2>6. CASE i # p
    <3>1. from(i) # p + 1 /\ from(i - 1) = from(i) - 1
      BY <1>1, <1>5, <2>6, SMT
    <3>2. x # on[a]
      <4>1. CASE p = l
        BY <1>8, <1>14, <1>1, <2>1, <2>3, <4>1
      <4>2. CASE p # l
        <5>1. p + 1 \in 0 .. l
          BY <1>1, <1>5, <4>2, SMT
        <5> QED
          BY <1>2, <1>14, <2>1, <2>3, <3>1, <5>1
      <4> QED
        BY <4>1, <4>2
    <3> QED
      BY <1>3, <2>1, <2>2, <2>4, <3>1, <3>2
  <2> QED
    BY <2>5, <2>6
<1>18. back2[HEAD] = NULL
  <2>1. HEAD # on[a]
    <3>1. CASE p = l
      BY <1>4, <1>8, <1>14, <3>1
    <3>2. CASE p # l
      <4>1. p + 1 \in 1 .. l
        BY <1>1, <1>5, <3>2, SMT
      <4> QED
        BY <1>1, <1>4, <1>14, <4>1
    <3> QED
      BY <3>1, <3>2
  <2> QED
    BY <1>4, <2>1
<1>19. Linking(t, S \ {a}, on2, back2)
  BY <1>6, <1>9, <1>16, <1>17, <1>18, LinkingBy
<1> QED
  BY <1>19 DEF t

\* A list in which the agent at place p has changed places with the one behind it.
Swapped(s, p) ==
  [i \in 1 .. Len(s) |-> IF i = p THEN s[p + 1] ELSE IF i = p + 1 THEN s[p] ELSE s[i]]

\* It is a list of the same agents.
LEMMA SwappedLinks ==
  ASSUME NEW S, NEW s, Links(s, S), NEW p \in 1 .. Len(s) - 1
  PROVE  Links(Swapped(s, p), S) /\ Len(Swapped(s, p)) = Len(s)
<1> DEFINE l == Len(s)
           t == Swapped(s, p)
           from(i) == IF i = p THEN p + 1 ELSE IF i = p + 1 THEN p ELSE i
<1>1. l \in Nat /\ s \in [1 .. l -> S]
  BY SMT DEF Links
<1>2. \A a \in S : \E i \in 1 .. l : s[i] = a
  BY <1>1, SMT DEF Links
<1>3. \A i, j \in 1 .. l : s[i] = s[j] => i = j
  BY <1>1, SMT DEF Links
<1>4. t = [i \in 1 .. l |-> s[from(i)]]
  BY Zenon DEF Swapped
<1>5. p \in 1 .. l - 1
  OBVIOUS
<1> HIDE DEF l, t
<1>6. \A i \in 1 .. l : from(i) \in 1 .. l /\ from(from(i)) = i
  BY <1>1, <1>5, SMT
<1> HIDE DEF from
<1>7. t \in [1 .. l -> S]
  BY <1>1, <1>4, <1>6
<1>8. t \in Seq(S) /\ Len(t) = l /\ DOMAIN t = 1 .. l
  BY <1>1, <1>7, SMT
<1>9. ASSUME NEW a \in S PROVE \E i \in 1 .. l : t[i] = a
  <2>1. PICK i \in 1 .. l : s[i] = a
    BY <1>2
  <2>2. from(i) \in 1 .. l /\ t[from(i)] = a
    BY <1>4, <1>6, <2>1
  <2> QED
    BY <2>2
<1>10. ASSUME NEW i \in 1 .. l, NEW j \in 1 .. l, t[i] = t[j] PROVE i = j
  <2>1. from(i) = from(j)
    BY <1>3, <1>4, <1>6, <1>10
  <2> QED
    BY <1>6, <2>1
<1> QED
  BY <1>8, <1>9, <1>10 DEF Links, l, t

\* A round of order_to_tail: two neighbours change places.
LEMMA SwapLinks ==
  ASSUME NEW S, NEW s, NEW on, NEW back, Linking(s, S, on, back), NEW p \in 1 .. Len(s) - 1,
         NEW a, NEW n, a = s[p], n = s[p + 1], NEW on2, NEW back2,
         \A x \in S \cup {HEAD} :
           on2[x] = IF x = n THEN a ELSE IF x = a THEN on[n] ELSE IF x = back[a] THEN n ELSE on[x],
         \A x \in S \cup {HEAD} :
           back2[x] = IF x = on[n] THEN a ELSE IF x = a THEN n ELSE IF x = n THEN back[a] ELSE back[x]
  PROVE  Linking(Swapped(s, p), S, on2, back2)
<1> DEFINE l == Len(s)
           t == Swapped(s, p)
           from(i) == IF i = p THEN p + 1 ELSE IF i = p + 1 THEN p ELSE i
<1>1. /\ l \in Nat /\ s \in Seq(S)
      /\ \A i \in 1 .. l : s[i] \in S /\ Stands(s, i) = s[i]
      /\ Stands(s, 0) = HEAD
      /\ \A i \in 0 .. l : on[Stands(s, i)] = Stands(s, i + 1) /\ Stands(s, i) # NULL
  BY Places
<1>2. \A i, j \in 0 .. l : Stands(s, i) = Stands(s, j) => i = j
  BY Places
<1>3. \A i \in 1 .. l : back[s[i]] = Stands(s, i - 1)
  BY Places
<1>4. Links(s, S) /\ back[HEAD] = NULL /\ HEAD \notin S /\ NULL \notin S /\ HEAD # NULL /\ Agents(S)
  BY DEF Linking, Agents, Spell
<1>5. Links(t, S) /\ Len(t) = l
  BY <1>4, SwappedLinks
<1>6. t = [i \in 1 .. l |-> s[from(i)]]
  BY Zenon DEF Swapped
<1>7. Stands(s, l + 1) = NULL
  BY <1>1, SMT DEF Stands
<1>8. p \in 1 .. l - 1
  OBVIOUS
<1> HIDE DEF l, t
<1>9. \A i \in 1 .. l : Stands(t, i) = t[i]
  BY <1>1, <1>5, SMT DEF Stands
<1>10. Stands(t, 0) = HEAD /\ Stands(t, l + 1) = NULL
  BY <1>1, <1>5, SMT DEF Stands
<1>11. \A i \in 0 .. l + 1 :
         /\ from(i) \in 0 .. l + 1
         /\ i \in 0 .. l => from(i) \in 0 .. l
         /\ i \in 1 .. l => from(i) \in 1 .. l
  BY <1>1, <1>8, SMT
<1>12. ASSUME NEW i \in 0 .. l + 1 PROVE Stands(t, i) = Stands(s, from(i))
  <2>1. CASE i = 0
    BY <1>1, <1>8, <1>10, <2>1, SMT
  <2>2. CASE i = l + 1
    BY <1>1, <1>7, <1>8, <1>10, <2>2, SMT
  <2>3. CASE i # 0 /\ i # l + 1
    <3>1. i \in 1 .. l /\ from(i) \in 1 .. l
      BY <1>1, <1>11, <2>3, SMT
    <3>2. t[i] = s[from(i)]
      BY <1>6, <3>1
    <3> HIDE DEF from
    <3>3. Stands(s, from(i)) = s[from(i)] /\ Stands(t, i) = t[i]
      BY <1>1, <1>9, <3>1
    <3> QED
      BY <3>2, <3>3
  <2> QED
    BY <2>1, <2>2, <2>3
<1>13. p \in 0 .. l /\ p + 1 \in 0 .. l /\ p - 1 \in 0 .. l /\ p \in 1 .. l /\ p + 1 \in 1 .. l
       /\ (p + 1) + 1 = p + 2
  BY <1>1, <1>8, SMT
<1>14. /\ a = Stands(s, p) /\ n = Stands(s, p + 1)
       /\ back[a] = Stands(s, p - 1) /\ on[n] = Stands(s, p + 2)
  BY <1>1, <1>3, <1>13
<1>15. \A i \in 0 .. l : Stands(s, i) \in S \cup {HEAD}
  BY <1>1, SMT
<1>16. ASSUME NEW i \in 0 .. l
       PROVE  /\ Stands(s, i) = n <=> i = p + 1
              /\ Stands(s, i) = a <=> i = p
              /\ Stands(s, i) = back[a] <=> i = p - 1
              /\ Stands(s, i) = on[n] <=> i = p + 2
  <2>1. Stands(s, i) = on[n] <=> i = p + 2
    <3>1. CASE p + 2 \in 0 .. l
      BY <1>2, <1>14, <3>1
    <3>2. CASE p + 2 \notin 0 .. l
      <4>1. p + 2 = l + 1 /\ i # p + 2
        BY <1>1, <1>8, <3>2, SMT
      <4> QED
        BY <1>1, <1>7, <1>14, <4>1
    <3> QED
      BY <3>1, <3>2
  <2> QED
    BY <1>2, <1>13, <1>14, <2>1
<1>17. ASSUME NEW i \in 0 .. l PROVE on2[Stands(t, i)] = Stands(t, i + 1)
  <2> DEFINE j == from(i)
             x == Stands(s, j)
  <2>1. j \in 0 .. l /\ i \in 0 .. l + 1 /\ i + 1 \in 0 .. l + 1
    <3>1. i \in 0 .. l + 1 /\ i + 1 \in 0 .. l + 1
      BY <1>1, SMT
    <3> HIDE DEF from
    <3> QED
      BY <1>11, <3>1
  <2>2. Stands(t, i) = x /\ Stands(t, i + 1) = Stands(s, from(i + 1))
    BY <1>12, <2>1
  <2>3. on2[x] = IF x = n THEN a ELSE IF x = a THEN on[n] ELSE IF x = back[a] THEN n ELSE on[x]
    BY <1>15, <2>1
  <2>4. on2[x] = IF j = p + 1 THEN a ELSE IF j = p THEN on[n] ELSE IF j = p - 1 THEN n ELSE on[x]
    BY <1>16, <2>1, <2>3
  <2>5. CASE i = p
    <3>1. j = p + 1 /\ from(i + 1) = p
      BY <1>1, <1>8, <2>5, SMT
    <3> QED
      BY <1>14, <2>2, <2>4, <3>1
  <2>6. CASE i = p + 1
    <3>1. j = p /\ j # p + 1 /\ from(i + 1) = p + 2
      BY <1>1, <1>8, <2>6, SMT
    <3> QED
      BY <1>14, <2>2, <2>4, <3>1
  <2>7. CASE i = p - 1
    <3>1. j = p - 1 /\ j # p + 1 /\ j # p /\ from(i + 1) = p + 1
      BY <1>1, <1>8, <2>7, SMT
    <3> QED
      BY <1>14, <2>2, <2>4, <3>1
  <2>8. CASE i # p /\ i # p + 1 /\ i # p - 1
    <3>1. j = i /\ from(i + 1) = i + 1
      BY <1>1, <1>8, <2>8, SMT
    <3> HIDE DEF j
    <3>2. on[Stands(s, i)] = Stands(s, i + 1)
      BY <1>1
    <3> QED
      BY <2>2, <2>4, <2>8, <3>1, <3>2
  <2> QED
    BY <2>5, <2>6, <2>7, <2>8
<1>18. ASSUME NEW i \in 1 .. l PROVE back2[t[i]] = Stands(t, i - 1)
  <2> DEFINE j == from(i)
             x == Stands(s, j)
  <2>1. j \in 0 .. l /\ i \in 0 .. l + 1 /\ i - 1 \in 0 .. l + 1
    <3>1. i \in 0 .. l /\ i \in 0 .. l + 1 /\ i - 1 \in 0 .. l + 1
      BY <1>1, SMT
    <3> HIDE DEF from
    <3> QED
      BY <1>11, <3>1
  <2>2. t[i] = x /\ Stands(t, i - 1) = Stands(s, from(i - 1))
    <3>1. t[i] = Stands(t, i)
      BY <1>9
    <3> HIDE DEF from
    <3> QED
      BY <1>12, <2>1, <3>1
  <2>3. back2[x] = IF x = on[n] THEN a ELSE IF x = a THEN n ELSE IF x = n THEN back[a] ELSE back[x]
    BY <1>15, <2>1
  <2>4. back2[x] = IF j = p + 2 THEN a ELSE IF j = p THEN n ELSE IF j = p + 1 THEN back[a] ELSE back[x]
    BY <1>16, <2>1, <2>3
  <2>5. CASE i = p
    <3>1. j = p + 1 /\ j # p + 2 /\ j # p /\ from(i - 1) = p - 1
      BY <1>1, <1>8, <2>5, SMT
    <3> QED
      BY <1>14, <2>2, <2>4, <3>1
  <2>6. CASE i = p + 1
    <3>1. j = p /\ j # p + 2 /\ from(i - 1) = p + 1
      BY <1>1, <1>8, <2>6, SMT
    <3> QED
      BY <1>14, <2>2, <2>4, <3>1
  <2>7. CASE i = p + 2
    <3>1. j = p + 2 /\ from(i - 1) = p
      BY <1>1, <1>8, <2>7, SMT
    <3> QED
      BY <1>14, <2>2, <2>4, <3>1
  <2>8. CASE i # p /\ i # p + 1 /\ i # p + 2
    <3>1. j = i /\ from(i - 1) = i - 1
      BY <1>1, <1>8, <2>8, SMT
    <3> HIDE DEF j
    <3>2. back[Stands(s, i)] = Stands(s, i - 1)
      BY <1>1, <1>3
    <3> QED
      BY <2>2, <2>4, <2>8, <3>1, <3>2
  <2> QED
    BY <2>5, <2>6, <2>7, <2>8
<1>19. back2[HEAD] = NULL
  <2>1. Stands(s, 0) = HEAD /\ 0 \in 0 .. l /\ 0 # p /\ 0 # p + 1 /\ 0 # p + 2
    BY <1>1, <1>8, SMT
  <2>2. HEAD # n /\ HEAD # a /\ HEAD # on[n]
    BY <1>16, <2>1
  <2> QED
    BY <1>4, <2>2
<1>20. Linking(t, S, on2, back2)
  BY <1>4, <1>5, <1>17, <1>18, <1>19, LinkingBy
<1> QED
  BY <1>20 DEF t

-----------------------------------------------------------------------------
(* Rounds of order_to_tail.                                                *)

\* At the end of the list, or before an agent that outranks it, an agent stays.
LEMMA OrderToTailEnds ==
  ASSUME NEW S, NEW s, Links(s, S), NEW a \in S, NEW pool,
         Place(s, a) < Len(s) => Outranks(pool[s[Place(s, a) + 1]], pool[a])
  PROVE  OrderToTail(pool, s, a) = s
<1> DEFINE l == Len(s)
           p == Place(s, a)
           q == TailPlace(pool, s, a)
<1>1. p \in 1 .. l /\ s[p] = a /\ l \in Nat /\ s = [i \in 1 .. l |-> s[i]]
  BY PlaceIsPlace, SMT DEF Links
<1>2. q \in p .. l /\ \A i \in p + 1 .. q : ~Outranks(pool[s[i]], pool[a])
  BY TailPlaceStops
<1>3. OrderToTail(pool, s, a) =
        [i \in 1 .. l |-> IF i < p \/ i > q THEN s[i] ELSE IF i = q THEN a ELSE s[i + 1]]
  BY Zenon DEF OrderToTail
<1>4. p < l => Outranks(pool[s[p + 1]], pool[a])
  OBVIOUS
<1> HIDE DEF l, p, q
<1>5. q = p
  <2>1. SUFFICES ASSUME q # p PROVE FALSE
    OBVIOUS
  <2>2. p + 1 \in p + 1 .. q /\ p < l
    BY <1>1, <1>2, <2>1, SMT
  <2> QED
    BY <1>2, <1>4, <2>2
<1>6. \A i \in 1 .. l :
        (IF i < p \/ i > q THEN s[i] ELSE IF i = q THEN a ELSE s[i + 1]) = s[i]
  BY <1>1, <1>5, SMT
<1> QED
  BY <1>1, <1>3, <1>6

\* Behind a neighbour that does not outrank it an agent ends where it would have ended.
LEMMA OrderToTailPasses ==
  ASSUME NEW S, NEW s, Links(s, S), NEW a \in S, NEW pool,
         Place(s, a) < Len(s), ~Outranks(pool[s[Place(s, a) + 1]], pool[a])
  PROVE  /\ Place(s, a) \in 1 .. Len(s) - 1
         /\ OrderToTail(pool, Swapped(s, Place(s, a)), a) = OrderToTail(pool, s, a)
<1> DEFINE l == Len(s)
           p == Place(s, a)
           q == TailPlace(pool, s, a)
           t == Swapped(s, p)
           r == TailPlace(pool, t, a)
<1>1. p \in 1 .. l /\ s[p] = a /\ l \in Nat /\ s = [i \in 1 .. l |-> s[i]]
  BY PlaceIsPlace, SMT DEF Links
<1>2. /\ q \in p .. l
      /\ q < l => Outranks(pool[s[q + 1]], pool[a])
      /\ \A i \in p + 1 .. q : ~Outranks(pool[s[i]], pool[a])
  BY TailPlaceStops
<1>3. OrderToTail(pool, s, a) =
        [i \in 1 .. l |-> IF i < p \/ i > q THEN s[i] ELSE IF i = q THEN a ELSE s[i + 1]]
  BY Zenon DEF OrderToTail
<1>4. p < l /\ ~Outranks(pool[s[p + 1]], pool[a])
  OBVIOUS
<1>5. p \in 1 .. l - 1
  BY <1>1, <1>4, SMT
<1>6. Links(t, S) /\ Len(t) = l
  BY <1>5, SwappedLinks
<1>7. t = [i \in 1 .. l |-> IF i = p THEN s[p + 1] ELSE IF i = p + 1 THEN s[p] ELSE s[i]]
  BY Zenon DEF Swapped
<1>8. \A i \in 1 .. l : t[i] = a => i = Place(t, a)
  BY <1>6, PlaceIsPlace
<1> HIDE DEF l, p, q
<1>9. p + 1 \in 1 .. l /\ t[p + 1] = a
  BY <1>1, <1>5, <1>7, SMT
<1>10. Place(t, a) = p + 1
  BY <1>8, <1>9
<1>11. /\ r \in p + 1 .. l
       /\ r < l => Outranks(pool[t[r + 1]], pool[a])
       /\ \A i \in (p + 1) + 1 .. r : ~Outranks(pool[t[i]], pool[a])
  BY <1>6, <1>10, TailPlaceStops
<1>12. OrderToTail(pool, t, a) =
         [i \in 1 .. l |-> IF i < p + 1 \/ i > r THEN t[i] ELSE IF i = r THEN a ELSE t[i + 1]]
  BY <1>6, <1>10, Zenon DEF OrderToTail
<1> HIDE DEF t, r
<1>13. \A i \in p + 2 .. l : t[i] = s[i]
  BY <1>1, <1>7, SMT
<1>14. q = r
  <2>1. q # p
    BY <1>1, <1>2, <1>4
  <2>2. SUFFICES ASSUME q # r PROVE FALSE
    OBVIOUS
  <2>3. CASE q < r
    <3>1. q < l /\ q + 1 \in (p + 1) + 1 .. r /\ q + 1 \in p + 2 .. l
      BY <1>1, <1>2, <1>11, <2>1, <2>3, SMT
    <3> QED
      BY <1>2, <1>11, <1>13, <3>1
  <2>4. CASE r < q
    <3>1. r < l /\ r + 1 \in p + 1 .. q /\ r + 1 \in p + 2 .. l
      BY <1>1, <1>2, <1>11, <2>4, SMT
    <3> QED
      BY <1>2, <1>11, <1>13, <3>1
  <2> QED
    BY <1>1, <1>2, <1>11, <2>2, <2>3, <2>4, SMT
<1>15. ASSUME NEW i \in 1 .. l
       PROVE  (IF i < p + 1 \/ i > r THEN t[i] ELSE IF i = r THEN a ELSE t[i + 1]) =
              (IF i < p \/ i > q THEN s[i] ELSE IF i = q THEN a ELSE s[i + 1])
  <2>1. CASE i < p
    BY <1>1, <1>7, <2>1, SMT
  <2>2. CASE i = p
    BY <1>1, <1>7, <1>11, <1>14, <2>2, SMT
  <2>3. CASE i > p
    <3>1. CASE i < r
      <4>1. i + 1 \in p + 2 .. l /\ ~(i < p + 1 \/ i > r) /\ i # r /\ ~(i < p \/ i > q) /\ i # q
        BY <1>1, <1>11, <1>14, <2>3, <3>1, SMT
      <4> QED
        BY <1>13, <4>1
    <3>2. CASE i = r
      BY <1>1, <1>11, <1>14, <2>3, <3>2, SMT
    <3>3. CASE i > r
      <4>1. i \in p + 2 .. l
        BY <1>1, <1>11, <3>3, SMT
      <4> QED
        BY <1>13, <1>14, <3>3, <4>1
    <3> QED
      BY <1>1, <1>11, <3>1, <3>2, <3>3, SMT
  <2> QED
    BY <1>1, <2>1, <2>2, <2>3, SMT
<1>16. OrderToTail(pool, t, a) = OrderToTail(pool, s, a)
  BY <1>3, <1>12, <1>15
<1> QED
  BY <1>5, <1>16 DEF t, p, l

-----------------------------------------------------------------------------
(* Rounds of do_invite.                                                    *)

\* With nobody to invite, or invitations enough, do_invite changes nothing.
LEMMA NobodyInvited ==
  ASSUME NEW m, m = [agents |-> m.agents, order |-> m.order, inviting |-> m.inviting],
         m.agents = [a \in DOMAIN m.agents |-> m.agents[a]],
         NEW n, Invited(m, n) = {}
  PROVE  DoInvite(m, n) = m
<1> DEFINE A == [a \in DOMAIN m.agents |->
                   IF a \in Invited(m, n) THEN [m.agents[a] EXCEPT !.state = "INVITING"]
                   ELSE m.agents[a]]
           I == m.inviting \cup Invited(m, n)
<1>1. DoInvite(m, n) = [m EXCEPT !.agents = A, !.inviting = I]
  BY Zenon DEF DoInvite
<1>2. A = m.agents /\ I = m.inviting
  OBVIOUS
<1> HIDE DEF A, I
<1>3. DoInvite(m, n) = [agents |-> A, order |-> m.order, inviting |-> I]
  BY <1>1, UpdateAgentsAndInviting
<1> QED
  BY <1>2, <1>3

\* No more are invited than users wait.
LEMMA EnoughInvited ==
  ASSUME NEW S, NEW m, Links(m.order, DOMAIN m.agents), DOMAIN m.agents = S,
         IsFiniteSet(S), IsFiniteSet(m.inviting), NEW n \in Nat, Cardinality(m.inviting) >= n
  PROVE  Invited(m, n) = {}
<1> SUFFICES ASSUME NEW a \in Invited(m, n) PROVE FALSE
  OBVIOUS
<1> DEFINE before == {b \in Invitable(m) : Place(m.order, b) < Place(m.order, a)}
<1>1. Cardinality(m.inviting) + Cardinality(before) < n
  BY Zenon DEF Invited
<1>2. before \subseteq S
  BY Zenon DEF Invitable
<1>3. IsFiniteSet(before)
  BY <1>2, FS_Subset
<1> HIDE DEF before
<1>4. Cardinality(before) \in Nat /\ Cardinality(m.inviting) \in Nat
  BY <1>3, FS_CardinalityType
<1> QED
  BY <1>1, <1>4, SMT

\* Once the first agent that can be invited is, do_invite does what is left of it.
LEMMA FirstInvited ==
  ASSUME NEW m, m = [agents |-> m.agents, order |-> m.order, inviting |-> m.inviting],
         m.agents = [a \in DOMAIN m.agents |-> m.agents[a]],
         Links(m.order, DOMAIN m.agents), IsFiniteSet(DOMAIN m.agents), IsFiniteSet(m.inviting),
         NEW n \in Nat, Cardinality(m.inviting) < n,
         NEW a \in Invitable(m),
         \A b \in Invitable(m) : ~(Place(m.order, b) < Place(m.order, a)),
         NEW k, k = [agents |-> [m.agents EXCEPT ![a].state = "INVITING"],
                     order |-> m.order, inviting |-> m.inviting \cup {a}]
  PROVE  DoInvite(k, n) = DoInvite(m, n)
<1> DEFINE D == DOMAIN m.agents
           V == Invitable(m)
           W == Invitable(k)
           Before(b) == {c \in V : Place(m.order, c) < Place(m.order, b)}
           Left(b) == {c \in W : Place(m.order, c) < Place(m.order, b)}
           i == Cardinality(m.inviting)
<1>1. a \in D /\ a \notin m.inviting /\ V \subseteq D
  BY Zenon DEF Invitable
<1>2. /\ k.agents = [m.agents EXCEPT ![a].state = "INVITING"]
      /\ k.order = m.order /\ k.inviting = m.inviting \cup {a}
      /\ k = [agents |-> k.agents, order |-> k.order, inviting |-> k.inviting]
  OBVIOUS
<1>3. DOMAIN k.agents = D /\ \A b \in D \ {a} : k.agents[b] = m.agents[b]
  BY <1>2
<1>4. k.agents[a] = [m.agents[a] EXCEPT !.state = "INVITING"]
  BY <1>1, <1>2
<1>5. W = V \ {a}
  <2>1. ASSUME NEW b \in W PROVE b \in V \ {a}
    <3>1. b \in D /\ b # a /\ b \notin m.inviting
      BY <1>2, <1>3, Zenon DEF Invitable
    <3> QED
      BY <1>3, <3>1, Zenon DEF Invitable
  <2>2. ASSUME NEW b \in V \ {a} PROVE b \in W
    <3>1. b \in D \ {a} /\ b \notin k.inviting /\ k.agents[b] = m.agents[b]
      BY <1>2, <1>3, Zenon DEF Invitable
    <3> QED
      BY <1>3, <3>1, Zenon DEF Invitable
  <2> QED
    BY <2>1, <2>2
<1>6. i \in Nat /\ IsFiniteSet(k.inviting) /\ Cardinality(k.inviting) = i + 1
  BY <1>1, <1>2, FS_CardinalityType, FS_AddElement
<1>7. IsFiniteSet(W)
  BY <1>1, <1>5, FS_Subset
<1>8. ASSUME NEW b \in D
      PROVE  Place(m.order, b) \in Nat /\ m.order[Place(m.order, b)] = b
  <2>1. Place(m.order, b) \in 1 .. Len(m.order) /\ m.order[Place(m.order, b)] = b
    BY PlaceIsPlace
  <2>2. Len(m.order) \in Nat
    BY SMT DEF Links
  <2> QED
    BY <2>1, <2>2, SMT
<1>9. ASSUME NEW b \in W PROVE Cardinality(Before(b)) = Cardinality(Left(b)) + 1
  <2>1. b \in D /\ b # a /\ b \in V
    BY <1>1, <1>5
  <2>2. Place(m.order, a) < Place(m.order, b)
    <3>1. Place(m.order, a) # Place(m.order, b)
      BY <1>1, <1>8, <2>1
    <3>2. ~(Place(m.order, b) < Place(m.order, a))
      BY <2>1
    <3> QED
      BY <1>1, <1>8, <2>1, <3>1, <3>2, SMT
  <2>3. a \notin Left(b) /\ Before(b) = Left(b) \cup {a}
    BY <1>5, <2>2
  <2>4. IsFiniteSet(Left(b))
    BY <1>7, FS_Subset
  <2> QED
    BY <2>3, <2>4, FS_AddElement
<1>10. a \in Invited(m, n)
  <2>1. Before(a) = {}
    OBVIOUS
  <2>2. Cardinality(Before(a)) = 0
    BY <2>1, FS_EmptySet
  <2>3. Cardinality(m.inviting) + Cardinality(Before(a)) < n
    BY <1>6, <2>2, SMT
  <2> QED
    BY <2>3, Zenon DEF Invited
<1>11. \A b \in W : IsFiniteSet(Left(b)) /\ Cardinality(Left(b)) \in Nat
  BY <1>7, FS_Subset, FS_CardinalityType
<1>12. ASSUME NEW b \in W PROVE b \in Invited(k, n) <=> b \in Invited(m, n)
  <2>1. b \in Invited(k, n) <=> Cardinality(k.inviting) + Cardinality(Left(b)) < n
    BY <1>2, Zenon DEF Invited
  <2>2. b \in Invited(m, n) <=> Cardinality(m.inviting) + Cardinality(Before(b)) < n
    BY <1>5, Zenon DEF Invited
  <2>3. Cardinality(k.inviting) + Cardinality(Left(b)) = i + Cardinality(Before(b))
    <3>1. Cardinality(Left(b)) \in Nat /\ Cardinality(Before(b)) = Cardinality(Left(b)) + 1
      BY <1>9, <1>11
    <3> HIDE DEF Left, Before
    <3> QED
      BY <1>6, <3>1, SMT
  <2> QED
    BY <2>1, <2>2, <2>3
<1>13. Invited(k, n) \subseteq W /\ Invited(m, n) \subseteq V
  BY Zenon DEF Invited
<1>14. Invited(k, n) = Invited(m, n) \ {a}
  BY <1>5, <1>12, <1>13
<1> DEFINE A == [b \in D |-> IF b \in Invited(m, n) THEN [m.agents[b] EXCEPT !.state = "INVITING"]
                              ELSE m.agents[b]]
           B == [b \in D |-> IF b \in Invited(k, n) THEN [k.agents[b] EXCEPT !.state = "INVITING"]
                              ELSE k.agents[b]]
           I == m.inviting \cup Invited(m, n)
           J == k.inviting \cup Invited(k, n)
<1>15. DoInvite(m, n) = [m EXCEPT !.agents = A, !.inviting = I]
  BY Zenon DEF DoInvite
<1>16. DoInvite(k, n) = [k EXCEPT !.agents = B, !.inviting = J]
  BY <1>3, Zenon DEF DoInvite
<1>17. I = J
  BY <1>2, <1>10, <1>14
<1>18. A = B
  <2>1. ASSUME NEW b \in D PROVE A[b] = B[b]
    <3>1. CASE b = a
      BY <1>1, <1>4, <1>10, <1>14, <3>1
    <3>2. CASE b # a
      BY <1>3, <1>14, <3>2
    <3> QED
      BY <3>1, <3>2
  <2> QED
    BY <2>1
<1> HIDE DEF A, B, I, J
<1>19. DoInvite(m, n) = [agents |-> A, order |-> m.order, inviting |-> I]
  BY <1>15, UpdateAgentsAndInviting
<1>20. DoInvite(k, n) = [agents |-> B, order |-> k.order, inviting |-> J]
  BY <1>2, <1>16, UpdateAgentsAndInviting
<1> QED
  BY <1>2, <1>17, <1>18, <1>19, <1>20

-----------------------------------------------------------------------------
(* The inductive invariant.                                                *)

\* The pointers are some agents' or none, and a loop moves an agent that is there.
Typed ==
  /\ agents = [a \in DOMAIN agents |-> agents[a]] /\ DOMAIN agents \subseteq Uin
  /\ IsFiniteSet(inviting)
  /\ prev \in [Node -> Node \cup {NULL}] /\ next \in [Node -> Node \cup {NULL}]
  /\ pc \in {"idle", "tail", "head", "invite"} /\ waiting \in Nat
  /\ pc \in {"tail", "head"} => this \in DOMAIN agents
  /\ pc = "head" => prev[this] \in Node

\* do_invite has left nobody behind whom it could invite.
Passed ==
  \E i \in 0 .. Len(Order) :
    this = Stands(Order, i) /\ \A j \in 1 .. i : Order[j] \notin Invitable(Manager)

ListInv ==
  /\ Typed
  /\ ~Hung => Linking(Order, DOMAIN agents, next, prev)
  /\ pc = "invite" => Passed

\* Where the moved agent stands, and whom the loops look at.
LEMMA Neighbours ==
  ASSUME NEW S, NEW s, NEW on, NEW back, Linking(s, S, on, back), NEW a \in S
  PROVE  LET p == Place(s, a)
         IN  /\ p \in 1 .. Len(s) /\ s[p] = a /\ Len(s) \in Nat
             /\ p < Len(s) => on[a] = s[p + 1] /\ on[a] \in S
             /\ p = Len(s) => on[a] = NULL
             /\ p > 1 => back[a] = s[p - 1] /\ back[a] \in S /\ back[back[a]] # NULL
             /\ p = 1 => back[a] = HEAD /\ back[back[a]] = NULL
             /\ back[a] \in S \cup {HEAD} /\ back[a] # a
<1> DEFINE l == Len(s)
           p == Place(s, a)
<1>1. /\ l \in Nat
      /\ \A i \in 1 .. l : s[i] \in S /\ Stands(s, i) = s[i]
      /\ \A i \in Nat : i > l => Stands(s, i) = NULL
      /\ Stands(s, 0) = HEAD
      /\ \A i \in 0 .. l : on[Stands(s, i)] = Stands(s, i + 1) /\ Stands(s, i) # NULL
  BY Places
<1>2. \A i \in 1 .. l : back[s[i]] = Stands(s, i - 1)
  BY Places
<1>3. \A i, j \in 0 .. l : Stands(s, i) = Stands(s, j) => i = j
  BY Places
<1>4. p \in 1 .. l /\ s[p] = a
  BY PlaceIsPlace DEF Linking
<1>5. back[HEAD] = NULL
  BY DEF Linking, Spell
<1> HIDE DEF l, p
<1>6. p \in 0 .. l /\ p - 1 \in 0 .. l /\ p + 1 \in Nat /\ p - 1 # p
  BY <1>1, <1>4, SMT
<1>7. on[a] = Stands(s, p + 1) /\ back[a] = Stands(s, p - 1) /\ a = Stands(s, p)
  BY <1>1, <1>2, <1>4, <1>6
<1>8. ASSUME p < l PROVE on[a] = s[p + 1] /\ on[a] \in S
  <2>1. p + 1 \in 1 .. l
    BY <1>1, <1>4, <1>8, SMT
  <2> QED
    BY <1>1, <1>7, <2>1
<1>9. ASSUME p = l PROVE on[a] = NULL
  <2>1. p + 1 > l
    BY <1>1, <1>9, SMT
  <2> QED
    BY <1>1, <1>6, <1>7, <2>1
<1>10. ASSUME p > 1 PROVE back[a] = s[p - 1] /\ back[a] \in S /\ back[back[a]] # NULL
  <2>1. p - 1 \in 1 .. l /\ (p - 1) - 1 \in 0 .. l
    BY <1>1, <1>4, <1>10, SMT
  <2> QED
    BY <1>1, <1>2, <1>7, <2>1
<1>11. ASSUME p = 1 PROVE back[a] = HEAD /\ back[back[a]] = NULL
  <2>1. p - 1 = 0
    BY <1>11
  <2> QED
    BY <1>1, <1>5, <1>7, <2>1
<1>12. back[a] # a
  BY <1>3, <1>6, <1>7
<1>13. back[a] \in S \cup {HEAD}
  BY <1>1, <1>4, <1>10, <1>11, SMT
<1> QED
  BY <1>1, <1>4, <1>8, <1>9, <1>10, <1>11, <1>12, <1>13 DEF l, p

\* The operators of the manager are the same in both specifications.
LEMMA SamePool ==
  ASSUME NEW m
  PROVE  /\ \A id, n : Pool!Insert(m, id, n) = Insert(m, id, n)
         /\ \A a : Pool!Erase(m, a) = Erase(m, a)
         /\ \A a, c : Pool!AddConversation(m, a, c) = AddConversation(m, a, c)
         /\ \A a, c : Pool!RemoveConversation(m, a, c) = RemoveConversation(m, a, c)
         /\ \A a, c : Pool!Hangs(m, a, c) <=> Hangs(m, a, c)
         /\ \A a : Pool!Accept(m, a) = Accept(m, a) /\ Pool!Refuse(m, a) = Refuse(m, a)
         /\ \A n : Pool!DoInvite(m, n) = DoInvite(m, n)
<1>1. \A order, a : Pool!Place(order, a) = Place(order, a)
  BY DEF Pool!Place, Place
<1>2. \A pool, order, a : Pool!OrderToTail(pool, order, a) = OrderToTail(pool, order, a)
  BY DEF Pool!OrderToTail, OrderToTail, Pool!TailPlace, TailPlace, Pool!Place, Place, Pool!Outranks, Outranks
<1>3. \A id, n : Pool!Insert(m, id, n) = Insert(m, id, n)
  BY <1>2 DEF Pool!Insert, Insert
<1>4. \A a : Pool!Erase(m, a) = Erase(m, a)
  BY DEF Pool!Erase, Erase, Pool!Without, Without, Pool!Place, Place
<1>5. \A a, c : Pool!AddConversation(m, a, c) = AddConversation(m, a, c)
  BY <1>2 DEF Pool!AddConversation, AddConversation, Pool!Holding, Holding
<1>6. \A a, c : Pool!RemoveConversation(m, a, c) = RemoveConversation(m, a, c)
  BY DEF Pool!RemoveConversation, RemoveConversation, Pool!Holding, Holding
<1>7. \A a, c : Pool!Hangs(m, a, c) <=> Hangs(m, a, c)
  BY <1>1, <1>6 DEF Pool!Hangs, Hangs, Pool!MustPassPrevious, MustPassPrevious, Pool!Outranks, Outranks
<1>8. \A a : Pool!Accept(m, a) = Accept(m, a) /\ Pool!Refuse(m, a) = Refuse(m, a)
  BY DEF Pool!Accept, Accept, Pool!Refuse, Refuse, Pool!Answered, Answered
<1>9. \A n : Pool!DoInvite(m, n) = DoInvite(m, n)
  <2>1. Pool!Invitable(m) = Invitable(m)
    BY DEF Pool!Invitable, Invitable
  <2>2. ASSUME NEW n PROVE Pool!Invited(m, n) = Invited(m, n)
    <3>1. \A T : Pool!Cardinality(T) = Cardinality(T)
      BY DEF Pool!Cardinality, Cardinality, Pool!IsFiniteSet, IsFiniteSet
    <3> QED
      BY <1>1, <2>1, <3>1, Zenon DEF Pool!Invited, Invited
  <2>3. ASSUME NEW n PROVE Pool!DoInvite(m, n) = DoInvite(m, n)
    <3> DEFINE After(I) == [m EXCEPT !.agents = [a \in DOMAIN m.agents |->
                                                   IF a \in I THEN [m.agents[a] EXCEPT !.state = "INVITING"]
                                                   ELSE m.agents[a]],
                                     !.inviting = @ \cup I]
    <3>1. Pool!DoInvite(m, n) = After(Pool!Invited(m, n))
      BY Zenon DEF Pool!DoInvite
    <3>2. DoInvite(m, n) = After(Invited(m, n))
      BY Zenon DEF DoInvite
    <3> HIDE DEF After
    <3> QED
      BY <2>2, <3>1, <3>2
  <2> QED
    BY <2>3
<1> QED
  BY <1>3, <1>4, <1>5, <1>6, <1>7, <1>8, <1>9

-----------------------------------------------------------------------------
(* The steps.  Each keeps the invariant, and is a step of the pool or none. *)

\* Nobody is linked at first.
LEMMA InitList == Init => ListInv /\ Completed = Empty /\ ~Hung
<1> SUFFICES ASSUME Init PROVE ListInv /\ Completed = Empty /\ ~Hung
  OBVIOUS
<1>1. agents = <<>> /\ inviting = {} /\ pc = "idle" /\ waiting = 0
  BY DEF Init
<1>2. DOMAIN agents = {} /\ agents = [a \in DOMAIN agents |-> agents[a]]
  BY <1>1, SMT
<1>3. IsFiniteSet(inviting) /\ Cardinality(DOMAIN agents) = 0
  BY <1>1, <1>2, FS_EmptySet
<1>4. Typed
  BY <1>1, <1>2, <1>3, ListAssumption DEF Typed, Init, Node
<1>5. ~Hung
  BY <1>1 DEF Hung
<1>6. Order = [i \in 1 .. 0 |-> Walk(next)[i]]
  BY <1>3, <1>5, Zenon DEF Order, List
<1>7. Order = <<>>
  BY <1>6, SMT
<1>8. Linking(<<>>, {}, next, prev)
  <2>1. Links(<<>>, {}) /\ Len(<<>>) = 0
    BY SMT DEF Links
  <2>2. Agents({})
    BY ListAssumption DEF Agents, Node
  <2>3. prev[HEAD] = NULL /\ next[HEAD] = NULL
    BY DEF Init, Node
  <2>4. \A i \in 0 .. 0 : next[Stands(<<>>, i)] = Stands(<<>>, i + 1)
    BY <2>1, <2>3, SMT DEF Stands
  <2>5. \A i \in 1 .. 0 : prev[<<>>[i]] = Stands(<<>>, i - 1)
    BY SMT
  <2> QED
    BY <2>1, <2>2, <2>3, <2>4, <2>5, LinkingBy
<1>9. ListInv
  BY <1>1, <1>2, <1>4, <1>5, <1>7, <1>8 DEF ListInv
<1>10. Completed = [agents |-> <<>>, order |-> <<>>, inviting |-> {}]
  BY <1>1, <1>7 DEF Completed, Manager
<1> QED
  BY <1>5, <1>9, <1>10 DEF Empty

\* Between the rounds of order_to_head that hang, the list is what its links are.
LEMMA ListNow ==
  ASSUME ListInv, ~Hung
  PROVE  /\ Linking(Order, DOMAIN agents, next, prev)
         /\ Links(Order, DOMAIN agents)
         /\ DOMAIN agents \subseteq Uin /\ HEAD \notin DOMAIN agents /\ NULL \notin DOMAIN agents
         /\ DOMAIN agents \subseteq Node /\ HEAD \in Node /\ NULL \notin Node
         /\ IsFiniteSet(DOMAIN agents)
<1>1. Linking(Order, DOMAIN agents, next, prev) /\ DOMAIN agents \subseteq Uin
  BY DEF ListInv, Typed
<1>2. IsFiniteSet(DOMAIN agents)
  BY <1>1, ListIs
<1> QED
  BY <1>1, <1>2, ListAssumption DEF Linking, Node

\* CSAgentMgr::insert, up to its order_to_tail.
LEMMA insertStep ==
  ASSUME ListInv, NEW id \in Umid, NEW n, insert(id, n)
  PROVE  /\ ListInv' /\ ~Hung /\ ~Hung'
         /\ id.uin \notin DOMAIN Completed.agents
         /\ Completed' = Insert(Completed, id, n)
<1> DEFINE a == id.uin
           S == DOMAIN agents
           first == next[HEAD]
           back == [prev EXCEPT ![a] = HEAD]
           s == Order
<1>1. pc = "idle" /\ pc' = "tail" /\ this' = a /\ inviting' = inviting /\ waiting' = waiting
  BY DEF insert, Enters
<1>2. ~Hung /\ ~Hung'
  BY <1>1 DEF Hung
<1>3. a \notin S /\ a \in Uin
  BY DEF insert, Umid
<1>4. /\ agents' = [b \in S \cup {a} |->
                      IF b = a
                      THEN [mp |-> id.mp, capacity |-> n, load |-> 0, state |-> "AVAILABLE", cvs |-> {}]
                      ELSE agents[b]]
      /\ next' = [next EXCEPT ![a] = first, ![HEAD] = a]
      /\ prev' = IF first = NULL THEN back ELSE [back EXCEPT ![first] = a]
  BY DEF insert
<1>5. /\ Linking(s, S, next, prev) /\ S \subseteq Uin /\ HEAD \notin S /\ NULL \notin S
      /\ S \subseteq Node /\ HEAD \in Node /\ NULL \notin Node
  BY <1>2, ListNow
<1>6. /\ prev \in [Node -> Node \cup {NULL}] /\ next \in [Node -> Node \cup {NULL}]
      /\ waiting \in Nat /\ IsFiniteSet(inviting)
  BY DEF ListInv, Typed
<1>7. a \in Node /\ a \notin S \cup {HEAD, NULL}
  BY <1>3, ListAssumption DEF Node
<1>8. first = NULL \/ first \in S
  <2>1. next[Stands(s, 0)] = Stands(s, 0 + 1) /\ Stands(s, 0) = HEAD /\ Len(s) \in Nat
    BY <1>5, Places, SMT
  <2>2. CASE Len(s) = 0
    BY <1>5, <2>1, <2>2, Places
  <2>3. CASE Len(s) # 0
    <3>1. 0 + 1 \in 1 .. Len(s)
      BY <2>1, <2>3, SMT
    <3> QED
      BY <1>5, <2>1, <3>1, Places
  <2> QED
    BY <2>2, <2>3
<1>9. prev' \in [Node -> Node \cup {NULL}] /\ next' \in [Node -> Node \cup {NULL}]
  BY <1>4, <1>5, <1>6, <1>7, <1>8
<1>10. Linking(<<a>> \o s, S \cup {a}, next', prev')
  <2>1. next'[a] = next[HEAD] /\ next'[HEAD] = a /\ \A x \in S : next'[x] = next[x]
    BY <1>4, <1>5, <1>6, <1>7
  <2>2. /\ prev'[a] = HEAD /\ prev'[HEAD] = prev[HEAD]
        /\ \A x \in S : prev'[x] = IF x = next[HEAD] THEN a ELSE prev[x]
    <3>1. CASE first = NULL
      BY <1>4, <1>5, <1>6, <1>7, <3>1
    <3>2. CASE first # NULL
      BY <1>4, <1>5, <1>6, <1>7, <1>8, <3>2
    <3> QED
      BY <3>1, <3>2
  <2> HIDE DEF s, S, a
  <2> QED
    BY <1>5, <1>7, <2>1, <2>2, InsertLinks
<1>11. DOMAIN agents' = S \cup {a}
  BY <1>4
<1>12. Order' = <<a>> \o s
  <2>1. Order' = List(Cardinality(DOMAIN agents'), next')
    BY <1>2 DEF Order
  <2>2. List(Cardinality(S \cup {a}), next') = <<a>> \o s
    <3> HIDE DEF s, S, a
    <3> QED
      BY <1>10, ListIs
  <2> QED
    BY <1>11, <2>1, <2>2
<1>13. Typed'
  <2>1. agents' = [b \in DOMAIN agents' |-> agents'[b]]
    BY <1>4
  <2>2. DOMAIN agents' \subseteq Uin /\ this' \in DOMAIN agents'
    BY <1>1, <1>3, <1>5, <1>11
  <2> QED
    BY <1>1, <1>6, <1>9, <2>1, <2>2 DEF Typed
<1>14. ListInv'
  BY <1>1, <1>10, <1>11, <1>12, <1>13 DEF ListInv
<1>15. Completed = [agents |-> agents, order |-> s, inviting |-> inviting]
  BY <1>1 DEF Completed, Manager
<1>16. Completed' = [agents |-> agents', order |-> OrderToTail(agents', <<a>> \o s, a), inviting |-> inviting]
  <2>1. Completed' = [Manager' EXCEPT !.order = OrderToTail(agents', Order', this')]
    BY <1>1 DEF Completed
  <2>2. Manager' = [agents |-> agents', order |-> Order', inviting |-> inviting]
    BY <1>1 DEF Manager
  <2> HIDE DEF s, a
  <2> QED
    BY <1>1, <1>12, <2>1, <2>2
<1>17. Insert(Completed, id, n) =
         [Completed EXCEPT !.agents = agents', !.order = OrderToTail(agents', <<a>> \o s, a)]
  BY <1>4, <1>15, Zenon DEF Insert
<1>18. Completed' = Insert(Completed, id, n)
  <2> HIDE DEF s, a
  <2>1. Completed.agents = agents /\ Completed.order = s /\ Completed.inviting = inviting
    BY <1>15
  <2> QED
    BY <1>15, <1>16, <1>17, <2>1, UpdateAgentsAndOrder
<1> QED
  BY <1>2, <1>3, <1>14, <1>15, <1>18

\* CSAgentMgr::erase.
LEMMA eraseStep ==
  ASSUME ListInv, NEW a \in DOMAIN agents, erase(a)
  PROVE  /\ ListInv' /\ ~Hung /\ ~Hung'
         /\ a \in DOMAIN Completed.agents
         /\ Completed' = Erase(Completed, a)
<1> DEFINE S == DOMAIN agents
           s == Order
           back == IF next[a] = NULL THEN prev ELSE [prev EXCEPT ![next[a]] = prev[a]]
<1>1. /\ pc = "idle" /\ pc' = "idle" /\ inviting' = inviting /\ waiting' = waiting
      /\ ~(agents[a].load > 0) /\ agents' = [b \in S \ {a} |-> agents[b]]
  BY DEF erase
<1>2. ~Hung /\ ~Hung'
  BY <1>1 DEF Hung
<1>3. /\ Linking(s, S, next, prev) /\ S \subseteq Uin /\ HEAD \notin S /\ NULL \notin S
      /\ S \subseteq Node /\ HEAD \in Node /\ NULL \notin Node
  BY <1>2, ListNow
<1>4. /\ prev \in [Node -> Node \cup {NULL}] /\ next \in [Node -> Node \cup {NULL}]
      /\ waiting \in Nat /\ IsFiniteSet(inviting)
  BY DEF ListInv, Typed
<1>5. /\ prev[a] \in S \cup {HEAD} /\ prev[a] # a
      /\ next[a] = NULL \/ next[a] \in S
  <2> HIDE DEF s, S
  <2>1. LET p == Place(s, a)
        IN  /\ p \in 1 .. Len(s) /\ Len(s) \in Nat
            /\ p < Len(s) => next[a] \in S
            /\ p = Len(s) => next[a] = NULL
            /\ prev[a] \in S \cup {HEAD} /\ prev[a] # a
    BY <1>3, Neighbours DEF S
  <2> QED
    BY <2>1, SMT
<1>6. prev[a] # NULL
  BY <1>3, <1>5
<1>7. next' = [next EXCEPT ![prev[a]] = next[a], ![a] = NULL] /\ prev' = [back EXCEPT ![a] = NULL]
  BY <1>6 DEF erase
<1>8. back \in [Node -> Node \cup {NULL}]
  BY <1>3, <1>4, <1>5
<1>9. \A x \in (S \cup {HEAD}) \ {a} : back[x] = IF x = next[a] THEN prev[a] ELSE prev[x]
  BY <1>3, <1>4, <1>5
<1> HIDE DEF back
<1>10. prev' \in [Node -> Node \cup {NULL}] /\ next' \in [Node -> Node \cup {NULL}]
  BY <1>3, <1>4, <1>5, <1>7, <1>8
<1>11. \A x \in (S \cup {HEAD}) \ {a} : next'[x] = IF x = prev[a] THEN next[a] ELSE next[x]
  BY <1>3, <1>4, <1>5, <1>7
<1>12. \A x \in (S \cup {HEAD}) \ {a} : prev'[x] = IF x = next[a] THEN prev[a] ELSE prev[x]
  BY <1>3, <1>7, <1>8, <1>9
<1>13. Linking(Without(s, a), S \ {a}, next', prev')
  <2>1. a \in S
    OBVIOUS
  <2> HIDE DEF s, S
  <2> QED
    BY <1>3, <1>11, <1>12, <2>1, EraseLinks
<1>14. DOMAIN agents' = S \ {a}
  BY <1>1
<1>15. Order' = Without(s, a)
  <2>1. Order' = List(Cardinality(DOMAIN agents'), next')
    BY <1>2 DEF Order
  <2>2. List(Cardinality(S \ {a}), next') = Without(s, a)
    <3> HIDE DEF s, S
    <3> QED
      BY <1>13, ListIs
  <2> QED
    BY <1>14, <2>1, <2>2
<1>16. Typed'
  <2>1. agents' = [b \in DOMAIN agents' |-> agents'[b]]
    BY <1>1
  <2>2. DOMAIN agents' \subseteq Uin
    BY <1>3, <1>14
  <2> QED
    BY <1>1, <1>4, <1>10, <2>1, <2>2 DEF Typed
<1>17. ListInv'
  BY <1>1, <1>13, <1>14, <1>15, <1>16 DEF ListInv
<1>18. Completed = [agents |-> agents, order |-> s, inviting |-> inviting]
  BY <1>1 DEF Completed, Manager
<1>19. Completed' = [agents |-> agents', order |-> Without(s, a), inviting |-> inviting]
  BY <1>1, <1>15 DEF Completed, Manager
<1>20. Erase(Completed, a) = [Completed EXCEPT !.agents = agents', !.order = Without(s, a)]
  BY <1>1, <1>18, Zenon DEF Erase
<1>21. Completed' = Erase(Completed, a)
  <2> HIDE DEF s
  <2>1. Completed.agents = agents /\ Completed.order = s /\ Completed.inviting = inviting
    BY <1>18
  <2> QED
    BY <1>18, <1>19, <1>20, <2>1, UpdateAgentsAndOrder
<1> QED
  BY <1>2, <1>17, <1>18, <1>21

\* What another conversation, or one less, leaves as it is.
LEMMA SameLinks ==
  ASSUME ListInv, ~Hung, next' = next, prev' = prev, DOMAIN agents' = DOMAIN agents,
         agents' = [b \in DOMAIN agents |-> agents'[b]]
  PROVE  /\ Linking(Order, DOMAIN agents', next', prev')
         /\ ~Hung' => Order' = Order
         /\ Hung' => Order' = <<>>
         /\ agents' = [b \in DOMAIN agents' |-> agents'[b]] /\ DOMAIN agents' \subseteq Uin
         /\ prev' \in [Node -> Node \cup {NULL}] /\ next' \in [Node -> Node \cup {NULL}]
<1>1. Linking(Order, DOMAIN agents, next, prev)
  BY ListNow
<1>2. Order = List(Cardinality(DOMAIN agents), next)
  BY DEF Order
<1>3. ~Hung' => Order' = List(Cardinality(DOMAIN agents'), next')
  BY DEF Order
<1>4. Hung' => Order' = <<>>
  BY DEF Order
<1>5. ~Hung' => Order' = Order
  BY <1>2, <1>3
<1>6. prev' \in [Node -> Node \cup {NULL}] /\ next' \in [Node -> Node \cup {NULL}]
  BY DEF ListInv, Typed
<1>7. agents' = [b \in DOMAIN agents' |-> agents'[b]] /\ DOMAIN agents' \subseteq Uin
  BY DEF ListInv, Typed
<1> QED
  BY <1>1, <1>4, <1>5, <1>6, <1>7

\* CSAgentMgr::add_conversation, up to its order_to_tail.
LEMMA add_conversationStep ==
  ASSUME ListInv, NEW a \in DOMAIN agents, NEW c, add_conversation(a, c)
  PROVE  /\ ListInv' /\ ~Hung /\ ~Hung'
         /\ a \in DOMAIN Completed.agents
         /\ Completed' = AddConversation(Completed, a, c)
<1> DEFINE s == Order
<1>1. /\ pc = "idle" /\ pc' = "tail" /\ this' = a
      /\ inviting' = inviting /\ waiting' = waiting /\ prev' = prev /\ next' = next
      /\ c \notin agents[a].cvs
      /\ agents' = [agents EXCEPT ![a] = Holding(@, @.cvs \cup {c}, @.load + 1)]
  BY DEF add_conversation, Enters
<1>2. ~Hung /\ ~Hung'
  BY <1>1 DEF Hung
<1>3. DOMAIN agents' = DOMAIN agents /\ agents' = [b \in DOMAIN agents |-> agents'[b]]
  BY <1>1
<1>4. /\ Linking(Order, DOMAIN agents', next', prev') /\ Order' = Order
      /\ agents' = [b \in DOMAIN agents' |-> agents'[b]] /\ DOMAIN agents' \subseteq Uin
      /\ prev' \in [Node -> Node \cup {NULL}] /\ next' \in [Node -> Node \cup {NULL}]
  BY <1>1, <1>2, <1>3, SameLinks
<1>5. Typed'
  BY <1>1, <1>3, <1>4 DEF Typed, ListInv
<1>6. ListInv'
  BY <1>1, <1>4, <1>5 DEF ListInv
<1>7. Completed = [agents |-> agents, order |-> s, inviting |-> inviting]
  BY <1>1 DEF Completed, Manager
<1>8. Completed' = [agents |-> agents', order |-> OrderToTail(agents', s, a), inviting |-> inviting]
  <2>1. Completed' = [Manager' EXCEPT !.order = OrderToTail(agents', Order', this')]
    BY <1>1 DEF Completed
  <2>2. Manager' = [agents |-> agents', order |-> Order', inviting |-> inviting]
    BY <1>1 DEF Manager
  <2> HIDE DEF s
  <2> QED
    BY <1>1, <1>4, <2>1, <2>2 DEF s
<1> HIDE DEF s
<1>9. Completed.agents = agents /\ Completed.order = s /\ Completed.inviting = inviting
  BY <1>7
<1>10. AddConversation(Completed, a, c) =
         [Completed EXCEPT !.agents = agents', !.order = OrderToTail(agents', s, a)]
  BY <1>1, <1>9 DEF AddConversation
<1>11. Completed' = AddConversation(Completed, a, c)
  BY <1>7, <1>8, <1>9, <1>10, UpdateAgentsAndOrder
<1> QED
  BY <1>2, <1>6, <1>9, <1>11

\* Where an agent stands, order_to_head's test is the one AgentMgr gives it.
LEMMA PassesPreviousIs ==
  ASSUME NEW S, NEW s, NEW on, NEW back, Linking(s, S, on, back), NEW a \in S,
         NEW m, m.order = s
  PROVE  (back[back[a]] # NULL /\ ~Outranks(m.agents[a], m.agents[back[a]])) <=> MustPassPrevious(m, a)
<1> DEFINE p == Place(s, a)
<1>1. /\ p \in 1 .. Len(s) /\ Len(s) \in Nat
      /\ p > 1 => back[a] = s[p - 1] /\ back[back[a]] # NULL
      /\ p = 1 => back[back[a]] = NULL
  BY Neighbours
<1>2. MustPassPrevious(m, a) <=> p > 1 /\ ~Outranks(m.agents[a], m.agents[s[p - 1]])
  BY DEF MustPassPrevious
<1> HIDE DEF p
<1>3. p = 1 \/ p > 1
  BY <1>1, SMT
<1> QED
  BY <1>1, <1>2, <1>3

\* CSAgentMgr::remove_conversation, up to its order_to_head: the loop that is entered then
\* is the one that does not end, or is left at once.
LEMMA remove_conversationStep ==
  ASSUME ListInv, NEW a \in DOMAIN agents, NEW c, remove_conversation(a, c)
  PROVE  /\ ListInv' /\ ~Hung
         /\ a \in DOMAIN Completed.agents
         /\ \/ /\ ~Hangs(Completed, a, c) /\ ~Hung'
               /\ Completed' = RemoveConversation(Completed, a, c)
            \/ /\ Hangs(Completed, a, c) /\ Hung'
               /\ Completed' = [RemoveConversation(Completed, a, c) EXCEPT !.order = <<>>]
<1> DEFINE s == Order
           S == DOMAIN agents
           m == RemoveConversation(Completed, a, c)
<1>1. /\ pc = "idle" /\ pc' = "head" /\ this' = a
      /\ inviting' = inviting /\ waiting' = waiting /\ prev' = prev /\ next' = next
      /\ c \in agents[a].cvs
      /\ agents' = [agents EXCEPT ![a] = Holding(@, @.cvs \ {c}, @.load - 1)]
  BY DEF remove_conversation, Enters
<1>2. ~Hung
  BY <1>1 DEF Hung
<1>3. DOMAIN agents' = DOMAIN agents /\ agents' = [b \in DOMAIN agents |-> agents'[b]]
  BY <1>1
<1>4. /\ Linking(Order, DOMAIN agents', next', prev')
      /\ ~Hung' => Order' = Order
      /\ Hung' => Order' = <<>>
      /\ agents' = [b \in DOMAIN agents' |-> agents'[b]] /\ DOMAIN agents' \subseteq Uin
      /\ prev' \in [Node -> Node \cup {NULL}] /\ next' \in [Node -> Node \cup {NULL}]
  BY <1>1, <1>2, <1>3, SameLinks
<1>5. Linking(s, S, next, prev) /\ S \subseteq Node /\ HEAD \in Node /\ a \in S
  BY <1>2, ListNow
<1>6. prev[a] \in S \cup {HEAD}
  <2> HIDE DEF s, S
  <2> QED
    BY <1>5, Neighbours
<1>7. Typed'
  BY <1>1, <1>3, <1>4, <1>5, <1>6 DEF Typed, ListInv
<1>8. ListInv'
  BY <1>1, <1>4, <1>7 DEF ListInv
<1>9. Completed = [agents |-> agents, order |-> s, inviting |-> inviting]
  BY <1>1 DEF Completed, Manager
<1>10. Completed.agents = agents /\ Completed.order = s /\ Completed.inviting = inviting
  BY <1>9
<1>11. m = [Completed EXCEPT !.agents = agents']
  BY <1>1, <1>10 DEF RemoveConversation
<1>12. m = [agents |-> agents', order |-> s, inviting |-> inviting]
  <2> HIDE DEF m, s
  <2> QED
    BY <1>9, <1>11
<1>13. Hangs(Completed, a, c) <=> MustPassPrevious(m, a)
  BY <1>1, <1>10 DEF Hangs
<1> HIDE DEF m
<1>14. Hung' <=> prev[prev[a]] # NULL /\ ~Outranks(agents'[a], agents'[prev[a]])
  BY <1>1 DEF Hung, PassesPrevious
<1>15. Hung' <=> Hangs(Completed, a, c)
  <2>1. m.order = s /\ m.agents = agents'
    BY <1>12
  <2> HIDE DEF s, S
  <2>2. (prev[prev[a]] # NULL /\ ~Outranks(m.agents[a], m.agents[prev[a]])) <=> MustPassPrevious(m, a)
    BY <1>5, <2>1, PassesPreviousIs
  <2> QED
    BY <1>13, <1>14, <2>1, <2>2
<1>16. Completed' = [agents |-> agents', order |-> Order', inviting |-> inviting]
  BY <1>1 DEF Completed, Manager
<1>17. CASE Hung'
  <2>1. [m EXCEPT !.order = <<>>] = [agents |-> agents', order |-> <<>>, inviting |-> inviting]
    BY <1>12
  <2>2. Completed' = [m EXCEPT !.order = <<>>]
    BY <1>4, <1>16, <1>17, <2>1
  <2> QED
    BY <1>2, <1>8, <1>10, <1>15, <1>17, <2>2 DEF m
<1>18. CASE ~Hung'
  <2>1. Completed' = m
    BY <1>4, <1>12, <1>16, <1>18
  <2> QED
    BY <1>2, <1>8, <1>10, <1>15, <1>18, <2>1 DEF m
<1> QED
  BY <1>17, <1>18

\* CSAgentMgr::accept and CSAgentMgr::refuse.
LEMMA answerStep ==
  ASSUME ListInv, NEW a \in DOMAIN agents, NEW state, answer(a, state)
  PROVE  /\ ListInv' /\ ~Hung /\ ~Hung'
         /\ a \in DOMAIN Completed.agents /\ a \in Completed.inviting
         /\ Completed' = Answered(Completed, a, state)
<1> DEFINE s == Order
<1>1. /\ pc = "idle" /\ pc' = "idle" /\ a \in inviting /\ inviting' = inviting \ {a}
      /\ waiting' = waiting /\ prev' = prev /\ next' = next
      /\ agents' = [agents EXCEPT ![a].state = state]
  BY DEF answer
<1>2. ~Hung /\ ~Hung'
  BY <1>1 DEF Hung
<1>3. DOMAIN agents' = DOMAIN agents /\ agents' = [b \in DOMAIN agents |-> agents'[b]]
  BY <1>1
<1>4. /\ Linking(Order, DOMAIN agents', next', prev') /\ Order' = Order
      /\ agents' = [b \in DOMAIN agents' |-> agents'[b]] /\ DOMAIN agents' \subseteq Uin
      /\ prev' \in [Node -> Node \cup {NULL}] /\ next' \in [Node -> Node \cup {NULL}]
  BY <1>1, <1>2, <1>3, SameLinks
<1>5. IsFiniteSet(inviting') /\ waiting \in Nat
  BY <1>1, FS_RemoveElement DEF ListInv, Typed
<1>6. Typed'
  BY <1>1, <1>4, <1>5 DEF Typed
<1>7. ListInv'
  BY <1>1, <1>4, <1>6 DEF ListInv
<1>8. Completed = [agents |-> agents, order |-> s, inviting |-> inviting]
  BY <1>1 DEF Completed, Manager
<1>9. Completed' = [agents |-> agents', order |-> s, inviting |-> inviting']
  BY <1>1, <1>4 DEF Completed, Manager
<1> HIDE DEF s
<1>10. Completed.agents = agents /\ Completed.order = s /\ Completed.inviting = inviting
  BY <1>8
<1>11. Answered(Completed, a, state) = [Completed EXCEPT !.agents = agents', !.inviting = inviting']
  BY <1>1, <1>10 DEF Answered
<1>12. Completed' = Answered(Completed, a, state)
  BY <1>8, <1>9, <1>10, <1>11, UpdateAgentsAndInviting
<1> QED
  BY <1>1, <1>2, <1>7, <1>10, <1>12

\* A round of order_to_tail, or its end.
LEMMA order_to_tailStep ==
  ASSUME ListInv, order_to_tail
  PROVE  ListInv' /\ ~Hung /\ ~Hung' /\ Completed' = Completed
<1> DEFINE s == Order
           S == DOMAIN agents
           a == this
           p == Place(s, a)
           n == next[a]
<1>1. pc = "tail" /\ agents' = agents /\ inviting' = inviting /\ waiting' = waiting
  BY DEF order_to_tail
<1>2. ~Hung
  BY <1>1 DEF Hung
<1>3. /\ Linking(s, S, next, prev) /\ Links(s, S) /\ S \subseteq Uin /\ HEAD \notin S /\ NULL \notin S
      /\ S \subseteq Node /\ HEAD \in Node /\ NULL \notin Node
  BY <1>2, ListNow
<1>4. /\ agents = [b \in DOMAIN agents |-> agents[b]]
      /\ prev \in [Node -> Node \cup {NULL}] /\ next \in [Node -> Node \cup {NULL}]
      /\ waiting \in Nat /\ IsFiniteSet(inviting) /\ a \in S
  BY <1>1 DEF ListInv, Typed
<1>5. /\ p \in 1 .. Len(s) /\ s[p] = a /\ Len(s) \in Nat
      /\ p < Len(s) => n = s[p + 1] /\ n \in S
      /\ p = Len(s) => n = NULL
      /\ prev[a] \in S \cup {HEAD} /\ prev[a] # a
  <2> HIDE DEF s, S, a
  <2> QED
    BY <1>3, <1>4, Neighbours
<1>6. Manager = [agents |-> agents, order |-> s, inviting |-> inviting]
  BY DEF Manager
<1>7. Completed = [agents |-> agents, order |-> OrderToTail(agents, s, a), inviting |-> inviting]
  <2>1. Completed = [Manager EXCEPT !.order = OrderToTail(agents, s, a)]
    BY <1>1 DEF Completed
  <2> HIDE DEF s
  <2> QED
    BY <1>6, <2>1
<1>8. CASE ~PassesNext
  <2>1. pc' = "idle" /\ prev' = prev /\ next' = next
    BY <1>8 DEF order_to_tail, Returns
  <2>2. ~Hung'
    BY <2>1 DEF Hung
  <2>3. /\ Linking(Order, DOMAIN agents', next', prev') /\ Order' = Order
        /\ agents' = [b \in DOMAIN agents' |-> agents'[b]] /\ DOMAIN agents' \subseteq Uin
        /\ prev' \in [Node -> Node \cup {NULL}] /\ next' \in [Node -> Node \cup {NULL}]
    BY <1>1, <1>2, <1>4, <2>1, <2>2, SameLinks
  <2>4. Typed'
    BY <1>1, <1>4, <2>1, <2>3 DEF Typed
  <2>5. ListInv'
    BY <2>1, <2>3, <2>4 DEF ListInv
  <2>6. p < Len(s) => Outranks(agents[s[p + 1]], agents[a])
    <3>1. ~(n # NULL /\ ~Outranks(agents[n], agents[a]))
      BY <1>8 DEF PassesNext
    <3> QED
      BY <1>3, <1>5, <3>1
  <2>7. OrderToTail(agents, s, a) = s
    <3> HIDE DEF s, S, a
    <3> QED
      BY <1>3, <1>4, <2>6, OrderToTailEnds
  <2>8. Completed' = [agents |-> agents, order |-> s, inviting |-> inviting]
    BY <1>1, <2>1, <2>3 DEF Completed, Manager
  <2> QED
    BY <1>2, <1>7, <2>2, <2>5, <2>7, <2>8
<1>9. CASE PassesNext
  <2> DEFINE back == [prev EXCEPT ![n] = prev[a], ![a] = n]
             t == Swapped(s, p)
  <2>1. /\ pc' = pc /\ this' = this
        /\ next' = [next EXCEPT ![prev[a]] = n, ![a] = next[n], ![n] = a]
        /\ prev' = IF next[n] = NULL THEN back ELSE [back EXCEPT ![next[n]] = a]
    BY <1>9 DEF order_to_tail
  <2>2. ~Hung'
    BY <1>1, <2>1 DEF Hung
  <2>3. n # NULL /\ ~Outranks(agents[n], agents[a])
    BY <1>9 DEF PassesNext
  <2>4. p < Len(s) /\ n = s[p + 1] /\ n \in S
    BY <1>5, <2>3, SMT
  <2>5. p \in 1 .. Len(s) - 1 /\ OrderToTail(agents, t, a) = OrderToTail(agents, s, a)
    <3> HIDE DEF s, S, a, n
    <3> QED
      BY <1>3, <1>4, <2>3, <2>4, OrderToTailPasses
  <2>6. next[n] = NULL \/ next[n] \in S
    <3> DEFINE q == Place(s, n)
    <3>1. /\ q \in 1 .. Len(s)
          /\ q < Len(s) => next[n] \in S
          /\ q = Len(s) => next[n] = NULL
      <4> HIDE DEF s, S, n
      <4> QED
        BY <1>3, <2>4, Neighbours
    <3> QED
      BY <1>5, <3>1, SMT
  <2>7. back \in [Node -> Node \cup {NULL}]
    BY <1>3, <1>4, <1>5, <2>4
  <2>8. prev' \in [Node -> Node \cup {NULL}] /\ next' \in [Node -> Node \cup {NULL}]
    <3> HIDE DEF back
    <3>1. prev' \in [Node -> Node \cup {NULL}]
      BY <1>3, <1>4, <2>1, <2>6, <2>7
    <3>2. next[n] \in Node \cup {NULL} /\ a \in Node /\ n \in Node
      BY <1>3, <1>4, <2>4, <2>6
    <3>3. next' \in [Node -> Node \cup {NULL}]
      BY <1>4, <2>1, <3>2
    <3> QED
      BY <3>1, <3>3
  <2>9. \A x \in S \cup {HEAD} :
           next'[x] = IF x = n THEN a ELSE IF x = a THEN next[n] ELSE IF x = prev[a] THEN n ELSE next[x]
    BY <1>3, <1>4, <2>1
  <2>10. \A x \in S \cup {HEAD} :
           prev'[x] = IF x = next[n] THEN a ELSE IF x = a THEN n ELSE IF x = n THEN prev[a] ELSE prev[x]
    <3>1. \A x \in S \cup {HEAD} : back[x] = IF x = a THEN n ELSE IF x = n THEN prev[a] ELSE prev[x]
      BY <1>3, <1>4
    <3> HIDE DEF back
    <3> QED
      BY <1>3, <2>1, <2>6, <2>7, <3>1
  <2>11. Linking(t, S, next', prev')
    <3>1. a = s[p] /\ n = s[p + 1] /\ p \in 1 .. Len(s) - 1
      BY <1>5, <2>4, <2>5
    <3> HIDE DEF s, S, a, n, p
    <3> QED
      BY <1>3, <2>9, <2>10, <3>1, SwapLinks
  <2>12. Order' = t
    <3>1. Order' = List(Cardinality(S), next')
      BY <1>1, <2>2 DEF Order
    <3>2. List(Cardinality(S), next') = t
      <4> HIDE DEF S, t
      <4> QED
        BY <2>11, ListIs
    <3> QED
      BY <3>1, <3>2
  <2>13. Typed'
    BY <1>1, <1>3, <1>4, <2>1, <2>8 DEF Typed
  <2>14. ListInv'
    BY <1>1, <2>1, <2>11, <2>12, <2>13 DEF ListInv
  <2>15. Completed' = [agents |-> agents, order |-> OrderToTail(agents, t, a), inviting |-> inviting]
    <3>1. Completed' = [Manager' EXCEPT !.order = OrderToTail(agents', Order', this')]
      BY <1>1, <2>1 DEF Completed
    <3>2. Manager' = [agents |-> agents, order |-> Order', inviting |-> inviting]
      BY <1>1 DEF Manager
    <3> HIDE DEF t
    <3> QED
      BY <1>1, <2>1, <2>12, <3>1, <3>2
  <2> QED
    BY <1>2, <1>7, <2>2, <2>5, <2>14, <2>15
<1> QED
  BY <1>8, <1>9

\* order_to_head returns at once, or goes round and round: the two agents it tries to
\* exchange go on pointing at each other.
LEMMA order_to_headStep ==
  ASSUME ListInv, order_to_head
  PROVE  ListInv' /\ (Hung' <=> Hung) /\ Completed' = Completed
<1>1. pc = "head" /\ agents' = agents /\ inviting' = inviting /\ waiting' = waiting
  BY DEF order_to_head
<1>2. Completed = [agents |-> agents, order |-> Order, inviting |-> inviting]
  BY <1>1 DEF Completed, Manager
<1>3. /\ agents = [b \in DOMAIN agents |-> agents[b]] /\ DOMAIN agents \subseteq Uin
      /\ prev \in [Node -> Node \cup {NULL}] /\ next \in [Node -> Node \cup {NULL}]
      /\ waiting \in Nat /\ IsFiniteSet(inviting) /\ this \in DOMAIN agents /\ prev[this] \in Node
  BY <1>1 DEF ListInv, Typed
<1>4. CASE ~PassesPrevious
  <2>1. pc' = "idle" /\ prev' = prev /\ next' = next
    BY <1>4 DEF order_to_head, Returns
  <2>2. ~Hung /\ ~Hung'
    BY <1>4, <2>1 DEF Hung
  <2>3. /\ Linking(Order, DOMAIN agents', next', prev') /\ Order' = Order
        /\ agents' = [b \in DOMAIN agents' |-> agents'[b]] /\ DOMAIN agents' \subseteq Uin
        /\ prev' \in [Node -> Node \cup {NULL}] /\ next' \in [Node -> Node \cup {NULL}]
    BY <1>1, <1>3, <2>1, <2>2, SameLinks
  <2>4. Typed'
    BY <1>1, <1>3, <2>1, <2>3 DEF Typed
  <2>5. ListInv'
    BY <2>1, <2>3, <2>4 DEF ListInv
  <2>6. Completed' = [agents |-> agents, order |-> Order, inviting |-> inviting]
    BY <1>1, <2>1, <2>3 DEF Completed, Manager
  <2> QED
    BY <1>2, <2>2, <2>5, <2>6
<1>5. CASE PassesPrevious
  <2> DEFINE a == this
             p == prev[a]
             back == [prev EXCEPT ![a] = prev[p], ![p] = a]
             on == [next EXCEPT ![back[p]] = a]
             over == [on EXCEPT ![p] = on[a]]
             past == [over EXCEPT ![a] = p]
  <2>1. /\ pc' = pc /\ this' = this /\ next' = past
        /\ prev' = IF past[p] = NULL THEN back ELSE [back EXCEPT ![past[p]] = p]
    BY <1>5 DEF order_to_head
  <2>2. a \in Node /\ p \in Node /\ a \in DOMAIN agents /\ NULL \notin Node
    BY <1>3, ListAssumption DEF Node
  <2>3. Hung
    BY <1>1, <1>5 DEF Hung
  <2>4. prev[p] \in Node \cup {NULL} /\ next[p] \in Node \cup {NULL}
    BY <1>3, <2>2
  <2> HIDE DEF a, p
  <2>5. back \in [Node -> Node \cup {NULL}] /\ back[p] = a
    BY <1>3, <2>2, <2>4 DEF a, p
  <2> HIDE DEF back
  <2>6. on \in [Node -> Node \cup {NULL}] /\ on[a] = a
    BY <1>3, <2>2, <2>5
  <2> HIDE DEF on
  <2>7. over \in [Node -> Node \cup {NULL}] /\ over[p] = a
    BY <2>2, <2>6
  <2> HIDE DEF over
  <2>8. past \in [Node -> Node \cup {NULL}] /\ past[p] = a
    BY <2>2, <2>7
  <2> HIDE DEF past
  <2>9. prev' = [back EXCEPT ![a] = p]
    BY <2>1, <2>2, <2>8
  <2>10. prev' \in [Node -> Node \cup {NULL}] /\ prev'[a] = p /\ prev'[p] = a
    BY <2>2, <2>5, <2>9
  <2>11. Outranks(agents[a], agents[p]) <=> FALSE
    BY <1>5 DEF PassesPrevious, a, p
  <2>12. Hung'
    BY <1>1, <2>1, <2>2, <2>10, <2>11 DEF Hung, PassesPrevious, a
  <2>13. Typed'
    BY <1>1, <1>3, <2>1, <2>2, <2>8, <2>10 DEF Typed, a
  <2>14. ListInv'
    BY <1>1, <2>1, <2>12, <2>13 DEF ListInv
  <2>15. Order = <<>> /\ Order' = <<>>
    BY <2>3, <2>12 DEF Order
  <2>16. Completed' = [agents |-> agents, order |-> Order', inviting |-> inviting]
    BY <1>1, <2>1 DEF Completed, Manager
  <2> QED
    BY <1>2, <2>3, <2>12, <2>14, <2>15, <2>16
<1> QED
  BY <1>4, <1>5

\* QUEUE::do_invite, up to its loop.
LEMMA do_inviteStep ==
  ASSUME ListInv, NEW n \in Nat, do_invite(n)
  PROVE  ListInv' /\ ~Hung /\ ~Hung' /\ Completed' = DoInvite(Completed, n)
<1>1. /\ pc = "idle" /\ pc' = "invite" /\ this' = HEAD /\ waiting' = n
      /\ agents' = agents /\ inviting' = inviting /\ prev' = prev /\ next' = next
  BY DEF do_invite, Enters
<1>2. ~Hung /\ ~Hung'
  BY <1>1 DEF Hung
<1>3. agents = [b \in DOMAIN agents |-> agents[b]] /\ IsFiniteSet(inviting)
  BY DEF ListInv, Typed
<1>4. /\ Linking(Order, DOMAIN agents', next', prev') /\ Order' = Order
      /\ agents' = [b \in DOMAIN agents' |-> agents'[b]] /\ DOMAIN agents' \subseteq Uin
      /\ prev' \in [Node -> Node \cup {NULL}] /\ next' \in [Node -> Node \cup {NULL}]
  BY <1>1, <1>2, <1>3, SameLinks
<1>5. Typed'
  BY <1>1, <1>3, <1>4 DEF Typed
<1>6. Passed'
  <2>1. Len(Order) \in Nat /\ Stands(Order, 0) = HEAD
    BY <1>1, <1>4, Places
  <2>2. 0 \in 0 .. Len(Order) /\ 1 .. 0 = {}
    BY <2>1, SMT
  <2>3. \E i \in 0 .. Len(Order) :
          this' = Stands(Order, i) /\ \A j \in 1 .. i : Order[j] \notin Invitable(Manager')
    BY <1>1, <2>1, <2>2
  <2> QED
    BY <1>4, <2>3 DEF Passed
<1>7. ListInv'
  BY <1>1, <1>4, <1>5, <1>6 DEF ListInv
<1>8. Completed = Manager /\ Manager' = Manager
  BY <1>1, <1>4 DEF Completed, Manager
<1>9. Completed' = DoInvite(Manager', waiting')
  BY <1>1 DEF Completed
<1> QED
  BY <1>1, <1>2, <1>7, <1>8, <1>9

\* A round of do_invite, or its end.
LEMMA inviteStep ==
  ASSUME ListInv, invite
  PROVE  ListInv' /\ ~Hung /\ ~Hung' /\ Completed' = Completed
<1> DEFINE s == Order
           S == DOMAIN agents
           m == Manager
           a == next[this]
<1>1. pc = "invite" /\ prev' = prev /\ next' = next
  BY DEF invite
<1>2. pc' \in {"idle", "invite"}
  BY <1>1 DEF invite, Returns
<1>3. ~Hung /\ ~Hung'
  BY <1>1, <1>2 DEF Hung
<1>4. /\ Linking(s, S, next, prev) /\ Links(s, S) /\ S \subseteq Uin /\ NULL \notin S
      /\ IsFiniteSet(S)
  BY <1>3, ListNow
<1>5. /\ agents = [b \in DOMAIN agents |-> agents[b]] /\ waiting \in Nat /\ IsFiniteSet(inviting)
  BY DEF ListInv, Typed
<1>6. /\ m = [agents |-> agents, order |-> s, inviting |-> inviting]
      /\ m.agents = agents /\ m.order = s /\ m.inviting = inviting
      /\ m = [agents |-> m.agents, order |-> m.order, inviting |-> m.inviting]
  BY DEF Manager
<1>7. Completed = DoInvite(m, waiting)
  BY <1>1 DEF Completed
<1>8. PICK i \in 0 .. Len(s) :
        this = Stands(s, i) /\ \A j \in 1 .. i : s[j] \notin Invitable(m)
  BY <1>1 DEF ListInv, Passed
<1>9. /\ Len(s) \in Nat /\ a = Stands(s, i + 1)
      /\ \A j \in 1 .. Len(s) : s[j] \in S /\ Stands(s, j) = s[j]
      /\ \A j \in Nat : j > Len(s) => Stands(s, j) = NULL
  <2> HIDE DEF s, S
  <2>1. /\ Len(s) \in Nat
        /\ \A j \in 0 .. Len(s) : next[Stands(s, j)] = Stands(s, j + 1)
        /\ \A j \in 1 .. Len(s) : s[j] \in S /\ Stands(s, j) = s[j]
        /\ \A j \in Nat : j > Len(s) => Stands(s, j) = NULL
    BY <1>4, Places
  <2> QED
    BY <1>8, <2>1
<1>10. \A b \in S : Place(s, b) \in 1 .. Len(s) /\ s[Place(s, b)] = b
  <2> HIDE DEF s, S
  <2> QED
    BY <1>4, PlaceIsPlace
<1>11. \A j \in 1 .. Len(s) : Place(s, s[j]) = j
  <2> HIDE DEF s, S
  <2> QED
    BY <1>4, <1>9, PlaceIsPlace
<1>12. Invitable(m) \subseteq S
  BY <1>6, Zenon DEF Invitable
<1> HIDE DEF m
<1>13. CASE Cardinality(inviting) >= waiting \/ a = NULL
  <2>1. pc' = "idle" /\ agents' = agents /\ inviting' = inviting /\ waiting' = 0
    <3>1. ~(Cardinality(inviting) < waiting /\ a # NULL)
      <4>1. Cardinality(inviting) \in Nat
        BY <1>5, FS_CardinalityType
      <4> QED
        BY <1>5, <1>13, <4>1, SMT
    <3> QED
      BY <3>1 DEF invite, Returns
  <2>2. /\ Linking(Order, DOMAIN agents', next', prev') /\ Order' = Order
        /\ agents' = [b \in DOMAIN agents' |-> agents'[b]] /\ DOMAIN agents' \subseteq Uin
        /\ prev' \in [Node -> Node \cup {NULL}] /\ next' \in [Node -> Node \cup {NULL}]
    BY <1>1, <1>3, <1>5, <2>1, SameLinks
  <2>3. Typed'
    BY <1>5, <2>1, <2>2 DEF Typed
  <2>4. ListInv'
    BY <2>1, <2>2, <2>3 DEF ListInv
  <2>5. Completed' = m
    BY <1>6, <2>1, <2>2 DEF Completed, Manager
  <2>6. Invited(m, waiting) = {}
    <3>1. CASE Cardinality(inviting) >= waiting
      <4> HIDE DEF s, S
      <4> QED
        BY <1>4, <1>5, <1>6, <3>1, EnoughInvited DEF S
    <3>2. CASE a = NULL
      <4>1. i = Len(s)
        <5>1. SUFFICES ASSUME i # Len(s) PROVE FALSE
          OBVIOUS
        <5>2. i + 1 \in 1 .. Len(s)
          BY <1>8, <1>9, <5>1, SMT
        <5> QED
          BY <1>4, <1>9, <3>2, <5>2
      <4>2. Invitable(m) = {}
        BY <1>8, <1>10, <1>12, <4>1
      <4> QED
        BY <4>2, Zenon DEF Invited
    <3> QED
      BY <1>13, <3>1, <3>2
  <2>7. DoInvite(m, waiting) = m
    BY <1>5, <1>6, <2>6, NobodyInvited
  <2> QED
    BY <1>3, <1>7, <2>4, <2>5, <2>7
<1>14. CASE Cardinality(inviting) < waiting /\ a # NULL
  <2>1. /\ pc' = "invite" /\ waiting' = waiting /\ this' = a
        /\ IF is_strong_aval(a) /\ a \notin inviting
           THEN /\ inviting' = inviting \cup {a}
                /\ agents' = [agents EXCEPT ![a].state = "INVITING"]
           ELSE agents' = agents /\ inviting' = inviting
    <3>1. ~(Cardinality(inviting) >= waiting \/ a = NULL)
      <4>1. Cardinality(inviting) \in Nat
        BY <1>5, FS_CardinalityType
      <4> QED
        BY <1>5, <1>14, <4>1, SMT
    <3> QED
      BY <1>1, <3>1 DEF invite
  <2>2. i + 1 \in 1 .. Len(s)
    <3>1. SUFFICES ASSUME i + 1 \notin 1 .. Len(s) PROVE FALSE
      OBVIOUS
    <3>2. i + 1 \in Nat /\ i + 1 > Len(s)
      BY <1>8, <1>9, <3>1, SMT
    <3> QED
      BY <1>9, <1>14, <3>2
  <2>3. a = s[i + 1] /\ a \in S
    BY <1>9, <2>2
  <2>4. a \in Invitable(m) <=> is_strong_aval(a) /\ a \notin inviting
    BY <1>6, <2>3, Zenon DEF Invitable, is_strong_aval
  <2>5. DOMAIN agents' = DOMAIN agents /\ agents' = [b \in DOMAIN agents |-> agents'[b]]
    BY <1>5, <2>1
  <2>6. /\ Linking(Order, DOMAIN agents', next', prev') /\ Order' = Order
        /\ agents' = [b \in DOMAIN agents' |-> agents'[b]] /\ DOMAIN agents' \subseteq Uin
        /\ prev' \in [Node -> Node \cup {NULL}] /\ next' \in [Node -> Node \cup {NULL}]
    BY <1>1, <1>3, <2>5, SameLinks
  <2>7. IsFiniteSet(inviting')
    BY <1>5, <2>1, FS_AddElement
  <2>8. Typed'
    BY <1>5, <2>1, <2>6, <2>7 DEF Typed
  <2>9. Manager' = [agents |-> agents', order |-> s, inviting |-> inviting']
    BY <2>6 DEF Manager
  <2>10. a \notin Invitable(Manager') /\ \A b \in S : b \in Invitable(Manager') => b \in Invitable(m)
    <3>1. CASE a \in Invitable(m)
      <4>1. inviting' = inviting \cup {a} /\ agents' = [agents EXCEPT ![a].state = "INVITING"]
        BY <2>1, <2>4, <3>1
      <4>2. \A b \in S : b \in Invitable(Manager') =>
              b \notin inviting' /\ agents'[b].capacity > agents'[b].load /\ agents'[b].state = "AVAILABLE"
        BY <2>9, Zenon DEF Invitable
      <4>3. \A b \in Invitable(Manager') : b \in S /\ b \notin inviting'
        BY <2>5, <2>9, Zenon DEF Invitable
      <4>4. \A b \in S : b # a => agents'[b] = agents[b]
        BY <4>1
      <4>5. ASSUME NEW b \in S, b \in Invitable(Manager') PROVE b \in Invitable(m)
        <5>1. b # a /\ b \notin inviting
          BY <4>1, <4>3, <4>5
        <5>2. agents[b].capacity > agents[b].load /\ agents[b].state = "AVAILABLE"
          BY <4>2, <4>4, <4>5, <5>1
        <5> QED
          BY <1>6, <5>1, <5>2, Zenon DEF Invitable
      <4> QED
        BY <4>1, <4>3, <4>5
    <3>2. CASE a \notin Invitable(m)
      <4>1. Manager' = m
        BY <1>6, <2>1, <2>4, <2>9, <3>2
      <4> QED
        BY <3>2, <4>1
    <3> QED
      BY <3>1, <3>2
  <2>11. Passed'
    <3>1. \A j \in 1 .. i + 1 : s[j] \notin Invitable(Manager')
      <4> SUFFICES ASSUME NEW j \in 1 .. i + 1, s[j] \in Invitable(Manager') PROVE FALSE
        OBVIOUS
      <4>1. j = i + 1 \/ j \in 1 .. i
        BY <1>8, <1>9, SMT
      <4>2. j \in 1 .. Len(s)
        BY <1>8, <1>9, <2>2, SMT
      <4> QED
        BY <1>8, <1>9, <2>3, <2>10, <4>1, <4>2
    <3>2. i + 1 \in 0 .. Len(s) /\ this' = Stands(s, i + 1)
      BY <1>9, <2>1, <2>2, SMT
    <3>3. \E k \in 0 .. Len(s) :
            this' = Stands(s, k) /\ \A j \in 1 .. k : s[j] \notin Invitable(Manager')
      BY <3>1, <3>2
    <3> QED
      BY <2>6, <3>3 DEF Passed
  <2>12. ListInv'
    BY <2>1, <2>6, <2>8, <2>11 DEF ListInv
  <2>13. Completed' = DoInvite(Manager', waiting)
    BY <2>1 DEF Completed
  <2>14. DoInvite(Manager', waiting) = DoInvite(m, waiting)
    <3>1. CASE a \notin Invitable(m)
      <4>1. Manager' = m
        BY <1>6, <2>1, <2>4, <2>9, <3>1
      <4> QED
        BY <4>1
    <3>2. CASE a \in Invitable(m)
      <4>1. Manager' = [agents |-> [m.agents EXCEPT ![a].state = "INVITING"],
                        order |-> m.order, inviting |-> m.inviting \cup {a}]
        BY <1>6, <2>1, <2>4, <2>9, <3>2
      <4>2. ASSUME NEW b \in Invitable(m) PROVE ~(Place(s, b) < Place(s, a))
        <5>1. Place(s, a) = i + 1 /\ Place(s, b) \in 1 .. Len(s) /\ s[Place(s, b)] = b
          BY <1>10, <1>11, <1>12, <2>2, <2>3
        <5>2. Place(s, b) \notin 1 .. i
          BY <1>8, <5>1
        <5> HIDE DEF s
        <5> QED
          BY <1>8, <1>9, <5>1, <5>2, SMT
      <4> DEFINE k == Manager'
      <4>3. k = [agents |-> [m.agents EXCEPT ![a].state = "INVITING"],
                 order |-> m.order, inviting |-> m.inviting \cup {a}]
        BY <4>1
      <4> HIDE DEF k, s, S, a
      <4>4. DoInvite(k, waiting) = DoInvite(m, waiting)
        BY <1>4, <1>5, <1>6, <1>14, <3>2, <4>2, <4>3, FirstInvited DEF S
      <4> QED
        BY <4>4 DEF k
    <3> QED
      BY <3>1, <3>2
  <2> QED
    BY <1>3, <1>7, <2>12, <2>13, <2>14
<1> QED
  <2>1. Cardinality(inviting) \in Nat
    BY <1>5, FS_CardinalityType
  <2>2. Cardinality(inviting) >= waiting \/ Cardinality(inviting) < waiting
    BY <1>5, <2>1, SMT
  <2> QED
    BY <1>13, <1>14, <2>2

-----------------------------------------------------------------------------
(* The theorems.                                                           *)

\* Both truth values, as the pool has them.
LEMMA HungIs == Hung \in BOOLEAN /\ Hung' \in BOOLEAN
BY DEF Hung

\* The three shapes a step has for the pool.
LEMMA NextKinds ==
  ASSUME ListInv, Next
  PROVE  /\ ListInv'
         /\ \/ /\ Completed' = Completed /\ (Hung' <=> Hung)
            \/ /\ ~Hung
               /\ \/ \E id \in Umid, n \in Capacities :
                       /\ id.uin \notin DOMAIN Completed.agents /\ ~Hung'
                       /\ Completed' = Insert(Completed, id, n)
                  \/ \E a \in DOMAIN Completed.agents :
                       \/ Completed' = Erase(Completed, a) /\ ~Hung'
                       \/ /\ a \in Completed.inviting /\ ~Hung'
                          /\ Completed' = Accept(Completed, a) \/ Completed' = Refuse(Completed, a)
                       \/ \E c \in Cvs :
                            \/ Completed' = AddConversation(Completed, a, c) /\ ~Hung'
                            \/ /\ ~Hangs(Completed, a, c) /\ ~Hung'
                               /\ Completed' = RemoveConversation(Completed, a, c)
                            \/ /\ Hangs(Completed, a, c) /\ Hung'
                               /\ Completed' = [RemoveConversation(Completed, a, c) EXCEPT !.order = <<>>]
                  \/ \E n \in 0 .. MaxWaiting : Completed' = DoInvite(Completed, n) /\ ~Hung'
<1>1. ASSUME NEW id \in Umid, NEW n \in Capacities, insert(id, n)
      PROVE  /\ ListInv' /\ ~Hung /\ ~Hung'
             /\ id.uin \notin DOMAIN Completed.agents
             /\ Completed' = Insert(Completed, id, n)
  BY <1>1, insertStep
<1>2. ASSUME NEW a \in DOMAIN agents, erase(a)
      PROVE  /\ ListInv' /\ ~Hung /\ ~Hung'
             /\ a \in DOMAIN Completed.agents
             /\ Completed' = Erase(Completed, a)
  BY <1>2, eraseStep
<1>3. ASSUME NEW a \in DOMAIN agents, NEW c \in Cvs, add_conversation(a, c)
      PROVE  /\ ListInv' /\ ~Hung /\ ~Hung'
             /\ a \in DOMAIN Completed.agents
             /\ Completed' = AddConversation(Completed, a, c)
  BY <1>3, add_conversationStep
<1>4. ASSUME NEW a \in DOMAIN agents, NEW c \in Cvs, remove_conversation(a, c)
      PROVE  /\ ListInv' /\ ~Hung
             /\ a \in DOMAIN Completed.agents
             /\ \/ /\ ~Hangs(Completed, a, c) /\ ~Hung'
                   /\ Completed' = RemoveConversation(Completed, a, c)
                \/ /\ Hangs(Completed, a, c) /\ Hung'
                   /\ Completed' = [RemoveConversation(Completed, a, c) EXCEPT !.order = <<>>]
  BY <1>4, remove_conversationStep
<1>5. ASSUME NEW a \in DOMAIN agents, NEW state \in {"AVAILABLE", "REFUSE"}, answer(a, state)
      PROVE  /\ ListInv' /\ ~Hung /\ ~Hung'
             /\ a \in DOMAIN Completed.agents /\ a \in Completed.inviting
             /\ Completed' = Accept(Completed, a) \/ Completed' = Refuse(Completed, a)
  <2>1. /\ ListInv' /\ ~Hung /\ ~Hung'
        /\ a \in DOMAIN Completed.agents /\ a \in Completed.inviting
        /\ Completed' = Answered(Completed, a, state)
    BY <1>5, answerStep
  <2>2. state = "AVAILABLE" \/ state = "REFUSE"
    OBVIOUS
  <2> QED
    BY <2>1, <2>2 DEF Accept, Refuse
<1>6. CASE order_to_tail
  BY <1>6, order_to_tailStep
<1>7. CASE order_to_head
  BY <1>7, order_to_headStep
<1>8. ASSUME NEW n \in 0 .. MaxWaiting, do_invite(n)
      PROVE  ListInv' /\ ~Hung /\ ~Hung' /\ Completed' = DoInvite(Completed, n)
  <2>1. n \in Nat
    BY ListAssumption, SMT
  <2> QED
    BY <1>8, <2>1, do_inviteStep
<1>9. CASE invite
  BY <1>9, inviteStep
<1>10. CASE \E id \in Umid, n \in Capacities : insert(id, n)
  BY <1>1, <1>10
<1>11. CASE \E a \in DOMAIN agents : erase(a)
  BY <1>2, <1>11
<1>12. CASE \E a \in DOMAIN agents, c \in Cvs : add_conversation(a, c)
  BY <1>3, <1>12
<1>13. CASE \E a \in DOMAIN agents, c \in Cvs : remove_conversation(a, c)
  BY <1>4, <1>13
<1>14. CASE \E a \in DOMAIN agents, state \in {"AVAILABLE", "REFUSE"} : answer(a, state)
  BY <1>5, <1>14
<1>15. CASE \E n \in 0 .. MaxWaiting : do_invite(n)
  BY <1>8, <1>15
<1> QED
  BY <1>6, <1>7, <1>9, <1>10, <1>11, <1>12, <1>13, <1>14, <1>15 DEF Next

\* The invariant is one.
LEMMA ListInductive == Spec => []ListInv
<1>1. Init => ListInv
  BY InitList
<1>2. ListInv /\ [Next]_vars => ListInv'
  <2>1. ASSUME ListInv, Next PROVE ListInv'
    BY <2>1, NextKinds
  <2>2. ASSUME ListInv, UNCHANGED vars PROVE ListInv'
    <3>1. Hung' <=> Hung
      BY <2>2 DEF vars, Hung, PassesPrevious
    <3>2. Order' = Order
      BY <2>2, <3>1 DEF vars, Order
    <3>3. Manager' = Manager
      BY <2>2, <3>2 DEF vars, Manager
    <3>4. Typed' <=> Typed
      BY <2>2 DEF vars, Typed
    <3>5. Passed' <=> Passed
      BY <2>2, <3>2, <3>3 DEF vars, Passed
    <3> QED
      BY <2>2, <3>1, <3>2, <3>4, <3>5 DEF vars, ListInv
  <2> QED
    BY <2>1, <2>2
<1> QED
  BY <1>1, <1>2, PTL DEF Spec

\* However many agents sign on, take conversations, give them up and sign off: the
\* pointers link every present agent once, both ways, after every round of every loop
\* (Agent.h:51, Agent.h:76, Agent.cpp:41, Agent.cpp:55).
THEOREM ListLinked == Spec => []Linked
<1>1. ListInv => Linked
  BY DEF ListInv, Linked, Linking
<1> QED
  BY <1>1, ListInductive, PTL

\* The linked list is the sequence of agents AgentMgr has, and its loops come to what
\* AgentMgr says of a whole operation, for any number of agents, conversations and users
\* who wait (Agent.h:51, CSAgentMgr.cpp:145, Queue.cpp:258).
THEOREM ListIsPool == Spec => ImplementsPool
<1>1. Init => Pool!Init
  BY InitList DEF Pool!Init, Pool!Empty, Empty
<1>2. ListInv /\ Next => Pool!Next \/ UNCHANGED Pool!pool
  <2> SUFFICES ASSUME ListInv, Next PROVE Pool!Next \/ UNCHANGED Pool!pool
    OBVIOUS
  <2>1. Hung \in BOOLEAN /\ Hung' \in BOOLEAN
    BY HungIs
  <2> DEFINE m == Completed
             k == Completed'
  <2>2. \/ k = m /\ (Hung' <=> Hung)
        \/ /\ ~Hung
           /\ \/ \E id \in Umid, n \in Capacities :
                   id.uin \notin DOMAIN m.agents /\ ~Hung' /\ k = Insert(m, id, n)
              \/ \E a \in DOMAIN m.agents :
                   \/ k = Erase(m, a) /\ ~Hung'
                   \/ /\ a \in m.inviting /\ ~Hung'
                      /\ k = Accept(m, a) \/ k = Refuse(m, a)
                   \/ \E c \in Cvs :
                        \/ k = AddConversation(m, a, c) /\ ~Hung'
                        \/ ~Hangs(m, a, c) /\ ~Hung' /\ k = RemoveConversation(m, a, c)
                        \/ /\ Hangs(m, a, c) /\ Hung'
                           /\ k = [RemoveConversation(m, a, c) EXCEPT !.order = <<>>]
              \/ \E n \in 0 .. MaxWaiting : k = DoInvite(m, n) /\ ~Hung'
    BY NextKinds
  <2>3. k = m /\ (Hung' <=> Hung) => UNCHANGED Pool!pool
    BY <2>1 DEF Pool!pool
  <2>4. ~Hung /\ ~Hung' => Hung' = Hung
    BY <2>1
  <2>5. ASSUME ~Hung, NEW id \in Umid, NEW n \in Capacities,
               id.uin \notin DOMAIN m.agents, ~Hung', k = Insert(m, id, n)
        PROVE  Pool!Next
    <3>1. Pool!Arrive(id, n)
      BY <2>4, <2>5, SamePool DEF Pool!Arrive
    <3>2. id \in Pool!Umid
      BY DEF Umid, Pool!Umid
    <3> QED
      BY <2>5, <3>1, <3>2 DEF Pool!Next
  <2>6. ASSUME ~Hung, NEW a \in DOMAIN m.agents, k = Erase(m, a), ~Hung'
        PROVE  Pool!Next
    <3>1. Pool!Leave(a)
      BY <2>4, <2>6, SamePool DEF Pool!Leave
    <3> QED
      BY <2>6, <3>1 DEF Pool!Next
  <2>7. ASSUME ~Hung, NEW a \in DOMAIN m.agents, a \in m.inviting, ~Hung',
               k = Accept(m, a) \/ k = Refuse(m, a)
        PROVE  Pool!Next
    <3>1. Pool!Answer(a)
      BY <2>4, <2>7, SamePool DEF Pool!Answer
    <3> QED
      BY <2>7, <3>1 DEF Pool!Next
  <2>8. ASSUME ~Hung, NEW a \in DOMAIN m.agents, NEW c \in Cvs,
               k = AddConversation(m, a, c), ~Hung'
        PROVE  Pool!Next
    <3>1. Pool!TakeOn(a, c)
      BY <2>4, <2>8, SamePool DEF Pool!TakeOn
    <3> QED
      BY <2>8, <3>1 DEF Pool!Next
  <2>9. ASSUME ~Hung, NEW a \in DOMAIN m.agents, NEW c \in Cvs,
               \/ ~Hangs(m, a, c) /\ ~Hung' /\ k = RemoveConversation(m, a, c)
               \/ /\ Hangs(m, a, c) /\ Hung'
                  /\ k = [RemoveConversation(m, a, c) EXCEPT !.order = <<>>]
        PROVE  Pool!Next
    <3>1. Pool!RemoveConversation(m, a, c) = RemoveConversation(m, a, c)
          /\ (Pool!Hangs(m, a, c) <=> Hangs(m, a, c))
      BY SamePool
    <3>2. Hung' => Hung' = TRUE
      BY <2>1
    <3>3. Pool!GiveUp(a, c)
      BY <2>4, <2>9, <3>1, <3>2 DEF Pool!GiveUp
    <3> QED
      BY <2>9, <3>3 DEF Pool!Next
  <2>10. ASSUME ~Hung, NEW n \in 0 .. MaxWaiting, k = DoInvite(m, n), ~Hung'
         PROVE  Pool!Next
    <3>1. Pool!Call(n)
      BY <2>4, <2>10, SamePool DEF Pool!Call
    <3> QED
      BY <2>10, <3>1 DEF Pool!Next
  <2> HIDE DEF m, k
  <2> QED
    BY <2>2, <2>3, <2>5, <2>6, <2>7, <2>8, <2>9, <2>10
<1> QED
  <2>1. UNCHANGED vars => UNCHANGED Pool!pool
    <3> SUFFICES ASSUME UNCHANGED vars PROVE UNCHANGED Pool!pool
      OBVIOUS
    <3>1. Hung' = Hung
      BY DEF vars, Hung, PassesPrevious
    <3>2. Order' = Order
      BY <3>1 DEF vars, Order
    <3>3. Completed' = Completed
      BY <3>2 DEF vars, Completed, Manager
    <3> QED
      BY <3>1, <3>3 DEF Pool!pool
  <2>2. ListInv /\ [Next]_vars => [Pool!Next]_(Pool!pool)
    BY <1>2, <2>1
  <2> QED
    BY <1>1, <2>2, ListInductive, PTL DEF Spec, ImplementsPool, Pool!Spec

\* Between two operations: no agent stands behind one it should be invited before.
Ordered == pc = "idle" => ManagerOK(Manager) /\ Ranked(Manager)

\* The operations of the linked list keep the order an invitation goes by, whatever has been
\* called before: what AgentMgr's operations keep holds of the pointers (Agent.h:109).
THEOREM ListOrdered == Spec => []Ordered
<1> DEFINE Inv == ListInv /\ (~Hung => ManagerOK(Completed) /\ Ranked(Completed))
<1>1. Init => Inv
  <2>1. ManagerOK(Empty) /\ Ranked(Empty)
    BY EmptyOK DEF Ranked, Empty
  <2> QED
    BY <2>1, InitList
<1>2. Inv /\ [Next]_vars => Inv'
  <2>1. ASSUME Inv, Next PROVE Inv'
    <3> DEFINE m == Completed
               k == Completed'
    <3>1. /\ ListInv'
          /\ \/ k = m /\ (Hung' <=> Hung)
             \/ /\ ~Hung
                /\ \/ \E id \in Umid, n \in Capacities :
                        id.uin \notin DOMAIN m.agents /\ ~Hung' /\ k = Insert(m, id, n)
                   \/ \E a \in DOMAIN m.agents :
                        \/ k = Erase(m, a) /\ ~Hung'
                        \/ /\ a \in m.inviting /\ ~Hung'
                           /\ k = Accept(m, a) \/ k = Refuse(m, a)
                        \/ \E c \in Cvs :
                             \/ k = AddConversation(m, a, c) /\ ~Hung'
                             \/ ~Hangs(m, a, c) /\ ~Hung' /\ k = RemoveConversation(m, a, c)
                             \/ /\ Hangs(m, a, c) /\ Hung'
                                /\ k = [RemoveConversation(m, a, c) EXCEPT !.order = <<>>]
                   \/ \E n \in 0 .. MaxWaiting : k = DoInvite(m, n) /\ ~Hung'
      BY <2>1, NextKinds
    <3>2. ~Hung => ManagerOK(m) /\ Ranked(m)
      BY <2>1
    <3> HIDE DEF m, k
    <3>3. ASSUME ManagerOK(m), Ranked(m), NEW id \in Umid, NEW n \in Capacities,
                 id.uin \notin DOMAIN m.agents, k = Insert(m, id, n)
          PROVE  ManagerOK(k) /\ Ranked(k)
      BY <3>3, InsertOK, InsertRanks, ListAssumption
    <3>4. ASSUME ManagerOK(m), Ranked(m), NEW a \in DOMAIN m.agents, k = Erase(m, a)
          PROVE  ManagerOK(k) /\ Ranked(k)
      BY <3>4, EraseOK, EraseRanks
    <3>5. ASSUME ManagerOK(m), Ranked(m), NEW a \in DOMAIN m.agents,
                 k = Accept(m, a) \/ k = Refuse(m, a)
          PROVE  ManagerOK(k) /\ Ranked(k)
      <4>1. PICK state \in {"AVAILABLE", "REFUSE"} : k = Answered(m, a, state)
        BY <3>5 DEF Accept, Refuse
      <4>2. ManagerOK(k)
        BY <3>5, <4>1, AnsweredOK
      <4>3. SameButStates(m, k)
        BY <3>5, <4>1, AnsweredDoes DEF AgentState
      <4> QED
        BY <3>5, <4>2, <4>3, StatesDoNotRank
    <3>6. ASSUME ManagerOK(m), Ranked(m), NEW a \in DOMAIN m.agents, NEW c \in Cvs,
                 k = AddConversation(m, a, c)
          PROVE  ManagerOK(k) /\ Ranked(k)
      BY <3>6, AddConversationOK, AddConversationRanks, ListAssumption
    <3>7. ASSUME ManagerOK(m), Ranked(m), NEW a \in DOMAIN m.agents, NEW c \in Cvs,
                 ~Hangs(m, a, c), k = RemoveConversation(m, a, c)
          PROVE  ManagerOK(k) /\ Ranked(k)
      BY <3>7, RemoveConversationOK, RemoveConversationRanks, ListAssumption
    <3>8. ASSUME ManagerOK(m), Ranked(m), NEW n \in 0 .. MaxWaiting, k = DoInvite(m, n)
          PROVE  ManagerOK(k) /\ Ranked(k)
      <4>1. ManagerOK(k)
        BY <3>8, DoInviteOK
      <4>2. SameButStates(m, k)
        BY <3>8, DoInviteDoes
      <4> QED
        BY <3>8, <4>1, <4>2, StatesDoNotRank
    <3>9. ~Hung' => ManagerOK(k) /\ Ranked(k)
      BY <3>1, <3>2, <3>3, <3>4, <3>5, <3>6, <3>7, <3>8
    <3> QED
      BY <3>1, <3>9 DEF k
  <2>2. ASSUME Inv, UNCHANGED vars PROVE Inv'
    <3>1. Hung' <=> Hung
      BY <2>2 DEF vars, Hung, PassesPrevious
    <3>2. Order' = Order
      BY <2>2, <3>1 DEF vars, Order
    <3>3. Manager' = Manager
      BY <2>2, <3>2 DEF vars, Manager
    <3>4. Completed' = Completed
      BY <2>2, <3>2, <3>3 DEF vars, Completed
    <3>5. Typed' <=> Typed
      BY <2>2 DEF vars, Typed
    <3>6. Passed' <=> Passed
      BY <2>2, <3>2, <3>3 DEF vars, Passed
    <3> QED
      BY <2>2, <3>1, <3>2, <3>4, <3>5, <3>6 DEF vars, ListInv
  <2> QED
    BY <2>1, <2>2
<1>3. Inv => Ordered
  BY DEF Ordered, Hung, Completed
<1> QED
  BY <1>1, <1>2, <1>3, PTL DEF Spec

=============================================================================
