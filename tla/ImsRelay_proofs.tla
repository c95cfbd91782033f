--------------------------- MODULE ImsRelay_proofs ---------------------------
(***************************************************************************)
(* What holds of the relay for any number of packets, users and servers,   *)
(* whatever fails and whoever logs off.                                    *)
(***************************************************************************)
EXTENDS ImsRelay, TLAPS

-----------------------------------------------------------------------------
(* The state of one request.                                               *)

\* CustomService has agreed to r, and the other party, if there is one to tell, is told.
Agreed(r) ==
  /\ reply[r] # None /\ reply[r].code = 200
  /\ packet[r].cmd \in {"WY_CS_AGENT_ACCEPT", "WY_CS_SEND_MSG"} => \E n \in relayed : n.of = r

\* The client has not been answered, or once, and then truly.
ToldOnce(r) ==
  \/ told[r] = <<>>
  \/ \E m : told[r] = <<m>> /\ (m.code = 200 => Agreed(r))

\* A context comes with the request and goes with the answer; until CustomService has
\* answered, nobody else has.
Fine(r) ==
  /\ step[r] \in {"new", "received"} => context[r] = "none"
  /\ step[r] \in {"new", "received", "failed"} => r \notin asked
  /\ r \in asked \/ step[r] \in {"new", "received", "failed"}
       => told[r] = <<>> /\ reply[r] = None
  /\ r \in asked => context[r] = "live"
  /\ reply[r] # None /\ context[r] = "live" => packet[r].cmd = "WY_CS_AGENT_REFUSE"
  /\ ToldOnce(r)

Shapes ==
  /\ DOMAIN packet = Req /\ DOMAIN step = Req /\ DOMAIN context = Req
  /\ DOMAIN reply = Req /\ DOMAIN told = Req
  /\ asked \subseteq Req

Inv == Shapes /\ (\A r \in Req : Fine(r)) /\ SurvivesOthers

\* The other requests stay as they are.
Alone(r) ==
  /\ Shapes'
  /\ relayed \subseteq relayed'
  /\ \A q \in Req \ {r} :
       /\ packet'[q] = packet[q] /\ step'[q] = step[q] /\ context'[q] = context[q]
       /\ reply'[q] = reply[q] /\ told'[q] = told[q]
       /\ q \in asked' <=> q \in asked

LEMMA OthersFine ==
  ASSUME NEW r \in Req, Alone(r), NEW q \in Req \ {r}, Fine(q)
  PROVE  Fine(q)'
<1>1. Agreed(q) => Agreed(q)'
  BY DEF Agreed, Alone
<1>2. ToldOnce(q)'
  BY <1>1 DEF Fine, ToldOnce, Alone
<1> QED
  BY <1>2 DEF Fine, Alone

\* The first answer.
LEMMA Answered ==
  ASSUME Shapes, NEW r \in Req, NEW cmd, NEW code, Tell(r, cmd, code), told[r] = <<>>,
         code = 200 => Agreed(r)'
  PROVE  ToldOnce(r)'
<1> DEFINE m == [cmd |-> cmd, code |-> code]
<1>1. told'[r] = Append(told[r], m)
  BY DEF Tell, Shapes
<1>2. told'[r] = <<m>>
  BY <1>1
<1>3. m.code = code
  OBVIOUS
<1> HIDE DEF m
<1> QED
  BY <1>2, <1>3 DEF ToldOnce

LEMMA TellAlone ==
  ASSUME Shapes, NEW r \in Req, NEW cmd, NEW code, Tell(r, cmd, code)
  PROVE  DOMAIN told' = Req /\ \A q \in Req \ {r} : told'[q] = told[q]
BY DEF Tell, Shapes

\* A step of r, after which r is as it should be and the process still runs.
LEMMA AliveInv ==
  ASSUME Inv, NEW r \in Req, Alone(r), Fine(r)', alive, UNCHANGED alive
  PROVE  Inv'
<1>1. \A q \in Req : Fine(q)'
  BY OthersFine DEF Inv
<1>2. SurvivesOthers'
  BY DEF SurvivesOthers
<1> QED
  BY <1>1, <1>2 DEF Inv, Alone

-----------------------------------------------------------------------------
(* The steps.                                                              *)

LEMMA InitInv == Init => Inv
<1> SUFFICES ASSUME Init PROVE Inv
  OBVIOUS
<1>1. Shapes
  BY DEF Init, Shapes
<1>2. ASSUME NEW r \in Req PROVE Fine(r)
  BY DEF Init, Fine, ToldOnce
<1> QED
  BY <1>1, <1>2 DEF Inv, Init, SurvivesOthers

LEMMA ReceivesInv ==
  ASSUME Inv, NEW r \in Req, NEW p \in Packet, OnPacketReceivedFromClient(r, p)
  PROVE  Inv'
<1>1. /\ alive /\ step[r] = "new" /\ UNCHANGED <<context, asked, reply, relayed, alive>>
      /\ step' = [step EXCEPT ![r] = IF Dispatched(p.cmd) /\ p.cmd \in Handled THEN "received"
                                     ELSE "over"]
      /\ packet' = [packet EXCEPT ![r] = p]
      /\ told[r] = <<>> /\ reply[r] = None /\ context[r] = "none" /\ r \notin asked /\ Shapes
  BY DEF Inv, Fine, OnPacketReceivedFromClient
<1>2. \/ UNCHANGED told
      \/ Tell(r, "WY_INVALID_COMMAND", 0) /\ step'[r] = "over"
  BY <1>1 DEF OnPacketReceivedFromClient, Shapes
<1>3. Alone(r)
  BY <1>1, <1>2, TellAlone DEF Alone, Shapes
<1>4. ToldOnce(r)'
  <2>1. CASE UNCHANGED told
    BY <1>1, <2>1 DEF ToldOnce
  <2>2. CASE Tell(r, "WY_INVALID_COMMAND", 0)
    BY <1>1, <2>2, Answered
  <2> QED
    BY <1>2, <2>1, <2>2
<1>5. Fine(r)'
  BY <1>1, <1>2, <1>4 DEF Fine, Shapes
<1> QED
  BY <1>1, <1>3, <1>5, AliveInv

LEMMA HandleInv ==
  ASSUME Inv, NEW r \in Req, NEW cmd, NEW failed, Handle(r, cmd, failed)
  PROVE  Inv'
<1>1. Shapes /\ Fine(r) /\ alive /\ UNCHANGED <<packet, reply, relayed, alive>>
  BY DEF Inv, Handle
<1>2. CASE step[r] = "received" /\ (NoClient(r) \/ Ask(r)) /\ UNCHANGED told
  <2>1. Alone(r)
    BY <1>1, <1>2 DEF Alone, Shapes, NoClient, Ask
  <2>2. /\ r \notin asked /\ told'[r] = <<>> /\ reply'[r] = None
        /\ \/ step'[r] = "failed" /\ asked' = asked
           \/ step'[r] = "sent" /\ context'[r] = "live"
    BY <1>1, <1>2 DEF Fine, Shapes, NoClient, Ask
  <2>3. Fine(r)'
    BY <2>2 DEF Fine, ToldOnce
  <2> QED
    BY <1>1, <2>1, <2>3, AliveInv
<1>3. CASE Release(r) /\ UNCHANGED asked
  <2>1. Alone(r)
    BY <1>1, <1>3 DEF Alone, Shapes, Release
  <2>2. step'[r] = "over" /\ UNCHANGED <<context, told, asked>>
    BY <1>1, <1>3 DEF Shapes, Release
  <2>3. ToldOnce(r)'
    BY <1>1, <2>2 DEF Fine, ToldOnce, Agreed
  <2>4. Fine(r)'
    BY <1>1, <2>2, <2>3 DEF Fine
  <2> QED
    BY <1>1, <2>1, <2>4, AliveInv
<1>4. CASE GiveUp(r, failed) /\ UNCHANGED asked
  <2>1. /\ step[r] = "failed" /\ step' = [step EXCEPT ![r] = "over"]
        /\ Tell(r, failed, 500)
        /\ \/ UNCHANGED context
           \/ Delete(r)
    BY <1>4 DEF GiveUp, Succeeded
  <2>2. told[r] = <<>> /\ reply[r] = None /\ r \notin asked
    BY <1>1, <2>1 DEF Fine
  <2>3. Alone(r)
    BY <1>1, <1>4, <2>1, TellAlone DEF Alone, Shapes, Delete
  <2>4. ToldOnce(r)'
    BY <1>1, <2>1, <2>2, Answered
  <2>5. step'[r] = "over"
    BY <1>1, <2>1 DEF Shapes
  <2>6. Fine(r)'
    BY <1>1, <1>4, <2>2, <2>4, <2>5 DEF Fine
  <2> QED
    BY <1>1, <2>3, <2>6, AliveInv
<1> QED
  BY <1>2, <1>3, <1>4 DEF Handle

\* CustomService's answer, whatever the callback makes of it.
LEMMA CalledIs ==
  ASSUME Inv, NEW r \in Req, NEW cmd, NEW code \in Code, NEW party \in Umid \cup {None},
         Called(r, cmd, code, party)
  PROVE  /\ Shapes /\ alive /\ told[r] = <<>> /\ packet'[r].cmd = cmd
         /\ reply'[r].code = code /\ reply'[r] # None
         /\ r \notin asked' /\ asked' \subseteq Req
         /\ step'[r] \notin {"new", "received", "failed"}
         /\ DOMAIN packet' = Req /\ DOMAIN step' = Req /\ DOMAIN reply' = Req
         /\ UNCHANGED <<online, packet, step>>
         /\ \A q \in Req \ {r} : reply'[q] = reply[q] /\ (q \in asked' <=> q \in asked)
<1>1. Shapes /\ Fine(r) /\ alive /\ r \in asked /\ packet[r].cmd = cmd
  BY DEF Inv, Called
<1> DEFINE answer == [code |-> code, party |-> party]
<1>2. answer \in [code: Code, party: Umid \cup {None}] /\ answer.code = code
  OBVIOUS
<1>3. answer # None
  BY <1>2, RelayAssumption
<1>4. reply' = [reply EXCEPT ![r] = answer]
  BY DEF Called
<1> HIDE DEF answer
<1>5. reply'[r] = answer
  BY <1>1, <1>4 DEF Shapes
<1> QED
  BY <1>1, <1>2, <1>3, <1>4, <1>5 DEF Shapes, Fine, Called

LEMMA AnswersInv ==
  ASSUME Inv, NEW r \in Req, NEW cmd, NEW code \in Code, Answers(r, cmd, code),
         cmd \notin {"WY_CS_AGENT_ACCEPT", "WY_CS_SEND_MSG"}
  PROVE  Inv'
<1>1. /\ Shapes /\ alive /\ told[r] = <<>> /\ packet'[r].cmd = cmd
      /\ reply'[r].code = code /\ reply'[r] # None
      /\ r \notin asked' /\ asked' \subseteq Req
      /\ step'[r] \notin {"new", "received", "failed"}
      /\ DOMAIN packet' = Req /\ DOMAIN step' = Req /\ DOMAIN reply' = Req
      /\ UNCHANGED <<online, packet, step>>
      /\ \A q \in Req \ {r} : reply'[q] = reply[q] /\ (q \in asked' <=> q \in asked)
  BY CalledIs DEF Answers
<1>2. /\ context' = [context EXCEPT ![r] = "freed"] /\ UNCHANGED <<relayed, alive>>
      /\ Tell(r, cmd, code) \/ UNCHANGED told
  BY DEF Answers, Delete
<1>3. context'[r] = "freed" /\ DOMAIN context' = Req
  BY <1>1, <1>2 DEF Shapes
<1>4. Alone(r)
  <2>1. DOMAIN told' = Req /\ \A q \in Req \ {r} : told'[q] = told[q]
    BY <1>1, <1>2, TellAlone DEF Shapes
  <2> QED
    BY <1>1, <1>2, <1>3, <2>1 DEF Alone, Shapes
<1>5. ToldOnce(r)'
  <2>1. code = 200 => Agreed(r)'
    BY <1>1 DEF Agreed
  <2>2. CASE Tell(r, cmd, code)
    BY <1>1, <2>1, <2>2, Answered
  <2>3. CASE UNCHANGED told
    BY <1>1, <2>3 DEF ToldOnce
  <2> QED
    BY <1>2, <2>2, <2>3
<1>6. Fine(r)'
  BY <1>1, <1>3, <1>5 DEF Fine
<1> QED
  BY <1>1, <1>2, <1>4, <1>6, AliveInv

\* Who is told 200 when a notification was due has had it sent.
LEMMA OutcomeTrue ==
  ASSUME NEW ims, NEW u, NEW code, NEW o \in Outcomes(ims, u, code), o.code = 200
  PROVE  o.sent = TRUE /\ code = 200
BY DEF Outcomes

LEMMA RelaysInv ==
  ASSUME Inv, NEW r \in Req, NEW cmd \in {"WY_CS_AGENT_ACCEPT", "WY_CS_SEND_MSG"},
         NEW code \in Code, NEW ims, NEW u \in Umid, NEW notice, notice.of = r,
         Relays(r, cmd, code, ims, u, notice)
  PROVE  Inv'
<1>1. /\ Shapes /\ alive /\ told[r] = <<>> /\ packet'[r].cmd = cmd
      /\ reply'[r].code = code /\ reply'[r] # None
      /\ r \notin asked' /\ asked' \subseteq Req
      /\ step'[r] \notin {"new", "received", "failed"}
      /\ DOMAIN packet' = Req /\ DOMAIN step' = Req /\ DOMAIN reply' = Req
      /\ UNCHANGED <<online, packet, step>>
      /\ \A q \in Req \ {r} : reply'[q] = reply[q] /\ (q \in asked' <=> q \in asked)
  BY CalledIs DEF Relays
<1>2. context' = [context EXCEPT ![r] = "freed"]
  BY DEF Relays, Delete
<1>3. context'[r] = "freed" /\ DOMAIN context' = Req
  BY <1>1, <1>2 DEF Shapes
<1>4. CASE Guarded(r)
  <2>1. PICK o \in Outcomes(ims, u, code) :
          /\ Tell(r, cmd, o.code)
          /\ relayed' = IF o.sent THEN relayed \cup {notice} ELSE relayed
          /\ UNCHANGED alive
    BY <1>4 DEF Relays
  <2>2. Alone(r)
    <3>1. DOMAIN told' = Req /\ \A q \in Req \ {r} : told'[q] = told[q]
      BY <1>1, <2>1, TellAlone
    <3> QED
      BY <1>1, <1>2, <1>3, <2>1, <3>1 DEF Alone, Shapes
  <2>3. o.code = 200 => Agreed(r)'
    <3> SUFFICES ASSUME o.code = 200 PROVE Agreed(r)'
      OBVIOUS
    <3>1. o.sent = TRUE /\ code = 200
      BY OutcomeTrue
    <3>2. notice \in relayed'
      BY <2>1, <3>1
    <3> QED
      BY <1>1, <3>1, <3>2 DEF Agreed
  <2>4. ToldOnce(r)'
    BY <1>1, <2>1, <2>3, Answered
  <2>5. Fine(r)'
    BY <1>1, <1>3, <2>4 DEF Fine
  <2> QED
    BY <1>1, <2>1, <2>2, <2>5, AliveInv
<1>5. CASE ~Guarded(r)
  <2>1. alive' = FALSE /\ UNCHANGED <<told, relayed>>
    BY <1>5 DEF Relays
  <2>2. Alone(r)
    BY <1>1, <1>2, <1>3, <2>1 DEF Alone, Shapes
  <2>3. Fine(r)'
    BY <1>1, <1>3, <2>1 DEF Fine, ToldOnce
  <2>4. \A q \in Req : Fine(q)'
    BY <2>2, <2>3, OthersFine DEF Inv
  <2>5. SurvivesOthers'
    BY <1>1, <1>5 DEF SurvivesOthers, Guarded
  <2> QED
    BY <2>2, <2>4, <2>5 DEF Inv, Alone
<1> QED
  BY <1>4, <1>5

LEMMA RefusesInv ==
  ASSUME Inv, NEW r \in Req, NEW code \in Code, cs_agent_refuse_callback(r, code)
  PROVE  Inv'
<1>1. /\ Shapes /\ alive /\ told[r] = <<>> /\ packet'[r].cmd = "WY_CS_AGENT_REFUSE"
      /\ r \notin asked' /\ asked' \subseteq Req
      /\ step'[r] \notin {"new", "received", "failed"}
      /\ DOMAIN packet' = Req /\ DOMAIN step' = Req /\ DOMAIN reply' = Req
      /\ UNCHANGED <<online, packet, step>>
      /\ \A q \in Req \ {r} : reply'[q] = reply[q] /\ (q \in asked' <=> q \in asked)
  BY CalledIs DEF cs_agent_refuse_callback
<1>2. UNCHANGED <<context, told, relayed, alive>>
  BY DEF cs_agent_refuse_callback
<1>3. Alone(r)
  BY <1>1, <1>2 DEF Alone, Shapes
<1>4. Fine(r)'
  BY <1>1, <1>2 DEF Fine, ToldOnce
<1> QED
  BY <1>1, <1>2, <1>3, <1>4, AliveInv

LEMMA CallbackInv ==
  ASSUME Inv, NEW r \in Req, Callback(r)
  PROVE  Inv'
<1> PICK code \in Code :
      \/ \E cmd : /\ cmd \notin {"WY_CS_AGENT_ACCEPT", "WY_CS_SEND_MSG"}
                  /\ Answers(r, cmd, code)
      \/ cs_agent_refuse_callback(r, code)
      \/ cs_agent_accept_callback(r, code)
      \/ cs_send_msg_callback(r, code)
  BY DEF Callback, cs_agent_presence_callback, cs_agent_absence_callback,
         cs_agent_redirect_callback, cs_agent_get_queue_callback,
         cs_agent_get_queueagent_callback, cs_agent_useramount_callback,
         cs_user_join_callback, cs_user_depart_callback, cs_user_score_callback,
         cs_conversation_end_callback, cs_get_msg_callback
<1>1. CASE cs_agent_accept_callback(r, code)
  <2>1. PICK u \in Parties(code) :
          Relays(r, "WY_CS_AGENT_ACCEPT", code, u.ims, u,
                 [of |-> r, to |-> SetHere(u), cmd |-> "WY_CS_CLIENT_NEWCVS", text |-> NoText])
    BY <1>1 DEF cs_agent_accept_callback
  <2>2. u \in Umid
    BY DEF Parties
  <2> QED
    BY <2>1, <2>2, RelaysInv
<1>2. CASE cs_send_msg_callback(r, code)
  <2>1. PICK u \in Parties(code) :
          Relays(r, "WY_CS_SEND_MSG", code, SetHere(u).ims, u,
                 [of |-> r, to |-> SetHere(u), cmd |-> "WY_CS_CLIENT_MSG", text |-> NoText])
    BY <1>2 DEF cs_send_msg_callback
  <2>2. u \in Umid
    BY DEF Parties
  <2> QED
    BY <2>1, <2>2, RelaysInv
<1> QED
  BY <1>1, <1>2, AnswersInv, RefusesInv

\* What changes no request but for what CustomService forgets.
LEMMA QuietInv ==
  ASSUME Inv, asked' \subseteq asked,
         UNCHANGED <<packet, step, context, reply, told, relayed, alive>>,
         alive \/ UNCHANGED online
  PROVE  Inv'
<1>1. ASSUME NEW r \in Req PROVE Fine(r)'
  <2>1. Fine(r)
    BY DEF Inv
  <2>2. ToldOnce(r)'
    BY <2>1 DEF Fine, ToldOnce, Agreed
  <2> QED
    BY <2>1, <2>2 DEF Fine
<1>2. Shapes' /\ SurvivesOthers'
  BY DEF Inv, Shapes, SurvivesOthers
<1> QED
  BY <1>1, <1>2 DEF Inv

LEMMA StepInv == Inv /\ [Next]_vars => Inv'
<1> SUFFICES ASSUME Inv, [Next]_vars PROVE Inv'
  OBVIOUS
<1>1. ASSUME NEW r \in Req, NEW p \in Packet, OnPacketReceivedFromClient(r, p) PROVE Inv'
  BY <1>1, ReceivesInv
<1>2. ASSUME NEW r \in Req, Handler(r) PROVE Inv'
  <2>1. \E cmd, failed : Handle(r, cmd, failed)
    BY <1>2 DEF Handler, OnCSAgentPresence, OnCSAgentAbsence, OnCSAgentAccept,
         OnCSAgentRefuse, OnCSAgentRedirect, OnCSAgentGetQueue, OnCSAgentGetQueueagent,
         OnCSAgentUserAmount, OnCSUserJoin, OnCSUserDepart, OnCSUserScore,
         OnCSConversationEnd, OnCSSendMsg, OnCSGetMsg
  <2> QED
    BY <2>1, HandleInv
<1>3. ASSUME NEW r \in Req, Callback(r) PROVE Inv'
  BY <1>3, CallbackInv
<1>4. ASSUME NEW r \in Req, Lose(r) PROVE Inv'
  BY <1>4, QuietInv DEF Lose
<1>5. ASSUME NEW u \in Uin, OfflineAndCleanup(u) PROVE Inv'
  BY <1>5, QuietInv DEF OfflineAndCleanup
<1>6. CASE UNCHANGED vars
  BY <1>6, QuietInv DEF vars
<1> QED
  BY <1>1, <1>2, <1>3, <1>4, <1>5, <1>6 DEF Next

LEMMA Inductive == Spec => []Inv
BY InitInv, StepInv, PTL DEF Spec

-----------------------------------------------------------------------------
(* What the relay promises.                                                *)

\* The callback may be called, and the context be freed, before the handler that made it
\* has returned: the auto_ptr of the handler has let go of it then
\* (UserProcessCustomService.cpp:727), so that whatever CustomService still has to answer
\* has its context.
THEOREM ContextsLive == Spec => []ContextLives
<1>1. Inv => ContextLives
  BY DEF Inv, Shapes, Fine, ContextLives
<1> QED
  BY <1>1, Inductive, PTL

\* A handler answers only what it has failed to hand over, a callback only what was handed
\* over (UserProcessCustomService.cpp:727, :83): no packet is answered twice.
THEOREM AnsweredOnce == Spec => []OneAnswer
<1>1. ASSUME Inv, NEW r \in Req PROVE Len(told[r]) <= 1
  <2>1. told[r] = <<>> \/ \E m : told[r] = <<m>>
    BY <1>1 DEF Inv, Fine, ToldOnce
  <2>2. CASE told[r] = <<>>
    BY <2>2
  <2>3. ASSUME NEW m, told[r] = <<m>> PROVE Len(told[r]) <= 1
    <3>1. Len(told[r]) = 1
      BY <2>3
    <3> QED
      BY <3>1
  <2> QED
    BY <2>1, <2>2, <2>3
<1>2. Inv => OneAnswer
  BY <1>1 DEF OneAnswer
<1> QED
  BY <1>2, Inductive, PTL

\* Every callback but that of a refusal deletes its context (UserProcessCustomService.cpp:172).
THEOREM OnlyRefusalsLeak == Spec => []OnlyRefusalsKeep
<1>1. Inv => OnlyRefusalsKeep
  BY DEF Inv, Fine, OnlyRefusalsKeep
<1> QED
  BY <1>1, Inductive, PTL

\* A client is told 200 only if CustomService has said so and the other party of an accept
\* or a message is being notified (UserProcessCustomService.cpp:141, :532).
THEOREM SuccessTrue == Spec => []SuccessIsTrue
<1>1. ASSUME Inv, NEW r \in Req, NEW i \in DOMAIN told[r], told[r][i].code = 200
      PROVE  Agreed(r)
  <2>1. PICK m : told[r] = <<m>> /\ (m.code = 200 => Agreed(r))
    <3>1. told[r] # <<>>
      BY <1>1
    <3> QED
      BY <1>1, <3>1 DEF Inv, Fine, ToldOnce
  <2>2. told[r][i] = m
    BY <1>1, <2>1
  <2> QED
    BY <1>1, <2>1, <2>2
<1>2. Inv => SuccessIsTrue
  BY <1>1 DEF SuccessIsTrue, Agreed
<1> QED
  BY <1>2, Inductive, PTL

\* USER_GUARD_EXIST protects every callback but for the jump of those of accept and send_msg
\* to the line that answers (UserProcessCustomService.cpp:100): whatever else happens, a
\* user who logs off does not take the process down.
THEOREM OthersSurvived == Spec => []SurvivesOthers
BY Inductive, PTL DEF Inv

-----------------------------------------------------------------------------
(* Types.                                                                  *)

Answer == [code: Code, party: Umid \cup {None}]
Response == [cmd: Command \cup {"WY_INVALID_COMMAND"}, code: Code]

\* A request that has been received is known.
Known == \A r \in Req : step[r] = "new" \/ packet[r] \in Packet

Typed == TypeOK /\ Known /\ Inv

\* An answer bears a command and a code.
LEMMA TellTypes ==
  ASSUME TypeOK, NEW r \in Req, NEW cmd \in Command \cup {"WY_INVALID_COMMAND"},
         NEW code \in Code, Tell(r, cmd, code)
  PROVE  told' \in [Req -> Seq(Response)]
<1>1. PICK m \in Response : m = [cmd |-> cmd, code |-> code]
  BY DEF Response
<1>2. told' = [told EXCEPT ![r] = Append(@, m)]
  BY <1>1 DEF Tell
<1>3. told \in [Req -> Seq(Response)]
  BY DEF TypeOK, Response
<1>4. Append(told[r], m) \in Seq(Response)
  BY <1>1, <1>3
<1> QED
  BY <1>2, <1>3, <1>4

LEMMA DeleteTypes ==
  ASSUME TypeOK, NEW r \in Req, Delete(r)
  PROVE  context' \in [Req -> Context]
BY DEF TypeOK, Delete, Context

LEMMA SetHereTypes ==
  ASSUME NEW u \in Umid
  PROVE  SetHere(u) \in Umid
BY RelayAssumption DEF SetHere, Umid

LEMMA InitTypes == Init => Typed
<1> SUFFICES ASSUME Init PROVE Typed
  OBVIOUS
<1>1. /\ step \in [Req -> Step] /\ context \in [Req -> Context]
      /\ packet \in [Req -> Packet \cup {None}]
  BY DEF Init, Step, Context
<1>2. /\ reply \in [Req -> [code: Code, party: Umid \cup {None}] \cup {None}]
      /\ told \in [Req -> Seq([cmd: Command \cup {"WY_INVALID_COMMAND"}, code: Code])]
  BY DEF Init
<1>3. TypeOK /\ Known
  BY <1>1, <1>2 DEF Init, TypeOK, Known
<1> QED
  BY <1>3, InitInv DEF Typed

LEMMA ReceivesTypes ==
  ASSUME TypeOK, NEW r \in Req, NEW p \in Packet, OnPacketReceivedFromClient(r, p)
  PROVE  TypeOK'
<1>1. told' \in [Req -> Seq(Response)]
  <2>1. CASE UNCHANGED told
    BY <2>1 DEF TypeOK, Response
  <2>2. CASE Tell(r, "WY_INVALID_COMMAND", 0)
    BY <2>2, TellTypes DEF Code
  <2> QED
    BY <2>1, <2>2 DEF OnPacketReceivedFromClient
<1>2. step' \in [Req -> Step] /\ packet' \in [Req -> Packet \cup {None}]
  BY DEF OnPacketReceivedFromClient, TypeOK, Step
<1> QED
  BY <1>1, <1>2 DEF OnPacketReceivedFromClient, TypeOK, Response

LEMMA HandleTypes ==
  ASSUME TypeOK, NEW r \in Req, NEW cmd, NEW failed \in Command, Handle(r, cmd, failed)
  PROVE  TypeOK'
<1>1. step' \in [Req -> Step]
  <2>1. PICK s \in Step : step' = [step EXCEPT ![r] = s]
    BY DEF Handle, NoClient, Ask, Release, GiveUp, Step
  <2> QED
    BY <2>1 DEF TypeOK
<1>2. context' \in [Req -> Context] /\ asked' \subseteq Req
  <2>1. \/ UNCHANGED context
        \/ context' = [context EXCEPT ![r] = "live"]
        \/ context' = [context EXCEPT ![r] = "freed"]
    BY DEF Handle, NoClient, Ask, Release, GiveUp, Delete
  <2>2. asked' \in {asked, asked \cup {r}}
    BY DEF Handle, NoClient, Ask
  <2> QED
    BY <2>1, <2>2 DEF TypeOK, Context
<1>3. told' \in [Req -> Seq(Response)]
  <2>1. CASE UNCHANGED told
    BY <2>1 DEF TypeOK, Response
  <2>2. CASE Tell(r, failed, 500)
    BY <2>2, TellTypes DEF Code
  <2> QED
    BY <2>1, <2>2 DEF Handle, Release, GiveUp
<1> QED
  BY <1>1, <1>2, <1>3 DEF Handle, TypeOK, Response

\* What a callback leaves of the request but for its context and the answer.
LEMMA CalledTypes ==
  ASSUME Typed, NEW r \in Req, NEW cmd, NEW code \in Code, NEW party \in Umid \cup {None},
         Called(r, cmd, code, party)
  PROVE  /\ asked' \subseteq Req /\ present' \subseteq Uin
         /\ reply' \in [Req -> Answer \cup {None}]
         /\ UNCHANGED <<online, packet, step>>
<1>1. PICK a \in Answer : a = [code |-> code, party |-> party]
  BY DEF Answer
<1>2. reply' = [reply EXCEPT ![r] = a]
  BY <1>1 DEF Called
<1>3. reply' \in [Req -> Answer \cup {None}]
  BY <1>2 DEF Typed, TypeOK, Answer
<1>4. packet[r] \in Packet
  BY DEF Typed, Known, Inv, Fine, Called
<1>5. present' \subseteq Uin
  BY <1>4 DEF Called, Typed, TypeOK, Packet
<1> QED
  BY <1>3, <1>5 DEF Called, Typed, TypeOK

\* A callback that answers or relays.
LEMMA EndTypes ==
  ASSUME Typed, NEW r \in Req, NEW cmd \in Command, NEW code \in Code,
         NEW party \in Umid \cup {None}, Called(r, cmd, code, party),
         UNCHANGED context \/ Delete(r),
         UNCHANGED told \/ \E c \in Code : Tell(r, cmd, c),
         relayed' \subseteq Notice, alive' \in BOOLEAN
  PROVE  TypeOK'
<1>1. /\ asked' \subseteq Req /\ present' \subseteq Uin
      /\ reply' \in [Req -> Answer \cup {None}]
      /\ UNCHANGED <<online, packet, step>>
  BY CalledTypes
<1>2. told' \in [Req -> Seq(Response)]
  <2>1. CASE UNCHANGED told
    BY <2>1 DEF Typed, TypeOK, Response
  <2>2. ASSUME NEW c \in Code, Tell(r, cmd, c) PROVE told' \in [Req -> Seq(Response)]
    BY <2>2, TellTypes DEF Typed
  <2> QED
    BY <2>1, <2>2
<1>3. context' \in [Req -> Context]
  BY DeleteTypes DEF Typed, TypeOK
<1> QED
  BY <1>1, <1>2, <1>3 DEF Typed, TypeOK, Answer, Response

LEMMA AnswersTypes ==
  ASSUME Typed, NEW r \in Req, NEW cmd \in Command, NEW code \in Code, Answers(r, cmd, code)
  PROVE  TypeOK'
<1>1. /\ Called(r, cmd, code, None) /\ Delete(r)
      /\ UNCHANGED told \/ Tell(r, cmd, code)
      /\ UNCHANGED relayed /\ UNCHANGED alive
  BY DEF Answers
<1>2. relayed' \subseteq Notice /\ alive' \in BOOLEAN
  BY <1>1 DEF Typed, TypeOK
<1> QED
  BY <1>1, <1>2, EndTypes

\* How a notification ends is told with a code.
LEMMA OutcomeTypes ==
  ASSUME NEW ims, NEW u, NEW code \in Code, NEW o \in Outcomes(ims, u, code)
  PROVE  o.code \in Code
BY DEF Outcomes, Code

LEMMA RelaysTypes ==
  ASSUME Typed, NEW r \in Req, NEW cmd \in Command, NEW code \in Code, NEW ims,
         NEW u \in Umid, NEW notice \in Notice, Relays(r, cmd, code, ims, u, notice)
  PROVE  TypeOK'
<1>1. Called(r, cmd, code, u) /\ Delete(r)
  BY DEF Relays
<1>2. \/ /\ \E c \in Code : Tell(r, cmd, c)
         /\ relayed' \in {relayed, relayed \cup {notice}}
         /\ UNCHANGED alive
      \/ alive' = FALSE /\ UNCHANGED told /\ UNCHANGED relayed
  BY OutcomeTypes DEF Relays
<1>3. relayed' \subseteq Notice /\ alive' \in BOOLEAN
  BY <1>2 DEF Typed, TypeOK
<1>4. UNCHANGED told \/ \E c \in Code : Tell(r, cmd, c)
  BY <1>2
<1> QED
  BY <1>1, <1>3, <1>4, EndTypes

LEMMA CallbackTypes ==
  ASSUME Typed, NEW r \in Req, Callback(r)
  PROVE  TypeOK'
<1> PICK code \in Code :
      \/ \E cmd \in Command : Answers(r, cmd, code)
      \/ cs_agent_refuse_callback(r, code)
      \/ cs_agent_accept_callback(r, code)
      \/ cs_send_msg_callback(r, code)
  BY DEF Callback, cs_agent_presence_callback, cs_agent_absence_callback,
         cs_agent_redirect_callback, cs_agent_get_queue_callback,
         cs_agent_get_queueagent_callback, cs_agent_useramount_callback,
         cs_user_join_callback, cs_user_depart_callback, cs_user_score_callback,
         cs_conversation_end_callback, cs_get_msg_callback, Command, Number
<1>1. CASE cs_agent_refuse_callback(r, code)
  <2>1. "WY_CS_AGENT_REFUSE" \in Command
    BY DEF Command, Number
  <2>2. /\ Called(r, "WY_CS_AGENT_REFUSE", code, None)
        /\ UNCHANGED context /\ UNCHANGED told /\ UNCHANGED relayed /\ UNCHANGED alive
    BY <1>1 DEF cs_agent_refuse_callback
  <2>3. relayed' \subseteq Notice /\ alive' \in BOOLEAN
    BY <2>2 DEF Typed, TypeOK
  <2> QED
    BY <2>1, <2>2, <2>3, EndTypes
<1>2. ASSUME NEW u \in Umid, NEW cmd \in {"WY_CS_CLIENT_NEWCVS", "WY_CS_CLIENT_MSG"}
      PROVE  [of |-> r, to |-> SetHere(u), cmd |-> cmd, text |-> NoText] \in Notice
  BY SetHereTypes DEF Notice
<1>3. CASE cs_agent_accept_callback(r, code)
  <2>1. PICK u \in Umid :
          Relays(r, "WY_CS_AGENT_ACCEPT", code, u.ims, u,
                 [of |-> r, to |-> SetHere(u), cmd |-> "WY_CS_CLIENT_NEWCVS", text |-> NoText])
    BY <1>3 DEF cs_agent_accept_callback, Parties
  <2>2. "WY_CS_AGENT_ACCEPT" \in Command
    BY DEF Command, Number
  <2> QED
    BY <1>2, <2>1, <2>2, RelaysTypes
<1>4. CASE cs_send_msg_callback(r, code)
  <2>1. PICK u \in Umid :
          Relays(r, "WY_CS_SEND_MSG", code, SetHere(u).ims, u,
                 [of |-> r, to |-> SetHere(u), cmd |-> "WY_CS_CLIENT_MSG", text |-> NoText])
    BY <1>4 DEF cs_send_msg_callback, Parties
  <2>2. "WY_CS_SEND_MSG" \in Command
    BY DEF Command, Number
  <2> QED
    BY <1>2, <2>1, <2>2, RelaysTypes
<1> QED
  BY <1>1, <1>3, <1>4, AnswersTypes

LEMMA HandlerTypes ==
  ASSUME TypeOK, NEW r \in Req, Handler(r)
  PROVE  TypeOK' /\ UNCHANGED packet /\ packet[r] # None
<1>1. \E cmd, failed \in Command : Handle(r, cmd, failed)
  BY DEF Handler, OnCSAgentPresence, OnCSAgentAbsence, OnCSAgentAccept,
       OnCSAgentRefuse, OnCSAgentRedirect, OnCSAgentGetQueue, OnCSAgentGetQueueagent,
       OnCSAgentUserAmount, OnCSUserJoin, OnCSUserDepart, OnCSUserScore,
       OnCSConversationEnd, OnCSSendMsg, OnCSGetMsg, Command, Number
<1>2. UNCHANGED packet /\ packet[r] # None
  BY <1>1 DEF Handle
<1> QED
  BY <1>1, <1>2, HandleTypes

LEMMA StepTypes == Typed /\ [Next]_vars => Typed'
<1> SUFFICES ASSUME Typed, [Next]_vars PROVE Typed'
  OBVIOUS
<1>1. Inv'
  BY StepInv DEF Typed
<1>2. ASSUME NEW r \in Req, NEW p \in Packet, OnPacketReceivedFromClient(r, p)
      PROVE  TypeOK' /\ Known'
  <2>1. TypeOK'
    BY <1>2, ReceivesTypes DEF Typed
  <2>2. /\ packet' = [packet EXCEPT ![r] = p]
        /\ \A q \in Req \ {r} : step'[q] = step[q]
    BY <1>2 DEF OnPacketReceivedFromClient, Typed, TypeOK
  <2>3. Known'
    BY <2>2 DEF Known, Typed, TypeOK
  <2> QED
    BY <2>1, <2>3
<1>3. ASSUME NEW r \in Req, Handler(r) PROVE TypeOK' /\ Known'
  <2>1. TypeOK' /\ UNCHANGED packet /\ packet[r] # None
    BY <1>3, HandlerTypes DEF Typed
  <2>2. \A q \in Req \ {r} : step'[q] = step[q]
    <3>1. \E cmd, failed : Handle(r, cmd, failed)
      BY <1>3 DEF Handler, OnCSAgentPresence, OnCSAgentAbsence, OnCSAgentAccept,
           OnCSAgentRefuse, OnCSAgentRedirect, OnCSAgentGetQueue, OnCSAgentGetQueueagent,
           OnCSAgentUserAmount, OnCSUserJoin, OnCSUserDepart, OnCSUserScore,
           OnCSConversationEnd, OnCSSendMsg, OnCSGetMsg
    <3>2. \E s : step' = [step EXCEPT ![r] = s]
      BY <3>1 DEF Handle, NoClient, Ask, Release, GiveUp
    <3> QED
      BY <3>2 DEF Typed, TypeOK
  <2>3. packet[r] \in Packet
    BY <2>1 DEF Typed, TypeOK
  <2>4. Known'
    BY <2>1, <2>2, <2>3 DEF Known, Typed
  <2> QED
    BY <2>1, <2>4
<1>4. ASSUME NEW r \in Req, Callback(r) PROVE TypeOK' /\ Known'
  <2>1. TypeOK'
    BY <1>4, CallbackTypes
  <2>2. UNCHANGED packet /\ UNCHANGED step
    BY <1>4 DEF Callback, cs_agent_presence_callback, cs_agent_absence_callback,
       cs_agent_redirect_callback, cs_agent_get_queue_callback,
       cs_agent_get_queueagent_callback, cs_agent_useramount_callback,
       cs_user_join_callback, cs_user_depart_callback, cs_user_score_callback,
       cs_conversation_end_callback, cs_get_msg_callback, cs_agent_refuse_callback,
       cs_agent_accept_callback, cs_send_msg_callback, Answers, Relays, Called
  <2> QED
    BY <2>1, <2>2 DEF Known, Typed
<1>5. ASSUME NEW r \in Req, Lose(r) PROVE TypeOK' /\ Known'
  BY <1>5 DEF Lose, Typed, TypeOK, Known
<1>6. ASSUME NEW u \in Uin, OfflineAndCleanup(u) PROVE TypeOK' /\ Known'
  BY <1>6 DEF OfflineAndCleanup, Typed, TypeOK, Known
<1>7. ASSUME UNCHANGED vars PROVE TypeOK' /\ Known'
  BY <1>7 DEF vars, Typed, TypeOK, Known
<1> QED
  BY <1>1, <1>2, <1>3, <1>4, <1>5, <1>6, <1>7 DEF Next, Typed

\* Every variable always has the values its type allows: answers bear a command and a code,
\* whatever Outcomes makes of CustomService's (UserProcessCustomService.cpp:100), and
\* notifications are addressed to users of a server that exists or of none.
THEOREM RelayTypes == Spec => []TypeOK
<1>1. Typed => TypeOK
  BY DEF Typed
<1> QED
  BY <1>1, InitTypes, StepTypes, PTL DEF Spec

=============================================================================
