------------------------------ MODULE ImsRelay ------------------------------
(***************************************************************************)
(* The custom-service part of the IM server (ims_patch): it takes the      *)
(* packets of its clients to CustomService and CustomService's answers     *)
(* back to the clients.                                                    *)
(*                                                                         *)
(* A packet goes through OnPacketReceivedFromClient to its OnCS* handler,  *)
(* which makes a CS_REQUEST_CONTEXT, asks CustomService with a callback    *)
(* and the context, and either lets the context go or deletes it and       *)
(* answers 500.  The callback, in another thread and perhaps before the    *)
(* handler has returned, owns the context: it answers the client that the  *)
(* context names, if it is still signed on.  Those of accept and send_msg  *)
(* first notify the other party of the conversation, which may be signed   *)
(* on to another IM server.  Users log off at any moment.                  *)
(*                                                                         *)
(* CallbackQueue shows that the client library calls the callback of a     *)
(* request at most once and with its own answer, and that a request which  *)
(* has failed is not called back as long as nobody calls CheckQueue.       *)
(*                                                                         *)
(* Definitions whose comment begins with "Slip:" are no part of the model, *)
(* see AgentMgr.                                                           *)
(***************************************************************************)
EXTENDS Naturals, Sequences, FiniteSets

CONSTANTS
  Req,      \* the packets clients send, each with a sequence number of its own
  Uin,      \* accounts
  Here,     \* m_ims2sId: this IM server
  Peers,    \* the other IM servers
  Cmds,     \* the commands each packet may bear
  Texts,    \* the texts of messages
  NoText,   \* the empty string
  None,     \* no packet, no answer
  CsMask,   \* WY_CS_MASK
  Faults    \* what may go wrong: "client", "send", "lost", "notify"

VARIABLES
  online,   \* the accounts that are signed on to this server
  packet,   \* who sent each packet, and what it says
  step,     \* how far its handler is
  context,  \* its CS_REQUEST_CONTEXT
  asked,    \* the requests that CustomService has not answered
  reply,    \* the status code CustomService has answered each request with
  told,     \* the answers sent to the client, for each packet
  relayed,  \* the notifications handed to another party
  present,  \* the agents CustomService takes to be there
  alive     \* has the process not crashed?

vars == <<online, packet, step, context, asked, reply, told, relayed, present, alive>>

Step == {"new", "received", "sent", "failed", "over"}

\* UserProcess.h gives REQUEST_CONTEXT the sender and the sequence number, which are the
\* packet's; what is left is whether it exists.
Context == {"none", "live", "freed"}

\* NoServer stands for the 0 of an id that nobody has filled in: servers count from 1.
NoServer == 0
Umid == [uin: Uin, ims: {NoServer, Here} \cup Peers]

\* The numbers of the commands: COMMAND_ENTRY counts on from COMMAND_ENTRY_INDEX.
Number ==
  [WY_CS_AGENT_PRESENCE |-> 58113, WY_CS_AGENT_ABSENCE |-> 58114,
   WY_CS_AGENT_ACCEPT |-> 58115, WY_CS_AGENT_REFUSE |-> 58116,
   WY_CS_AGENT_REDIRECT |-> 58117, WY_CS_AGENT_GET_QUEUE |-> 58118,
   WY_CS_AGENT_GET_QUEUEAGENT |-> 58119, WY_CS_AGENT_USERAMOUNT |-> 58120,
   WY_CS_AGENT_OFFLINE |-> 58121, WY_CS_USER_SCORE |-> 58129,
   WY_CS_USER_DEPART |-> 58130, WY_CS_USER_JOIN |-> 58131,
   WY_CS_CONVERSATION_END |-> 58145, WY_CS_SEND_MSG |-> 58146,
   WY_CS_GET_MSG |-> 58147]

Command == DOMAIN Number

\* The commands the switch of OnPacketReceivedFromClient has a case for.
Handled == Command \ {"WY_CS_AGENT_OFFLINE"}

Packet == [by: Uin, cmd: Command, text: Texts]

\* What the other party gets: the user it is addressed to, the command, the text.
Notice == [of: Req, to: Umid, cmd: {"WY_CS_CLIENT_NEWCVS", "WY_CS_CLIENT_MSG"},
           text: Texts \cup {NoText}]

Code == {0, 200, 400, 500}

ASSUME RelayAssumption ==
  /\ Cmds \in [Req -> SUBSET Command]
  /\ Here \in Nat \ {NoServer}
  /\ Peers \subseteq Nat \ {NoServer, Here}
  /\ CsMask \in Nat
  /\ None \notin Packet \cup Code \cup [code: Code, party: Umid \cup {None}]
  /\ NoText \notin Texts

-----------------------------------------------------------------------------
(* Contexts, answers and notifications.                                    *)

\* The id that two-argument Set makes: whatever the second argument says, the server is
\* the one that calls it.  (SetValue would keep the server.)
SetHere(u) == [uin |-> u.uin, ims |-> Here]

\* CreateS2CPacket and SendPacketToClient: an answer with the packet's sequence number.
Tell(r, cmd, code) == told' = [told EXCEPT ![r] = Append(@, [cmd |-> cmd, code |-> code])]

\* USER_GUARD_EXIST: is the user the context names signed on?
Guarded(r) == packet[r].by \in online

\* StartAsynTask counts a context when it is made, FinishAsynTask when it is deleted.
AsynTaskPending == Cardinality({r \in Req : context[r] = "live"})

Delete(r) == context' = [context EXCEPT ![r] = "freed"]

-----------------------------------------------------------------------------
(* Requests.                                                               *)

Dispatched(cmd) == Number[cmd] - (Number[cmd] % 4096) = CsMask

\* A client sends a packet.  One whose masked command is not WY_CS_MASK comes to the
\* last switch and is answered WY_INVALID_COMMAND, without a status; one that the switch
\* of the custom-service commands does not name is not answered.
OnPacketReceivedFromClient(r, p) ==
  /\ alive
  /\ step[r] = "new" /\ p.by \in online /\ p.cmd \in Cmds[r]
  /\ packet' = [packet EXCEPT ![r] = p]
  /\ step' = [step EXCEPT ![r] = IF Dispatched(p.cmd) /\ p.cmd \in Handled THEN "received"
                                 ELSE "over"]
  /\ IF Dispatched(p.cmd) THEN UNCHANGED told ELSE Tell(r, "WY_INVALID_COMMAND", 0)
  /\ UNCHANGED <<online, context, asked, reply, relayed, present, alive>>

\* CS_GUARD gives no client: there has never been a connection to CustomService.
NoClient(r) ==
  /\ "client" \in Faults
  /\ step' = [step EXCEPT ![r] = "failed"]
  /\ UNCHANGED <<context, asked>>

\* Request_* returns 0 and CustomService will answer, or it returns -1.
Ask(r) ==
  /\ context' = [context EXCEPT ![r] = "live"]
  /\ \/ /\ step' = [step EXCEPT ![r] = "sent"]
        /\ asked' = asked \cup {r}
     \/ /\ "send" \in Faults
        /\ step' = [step EXCEPT ![r] = "failed"]
        /\ UNCHANGED asked

\* Slip: ret > 0, but Request_* returns 0.
SucceededNever(r) == FALSE

\* ret >= 0
Succeeded(r) == step[r] = "sent"

\* Slip: no return after spcontext.release().
ReleaseFallsThrough(r) ==
  /\ Succeeded(r)
  /\ step' = [step EXCEPT ![r] = "over"]
  /\ Tell(r, packet[r].cmd, 500)
  /\ UNCHANGED context

\* spcontext.release()
Release(r) ==
  /\ Succeeded(r)
  /\ step' = [step EXCEPT ![r] = "over"]
  /\ UNCHANGED <<context, told>>

\* Slip: without a client the handler returns at once.
GiveUpWithoutClient(r, cmd) ==
  /\ step[r] \in {"sent", "failed"} /\ ~Succeeded(r)
  /\ step' = [step EXCEPT ![r] = "over"]
  /\ IF context[r] = "none" THEN UNCHANGED <<context, told>>
     ELSE Delete(r) /\ Tell(r, cmd, 500)

\* No client, or ret < 0: the auto_ptr deletes the context and the client is told 500.
GiveUp(r, cmd) ==
  /\ step[r] \in {"sent", "failed"} /\ ~Succeeded(r)
  /\ step' = [step EXCEPT ![r] = "over"]
  /\ IF context[r] = "none" THEN UNCHANGED context ELSE Delete(r)
  /\ Tell(r, cmd, 500)

\* What every OnCS* does, cmd being the one it takes and failed the one it reports
\* its own failure under.
Handle(r, cmd, failed) ==
  /\ alive
  /\ packet[r] # None /\ packet[r].cmd = cmd
  /\ \/ step[r] = "received" /\ (NoClient(r) \/ Ask(r)) /\ UNCHANGED told
     \/ (Release(r) \/ GiveUp(r, failed)) /\ UNCHANGED asked
  /\ UNCHANGED <<online, packet, reply, relayed, present, alive>>

OnCSAgentPresence(r) ==
  Handle(r, "WY_CS_AGENT_PRESENCE", "WY_CS_AGENT_PRESENCE")

OnCSAgentAbsence(r) ==
  Handle(r, "WY_CS_AGENT_ABSENCE", "WY_CS_AGENT_ABSENCE")

OnCSAgentAccept(r) ==
  Handle(r, "WY_CS_AGENT_ACCEPT", "WY_CS_AGENT_ACCEPT")

OnCSAgentRefuse(r) ==
  Handle(r, "WY_CS_AGENT_REFUSE", "WY_CS_AGENT_REFUSE")

OnCSAgentRedirect(r) ==
  Handle(r, "WY_CS_AGENT_REDIRECT", "WY_CS_AGENT_REDIRECT")

OnCSAgentGetQueue(r) ==
  Handle(r, "WY_CS_AGENT_GET_QUEUE", "WY_CS_AGENT_GET_QUEUE")

OnCSAgentGetQueueagent(r) ==
  Handle(r, "WY_CS_AGENT_GET_QUEUEAGENT", "WY_CS_AGENT_GET_QUEUEAGENT")

OnCSAgentUserAmount(r) ==
  Handle(r, "WY_CS_AGENT_USERAMOUNT", "WY_CS_AGENT_USERAMOUNT")

OnCSUserJoin(r) ==
  Handle(r, "WY_CS_USER_JOIN", "WY_CS_USER_JOIN")

OnCSUserDepart(r) ==
  Handle(r, "WY_CS_USER_DEPART", "WY_CS_USER_DEPART")

\* Its failure is reported as one of user_depart.
OnCSUserScore(r) ==
  Handle(r, "WY_CS_USER_SCORE", "WY_CS_USER_DEPART")

OnCSConversationEnd(r) ==
  Handle(r, "WY_CS_CONVERSATION_END", "WY_CS_CONVERSATION_END")

\* Its failure is reported as one of conversation_end.  The text is left in the packet.
OnCSSendMsg(r) ==
  Handle(r, "WY_CS_SEND_MSG", "WY_CS_CONVERSATION_END")

OnCSGetMsg(r) ==
  Handle(r, "WY_CS_GET_MSG", "WY_CS_GET_MSG")

-----------------------------------------------------------------------------
(* CustomService's answers, which the client library hands to the callback *)
(* of the request.                                                         *)

\* What CustomService answers: Get_Msg leaves the status of the request, which is 0.
Replies(cmd) == IF cmd = "WY_CS_GET_MSG" THEN {0} ELSE {200, 400, 500}

\* The other party an answer names: none unless it is 200.
Parties(code) == {u \in Umid : code = 200 <=> u.ims # NoServer}

\* The callback of r, a request cmd, is called.
Called(r, cmd, code, party) ==
  /\ alive
  /\ r \in asked /\ packet[r].cmd = cmd
  /\ code \in Replies(cmd)
  /\ asked' = asked \ {r}
  /\ reply' = [reply EXCEPT ![r] = [code |-> code, party |-> party]]
  /\ present' = CASE cmd = "WY_CS_AGENT_PRESENCE" /\ code = 200 -> present \cup {packet[r].by}
                  [] cmd = "WY_CS_AGENT_ABSENCE" /\ code = 200 -> present \ {packet[r].by}
                  [] OTHER -> present
  /\ UNCHANGED <<online, packet, step>>

\* Slip: the answer is sent without looking for the user.
AnswersUnguarded(r, cmd, code) ==
  /\ Called(r, cmd, code, None)
  /\ Delete(r)
  /\ IF Guarded(r) THEN Tell(r, cmd, code) ELSE UNCHANGED told
  /\ alive' = Guarded(r)
  /\ UNCHANGED relayed

\* Slip: the auto_ptr takes the context after the user has been looked for.
AnswersKeeping(r, cmd, code) ==
  /\ Called(r, cmd, code, None)
  /\ IF Guarded(r) THEN Delete(r) /\ Tell(r, cmd, code) ELSE UNCHANGED <<context, told>>
  /\ UNCHANGED <<relayed, alive>>

\* The callback answers the client, if it is still there, and deletes the context.
Answers(r, cmd, code) ==
  /\ Called(r, cmd, code, None)
  /\ Delete(r)
  /\ IF Guarded(r) THEN Tell(r, cmd, code) ELSE UNCHANGED told
  /\ UNCHANGED <<relayed, alive>>

\* Is u a point that is signed on to this server?
Local(u) == u.ims = Here /\ u.uin \in online

\* Slip: wReturnCode is left alone if OnIMS2SFriendNotify or SendNotifyToFrds fails.
OutcomesUnchecked(ims, u, code) ==
  IF ims = Here /\ ~Local(u) THEN {[code |-> 400, sent |-> FALSE]}
  ELSE {[code |-> code, sent |-> ims # NoServer]}
       \cup (IF "notify" \in Faults THEN {[code |-> code, sent |-> FALSE]} ELSE {})

\* How the notification of u, of whom the code believes that server ims has him, may
\* end: what the client is told, and whether the notification is on its way.
Outcomes(ims, u, code) ==
  IF ims = Here /\ ~Local(u) THEN {[code |-> 400, sent |-> FALSE]}
  ELSE (IF ims = NoServer THEN {} ELSE {[code |-> code, sent |-> TRUE]})
       \cup (IF ims = NoServer \/ "notify" \in Faults THEN {[code |-> 500, sent |-> FALSE]}
             ELSE {})

\* The user is found: he is notified, and the client told how that went.  If the client
\* itself has gone, the code jumps to the line that answers it through a null pointer.
Relays(r, cmd, code, ims, u, notice) ==
  /\ Called(r, cmd, code, u)
  /\ Delete(r)
  /\ \/ /\ Guarded(r)
        /\ \E o \in Outcomes(ims, u, code) :
             /\ Tell(r, cmd, o.code)
             /\ relayed' = IF o.sent THEN relayed \cup {notice} ELSE relayed
        /\ UNCHANGED alive
     \/ /\ ~Guarded(r)
        /\ alive' = FALSE
        /\ UNCHANGED <<told, relayed>>

cs_agent_presence_callback(r, code) == Answers(r, "WY_CS_AGENT_PRESENCE", code)

cs_agent_absence_callback(r, code) == Answers(r, "WY_CS_AGENT_ABSENCE", code)

\* The server is taken from the answer, the user's id is made with Set.
cs_agent_accept_callback(r, code) ==
  \E u \in Parties(code) :
    Relays(r, "WY_CS_AGENT_ACCEPT", code, u.ims, u,
           [of |-> r, to |-> SetHere(u), cmd |-> "WY_CS_CLIENT_NEWCVS", text |-> NoText])

\* Returns at once: nobody deletes the context, and the client is not answered.
cs_agent_refuse_callback(r, code) ==
  /\ Called(r, "WY_CS_AGENT_REFUSE", code, None)
  /\ UNCHANGED <<context, told, relayed, alive>>

cs_agent_redirect_callback(r, code) == Answers(r, "WY_CS_AGENT_REDIRECT", code)

cs_agent_get_queue_callback(r, code) == Answers(r, "WY_CS_AGENT_GET_QUEUE", code)

cs_agent_get_queueagent_callback(r, code) == Answers(r, "WY_CS_AGENT_GET_QUEUEAGENT", code)

cs_agent_useramount_callback(r, code) == Answers(r, "WY_CS_AGENT_USERAMOUNT", code)

cs_user_join_callback(r, code) == Answers(r, "WY_CS_USER_JOIN", code)

cs_user_depart_callback(r, code) == Answers(r, "WY_CS_USER_DEPART", code)

cs_user_score_callback(r, code) == Answers(r, "WY_CS_USER_SCORE", code)

cs_conversation_end_callback(r, code) == Answers(r, "WY_CS_CONVERSATION_END", code)

\* The server is taken from the id that Set has made, the text from the context.
cs_send_msg_callback(r, code) ==
  \E u \in Parties(code) :
    Relays(r, "WY_CS_SEND_MSG", code, SetHere(u).ims, u,
           [of |-> r, to |-> SetHere(u), cmd |-> "WY_CS_CLIENT_MSG", text |-> NoText])

cs_get_msg_callback(r, code) == Answers(r, "WY_CS_GET_MSG", code)

\* The connection is lost, or CustomService never comes to the request.
Lose(r) ==
  /\ "lost" \in Faults
  /\ r \in asked
  /\ asked' = asked \ {r}
  /\ UNCHANGED <<online, packet, step, context, reply, told, relayed, present, alive>>

\* A user logs off: friends, groups and the status server are told, CustomService is not.
\* Who signs on again is another point, its index being the time of the login.
OfflineAndCleanup(u) ==
  /\ alive
  /\ u \in online
  /\ online' = online \ {u}
  /\ UNCHANGED <<packet, step, context, asked, reply, told, relayed, present, alive>>

-----------------------------------------------------------------------------
Init ==
  /\ online = Uin
  /\ packet = [r \in Req |-> None]
  /\ step = [r \in Req |-> "new"]
  /\ context = [r \in Req |-> "none"]
  /\ asked = {}
  /\ reply = [r \in Req |-> None]
  /\ told = [r \in Req |-> <<>>]
  /\ relayed = {}
  /\ present = {}
  /\ alive = TRUE

\* The handler of r goes on.
Handler(r) ==
  \/ OnCSAgentPresence(r)
  \/ OnCSAgentAbsence(r)
  \/ OnCSAgentAccept(r)
  \/ OnCSAgentRefuse(r)
  \/ OnCSAgentRedirect(r)
  \/ OnCSAgentGetQueue(r)
  \/ OnCSAgentGetQueueagent(r)
  \/ OnCSAgentUserAmount(r)
  \/ OnCSUserJoin(r)
  \/ OnCSUserDepart(r)
  \/ OnCSUserScore(r)
  \/ OnCSConversationEnd(r)
  \/ OnCSSendMsg(r)
  \/ OnCSGetMsg(r)

\* The callback of r is called.
Callback(r) ==
  \E code \in Code :
    \/ cs_agent_presence_callback(r, code)
    \/ cs_agent_absence_callback(r, code)
    \/ cs_agent_accept_callback(r, code)
    \/ cs_agent_refuse_callback(r, code)
    \/ cs_agent_redirect_callback(r, code)
    \/ cs_agent_get_queue_callback(r, code)
    \/ cs_agent_get_queueagent_callback(r, code)
    \/ cs_agent_useramount_callback(r, code)
    \/ cs_user_join_callback(r, code)
    \/ cs_user_depart_callback(r, code)
    \/ cs_user_score_callback(r, code)
    \/ cs_conversation_end_callback(r, code)
    \/ cs_send_msg_callback(r, code)
    \/ cs_get_msg_callback(r, code)

Next ==
  \/ \E r \in Req : \/ \E p \in Packet : OnPacketReceivedFromClient(r, p)
                    \/ Handler(r)
                    \/ Callback(r)
                    \/ Lose(r)
  \/ \E u \in Uin : OfflineAndCleanup(u)

Spec == Init /\ [][Next]_vars

\* Every handler that has begun goes on, CustomService answers every request it gets, and
\* the library calls the callback.
FairSpec == Spec /\ \A r \in Req : WF_vars(Handler(r)) /\ WF_vars(Callback(r))

-----------------------------------------------------------------------------
(* Properties.                                                             *)

TypeOK ==
  /\ online \subseteq Uin /\ present \subseteq Uin
  /\ packet \in [Req -> Packet \cup {None}]
  /\ step \in [Req -> Step]
  /\ context \in [Req -> Context]
  /\ asked \subseteq Req
  /\ reply \in [Req -> [code: Code, party: Umid \cup {None}] \cup {None}]
  /\ told \in [Req -> Seq([cmd: Command \cup {"WY_INVALID_COMMAND"}, code: Code])]
  /\ relayed \subseteq Notice
  /\ alive \in BOOLEAN

\* The context of a request that CustomService will answer exists: neither the handler,
\* which may return after the callback has run, nor the callback takes one that is gone.
ContextLives == \A r \in asked : context[r] = "live"

\* No packet is answered twice, by the handler that gives up and by the callback.
OneAnswer == \A r \in Req : Len(told[r]) <= 1

\* When the callback has been called and the handler is over, nothing is left of a
\* request, unless it was a refusal.
OnlyRefusalsKeep ==
  \A r \in Req :
    step[r] = "over" /\ reply[r] # None /\ context[r] = "live"
      => packet[r].cmd = "WY_CS_AGENT_REFUSE"

\* Who is told 200 has been answered 200 by CustomService, and if another party was to be
\* notified the notification is on its way.
SuccessIsTrue ==
  \A r \in Req : \A i \in DOMAIN told[r] :
    told[r][i].code = 200 =>
      /\ reply[r] # None /\ reply[r].code = 200
      /\ packet[r].cmd \in {"WY_CS_AGENT_ACCEPT", "WY_CS_SEND_MSG"}
           => \E n \in relayed : n.of = r

\* Nothing but the answer to an accept or a message whose sender has logged off since
\* ends the process.
SurvivesOthers ==
  ~alive => \E r \in Req : /\ reply[r] # None
                           /\ packet[r].cmd \in {"WY_CS_AGENT_ACCEPT", "WY_CS_SEND_MSG"}
                           /\ packet[r].by \notin online

LoggedOff(r) == packet[r] # None /\ packet[r].by \notin online

\* CustomService has the request of r no longer and has not answered it.
Lost(r) ==
  step[r] = "over" /\ context[r] = "live" /\ r \notin asked /\ reply[r] = None

\* A client that stays signed on is answered, whatever fails, unless it refuses or
\* CustomService's answer is lost.
StayersAnswered ==
  \A r \in Req :
    step[r] = "received" /\ packet[r].cmd # "WY_CS_AGENT_REFUSE"
      ~> told[r] # <<>> \/ LoggedOff(r) \/ Lost(r) \/ ~alive

\* Only a command that is none of the table's is answered WY_INVALID_COMMAND.
InvalidIsInvalid ==
  \A r \in Req : \A i \in DOMAIN told[r] : told[r][i].cmd # "WY_INVALID_COMMAND"

\* The counter of pending requests counts the requests that are under way.
PendingIsUnderWay ==
  AsynTaskPending <= Cardinality(asked \cup {r \in Req : step[r] \in {"sent", "failed"}})

\* An answer bears the command of its request.
OwnCommand ==
  \A r \in Req : \A i \in DOMAIN told[r] : told[r][i].cmd = packet[r].cmd

\* A request that CustomService refuses is refused with CustomService's code.
RefusalKept ==
  \A r \in Req : \A i \in DOMAIN told[r] :
    reply[r] # None /\ reply[r].code # 200 => told[r][i].code = reply[r].code

\* The other party gets the text of the message.
TextArrives ==
  \A n \in relayed : n.cmd = "WY_CS_CLIENT_MSG" => n.text = packet[n.of].text

\* What CustomService has accepted reaches the other party on its server.
ReachesOtherServer ==
  \A r \in Req :
    (/\ told[r] # <<>> /\ reply[r] # None /\ reply[r].code = 200
     /\ reply[r].party # None /\ reply[r].party.ims \in Peers)
      => \E n \in relayed : n.of = r /\ n.to = reply[r].party

\* Who asks for the messages of a conversation gets them.
HistoryIsRead ==
  \A r \in Req : \A i \in DOMAIN told[r] :
    told[r][i].cmd = "WY_CS_GET_MSG" /\ reply[r] # None => told[r][i].code = 200

\* An agent that has logged off is at last no longer taken to be there.
GoneAgentsLeave == \A u \in Uin : u \notin online ~> u \notin present

=============================================================================
