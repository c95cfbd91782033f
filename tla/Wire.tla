-------------------------------- MODULE Wire --------------------------------
(***************************************************************************)
(* A request and its answer on the wire between the client library and     *)
(* CustomService.                                                          *)
(*                                                                         *)
(* Every message is a structure with two functions, one that writes its    *)
(* fields and one that reads them.  The client builds a request from the   *)
(* parameters of one of its functions; the server reads it, answers with a *)
(* status and a response; the client reads the response and calls back.    *)
(* Who cannot read a packet answers it with an error code.                 *)
(*                                                                         *)
(* Here the two functions are the sequences of fields they name, and a     *)
(* packet is a sequence of bytes.  A byte has Base values, so that what    *)
(* needs a list of 256 elements in the code needs one of Base elements     *)
(* here.  How a number, a string and a list become bytes is the library's  *)
(* (base::packet), which is not in the repository.  One request is under   *)
(* way at a time: many are CallbackQueue's subject.                        *)
(*                                                                         *)
(* Definitions whose comment begins with "Slip:" are no part of the model, *)
(* see AgentMgr.                                                           *)
(***************************************************************************)
EXTENDS Naturals, Sequences, SequencesExt

CONSTANTS
  Base,      \* the values of a byte
  BigEndian, \* does the library write the most significant byte first?
  Patterns,  \* bound: which values fields take, of "low", "ramp", "high"
  Lengths,   \* bound: the lengths of lists
  Status     \* the status codes of answers

ASSUME WireAssumption ==
  /\ Base \in Nat \ {0, 1} /\ BigEndian \in BOOLEAN
  /\ Patterns \subseteq {"low", "ramp", "high"}
  /\ Lengths \subseteq 0 .. Base * Base - 1
  /\ (500 \div Base) % Base # 0 \* the high byte of an error code is not zero
  /\ {200, 500} \subseteq Status

-----------------------------------------------------------------------------
(* The library.                                                            *)

\* How many values w bytes have.
Power(w) ==
  LET p[i \in 0 .. w] == IF i = 0 THEN 1 ELSE Base * p[i - 1]
  IN  p[w]

\* A number of w bytes.
Digits(v, w) ==
  [i \in 1 .. w |-> (v \div Power(IF BigEndian THEN w - i ELSE i - 1)) % Base]

Number(d) ==
  LET w == Len(d)
      digit(i) == d[IF BigEndian THEN i ELSE w - i + 1]
      value[i \in 0 .. w] == IF i = 0 THEN 0 ELSE value[i - 1] * Base + digit(i)
  IN  value[w]

\* What a field may be: a number of some bytes, a string, a list whose elements have
\* fields and are counted while reading with an index of some bytes.
U(name, w) == [name |-> name, kind |-> "number", width |-> w]
Text(name) == [name |-> name, kind |-> "string"]
List(name, fields, w) == [name |-> name, kind |-> "list", fields |-> fields, width |-> w]

\* Strings and lists are preceded by their length, in two bytes.
WriteField(f, v) ==
  IF f.kind = "number" THEN Digits(v, f.width) ELSE Digits(Len(v), 2) \o v

WriteFields(fields, e) ==
  FlattenSeq([i \in DOMAIN fields |-> WriteField(fields[i], e[fields[i].name])])

WriteItem(f, v) ==
  IF f.kind # "list" THEN WriteField(f, v)
  ELSE Digits(Len(v), 2) \o FlattenSeq([j \in DOMAIN v |-> WriteFields(f.fields, v[j])])

Write(fields, message) ==
  FlattenSeq([i \in DOMAIN fields |-> WriteItem(fields[i], message[fields[i].name])])

\* Reading: what is left of the packet, what has been read, and whether the packet has
\* come to an end too early, which throws.
Fails(st) == [st EXCEPT !.state = "failed"]

Take(st, n) == SubSeq(st.left, 1, n)

Skip(st, n) == SubSeq(st.left, n + 1, Len(st.left))

With(e, name, v) == [x \in DOMAIN e \cup {name} |-> IF x = name THEN v ELSE e[x]]

Put(st, n, name, v) == [st EXCEPT !.left = Skip(st, n), !.got = With(@, name, v)]

ReadField(st, f) ==
  LET head == IF f.kind = "number" THEN f.width ELSE 2
      size == Number(Take(st, head))
  IN  IF st.state = "failed" \/ Len(st.left) < head THEN Fails(st)
      ELSE IF f.kind = "number" THEN Put(st, head, f.name, size)
      ELSE IF Len(st.left) < head + size THEN Fails(st)
      ELSE Put(st, head + size, f.name, SubSeq(st.left, head + 1, head + size))

Nothing == [x \in {} |-> 0]

ReadFields(st, fields) ==
  LET after[i \in 0 .. Len(fields)] == IF i = 0 THEN st ELSE ReadField(after[i - 1], fields[i])
  IN  after[Len(fields)]

\* An element is read into a variable of its own and appended.
ReadElement(st, f) ==
  LET e == ReadFields([st EXCEPT !.got = Nothing], f.fields)
  IN  [e EXCEPT !.got = [st.got EXCEPT ![f.name] = Append(@, e.got)]]

\* An index that cannot reach the count never ends the loop: the packet does.
ReadList(st, f) ==
  LET count == Number(Take(st, 2))
      after[j \in 0 .. count] ==
        IF j = 0 THEN Put(st, 2, f.name, <<>>) ELSE ReadElement(after[j - 1], f)
  IN  IF st.state = "failed" \/ Len(st.left) < 2 \/ count >= Power(f.width) THEN Fails(st)
      ELSE after[count]

ReadItem(st, f) == IF f.kind = "list" THEN ReadList(st, f) ELSE ReadField(st, f)

Read(fields, packet) ==
  LET after[i \in 0 .. Len(fields)] ==
        IF i = 0 THEN [left |-> packet, got |-> Nothing, state |-> "reading"]
        ELSE ReadItem(after[i - 1], fields[i])
  IN  after[Len(fields)]

-----------------------------------------------------------------------------
(* The structures: what encode writes and decode reads, of the request and *)
(* of the response.                                                        *)

Format(req_out, req_in, res_out, res_in) ==
  [req_out |-> req_out, req_in |-> req_in, res_out |-> res_out, res_in |-> res_in]

\* Where both functions name the same fields.
Same(req, res) == Format(req, req, res, res)

Queue == U("queue", 4)
Cvs == U("cvs", 8)

\* UMID's operators << and >>, for the account of a role.
UMID(uin, multpt) == <<U(uin, 8), U(multpt, 8)>>

Account == UMID("uin", "multpt")

CONVERSATION_INFO ==
  <<Cvs>> \o UMID("agent", "agent_multpt") \o <<Text("agent_name")>>
    \o UMID("user", "user_multpt") \o <<U("user_addr", 4)>>

MSG_INFO ==
  <<U("msg", 8), Cvs, U("agent", 8), U("user", 8), U("flag", 1), U("time", 8), Text("text")>>

QUEUE_INFO == <<U("wg", 4), Text("wg_name"), Queue, Text("queue_name")>>

AGENT_INFO == UMID("uin", "multpt") \o <<Text("name")>>

Agent_Presence == Same(<<Queue>> \o Account \o <<U("capacity", 4)>>, <<Queue>>)

Agent_Absence == Same(<<Queue>> \o Account, <<Queue>>)

Agent_Offline == Same(<<Queue>> \o Account, <<Queue>>)

Agent_Accept == Same(<<Queue>> \o Account, <<Queue>> \o CONVERSATION_INFO)

Agent_Refuse == Same(<<Queue>> \o Account, <<Queue>>)

Agent_Redirect ==
  Same(<<Queue, Cvs>> \o UMID("from", "from_multpt") \o UMID("to", "to_multpt"), <<Queue>>)

\* The index has 8 bits.
Agent_Get_Queue == Same(<<U("uin", 8)>>, <<List("queues", QUEUE_INFO, 1)>>)

\* decode does not read the queue encode writes.
Agent_Get_QueueAgent ==
  LET agents == List("agents", AGENT_INFO, 2)
  IN  Format(<<Queue>>, <<Queue>>, <<Queue, agents>>, <<agents>>)

Agent_Useramount == Same(<<Queue>>, <<Queue, U("amount", 2)>>)

User_Join == Same(<<Queue>> \o Account \o <<U("addr", 4)>>, <<Queue, U("pos", 2)>>)

User_Depart == Same(<<Queue>> \o Account, <<Queue>>)

\* Slip: decode reads the conversation first.
User_ScoreSwapped ==
  Format(<<Queue>> \o Account \o <<Cvs, U("score", 1)>>, <<Queue, Cvs>> \o Account \o <<U("score", 1)>>,
         <<Queue>>, <<Queue>>)

User_Score == Same(<<Queue>> \o Account \o <<Cvs, U("score", 1)>>, <<Queue>>)

\* Slip: decode still reads the agent, which encode has ceased to write.
Conversation_EndOld ==
  Format(<<Queue, Cvs>> \o Account, <<Queue, Cvs>> \o Account, <<Queue>>, <<Queue>> \o Account)

Conversation_End == Same(<<Queue, Cvs>> \o Account, <<Queue>>)

Send_Msg ==
  Same(<<Queue, Cvs>> \o Account \o <<Text("text")>>, <<Queue>> \o UMID("receiver", "receiver_multpt"))

\* Slip: decode does not read the conversation.
Get_MsgWithoutCvs ==
  LET list == List("msgs", MSG_INFO, 2)
  IN  Format(<<Queue, Cvs>>, <<Queue, Cvs>>, <<Queue, Cvs, list>>, <<Queue, list>>)

Get_Msg == Same(<<Queue, Cvs>>, <<Queue, Cvs, List("msgs", MSG_INFO, 2)>>)

CSMsg ==
  [AGENT_PRESENCE |-> Agent_Presence, AGENT_ABSENCE |-> Agent_Absence,
   AGENT_OFFLINE |-> Agent_Offline, AGENT_ACCEPT |-> Agent_Accept,
   AGENT_REFUSE |-> Agent_Refuse, AGENT_REDIRECT |-> Agent_Redirect,
   AGENT_GET_QUEUE |-> Agent_Get_Queue, AGENT_GET_QUEUEAGENT |-> Agent_Get_QueueAgent,
   AGENT_USERAMOUNT |-> Agent_Useramount, USER_JOIN |-> User_Join,
   USER_DEPART |-> User_Depart, USER_SCORE |-> User_Score,
   CONVERSATION_END |-> Conversation_End, SEND_MSG |-> Send_Msg, GET_MSG |-> Get_Msg]

Command == DOMAIN CSMsg

Fields(layout) == {layout[i].name : i \in DOMAIN layout}

-----------------------------------------------------------------------------
(* The client's functions: their parameters, and what of the response they *)
(* hand to the callback.                                                   *)

Request_Agent_Presence == <<Queue>> \o Account \o <<U("capacity", 4)>>

Request_Agent_Absence == <<Queue>> \o Account

Request_Agent_Accept == <<Queue>> \o Account

Request_Agent_Refuse == <<Queue>> \o Account

\* A conversation is given in 32 bits.
Request_Agent_Redirect ==
  <<Queue, U("cvs", 4)>> \o UMID("from", "from_multpt") \o UMID("to", "to_multpt")

Request_Agent_Get_Queue == <<U("uin", 8)>>

Request_Agent_Get_QueueAgent == <<Queue>>

Request_Agent_Offline == <<Queue>> \o Account

Request_Agent_UserNum == <<Queue>>

Request_UserJoinMsg == <<Queue>> \o Account \o <<U("addr", 4)>>

Request_UserDepartMsg == <<Queue>> \o Account

Request_UserScoreMsg == <<Queue, Cvs>> \o Account \o <<U("score", 1)>>

Request_Conversation_End == <<Queue>> \o Account \o <<Cvs>>

Request_Send_Msg == <<Queue, Cvs>> \o Account \o <<Text("text")>>

Request_Get_Msg == <<Queue, Cvs>>

Params ==
  [AGENT_PRESENCE |-> Request_Agent_Presence, AGENT_ABSENCE |-> Request_Agent_Absence,
   AGENT_OFFLINE |-> Request_Agent_Offline, AGENT_ACCEPT |-> Request_Agent_Accept,
   AGENT_REFUSE |-> Request_Agent_Refuse, AGENT_REDIRECT |-> Request_Agent_Redirect,
   AGENT_GET_QUEUE |-> Request_Agent_Get_Queue,
   AGENT_GET_QUEUEAGENT |-> Request_Agent_Get_QueueAgent,
   AGENT_USERAMOUNT |-> Request_Agent_UserNum, USER_JOIN |-> Request_UserJoinMsg,
   USER_DEPART |-> Request_UserDepartMsg, USER_SCORE |-> Request_UserScoreMsg,
   CONVERSATION_END |-> Request_Conversation_End, SEND_MSG |-> Request_Send_Msg,
   GET_MSG |-> Request_Get_Msg]

AGENT_REDIRECT_CALLBACK == {"queue"}

AGENT_GET_QUEUE_CALLBACK == {"queues"}

AGENT_GET_QUEUEAGENT_CALLBACK == {"queue", "agents"}

AGENT_ACCEPT_CALLBACK == {"queue"} \cup Fields(CONVERSATION_INFO)

AGENT_REFUSE_CALLBACK == {"queue"}

AGENT_USERAMOUNT_CALLBACK == {"queue", "amount"}

USER_JOIN_MSGS_CALLBACK == {"queue", "pos"}

SEND_MSG_CALLBACK == {"receiver", "receiver_multpt"}

GET_MSG_CALLBACK == {"queue", "cvs", "msgs"}

\* Every callback gets the status, and those of presence, absence, offline, depart, score
\* and end nothing else.
Shown(c) ==
  CASE c = "AGENT_REDIRECT" -> AGENT_REDIRECT_CALLBACK
    [] c = "AGENT_GET_QUEUE" -> AGENT_GET_QUEUE_CALLBACK
    [] c = "AGENT_GET_QUEUEAGENT" -> AGENT_GET_QUEUEAGENT_CALLBACK
    [] c = "AGENT_ACCEPT" -> AGENT_ACCEPT_CALLBACK
    [] c = "AGENT_REFUSE" -> AGENT_REFUSE_CALLBACK
    [] c = "AGENT_USERAMOUNT" -> AGENT_USERAMOUNT_CALLBACK
    [] c = "USER_JOIN" -> USER_JOIN_MSGS_CALLBACK
    [] c = "SEND_MSG" -> SEND_MSG_CALLBACK
    [] c = "GET_MSG" -> GET_MSG_CALLBACK
    [] OTHER -> {}

-----------------------------------------------------------------------------
(* A request and its answer.                                               *)

VARIABLES
  pc,    \* who has the packet: nobody, the server, the client; or the client has called back
  cmd,   \* the command under way
  asked, \* what the caller has asked for
  wire,  \* the body of the packet under way
  heard, \* what the server has read
  told,  \* what the server has put into its answer
  got    \* what the callback has been given

vars == <<pc, cmd, asked, wire, heard, told, got>>

\* The values of the k-th field: the least, the greatest, or its place.
Sample(p, k, f) ==
  CASE f.kind = "number" /\ p = "low" -> 0
    [] f.kind = "number" /\ p = "ramp" -> k % Power(f.width)
    [] f.kind = "number" /\ p = "high" -> Power(f.width) - 1
    [] f.kind = "string" -> IF p = "low" THEN <<>> ELSE <<k % Base, 1>>

\* A message whose fields have values of pattern p and whose lists have n elements.
Samples(layout, p, n) ==
  [x \in Fields(layout) |->
    LET k == CHOOSE i \in DOMAIN layout : layout[i].name = x
        f == layout[k]
    IN  IF f.kind # "list" THEN Sample(p, k, f)
        ELSE [j \in 1 .. n |->
               [y \in Fields(f.fields) |->
                 LET i == CHOOSE i \in DOMAIN f.fields : f.fields[i].name = y
                 IN  Sample(p, j + i, f.fields[i])]]]

\* What the parameters of the function make of what the caller means.
Passed(c, means) ==
  [x \in DOMAIN means |->
    LET f == CHOOSE f \in {Params[c][i] : i \in DOMAIN Params[c]} : f.name = x
    IN  IF f.kind = "number" THEN means[x] % Power(f.width) ELSE means[x]]

Request(c) ==
  /\ pc = "idle"
  /\ cmd' = c
  /\ \E p \in Patterns : asked' = Samples(CSMsg[c].req_out, p, 0)
  /\ wire' = Write(CSMsg[c].req_out, Passed(c, asked'))
  /\ pc' = "server"
  /\ UNCHANGED <<heard, told, got>>

\* sendErrCode of the server: the code is the body.
sendErrCode == Digits(500, 2)

\* What the server knows from the request is in its response, whatever the status.
Answered(c, request, res) ==
  [x \in DOMAIN res |-> IF x = "queue" \/ (c = "GET_MSG" /\ x = "cvs") THEN request[x] ELSE res[x]]

\* processBSNRequest.  What a handler has not filled in before it refuses has any value.
Serve ==
  LET st == Read(CSMsg[cmd].req_in, wire)
  IN  /\ pc = "server"
      /\ pc' = "client"
      /\ \/ /\ st.state = "reading"
            /\ heard' = st.got
            /\ \E s \in Status, p \in Patterns, n \in Lengths :
                 told' = [status |-> s,
                          body |-> Answered(cmd, st.got, Samples(CSMsg[cmd].res_out, p, n))]
            /\ wire' = Write(CSMsg[cmd].res_out, told'.body)
         \/ /\ st.state = "failed"
            /\ told' = [status |-> 500, body |-> Nothing]
            /\ wire' = sendErrCode
            /\ UNCHANGED heard
      /\ UNCHANGED <<cmd, asked, got>>

\* processBSNResponse of the client.  If it cannot read the response it sends an error
\* code, with no body, which the server takes for a request.
Receive ==
  LET st == Read(CSMsg[cmd].res_in, wire)
  IN  /\ pc = "client"
      /\ \/ /\ st.state = "reading"
            /\ got' = [x \in Shown(cmd) \cap DOMAIN st.got |-> st.got[x]]
            /\ pc' = "called"
            /\ UNCHANGED wire
         \/ /\ st.state = "failed"
            /\ wire' = <<>>
            /\ pc' = "server"
            /\ UNCHANGED got
      /\ UNCHANGED <<cmd, asked, heard, told>>

\* The next request.
Return ==
  /\ pc = "called"
  /\ pc' = "idle"
  /\ cmd' = "none" /\ wire' = <<>>
  /\ asked' = Nothing /\ heard' = Nothing /\ got' = Nothing
  /\ told' = [status |-> 0, body |-> Nothing]

Init ==
  /\ pc = "idle" /\ cmd = "none" /\ wire = <<>>
  /\ asked = Nothing /\ heard = Nothing /\ got = Nothing
  /\ told = [status |-> 0, body |-> Nothing]

Next == (\E c \in Command : Request(c)) \/ Serve \/ Receive \/ Return

Spec == Init /\ [][Next]_vars

-----------------------------------------------------------------------------
(* Properties.                                                             *)

\* Does the caller mean a conversation that does not fit the parameter?
LongCvs == cmd = "AGENT_REDIRECT" /\ asked.cvs >= Power(4)

\* The server reads from a request what the caller has asked for, field by field, but for
\* the conversation of a redirect whose id has more than 32 bits (CSMsg_*.h, encode and
\* decode of the requests; CSClient.cpp:338).
RequestArrives == heard # Nothing => heard = asked \/ LongCvs

\* Is the response one whose two functions disagree, or a list of queues that is too long
\* for the index of the loop that reads it?
Unreadable ==
  \/ cmd = "AGENT_GET_QUEUEAGENT"
  \/ cmd = "AGENT_GET_QUEUE" /\ Len(told.body.queues) >= Base

\* The client reads every response but those, so that no error code goes back to the
\* server, which would answer it with one (CSNetHandler.cpp:48).  Once one has gone back the
\* two chase each other, so that this is about the answers to requests that were read.
AnswersReadable == [][Receive /\ pc' = "server" /\ told.body # Nothing => Unreadable]_vars

\* What a callback is given is what the server has put into its answer, and it names the
\* queue that was asked for (CSMsg_*.h, encode and decode of the responses).
AnswerArrives ==
  pc = "called" /\ cmd # "AGENT_GET_QUEUEAGENT" =>
    /\ \A x \in DOMAIN got : got[x] = told.body[x]
    /\ "queue" \in DOMAIN got => got.queue = asked.queue

\* An agent that asks for the agents of its queue is given them.
AgentsArrive ==
  pc = "called" /\ cmd = "AGENT_GET_QUEUEAGENT" => got.agents = told.body.agents

=============================================================================
