---------------------------- MODULE CallbackQueue ----------------------------
(***************************************************************************)
(* The client library (CustomServiceClient): how a response finds the      *)
(* callback of its request.  Every Request_* function of CSClient pushes   *)
(* its callback on the one CCallbackQueue of the process, sends the index  *)
(* it got as the sequence number of the packet, and returns; a thread of   *)
(* the pool takes a response, whose sequence number is its request's, to   *)
(* CCallbackQueue::Deal and calls what it finds.                           *)
(*                                                                         *)
(* m_mutex is held within AddCallback, RemoveCallback, Deal and the first  *)
(* half of CheckQueue, each of which is one action, and by nobody between  *)
(* them: requests, responses, timeouts and callbacks interleave freely.    *)
(*                                                                         *)
(* Definitions whose comment begins with "Slip:" are no part of the model, *)
(* see AgentMgr.                                                           *)
(***************************************************************************)
EXTENDS Integers, Sequences, FiniteSets

CONSTANTS
  Req,         \* the requests the application makes, each of them once
  Null,        \* a callback pointer that is NULL
  IndexSpace,  \* SEQ_INDEX_MASK + 1
  FirstIndex,  \* m_index when the application makes the first of these requests
  Faults,      \* what may go wrong: "encode", "send", "lost", "unreadable"
  Timeouts     \* does anybody call CheckQueue?

ASSUME CallbackAssumption ==
  /\ Null \notin Req
  /\ IndexSpace \in Nat \ {0}
  /\ FirstIndex \in 0 .. IndexSpace - 1
  /\ Timeouts \in BOOLEAN

VARIABLES
  queue,    \* m_queue
  index,    \* m_index
  step,     \* how far each Request_* function is
  seq,      \* the sequence number each request is sent with
  asked,    \* the requests the server has not answered
  answers,  \* the responses that no thread has taken yet
  refused,  \* the error packets the client sends for responses it cannot read
  due,      \* the callbacks that are about to be called
  called    \* for each request the answers its callback has been called with

vars == <<queue, index, step, seq, asked, answers, refused, due, called>>

NoIndex == -1

Step == {"new", "added", "sent", "failed", "thrown"}
Entry == [index: 0 .. IndexSpace - 1, cb: Req \cup {Null}]
Answer == [seq: {NoIndex} \cup 0 .. IndexSpace - 1, of: Req, readable: BOOLEAN]

\* Whose callback is called, and whose answer it gets; Null for a timeout's 504.
CallOf == [cb: Req, of: Req \cup {Null}]

-----------------------------------------------------------------------------
(* CCallbackQueue.                                                         *)

\* Slip: no mask.
NextIndexUnmasked == index + 1

NextIndex == (index + 1) % IndexSpace

\* Bound: the index does not come round to one that was given out before.  In the
\* code that takes 2^31 requests.
NotComeRound(i) == \A r \in Req : seq[r] # i

\* Slip: ci.index is left as the constructor sets it.
PushedWithoutIndex(r, i) == Append(queue, [index |-> 0, cb |-> r])

Pushed(r, i) == Append(queue, [index |-> i, cb |-> r])

\* Slip: no mask.
SlotUnmasked(i) == i - Head(queue).index + 1

\* Entries are found by their distance from the front.
Slot(i) == ((i - Head(queue).index) % IndexSpace) + 1

\* Slip: an entry behind the front is erased.
RemovedAnywhere(i) ==
  IF i # NoIndex /\ queue # <<>> /\ Slot(i) \in DOMAIN queue
  THEN SubSeq(queue, 1, Slot(i) - 1) \o SubSeq(queue, Slot(i) + 1, Len(queue))
  ELSE queue

\* RemoveCallback, which does not look at the index of what it finds.
Removed(i) ==
  IF i = NoIndex \/ queue = <<>> \/ Slot(i) \notin DOMAIN queue THEN queue
  ELSE IF Slot(i) = 1 THEN Tail(queue)
  ELSE [queue EXCEPT ![Slot(i)].cb = Null]

\* How many entries without a callback stand at the front of q.
Dead(q) ==
  CHOOSE k \in 0 .. Len(q) : /\ \A j \in 1 .. k : q[j].cb = Null
                             /\ k < Len(q) => q[k + 1].cb # Null

FromDead(q) == SubSeq(q, Dead(q) + 1, Len(q))

\* Does Deal return true and a callback info?
Found(i) ==
  /\ i # NoIndex
  /\ queue # <<>>
  /\ Slot(i) \in DOMAIN queue
  /\ queue[Slot(i)].index = i

\* Slip: an entry that is not at the front is found again.
DealtAtFrontOnly(i) == IF Slot(i) = 1 THEN FromDead(Tail(queue)) ELSE queue

\* What Deal leaves of the queue.
Dealt(i) ==
  IF Slot(i) = 1 THEN FromDead(Tail(queue)) ELSE [queue EXCEPT ![Slot(i)].cb = Null]

-----------------------------------------------------------------------------
(* The application's threads: CSClient::Request_*.                         *)

\* A request made without a callback is sent with SEQ_INDEX_NONE.
AddCallback(r) ==
  /\ step[r] = "new"
  /\ step' = [step EXCEPT ![r] = "added"]
  /\ \/ UNCHANGED <<queue, index, seq>>
     \/ /\ NotComeRound(NextIndex)
        /\ index' = NextIndex
        /\ queue' = Pushed(r, NextIndex)
        /\ seq' = [seq EXCEPT ![r] = NextIndex]
  /\ UNCHANGED <<asked, answers, refused, due, called>>

Send(r) ==
  /\ step[r] = "added"
  /\ step' = [step EXCEPT ![r] = "sent"]
  /\ asked' = asked \cup {r}
  /\ UNCHANGED <<queue, index, seq, answers, refused, due, called>>

\* send_packet does not return 0: the function returns -1 and leaves its callback.
SendFails(r) ==
  /\ "send" \in Faults
  /\ step[r] = "added"
  /\ step' = [step EXCEPT ![r] = "failed"]
  /\ UNCHANGED <<queue, index, seq, asked, answers, refused, due, called>>

\* Slip: catch (...) returns at once.
EncodeFailsKeeping(r) ==
  /\ "encode" \in Faults
  /\ step[r] = "added"
  /\ step' = [step EXCEPT ![r] = "thrown"]
  /\ UNCHANGED <<queue, index, seq, asked, answers, refused, due, called>>

\* encode, or send_packet before anything is sent, throws.
EncodeFails(r) ==
  /\ "encode" \in Faults
  /\ step[r] = "added"
  /\ step' = [step EXCEPT ![r] = "thrown"]
  /\ queue' = Removed(seq[r])
  /\ UNCHANGED <<index, seq, asked, answers, refused, due, called>>

-----------------------------------------------------------------------------
(* The server, whose threads answer in any order.                          *)

\* CSNetHandler of the server: an answer with the request's sequence number; an
\* error packet without a body that the client can read, if the handler throws; or
\* none, if the handler hangs or the connection is lost.
Respond(r) ==
  /\ r \in asked
  /\ asked' = asked \ {r}
  /\ \/ answers' = answers \cup {[seq |-> seq[r], of |-> r, readable |-> TRUE]}
     \/ /\ "unreadable" \in Faults
        /\ answers' = answers \cup {[seq |-> seq[r], of |-> r, readable |-> FALSE]}
     \/ /\ "lost" \in Faults
        /\ UNCHANGED answers
  /\ UNCHANGED <<queue, index, step, seq, refused, due, called>>

\* An error packet of the client looks like a request the server cannot read.
RespondToError(a) ==
  /\ a \in refused
  /\ refused' = refused \ {a}
  /\ answers' = answers \cup {a}
  /\ UNCHANGED <<queue, index, step, seq, asked, due, called>>

-----------------------------------------------------------------------------
(* The pool's threads: CSNetHandler, CSProcessTask.                        *)

\* processResponse up to the end of Deal.
Receive(a) ==
  /\ a \in answers /\ a.readable
  /\ answers' = answers \ {a}
  /\ \/ /\ ~Found(a.seq)
        /\ UNCHANGED <<queue, due>>
     \/ /\ Found(a.seq)
        /\ queue' = Dealt(a.seq)
        /\ LET cb == queue[Slot(a.seq)].cb
           IN  due' = due \cup IF cb = Null THEN {} ELSE {[cb |-> cb, of |-> a.of]}
  /\ UNCHANGED <<index, step, seq, asked, refused, called>>

\* processBSNResponse catches what decode throws and answers the answer.
ReceiveUnreadable(a) ==
  /\ a \in answers /\ ~a.readable
  /\ answers' = answers \ {a}
  /\ refused' = refused \cup {a}
  /\ UNCHANGED <<queue, index, step, seq, asked, due, called>>

Call(d) ==
  /\ d \in due
  /\ due' = due \ {d}
  /\ called' = [called EXCEPT ![d.cb] = Append(@, d.of)]
  /\ UNCHANGED <<queue, index, step, seq, asked, answers, refused>>

\* Pops k entries, dead ones and expired ones.  Bound: no request expires before its
\* Request_* function has sent it.
CheckQueue(k) ==
  LET expired == {queue[j].cb : j \in 1 .. k} \ {Null}
  IN  /\ Timeouts
      /\ k < Len(queue) => queue[k + 1].cb # Null
      /\ \A r \in expired : step[r] # "added"
      /\ queue' = SubSeq(queue, k + 1, Len(queue))
      /\ due' = due \cup {[cb |-> r, of |-> Null] : r \in expired}
      /\ UNCHANGED <<index, step, seq, asked, answers, refused, called>>

-----------------------------------------------------------------------------
Init ==
  /\ queue = <<>>
  /\ index = FirstIndex
  /\ step = [r \in Req |-> "new"]
  /\ seq = [r \in Req |-> NoIndex]
  /\ asked = {}
  /\ answers = {}
  /\ refused = {}
  /\ due = {}
  /\ called = [r \in Req |-> <<>>]

Next ==
  \/ \E r \in Req : AddCallback(r) \/ Send(r) \/ SendFails(r) \/ EncodeFails(r) \/ Respond(r)
  \/ \E a \in answers : Receive(a) \/ ReceiveUnreadable(a)
  \/ \E a \in refused : RespondToError(a)
  \/ \E d \in due : Call(d)
  \/ \E k \in 1 .. Len(queue) : CheckQueue(k)

Spec == Init /\ [][Next]_vars

AnswerOf(r) == {a \in answers : a.of = r}
CallsOf(r) == {d \in due : d.cb = r}

\* The pool runs every task it is given: a response is taken, a found callback called.
PoolFair ==
  \A r \in Req :
    /\ WF_vars(\E a \in AnswerOf(r) : Receive(a))
    /\ WF_vars(\E d \in CallsOf(r) : Call(d))

\* The server's threads, too, come to every request.
ServerFair == \A r \in Req : WF_vars(Respond(r))

FairSpec == Spec /\ PoolFair

ServedSpec == Spec /\ PoolFair /\ ServerFair

-----------------------------------------------------------------------------
(* Properties.                                                             *)

TypeOK ==
  /\ queue \in Seq(Entry)
  /\ index \in 0 .. IndexSpace - 1
  /\ step \in [Req -> Step]
  /\ seq \in [Req -> {NoIndex} \cup 0 .. IndexSpace - 1]
  /\ asked \subseteq Req
  /\ answers \subseteq Answer /\ refused \subseteq Answer
  /\ due \subseteq CallOf
  /\ called \in [Req -> Seq(Req \cup {Null})]

\* The distance from the front is the place of an index, also where the indices wrap:
\* RemoveCallback, which does not check what it finds, relies on it.
Contiguous ==
  \A i \in DOMAIN queue :
    queue[i].index = (index - (Len(queue) - i)) % IndexSpace

\* A callback gets the answer to its own request, or a timeout, in whatever order
\* the threads push, send, answer, deal and call.
RightCallback ==
  \A r \in Req : \A i \in DOMAIN called[r] : called[r][i] \in {r, Null}

\* No callback is called twice, though a late answer races the timeout.
AtMostOnce == \A r \in Req : Len(called[r]) <= 1

\* A request that was taken back because it could not be encoded is not called back.
ThrownIsSilent ==
  \A r \in Req : step[r] = "thrown" => called[r] = <<>> /\ CallsOf(r) = {}

\* An answer that can be read leads to a call, whatever befalls the other requests.
AnsweredIsCalled ==
  \A r \in Req :
    (\E a \in AnswerOf(r) : a.readable /\ a.seq # NoIndex) ~> called[r] # <<>>

\* Every request that has been sent is called back, with an answer or a timeout.
SentIsCalled ==
  \A r \in Req : step[r] = "sent" /\ seq[r] # NoIndex ~> called[r] # <<>>

\* When every request is over and every answer dealt with, nothing is left behind.
NothingLeft ==
  /\ \A r \in Req : step[r] \in {"sent", "thrown"}
  /\ asked \cup answers \cup refused \cup due = {}
  => queue = <<>>

=============================================================================
