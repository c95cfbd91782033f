---------------------------- MODULE ServiceDesk ----------------------------
(***************************************************************************)
(* What a queue of the server promises its users, without agents, lists,   *)
(* invitations or locks.  Whoever joins waits in line and is taken from    *)
(* the head of it into a conversation with a number that was never used    *)
(* before.  He leaves the line only when he asks to, the conversation only *)
(* when that very conversation is ended, or its agent is lost and he goes  *)
(* back to the head of the line.                                           *)
(*                                                                         *)
(* What it does not promise: that nobody joins twice (who does stands in   *)
(* the line twice, and each of the two is served), and that the desk does  *)
(* not close without notice, whereupon everybody is gone and nobody is     *)
(* answered.                                                               *)
(***************************************************************************)
EXTENDS Naturals, Sequences

CONSTANT Guest   \* whoever can ask for advice

VARIABLES
  asked,     \* the last request: its kind, the guest and the number it names, its answer
  open,      \* is the desk open?
  waiting,   \* the line
  serving,   \* the guests in a conversation, by its number
  spent      \* the numbers given out so far, in all the desk's life

desk == <<asked, open, waiting, serving, spent>>

Init ==
  /\ asked = [kind |-> "restart", who |-> {}, number |-> 0, code |-> 0]
  /\ open = TRUE
  /\ waiting = <<>>
  /\ serving = <<>>
  /\ spent = {}

Join(g) ==
  /\ asked' = [kind |-> "join", who |-> {g}, number |-> 0, code |-> 200]
  /\ waiting' = Append(waiting, g)
  /\ UNCHANGED <<serving, spent>>

\* The first place of the guest who asks.
Leave(i) ==
  /\ asked' = [kind |-> "depart", who |-> {waiting[i]}, number |-> 0, code |-> 200]
  /\ \A j \in 1 .. i - 1 : waiting[j] # waiting[i]
  /\ waiting' = SubSeq(waiting, 1, i - 1) \o SubSeq(waiting, i + 1, Len(waiting))
  /\ UNCHANGED <<serving, spent>>

Serve(c) ==
  /\ asked' = [kind |-> "accept", who |-> {}, number |-> 0, code |-> 200]
  /\ waiting # <<>>
  /\ c \notin spent
  /\ waiting' = Tail(waiting)
  /\ serving' = [d \in DOMAIN serving \cup {c} |->
                   IF d = c THEN Head(waiting) ELSE serving[d]]
  /\ spent' = spent \cup {c}

Drop(c) == serving' = [d \in DOMAIN serving \ {c} |-> serving[d]]

\* While a lost agent is being signed off.
GoBack(c) ==
  /\ asked' = [kind |-> "offline", who |-> {}, number |-> 0, code |-> 0]
  /\ Drop(c)
  /\ waiting' = <<serving[c]>> \o waiting
  /\ UNCHANGED spent

\* It is done, whatever the answer.
Finish(c) ==
  /\ asked'.kind = "end" /\ asked'.number = c
  /\ Drop(c)
  /\ UNCHANGED <<waiting, spent>>

\* A request that changes neither the line nor a conversation.
Other ==
  /\ asked'.kind \notin {"join", "depart", "end", "kill"}
  /\ asked'.kind = "accept" => asked'.code = 400
  /\ UNCHANGED <<waiting, serving, spent>>

\* It is killed, or a request nobody waiting can make stops it; that is not answered.
Close ==
  /\ open /\ ~open'
  /\ asked'.kind \in {"kill", "redirect", "offline", "end"} /\ asked'.code = 0
  /\ waiting' = <<>>
  /\ serving' = <<>>
  /\ UNCHANGED spent

StayClosed ==
  /\ ~open /\ ~open'
  /\ asked'.kind = "kill" /\ asked'.code = 0
  /\ UNCHANGED <<waiting, serving, spent>>

Open ==
  /\ ~open /\ open'
  /\ asked'.kind = "restart"
  /\ UNCHANGED <<waiting, serving, spent>>

Next ==
  \/ /\ open /\ open'
     /\ \/ \E g \in Guest : Join(g)
        \/ \E i \in DOMAIN waiting : Leave(i)
        \/ \E c \in spent' : Serve(c)
        \/ \E c \in DOMAIN serving : GoBack(c) \/ Finish(c)
        \/ Other
  \/ Close
  \/ StayClosed
  \/ Open

Spec == Init /\ [][Next]_desk

=============================================================================
