------------------------------- MODULE MCRelay -------------------------------
(***************************************************************************)
(* Instances of ImsRelay for TLC.                                          *)
(***************************************************************************)
EXTENDS ImsRelay, TLC

CONSTANT First  \* the packet that may bear any command

AnyCommand == [r \in Req |-> Command]

\* The other packets are messages of the parties of a conversation.
Parley == [r \in Req |-> IF r = First THEN Command ELSE {"WY_CS_SEND_MSG"}]

\* A value of WY_CS_MASK under which the dispatcher finds the custom-service commands.
FoundMask == 57344

\* The value cmd.h gives it.
CodeMask == 58112

AllFaults == {"client", "send", "lost", "notify"}

=============================================================================
