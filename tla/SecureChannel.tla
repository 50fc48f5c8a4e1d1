--------------------------- MODULE SecureChannel ---------------------------
(***************************************************************************)
(* What an encrypted session promises its users, without keys or chains:   *)
(* an endpoint receives only what another endpoint sent, and each message  *)
(* at most once; messages may be lost and overtake each other.             *)
(***************************************************************************)
EXTENDS Naturals

CONSTANT Role

VARIABLES
    sent,       \* sent[e]: messages e has sent
    received,   \* received[e]: messages e has received
    receipts    \* receipts[e]: how many times e has received a message

channelVars == <<sent, received, receipts>>

Init ==
    /\ sent = [e \in Role |-> {}]
    /\ received = [e \in Role |-> {}]
    /\ receipts = [e \in Role |-> 0]

AllSent == UNION {sent[e] : e \in Role}

\* A message nobody has sent before.
Send(e) ==
    /\ \E m \in sent'[e] \ AllSent : sent' = [sent EXCEPT ![e] = @ \cup {m}]
    /\ UNCHANGED <<received, receipts>>

Receive(e) ==
    /\ \E d \in Role \ {e} : \E m \in sent[d] \ received[e] :
         received' = [received EXCEPT ![e] = @ \cup {m}]
    /\ receipts' = [receipts EXCEPT ![e] = @ + 1]
    /\ UNCHANGED sent

Next == \E e \in Role : Send(e) \/ Receive(e)

Spec == Init /\ [][Next]_channelVars

============================================================================
