---------------------------- MODULE RequestReply ----------------------------
(***************************************************************************)
(* What the server promises to one client after another: a client on a     *)
(* connection asks, is answered once and reads the answer before it asks   *)
(* again or leaves, and no answer comes unasked.  manage_requestreply of   *)
(* client.c relies on it (the loop at client.c:202-246 ends at the first   *)
(* header that is an answer).  Delivery is shown to implement it.          *)
(***************************************************************************)
CONSTANT Clients

VARIABLE phase   \* where the dialogue of each client is

Init == phase = [c \in Clients |-> "away"]

Step(c, from, to) ==
    /\ phase[c] \in from
    /\ phase' = [phase EXCEPT ![c] = to]

\* The first request comes with the connection.
Ask(c)    == Step(c, {"away", "idle"}, "asked")
Answer(c) == Step(c, {"asked"}, "answered")
Read(c)   == Step(c, {"answered"}, "idle")
Leave(c)  == Step(c, {"idle"}, "away")

Next == \E c \in Clients : Ask(c) \/ Answer(c) \/ Read(c) \/ Leave(c)

\* The order of the dialogue, without the promise of an answer.
InOrder == Init /\ [][Next]_phase

\* Whoever asks is answered, and gets to the end of the answer.
Answered == \A c \in Clients : phase[c] = "asked" ~> phase[c] = "idle"

Spec == InOrder /\ Answered
=============================================================================
