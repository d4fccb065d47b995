----------------------------- MODULE RemoteCall -----------------------------
(***************************************************************************)
(* What a caller may expect of a task it hands to a peer through the       *)
(* adapter: it is told once how the task ended, it is told "completed"     *)
(* only if the peer has answered, and a peer that answers after its caller *)
(* was told that the task failed changes nothing for that caller.          *)
(***************************************************************************)
CONSTANTS Calls, Untold

VARIABLES
    asked,     \* calls handed over
    answered,  \* calls the peer has answered
    outcome    \* call -> what its caller was told, or Untold

callVars == <<asked, answered, outcome>>

Init ==
    /\ asked = {}
    /\ answered = {}
    /\ outcome = [c \in Calls |-> Untold]

Ask(c) ==
    /\ c \notin asked
    /\ asked' = asked \cup {c}
    /\ UNCHANGED <<answered, outcome>>

\* Nothing is sent.
Refuse(c) ==
    /\ c \notin asked
    /\ asked' = asked \cup {c}
    /\ outcome' = [outcome EXCEPT ![c] = "failed"]
    /\ UNCHANGED answered

AnswerAtPeer(c) ==
    /\ c \in asked \ answered
    /\ answered' = answered \cup {c}
    /\ UNCHANGED <<asked, outcome>>

Tell(c) ==
    /\ c \in asked
    /\ outcome[c] = Untold
    /\ \E o \in {"completed", "failed"} :
         /\ o = "completed" => c \in answered
         /\ outcome' = [outcome EXCEPT ![c] = o]
    /\ UNCHANGED <<asked, answered>>

Next == \E c \in Calls : Ask(c) \/ Refuse(c) \/ AnswerAtPeer(c) \/ Tell(c)

Spec == Init /\ [][Next]_callVars

\* Nobody who asks waits for ever.
FairSpec == Spec /\ \A c \in Calls : WF_callVars(Tell(c))

=============================================================================
