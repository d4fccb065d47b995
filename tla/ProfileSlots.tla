---------------------------- MODULE ProfileSlots ----------------------------
(***************************************************************************)
(* What availability tracking promises, with nothing said of how: a        *)
(* profile works for at most one task, a task has at most one profile, and *)
(* a profile goes from one task to the next only by being given back.      *)
(***************************************************************************)
CONSTANTS
    Profiles,
    Tasks,
    Nobody      \* not a task

VARIABLE holder   \* profile -> the task it works for, or Nobody

TypeOK == holder \in [Profiles -> Tasks \cup {Nobody}]

Init == holder = [p \in Profiles |-> Nobody]

Acquire(t, p) ==
    /\ holder[p] = Nobody
    /\ \A q \in Profiles : holder[q] # t
    /\ holder' = [holder EXCEPT ![p] = t]

GiveBack(p) ==
    /\ holder[p] # Nobody
    /\ holder' = [holder EXCEPT ![p] = Nobody]

Next == \E p \in Profiles : GiveBack(p) \/ \E t \in Tasks : Acquire(t, p)

Spec == Init /\ [][Next]_holder

\* Every profile that is given out comes back.
FairSpec == Spec /\ \A p \in Profiles : WF_holder(GiveBack(p))

=============================================================================
