------------------------- MODULE OrchestratorProofs -------------------------
(***************************************************************************)
(* The orchestration of any number of tasks by any number of callers, who  *)
(* may report any task at any time: no profile stays busy for good, the    *)
(* tracker is exact for every profile no ended task was reported with      *)
(* again, the flag of a task departs from its status in two ways only, and *)
(* consultations do not chain without end.                                 *)
(***************************************************************************)
EXTENDS Orchestrator, FleetControllerProofs

\* The constants, as the proofs use them.
LEMMA ConstantFacts ==
    /\ InitialCapabilities \in Seq(Capability)
    /\ Submitted \subseteq TaskIntent
    /\ Recovery \in Callers
    /\ Reports \subseteq TERMINAL_STATUSES \cup {"input_required", "escalated"}
    /\ SpecialistResults \cup ResumeResults \subseteq TERMINAL_STATUSES \cup Others
    /\ NamesProfile \subseteq BOOLEAN
    /\ MAX_SPECIALIST_DEPTH \in Nat /\ MAX_SPECIALIST_DEPTH > 0
    /\ None \notin Tasks /\ None \notin TaskRecord /\ None \notin Call
    /\ None \notin Profiles
    BY OrchestratorAssumption, RecordAssumption, FleetAssumption

\* The first candidate is a registered profile.
LEMMA CandidateIsProfile ==
    ASSUME FleetTypeOK, NEW tags, Candidates(tags) # {}
    PROVE  The(First(Candidates(tags))).profile_name \in Profiles
<1>1. Candidates(tags) \in SUBSET DOMAIN capabilities
    BY DEF Candidates, Discover
<1>2. PICK m \in Candidates(tags) : The(First(Candidates(tags))) = capabilities[m]
    BY <1>1, FirstIsOne
<1>3. capabilities[m] \in Capability
    BY <1>1, <1>2 DEF FleetTypeOK
<1> QED
    BY <1>2, <1>3 DEF Capability

-----------------------------------------------------------------------------
(* Types.                                                                  *)

\* The orchestrator starts with no record and no call, of their types.
LEMMA InitIsTyped == Init => TypeOK
    BY ConstantFacts DEF Init, TypeOK, FleetTypeOK

\* A task that is not known yet is registered as submitted, with the profile
\* it was routed to if the caller names it; that profile was free and is busy.
LEMMA SubmitEffect ==
    ASSUME TypeOK, NEW t \in Tasks, NEW parent \in Tasks \cup {None},
           NEW intent \in Submitted, Submit(t, parent, intent)
    PROVE  /\ TypeOK'
           /\ ~ Known(t) /\ (parent # None => Known(parent))
           /\ \A u \in Tasks \ {t} : record'[u] = record[u] /\ depth'[u] = depth[u]
           /\ record'[t] \in TaskRecord /\ record'[t].parent = parent
           /\ record'[t].status = "submitted" /\ ~ record'[t].terminal
           /\ depth'[t] = IF parent = None THEN depth[t] ELSE depth[parent] + 1
           /\ call' = call /\ again' = again /\ overtaken' = overtaken
           /\ \E profile \in Profiles \ busy :
                /\ busy' = busy \cup {profile}
                /\ NamesProfile \subseteq {TRUE} => record'[t].profile = profile
<1> DEFINE decision == Route(intent)
<1>0. FleetTypeOK /\ intent \in TaskIntent
    BY ConstantFacts DEF TypeOK
<1>1. decision.status = "dispatched"
    BY DEF Submit
<1>2. decision.profile_name \in Profiles \ busy
    BY <1>0, <1>1, RouteIsRight
<1>3. busy' = busy \cup {decision.profile_name} /\ capabilities' = capabilities
    BY <1>1 DEF Submit, MarkBusy
<1>4. FleetTypeOK'
    BY <1>0, <1>2, <1>3 DEF FleetTypeOK
<1>5. /\ parent # None => Known(parent) /\ record[parent] \in TaskRecord
      /\ ~ Known(t) /\ call' = call /\ again' = again /\ overtaken' = overtaken
    BY DEF Submit, Known, TypeOK, history
<1>6. PICK named \in NamesProfile :
        RegisterTask(t, parent, IF named THEN decision.profile_name ELSE None)
    BY DEF Submit
<1> DEFINE own == IF named THEN decision.profile_name ELSE None
           profile == IF own = None /\ parent # None THEN record[parent].profile ELSE own
           fresh == [status |-> "submitted", terminal |-> FALSE, profile |-> profile,
                     parent |-> parent, escalated |-> FALSE]
<1>7. profile \in Profiles \cup {None}
    BY <1>2, <1>5 DEF TaskRecord
<1>8. fresh \in TaskRecord /\ fresh.parent = parent /\ fresh.status = "submitted"
      /\ ~ fresh.terminal /\ fresh.profile = profile
    BY <1>7 DEF TaskRecord
<1>9. record' = [record EXCEPT ![t] = fresh]
    BY <1>6 DEF RegisterTask
<1>10. depth' = [depth EXCEPT ![t] = IF parent = None THEN depth[t] ELSE depth[parent] + 1]
    BY <1>6 DEF RegisterTask
<1>11. NamesProfile \subseteq {TRUE} => profile = decision.profile_name
    BY <1>2, <1>6, ConstantFacts
<1> HIDE DEF fresh, profile, decision
<1>12. record' \in [Tasks -> TaskRecord \cup {None}] /\ record'[t] = fresh
       /\ \A u \in Tasks \ {t} : record'[u] = record[u]
    BY <1>8, <1>9 DEF TypeOK
<1>13. depth' \in [Tasks -> Nat] /\ (\A u \in Tasks \ {t} : depth'[u] = depth[u])
       /\ depth'[t] = IF parent = None THEN depth[t] ELSE depth[parent] + 1
    BY <1>10 DEF TypeOK
<1>14. TypeOK'
    BY <1>4, <1>5, <1>12, <1>13 DEF TypeOK
<1>15. /\ busy' = busy \cup {decision.profile_name}
       /\ NamesProfile \subseteq {TRUE} => record'[t].profile = decision.profile_name
    BY <1>3, <1>8, <1>11, <1>12
<1> QED
    BY <1>2, <1>5, <1>8, <1>12, <1>13, <1>14, <1>15

\* A consultation that begins leaves its caller waiting for the task.
LEMMA ConsultEffect ==
    ASSUME TypeOK, NEW c \in Callers, NEW t \in Tasks, NEW tags,
           Candidates(tags) # {}, Consult(c, t, Candidates(tags))
    PROVE  /\ call' \in [Callers -> Call \cup {None}]
           /\ call'[c] \in Call /\ call'[c].task = t
           /\ \A d \in Callers \ {c} : call'[d] = call[d]
<1> DEFINE new == [at |-> "specialist", task |-> t,
                   profile |-> The(First(Candidates(tags))).profile_name, answer |-> None]
<1>1. new \in Call /\ new.task = t
    BY CandidateIsProfile DEF Call, TypeOK
<1>2. call' = [call EXCEPT ![c] = new]
    BY DEF Consult
<1> HIDE DEF new
<1> QED
    BY <1>1, <1>2 DEF TypeOK

\* A report ends its task, which releases the profile, or marks it as asking;
\* then its caller may wait for the task, if it is not too deep.  It is
\* remembered if the task had ended before, and if it ends one that is waited
\* for.
LEMMA ReportEffect ==
    ASSUME TypeOK, NEW c \in Callers, NEW t \in Tasks, NEW result \in Reports,
           Report(c, t, result)
    PROVE  /\ TypeOK'
           /\ record[t] \in TaskRecord /\ call[c] = None
           /\ \A u \in Tasks \ {t} : record'[u] = record[u]
           /\ record'[t] \in TaskRecord
           /\ record'[t].profile = record[t].profile /\ record'[t].parent = record[t].parent
           /\ depth' = depth
           /\ again' = IF record[t].terminal THEN again \cup {t} ELSE again
           /\ overtaken \subseteq overtaken'
           /\ \A d \in Callers \ {c} : call'[d] = call[d]
           /\ \/ /\ record'[t].status \in TERMINAL_STATUSES /\ record'[t].terminal
                 /\ busy' = busy \ {record[t].profile}
                 /\ call'[c] = None
                 /\ (\E d \in Callers : call[d] # None /\ call[d].task = t) => t \in overtaken'
              \/ /\ record'[t].status = "input_required" /\ ~ record'[t].terminal
                 /\ busy' = busy
                 /\ \/ call'[c] = None
                    \/ call'[c] \in Call /\ call'[c].task = t /\ ~ TooDeep(t)
<1>1. record[t] \in TaskRecord /\ call[c] = None
    BY DEF Report, Known, TypeOK
<1>2. capabilities' = capabilities /\ depth' = depth
    BY DEF Report
<1>h. /\ again' \subseteq Tasks /\ overtaken' \subseteq Tasks
      /\ again' = IF record[t].terminal THEN again \cup {t} ELSE again
      /\ overtaken \subseteq overtaken'
      /\ result \in TERMINAL_STATUSES /\ (\E d \in Callers : call[d] # None /\ call[d].task = t)
           => t \in overtaken'
    BY <1>1, ConstantFacts DEF Report, Remember, Ended, Known, TypeOK
<1> DEFINE Changed(new) == /\ new \in TaskRecord /\ new.profile = record[t].profile
                           /\ new.parent = record[t].parent
                           /\ record' = [record EXCEPT ![t] = new]
           Asks(new) == Changed(new) /\ new.status = "input_required" /\ ~ new.terminal
<1>3. CASE result \in TERMINAL_STATUSES /\ EndTask(t, result) /\ UNCHANGED call
    <2> DEFINE new == [record[t] EXCEPT !.status = result, !.terminal = TRUE]
    <2>1. Changed(new) /\ new.status = result /\ new.terminal
        BY <1>1, <1>3 DEF EndTask, TaskRecord
    <2>2. busy' = busy \ {record[t].profile} /\ call' = call
        BY <1>3 DEF EndTask, Release
    <2> HIDE DEF new
    <2>3. /\ record' \in [Tasks -> TaskRecord \cup {None}] /\ record'[t] = new
          /\ \A u \in Tasks \ {t} : record'[u] = record[u]
        BY <2>1 DEF TypeOK
    <2>4. TypeOK'
        BY <1>2, <1>h, <2>2, <2>3 DEF TypeOK, FleetTypeOK
    <2> QED
        BY <1>1, <1>2, <1>3, <1>h, <2>1, <2>2, <2>3, <2>4
<1>4. CASE result = "escalated" /\ record' = [record EXCEPT ![t].status = "input_required",
                                       ![t].terminal = FALSE]
           /\ UNCHANGED <<busy, call>>
    <2> DEFINE new == [record[t] EXCEPT !.status = "input_required", !.terminal = FALSE]
    <2>1. Asks(new)
        BY <1>1, <1>4 DEF TaskRecord, TypeOK
    <2> HIDE DEF new
    <2>2. /\ record' \in [Tasks -> TaskRecord \cup {None}] /\ record'[t] = new
          /\ \A u \in Tasks \ {t} : record'[u] = record[u]
        BY <2>1 DEF TypeOK
    <2>3. TypeOK'
        BY <1>2, <1>4, <1>h, <2>2 DEF TypeOK, FleetTypeOK
    <2> QED
        BY <1>1, <1>2, <1>4, <1>h, <2>1, <2>2, <2>3
<1>5. CASE HandleInputRequired(c, t) /\ UNCHANGED busy
    <2>1. PICK tags \in QuestionTags :
            \/ /\ record' = [record EXCEPT ![t] = Escalated(t)]
               /\ UNCHANGED call
            \/ /\ Candidates(tags) # {} /\ ~ TooDeep(t)
               /\ record' = [record EXCEPT ![t].status = "input_required",
                                           ![t].terminal = FALSE]
               /\ Consult(c, t, Candidates(tags))
        BY <1>5 DEF HandleInputRequired
    <2>2. \E new : Asks(new)
        <3>1. CASE record' = [record EXCEPT ![t] = Escalated(t)]
            <4>1. Asks(Escalated(t))
                BY <1>1, <3>1 DEF Escalated, TaskRecord
            <4> QED
                BY <4>1
        <3>2. CASE record' = [record EXCEPT ![t].status = "input_required", ![t].terminal = FALSE]
            <4> DEFINE new == [record[t] EXCEPT !.status = "input_required", !.terminal = FALSE]
            <4>1. Asks(new)
                BY <1>1, <3>2 DEF TaskRecord, TypeOK
            <4> QED
                BY <4>1
        <3> QED
            BY <2>1, <3>1, <3>2
    <2>3. PICK new : Asks(new)
        BY <2>2
    <2>4. /\ record' \in [Tasks -> TaskRecord \cup {None}] /\ record'[t] = new
          /\ \A u \in Tasks \ {t} : record'[u] = record[u]
        BY <2>3 DEF TypeOK
    <2>5. /\ call' \in [Callers -> Call \cup {None}]
          /\ \A d \in Callers \ {c} : call'[d] = call[d]
          /\ call'[c] = None \/ (call'[c] \in Call /\ call'[c].task = t /\ ~ TooDeep(t))
        BY <1>1, <2>1, ConsultEffect DEF TypeOK
    <2>6. TypeOK'
        BY <1>2, <1>5, <1>h, <2>4, <2>5 DEF TypeOK, FleetTypeOK
    <2> QED
        BY <1>1, <1>2, <1>5, <1>h, <2>3, <2>4, <2>5, <2>6
<1> QED
    BY <1>3, <1>4, <1>5 DEF Report

\* A recovered task is registered without a profile and is asking for input.
LEMMA RecoverEffect ==
    ASSUME TypeOK, NEW t \in Tasks, Recover(t)
    PROVE  /\ TypeOK'
           /\ ~ Known(t) /\ Recovery \in Callers
           /\ \A u \in Tasks \ {t} : record'[u] = record[u]
           /\ record'[t] \in TaskRecord
           /\ record'[t].profile = None /\ record'[t].parent = None
           /\ record'[t].status = "input_required" /\ ~ record'[t].terminal
           /\ depth' = depth /\ busy' = busy /\ again' = again /\ overtaken' = overtaken
           /\ \A d \in Callers \ {Recovery} : call'[d] = call[d]
           /\ \/ call'[Recovery] = None
              \/ call'[Recovery] \in Call /\ call'[Recovery].task = t
<1> DEFINE fresh == [status |-> "input_required", terminal |-> FALSE,
                     profile |-> None, parent |-> None, escalated |-> FALSE]
           Fresh(new) == /\ new \in TaskRecord /\ new.status = "input_required"
                         /\ ~ new.terminal /\ new.profile = None /\ new.parent = None
<1>1. Fresh(fresh) /\ Fresh([fresh EXCEPT !.escalated = TRUE])
    BY DEF TaskRecord
<1>2. \/ /\ record' = [record EXCEPT ![t] = [fresh EXCEPT !.escalated = TRUE]]
         /\ UNCHANGED call
      \/ /\ Candidates({}) # {}
         /\ record' = [record EXCEPT ![t] = fresh]
         /\ Consult(Recovery, t, Candidates({}))
    BY DEF Recover
<1>3. PICK new : Fresh(new) /\ record' = [record EXCEPT ![t] = new]
    BY <1>1, <1>2
<1> HIDE DEF fresh
<1>4. /\ record' \in [Tasks -> TaskRecord \cup {None}] /\ record'[t] = new
      /\ \A u \in Tasks \ {t} : record'[u] = record[u]
    BY <1>3 DEF TypeOK
<1>5. /\ Recovery \in Callers /\ call[Recovery] = None /\ ~ Known(t)
      /\ UNCHANGED <<capabilities, busy, depth, again, overtaken>>
    BY ConstantFacts DEF Recover, fleetVars, history
<1>6. /\ call' \in [Callers -> Call \cup {None}]
      /\ \A d \in Callers \ {Recovery} : call'[d] = call[d]
      /\ call'[Recovery] = None \/ (call'[Recovery] \in Call /\ call'[Recovery].task = t)
    BY <1>2, <1>5, ConsultEffect DEF TypeOK
<1>7. TypeOK'
    BY <1>4, <1>5, <1>6 DEF TypeOK, FleetTypeOK
<1> QED
    BY <1>3, <1>4, <1>5, <1>6, <1>7

\* What a specialist or a resumed task ends with changes the status of the
\* task the caller waits for, and no more; a resumed task ends with what it
\* may be resumed with, if not completed.
LEMMA WaitEffect ==
    ASSUME TypeOK, NEW c \in Callers, EndsWait(c), Known(call[c].task)
    PROVE  /\ TypeOK'
           /\ call[c] \in Call
           /\ LET t == call[c].task
              IN  /\ record[t] \in TaskRecord
                  /\ \A u \in Tasks \ {t} : record'[u] = record[u]
                  /\ record'[t] \in TaskRecord
                  /\ record'[t].profile = record[t].profile
                  /\ record'[t].parent = record[t].parent
                  /\ record'[t].terminal = record[t].terminal
                  /\ record'[t].status \in {record[t].status, "input_required", "working"}
                                  \cup (ResumeResults \cap (TERMINAL_STATUSES \ {"completed"}))
                  /\ call'[c] = None \/ (call'[c] \in Call /\ call'[c].task = t)
           /\ depth' = depth /\ busy' = busy /\ again' = again /\ overtaken' = overtaken
           /\ \A d \in Callers \ {c} : call'[d] = call[d]
<1>1. call[c] \in Call /\ UNCHANGED <<capabilities, busy, depth, again, overtaken>>
    BY DEF EndsWait, SpecialistEnds, ResumeEnds, TypeOK, fleetVars, history
<1> DEFINE t == call[c].task
           Ends == ResumeResults \cap (TERMINAL_STATUSES \ {"completed"})
           Changed(new) == /\ new \in TaskRecord
                           /\ new.profile = record[t].profile
                           /\ new.parent = record[t].parent
                           /\ new.terminal = record[t].terminal
                           /\ new.status \in {record[t].status, "input_required", "working"} \cup Ends
                           /\ record' = [record EXCEPT ![t] = new]
           Waits == /\ call' \in [Callers -> Call \cup {None}]
                    /\ \A d \in Callers \ {c} : call'[d] = call[d]
                    /\ call'[c] = None \/ (call'[c] \in Call /\ call'[c].task = t)
<1>2. t \in Tasks /\ record[t] \in TaskRecord
    BY <1>1 DEF Call, TypeOK, Known
<1>3. record' = record => Changed(record[t])
    BY <1>2 DEF TypeOK
<1>4. ReturnFrom(c) => Waits
    BY DEF ReturnFrom, TypeOK
<1>5. \A status \in {"input_required", "working"} \cup Ends :
        SetStatus(t, status) => Changed([record[t] EXCEPT !.status = status])
    BY <1>2 DEF SetStatus, TypeOK, TaskRecord, TERMINAL_STATUSES
<1>6. (\E new : Changed(new)) /\ Waits
    <2>1. CASE \E result \in SpecialistResults : SpecialistEnds(c, result)
        <3>1. PICK result \in SpecialistResults : SpecialistEnds(c, result)
            BY <2>1
        <3>2. CASE result \in TERMINAL_STATUSES /\ Resume(c, t, result) /\ UNCHANGED record
            <4> DEFINE next == [at |-> "resume", task |-> t, profile |-> record[t].profile,
                                answer |-> result]
            <4>1. next \in Call /\ next.task = t /\ call' = [call EXCEPT ![c] = next]
                BY <1>2, <3>2 DEF Resume, Call, TaskRecord
            <4> HIDE DEF next
            <4>2. Waits
                BY <4>1 DEF TypeOK
            <4> QED
                BY <1>3, <3>2, <4>2
        <3>3. CASE /\ record' = [record EXCEPT ![t].escalated = TRUE,
                                               ![t].status = "input_required"]
                   /\ ReturnFrom(c)
            <4>1. Changed([record[t] EXCEPT !.escalated = TRUE, !.status = "input_required"])
                BY <1>2, <3>3 DEF TypeOK, TaskRecord
            <4> QED
                BY <1>4, <3>3, <4>1
        <3>4. CASE SetStatus(t, "input_required") /\ ReturnFrom(c)
            BY <1>4, <1>5, <3>4
        <3>5. CASE ReturnFrom(c) /\ UNCHANGED record
            BY <1>3, <1>4, <3>5
        <3> QED
            BY <3>1, <3>2, <3>3, <3>4, <3>5 DEF SpecialistEnds
    <2>2. CASE \E result \in ResumeResults : ResumeEnds(c, result)
        <3>1. PICK result \in ResumeResults : ResumeEnds(c, result)
            BY <2>2
        <3>2. CASE result = "raised"
            BY <1>3, <1>4, <3>1, <3>2 DEF ResumeEnds
        <3>3. CASE result # "raised"
            <4> DEFINE status == IF result \in TERMINAL_STATUSES \ {"completed"}
                                   THEN result ELSE "working"
            <4>1. SetStatus(t, status) /\ ReturnFrom(c)
                BY <3>1, <3>3 DEF ResumeEnds
            <4>2. status \in {"input_required", "working"} \cup Ends
                OBVIOUS
            <4> QED
                BY <1>4, <1>5, <4>1, <4>2
        <3> QED
            BY <3>2, <3>3
    <2> QED
        BY <2>1, <2>2 DEF EndsWait
<1>7. PICK new : Changed(new)
    BY <1>6
<1>8. /\ record' \in [Tasks -> TaskRecord \cup {None}] /\ record'[t] = new
      /\ \A u \in Tasks \ {t} : record'[u] = record[u]
    BY <1>2, <1>7 DEF TypeOK
<1>9. TypeOK'
    BY <1>1, <1>6, <1>8 DEF TypeOK, FleetTypeOK
<1> QED
    BY <1>1, <1>2, <1>6, <1>7, <1>8, <1>9

\* A call waits for a task that is registered.
WaitsForKnown == \A c \in Callers : call[c] # None => Known(call[c].task)

TaskInv == TypeOK /\ WaitsForKnown

\* Every step keeps the types, and a call waits for a record there is.
LEMMA NextKeepsType ==
    ASSUME TaskInv, [Next]_vars
    PROVE  TaskInv'
<1> USE ConstantFacts DEF TaskInv
<1>1. CASE UNCHANGED vars
    BY <1>1 DEF vars, fleetVars, history, TypeOK, FleetTypeOK, WaitsForKnown, Known
<1>2. ASSUME NEW t \in Tasks, NEW parent \in Tasks \cup {None}, NEW intent \in Submitted,
             Submit(t, parent, intent)
      PROVE  TaskInv'
    <2>1. TypeOK' /\ call' = call /\ record'[t] \in TaskRecord
          /\ \A u \in Tasks \ {t} : record'[u] = record[u]
        BY <1>2, SubmitEffect
    <2>2. \A u \in Tasks : Known(u) => Known(u)'
        BY <2>1 DEF Known
    <2>3. \A c \in Callers : call[c] # None => call[c].task \in Tasks
        BY DEF TypeOK, Call
    <2> QED
        BY <2>1, <2>2, <2>3 DEF WaitsForKnown
<1>3. ASSUME NEW c \in Callers, NEW t \in Tasks, NEW result \in Reports, Report(c, t, result)
      PROVE  TaskInv'
    BY <1>3, ReportEffect DEF WaitsForKnown, Known, TypeOK, Call
<1>4. ASSUME NEW t \in Tasks, Recover(t)
      PROVE  TaskInv'
    BY <1>4, RecoverEffect DEF WaitsForKnown, Known, TypeOK, Call
<1>5. ASSUME NEW c \in Callers, EndsWait(c)
      PROVE  TaskInv'
    <2>1. Known(call[c].task)
        BY <1>5 DEF EndsWait, SpecialistEnds, ResumeEnds, WaitsForKnown
    <2> DEFINE t == call[c].task
    <2>2. /\ TypeOK' /\ record[t] \in TaskRecord /\ record'[t] \in TaskRecord
          /\ \A u \in Tasks \ {t} : record'[u] = record[u]
          /\ call'[c] = None \/ (call'[c] \in Call /\ call'[c].task = t)
          /\ \A d \in Callers \ {c} : call'[d] = call[d]
        BY <1>5, <2>1, WaitEffect
    <2>3. \A d \in Callers : call[d] # None => call[d].task \in Tasks
        BY DEF TypeOK, Call
    <2> QED
        BY <2>2, <2>3 DEF WaitsForKnown, Known
<1> QED
    BY <1>1, <1>2, <1>3, <1>4, <1>5 DEF Next

\* So that holds throughout.
LEMMA TaskInvariant == Spec => []TaskInv
<1>1. Init => TaskInv
    BY InitIsTyped DEF Init, TaskInv, WaitsForKnown
<1> QED
    BY <1>1, NextKeepsType, PTL DEF Spec

\* Records, depths and waiting calls keep their types, whatever is reported of
\* a task and however many callers report the same one.
THEOREM TypeCorrect == Spec => []TypeOK
    BY TaskInvariant, PTL DEF TaskInv

\* So what is proved of routing holds in every state a task is submitted in.
THEOREM TasksAreRoutedRight ==
    Spec => [](DispatchIsRight /\ LocalFirst /\ RouteAgreesWithDiscover)
<1>1. TypeOK => FleetTypeOK
    BY DEF TypeOK
<1> QED
    BY <1>1, TypeCorrect, DispatchesRight, LocalGoesFirst, RouteAndDiscoverAgree, PTL

-----------------------------------------------------------------------------
(* The availability tracker.  That a task is told the profile it was       *)
(* routed to is what its caller must see to: a task registered without it  *)
(* takes over its parent's, and the end of either releases it.             *)

\* What a step does to the tracker and to the tasks behind it: one begins with a
\* free profile, one begins without any, one is reported, or only statuses change.
LEMMA TrackerKinds ==
    ASSUME TaskInv, NamesProfile \subseteq {TRUE}, [Next]_vars
    PROVE  \/ \E t \in Tasks \ Unfinished, profile \in Profiles \ busy :
                /\ busy' = busy \cup {profile} /\ again' = again
                /\ record[t] = None /\ record'[t] # None /\ record'[t].profile = profile
                /\ ~ record'[t].terminal
                /\ \A u \in Tasks \ {t} : record'[u] = record[u]
           \/ \E t \in Tasks \ Unfinished :
                /\ busy' = busy /\ again' = again
                /\ record[t] = None /\ record'[t] # None /\ record'[t].profile = None
                /\ ~ record'[t].terminal
                /\ \A u \in Tasks \ {t} : record'[u] = record[u]
           \/ \E t \in Tasks :
                /\ record[t] # None /\ record'[t] # None
                /\ record'[t].profile = record[t].profile
                /\ again' = IF record[t].terminal THEN again \cup {t} ELSE again
                /\ \/ record'[t].terminal /\ busy' = busy \ {record[t].profile}
                   \/ ~ record'[t].terminal /\ busy' = busy
                /\ \A u \in Tasks \ {t} : record'[u] = record[u]
           \/ /\ busy' = busy /\ again' = again
              /\ \A t \in Tasks :
                   \/ record'[t] = record[t]
                   \/ /\ record[t] # None /\ record'[t] # None
                      /\ record'[t].profile = record[t].profile
                      /\ record'[t].terminal = record[t].terminal
<1> USE ConstantFacts DEF TaskInv, Unfinished, Known
<1>0. TypeOK
    OBVIOUS
<1>1. CASE UNCHANGED vars
    BY <1>1 DEF vars, fleetVars, history
<1>2. ASSUME NEW t \in Tasks, NEW parent \in Tasks \cup {None}, NEW intent \in Submitted,
             Submit(t, parent, intent)
      PROVE  \E profile \in Profiles \ busy :
                /\ busy' = busy \cup {profile} /\ again' = again
                /\ record[t] = None /\ record'[t] # None /\ record'[t].profile = profile
                /\ ~ record'[t].terminal
                /\ \A u \in Tasks \ {t} : record'[u] = record[u]
    <2>1. PICK profile \in Profiles \ busy :
            /\ busy' = busy \cup {profile} /\ record'[t].profile = profile
            /\ record'[t] \in TaskRecord /\ ~ record'[t].terminal /\ again' = again
            /\ record[t] = None /\ \A u \in Tasks \ {t} : record'[u] = record[u]
        BY <1>0, <1>2, SubmitEffect
    <2> QED
        BY <2>1
<1>3. ASSUME NEW c \in Callers, NEW t \in Tasks, NEW result \in Reports, Report(c, t, result)
      PROVE  /\ record[t] # None /\ record'[t] # None
             /\ record'[t].profile = record[t].profile
             /\ again' = IF record[t].terminal THEN again \cup {t} ELSE again
             /\ \/ record'[t].terminal /\ busy' = busy \ {record[t].profile}
                \/ ~ record'[t].terminal /\ busy' = busy
             /\ \A u \in Tasks \ {t} : record'[u] = record[u]
    BY <1>0, <1>3, ReportEffect
<1>4. ASSUME NEW t \in Tasks, Recover(t)
      PROVE  /\ busy' = busy /\ again' = again
             /\ record[t] = None /\ record'[t] # None /\ record'[t].profile = None
             /\ ~ record'[t].terminal
             /\ \A u \in Tasks \ {t} : record'[u] = record[u]
    BY <1>0, <1>4, RecoverEffect
<1>5. ASSUME NEW c \in Callers, EndsWait(c)
      PROVE  /\ busy' = busy /\ again' = again
             /\ \A t \in Tasks :
                  \/ record'[t] = record[t]
                  \/ /\ record[t] # None /\ record'[t] # None
                     /\ record'[t].profile = record[t].profile
                     /\ record'[t].terminal = record[t].terminal
    <2>1. Known(call[c].task)
        BY <1>5 DEF EndsWait, SpecialistEnds, ResumeEnds, WaitsForKnown
    <2> QED
        BY <1>0, <1>5, <2>1, WaitEffect
<1> QED
    BY <1>1, <1>2, <1>3, <1>4, <1>5 DEF Next

\* No profile stays busy for good, whatever is reported of the tasks, however
\* late, however often and by however many callers: a busy profile has an
\* unfinished task whose end will release it, if every task is told the profile
\* it was routed to.
THEOREM ProfilesComeBack ==
    ASSUME NamesProfile \subseteq {TRUE}
    PROVE  Spec => []NoProfileIsLost
<1>1. Init => NoProfileIsLost
    BY DEF Init, NoProfileIsLost
<1>2. ASSUME TaskInv, NoProfileIsLost, [Next]_vars
      PROVE  NoProfileIsLost'
    <2> SUFFICES ASSUME NEW p \in busy'
                 PROVE  \E u \in Unfinished' : record'[u].profile = p
        BY DEF NoProfileIsLost
    <2>1. p \in busy => \E u \in Unfinished : record[u].profile = p
        BY <1>2 DEF NoProfileIsLost
    <2> QED
        BY <1>2, <2>1, TrackerKinds DEF Unfinished, Known
<1> QED
    BY <1>1, <1>2, TaskInvariant, PTL DEF Spec

\* What was once reported again has a record.
AgainIsKnown == \A t \in again : t \in Tasks /\ record[t] # None

\* The tracker is exact for every profile that no ended task was reported with
\* again, whoever reports, more than one caller for a task included, and whatever
\* resumptions end with; if every task is told the profile it was routed to.
THEOREM TrackerStaysExact ==
    ASSUME NamesProfile \subseteq {TRUE}
    PROVE  Spec => []TrackerIsExact
<1>1. Init => TrackerIsExact /\ AgainIsKnown
    BY DEF Init, TrackerIsExact, AgainIsKnown, Unfinished, Known
<1>2. ASSUME TaskInv, TrackerIsExact, AgainIsKnown, [Next]_vars
      PROVE  TrackerIsExact' /\ AgainIsKnown'
    <2>1. AgainIsKnown' /\ Disturbed \subseteq Disturbed'
        BY <1>2, TrackerKinds DEF AgainIsKnown, Disturbed
    <2>2. SUFFICES ASSUME NEW p \in Profiles \ Disturbed'
                   PROVE  /\ p \in busy' <=> \E t \in Unfinished' : record'[t].profile = p
                          /\ \A t, u \in Unfinished' :
                               record'[t].profile = p /\ record'[u].profile = p => t = u
        BY <2>1 DEF TrackerIsExact
    <2>3. /\ p \in busy <=> \E t \in Unfinished : record[t].profile = p
          /\ \A t, u \in Unfinished : record[t].profile = p /\ record[u].profile = p => t = u
        BY <1>2, <2>1, <2>2 DEF TrackerIsExact
    <2>4. p # None
        BY ConstantFacts
    <2>5. Unfinished' \subseteq Tasks /\ Unfinished \subseteq Tasks
        BY DEF Unfinished
    <2>6. CASE \E t \in Tasks \ Unfinished, profile \in Profiles \ busy :
                /\ busy' = busy \cup {profile} /\ again' = again
                /\ record[t] = None /\ record'[t] # None /\ record'[t].profile = profile
                /\ ~ record'[t].terminal
                /\ \A u \in Tasks \ {t} : record'[u] = record[u]
        BY <2>3, <2>6 DEF Unfinished, Known
    <2>7. CASE \E t \in Tasks \ Unfinished :
                /\ busy' = busy /\ again' = again
                /\ record[t] = None /\ record'[t] # None /\ record'[t].profile = None
                /\ ~ record'[t].terminal
                /\ \A u \in Tasks \ {t} : record'[u] = record[u]
        BY <2>3, <2>4, <2>7 DEF Unfinished, Known
    <2>8. CASE \E t \in Tasks :
                /\ record[t] # None /\ record'[t] # None
                /\ record'[t].profile = record[t].profile
                /\ again' = IF record[t].terminal THEN again \cup {t} ELSE again
                /\ \/ record'[t].terminal /\ busy' = busy \ {record[t].profile}
                   \/ ~ record'[t].terminal /\ busy' = busy
                /\ \A u \in Tasks \ {t} : record'[u] = record[u]
        <3>1. PICK t \in Tasks :
                /\ record[t] # None /\ record'[t] # None
                /\ record'[t].profile = record[t].profile
                /\ again' = IF record[t].terminal THEN again \cup {t} ELSE again
                /\ \/ record'[t].terminal /\ busy' = busy \ {record[t].profile}
                   \/ ~ record'[t].terminal /\ busy' = busy
                /\ \A u \in Tasks \ {t} : record'[u] = record[u]
            BY <2>8
        <3>2. CASE record[t].profile # p
            <4>1. p \in busy' <=> p \in busy
                BY <3>1, <3>2
            <4>2. \A u \in Tasks : u \in Unfinished' /\ record'[u].profile = p
                                   <=> u \in Unfinished /\ record[u].profile = p
                BY <3>1, <3>2 DEF Unfinished, Known
            <4> QED
                BY <2>3, <2>5, <4>1, <4>2
        <3>3. CASE record[t].profile = p
            <4>1. t \notin again'
                BY <2>2, <3>1, <3>3 DEF Disturbed
            <4>2. t \in Unfinished
                BY <3>1, <4>1 DEF Unfinished, Known
            <4>3. \A u \in Tasks \ {t} : ~ (u \in Unfinished' /\ record'[u].profile = p)
                BY <2>3, <3>1, <3>3, <4>2 DEF Unfinished, Known
            <4>4. t \in Unfinished' <=> p \in busy'
                BY <2>3, <3>1, <3>3, <4>2 DEF Unfinished, Known
            <4> QED
                BY <2>5, <3>1, <3>3, <4>3, <4>4
        <3> QED
            BY <3>2, <3>3
    <2>9. CASE /\ busy' = busy /\ again' = again
               /\ \A t \in Tasks :
                    \/ record'[t] = record[t]
                    \/ /\ record[t] # None /\ record'[t] # None
                       /\ record'[t].profile = record[t].profile
                       /\ record'[t].terminal = record[t].terminal
        <3>1. \A u \in Tasks : u \in Unfinished' /\ record'[u].profile = p
                               <=> u \in Unfinished /\ record[u].profile = p
            BY <2>9 DEF Unfinished, Known
        <3> QED
            BY <2>3, <2>5, <2>9, <3>1
    <2> QED
        BY <1>2, <2>6, <2>7, <2>8, <2>9, TrackerKinds
<1> QED
    BY <1>1, <1>2, TaskInvariant, PTL DEF Spec

-----------------------------------------------------------------------------
(* The flag and the status.                                                *)

\* A call waits for a task that is open, unless the task ended meanwhile.
WaitsForOpen ==
    \A c \in Callers :
      call[c] # None => call[c].task \in Unfinished \/ call[c].task \in overtaken

FlagInv == TaskInv /\ WaitsForOpen /\ FlagFitsStatus

\* Every step keeps what the flag and the status of a task have to do with each
\* other: a report sets both, the end of a wait only the status.
LEMMA NextKeepsFlag ==
    ASSUME FlagInv, [Next]_vars
    PROVE  WaitsForOpen' /\ FlagFitsStatus'
<1> USE ConstantFacts DEF FlagInv, TaskInv, WaitsForOpen, FlagFitsStatus, Unfinished, Known,
                          TERMINAL_STATUSES
<1>0. TypeOK /\ \A c \in Callers : call[c] # None => call[c] \in Call /\ call[c].task \in Tasks
    BY DEF TypeOK, Call
<1>1. CASE UNCHANGED vars
    BY <1>1 DEF vars, history
<1>2. ASSUME NEW t \in Tasks, NEW parent \in Tasks \cup {None}, NEW intent \in Submitted,
             Submit(t, parent, intent)
      PROVE  WaitsForOpen' /\ FlagFitsStatus'
    <2>1. /\ record[t] = None /\ record'[t] \in TaskRecord
          /\ record'[t].status = "submitted" /\ ~ record'[t].terminal
          /\ \A u \in Tasks \ {t} : record'[u] = record[u]
          /\ call' = call /\ overtaken' = overtaken
        BY <1>0, <1>2, SubmitEffect
    <2> QED
        BY <1>0, <2>1
<1>3. ASSUME NEW c \in Callers, NEW t \in Tasks, NEW result \in Reports, Report(c, t, result)
      PROVE  WaitsForOpen' /\ FlagFitsStatus'
    <2>1. /\ record[t] \in TaskRecord /\ record'[t] \in TaskRecord /\ call[c] = None
          /\ \A u \in Tasks \ {t} : record'[u] = record[u]
          /\ \A d \in Callers \ {c} : call'[d] = call[d]
          /\ overtaken \subseteq overtaken'
          /\ \/ /\ record'[t].status \in TERMINAL_STATUSES /\ record'[t].terminal
                /\ call'[c] = None
                /\ (\E d \in Callers : call[d] # None /\ call[d].task = t) => t \in overtaken'
             \/ /\ record'[t].status = "input_required" /\ ~ record'[t].terminal
                /\ call'[c] = None \/ (call'[c] \in Call /\ call'[c].task = t)
        BY <1>0, <1>3, ReportEffect
    <2>2. WaitsForOpen'
        <3> SUFFICES ASSUME NEW d \in Callers, call'[d] # None
                     PROVE  call'[d].task \in Unfinished' \/ call'[d].task \in overtaken'
            OBVIOUS
        <3>1. CASE d = c
            BY <2>1, <3>1
        <3>2. CASE d # c
            <4>1. call'[d] = call[d]
                BY <2>1, <3>2
            <4> QED
                BY <1>0, <2>1, <4>1
        <3> QED
            BY <3>1, <3>2
    <2>3. FlagFitsStatus'
        BY <2>1
    <2> QED
        BY <2>2, <2>3
<1>4. ASSUME NEW t \in Tasks, Recover(t)
      PROVE  WaitsForOpen' /\ FlagFitsStatus'
    <2>1. /\ record[t] = None /\ record'[t] \in TaskRecord
          /\ record'[t].status = "input_required" /\ ~ record'[t].terminal
          /\ \A u \in Tasks \ {t} : record'[u] = record[u]
          /\ \A d \in Callers \ {Recovery} : call'[d] = call[d]
          /\ overtaken' = overtaken
          /\ call'[Recovery] = None \/ (call'[Recovery] \in Call /\ call'[Recovery].task = t)
        BY <1>0, <1>4, RecoverEffect
    <2>2. \A d \in Callers : call'[d] # None =>
            \/ call'[d].task = t
            \/ call'[d] = call[d]
        BY <2>1
    <2> QED
        BY <1>0, <2>1, <2>2
<1>5. ASSUME NEW c \in Callers, EndsWait(c)
      PROVE  WaitsForOpen' /\ FlagFitsStatus'
    <2> DEFINE t == call[c].task
    <2>1. call[c] # None /\ record[t] # None
        BY <1>5 DEF EndsWait, SpecialistEnds, ResumeEnds, WaitsForKnown
    <2>2. /\ record[t] \in TaskRecord /\ record'[t] \in TaskRecord
          /\ record'[t].terminal = record[t].terminal
          /\ record'[t].status # "completed" \/ record'[t].status = record[t].status
          /\ \A u \in Tasks \ {t} : record'[u] = record[u]
          /\ call'[c] = None \/ (call'[c] \in Call /\ call'[c].task = t)
          /\ \A d \in Callers \ {c} : call'[d] = call[d]
          /\ overtaken' = overtaken
        BY <1>0, <1>5, <2>1, WaitEffect
    <2>3. t \in Tasks /\ (t \in Unfinished \/ t \in overtaken)
        BY <1>0, <2>1
    <2>4. Unfinished' = Unfinished
        BY <2>2
    <2>5. WaitsForOpen'
        BY <1>0, <2>2, <2>3, <2>4
    <2>6. FlagFitsStatus'
        BY <2>2, <2>3
    <2> QED
        BY <2>5, <2>6
<1> QED
    BY <1>1, <1>2, <1>3, <1>4, <1>5 DEF Next

\* The flag of a task and its status disagree in two ways only, whoever reports
\* what: a task that ended while a call waited for it may read as open, and a
\* task whose resumption failed may read as ended; none reads as completed that
\* was not reported so.
THEOREM FlagDepartsTwice == Spec => []FlagFitsStatus
<1>1. Init => WaitsForOpen /\ FlagFitsStatus
    BY DEF Init, WaitsForOpen, FlagFitsStatus, Known
<1> QED
    BY <1>1, NextKeepsFlag, TaskInvariant, PTL DEF Spec, FlagInv

-----------------------------------------------------------------------------
(* The chains of consultations.  The code counts the depth of a task when  *)
(* it is registered; Level is the number of its ancestors in the graph.    *)

KnownTasks == {t \in Tasks : Known(t)}

\* The count of a task is one more than its parent's, which is known.
DepthInv ==
    /\ \A t \in Tasks : ~ Known(t) => depth[t] = 0
    /\ \A t \in KnownTasks :
         IF record[t].parent = None
           THEN depth[t] = 0
           ELSE record[t].parent \in KnownTasks /\ depth[t] = depth[record[t].parent] + 1

\* Every step keeps the level counted with a record one above its parent's.
LEMMA NextKeepsDepth ==
    ASSUME TaskInv, DepthInv, [Next]_vars
    PROVE  DepthInv'
<1> USE ConstantFacts DEF TaskInv, DepthInv, KnownTasks, Known
<1>0. TypeOK
    OBVIOUS
<1>1. CASE UNCHANGED vars
    BY <1>1 DEF vars, fleetVars
<1>2. ASSUME NEW t \in Tasks, NEW parent \in Tasks \cup {None}, NEW intent \in Submitted,
             Submit(t, parent, intent)
      PROVE  DepthInv'
    <2>1. /\ record[t] = None /\ (parent # None => record[parent] # None)
          /\ \A u \in Tasks \ {t} : record'[u] = record[u] /\ depth'[u] = depth[u]
          /\ record'[t] \in TaskRecord /\ record'[t].parent = parent
          /\ depth'[t] = IF parent = None THEN depth[t] ELSE depth[parent] + 1
        <3> HIDE ConstantFacts DEF TaskInv, DepthInv, KnownTasks, Known
        <3>1. /\ ~ Known(t) /\ (parent # None => Known(parent))
              /\ \A u \in Tasks \ {t} : record'[u] = record[u] /\ depth'[u] = depth[u]
              /\ record'[t] \in TaskRecord /\ record'[t].parent = parent
              /\ depth'[t] = IF parent = None THEN depth[t] ELSE depth[parent] + 1
            BY <1>0, <1>2, SubmitEffect
        <3> QED
            BY <3>1 DEF Known
    <2>2. KnownTasks' = KnownTasks \cup {t} /\ t \notin KnownTasks
        BY <2>1
    <2>3. \A u \in KnownTasks : record'[u] = record[u] /\ depth'[u] = depth[u]
        BY <2>1, <2>2
    <2> QED
        BY <2>1, <2>2, <2>3
<1>3. ASSUME depth' = depth, NEW t \in Tasks, record'[t] \in TaskRecord,
             \A u \in Tasks \ {t} : record'[u] = record[u],
             \/ record[t] = None /\ record'[t].parent = None
             \/ record[t] \in TaskRecord /\ record'[t].parent = record[t].parent
      PROVE  DepthInv'
    <2>1. KnownTasks' = KnownTasks \cup {t}
        BY <1>3
    <2>2. \A u \in KnownTasks : record'[u].parent = record[u].parent
        BY <1>3
    <2> QED
        BY <1>3, <2>1, <2>2
<1>4. ASSUME NEW c \in Callers, NEW t \in Tasks, NEW result \in Reports, Report(c, t, result)
      PROVE  DepthInv'
    BY <1>0, <1>3, <1>4, ReportEffect
<1>5. ASSUME NEW t \in Tasks, Recover(t)
      PROVE  DepthInv'
    BY <1>0, <1>3, <1>5, RecoverEffect
<1>6. ASSUME NEW c \in Callers, EndsWait(c)
      PROVE  DepthInv'
    <2>1. Known(call[c].task)
        BY <1>6 DEF EndsWait, SpecialistEnds, ResumeEnds, WaitsForKnown
    <2>2. call[c].task \in Tasks
        BY <1>0, <1>6, <2>1, WaitEffect DEF Call
    <2> QED
        BY <1>0, <1>3, <1>6, <2>1, <2>2, WaitEffect
<1> QED
    BY <1>1, <1>2, <1>4, <1>5, <1>6 DEF Next

\* So that holds throughout.
LEMMA DepthInvariant == Spec => []DepthInv
<1>1. Init => DepthInv
    BY DEF Init, DepthInv, KnownTasks, Known
<1> QED
    BY <1>1, NextKeepsDepth, TaskInvariant, PTL DEF Spec

\* What the count computes is the number of ancestors: the recursion over the
\* graph has one solution, because the count falls towards the root.
LEMMA DepthIsLevel ==
    ASSUME TaskInv, DepthInv
    PROVE  \A t \in KnownTasks : Level[t] = depth[t]
<1> DEFINE Counts(f) == f = [t \in KnownTasks |-> IF record[t].parent = None THEN 0
                                                   ELSE 1 + f[record[t].parent]]
           count == [t \in KnownTasks |-> depth[t]]
<1>0. \A t \in KnownTasks : depth[t] \in Nat
    BY DEF TaskInv, TypeOK, KnownTasks
<1>1. Level = CHOOSE f : Counts(f)
    BY DEF Level, KnownTasks
<1>2. Counts(count)
    <2>1. \A t \in KnownTasks :
            depth[t] = IF record[t].parent = None THEN 0 ELSE 1 + count[record[t].parent]
        BY <1>0 DEF DepthInv
    <2> QED
        BY <2>1
<1>3. ASSUME NEW f, Counts(f)
      PROVE  \A t \in KnownTasks : f[t] = depth[t]
    <2> DEFINE wrong == {n \in Nat : \E t \in KnownTasks : depth[t] = n /\ f[t] # depth[t]}
    <2>1. SUFFICES ASSUME wrong # {}
                   PROVE  FALSE
        BY <1>0
    <2>2. PICK n \in wrong : \A m \in wrong : n <= m
        BY <2>1, LeastExists
    <2>3. PICK t \in KnownTasks : depth[t] = n /\ f[t] # depth[t]
        BY <2>2
    <2>4. f[t] = IF record[t].parent = None THEN 0 ELSE 1 + f[record[t].parent]
        BY <1>3
    <2>5. /\ record[t].parent # None /\ record[t].parent \in KnownTasks
          /\ depth[t] = depth[record[t].parent] + 1
        BY <2>3, <2>4 DEF DepthInv
    <2>6. f[record[t].parent] # depth[record[t].parent]
        BY <1>0, <2>3, <2>4, <2>5
    <2>7. depth[record[t].parent] \in wrong /\ depth[record[t].parent] < n
        BY <1>0, <2>3, <2>5, <2>6
    <2> QED
        BY <1>0, <2>2, <2>7
<1> HIDE DEF Counts
<1>4. Counts(Level)
    BY <1>1, <1>2
<1> QED
    BY <1>3, <1>4

\* A call that begins to wait waits for a task that was not too deep.
LEMMA ConsultsAreShallow ==
    ASSUME TaskInv, DepthInv, [Next]_vars, NEW c \in Callers, call[c] = None, call'[c] # None
    PROVE  call'[c].task \in KnownTasks' /\ depth'[call'[c].task] < MAX_SPECIALIST_DEPTH
<1> USE ConstantFacts DEF TaskInv, KnownTasks, Known
<1>0. TypeOK /\ \A t \in Tasks : depth[t] \in Nat
    BY DEF TypeOK
<1>1. CASE UNCHANGED vars
    BY <1>1 DEF vars
<1>2. ASSUME NEW t \in Tasks, NEW parent \in Tasks \cup {None}, NEW intent \in Submitted,
             Submit(t, parent, intent)
      PROVE  FALSE
    BY <1>0, <1>2, SubmitEffect
<1>3. ASSUME NEW d \in Callers, NEW t \in Tasks, NEW result \in Reports, Report(d, t, result)
      PROVE  call'[c].task \in KnownTasks' /\ depth'[call'[c].task] < MAX_SPECIALIST_DEPTH
    <2>1. /\ record'[t] \in TaskRecord /\ depth' = depth
          /\ call'[c].task = t /\ ~ TooDeep(t)
        BY <1>0, <1>3, ReportEffect
    <2> QED
        BY <1>0, <2>1 DEF TooDeep
<1>4. ASSUME NEW t \in Tasks, Recover(t)
      PROVE  call'[c].task \in KnownTasks' /\ depth'[call'[c].task] < MAX_SPECIALIST_DEPTH
    <2>1. /\ record'[t] \in TaskRecord /\ depth' = depth /\ record[t] = None
          /\ call'[c].task = t
        BY <1>0, <1>4, RecoverEffect
    <2> QED
        BY <1>0, <2>1 DEF DepthInv
<1>5. ASSUME NEW d \in Callers, EndsWait(d)
      PROVE  FALSE
    <2>1. call[d] # None
        BY <1>5 DEF EndsWait, SpecialistEnds, ResumeEnds
    <2> QED
        BY <1>0, <1>5, <2>1, WaitEffect DEF WaitsForKnown
<1> QED
    BY <1>1, <1>2, <1>3, <1>4, <1>5 DEF Next

\* A specialist is consulted only for a task with fewer ancestors than the
\* limit, in conversation graphs of any shape and size.
THEOREM ChainsEnd == Spec => ChainsAreBounded
<1> DEFINE Chains == \A c \in Callers :
                       call[c] = None /\ call'[c] # None
                         => Level'[call'[c].task] < MAX_SPECIALIST_DEPTH
           LevelIsDepth == \A t \in KnownTasks : Level[t] = depth[t]
<1>1. TaskInv /\ DepthInv => LevelIsDepth
    BY DepthIsLevel
<1>2. TaskInv /\ DepthInv /\ LevelIsDepth' /\ [Next]_vars => [Chains]_vars
    BY ConsultsAreShallow
<1>3. Spec => [][Chains]_vars
    <2> HIDE DEF Chains, LevelIsDepth
    <2> QED
        BY <1>1, <1>2, TaskInvariant, DepthInvariant, PTL DEF Spec
<1> QED
    BY <1>3 DEF ChainsAreBounded

=============================================================================
