---------------------------- MODULE Orchestrator ----------------------------
(***************************************************************************)
(* The orchestration of tasks (src/core/orchestrator.py): tasks are        *)
(* registered with their parents, their status changes are reported, a     *)
(* task that asks for input has a specialist consulted and is resumed with *)
(* the answer, and a task that ends releases its profile.                  *)
(*                                                                         *)
(* on_status_change() is synchronous, but it waits for the adapter twice:  *)
(* for the specialist and for the resumed task.  The calls come from the   *)
(* loop of the server and from the recovery on the loop of the gateway, so *)
(* one call may run while another waits.                                   *)
(***************************************************************************)
EXTENDS FleetController

CONSTANTS
    Tasks,               \* task ids the SDK hands out
    InFlight,            \* those found unfinished in the store at a restart
    Callers,             \* threads that call the orchestrator
    Recovery,            \* the one of them that recovers tasks
    InitialCapabilities, \* the registry, which does not change here
    Submitted,           \* the intents tasks are routed with
    Reports,             \* what may be reported of a task
    QuestionTags,        \* the tags a question may carry
    SpecialistResults,   \* how a consulted specialist may end
    ResumeResults,       \* how a resumed task may end
    NamesProfile,        \* how register_task() may be told the profile
    MAX_SPECIALIST_DEPTH,
    Consultation, ActionRequest  \* intent types discover() is asked for

TERMINAL_STATUSES == {"completed", "failed", "cancelled", "rejected"}

\* A dispatch may also ask for input, ask for a human, or raise.
Others == {"input_required", "escalated", "raised"}

ASSUME OrchestratorAssumption ==
    /\ InFlight \subseteq Tasks
    /\ InitialCapabilities \in Seq(Capability)
    /\ Submitted \subseteq TaskIntent
    /\ Recovery \in Callers
    /\ Reports \subseteq TERMINAL_STATUSES \cup {"input_required", "escalated"}
    /\ SpecialistResults \cup ResumeResults \subseteq TERMINAL_STATUSES \cup Others
    /\ QuestionTags \subseteq SUBSET Keywords
    /\ NamesProfile \subseteq BOOLEAN
    /\ MAX_SPECIALIST_DEPTH \in Nat \ {0}
    /\ {Consultation, ActionRequest} \subseteq Keywords
    /\ None \notin Tasks

VARIABLES
    record,   \* task -> its TaskRecord in the conversation graph, or None
    depth,    \* _depth, 0 where it has no entry
    call      \* caller -> the on_status_change() it waits in, or None

\* What no step of the code reads, kept for the properties: the tasks reported
\* again after they had ended, and those that ended while a call waited for them.
VARIABLES again, overtaken

history == <<again, overtaken>>

vars == <<fleetVars, record, depth, call, history>>

TaskRecord == [status    : TERMINAL_STATUSES \cup {"submitted", "working", "input_required"},
               terminal  : BOOLEAN,
               profile   : Profiles \cup {None},
               parent    : Tasks \cup {None},
               escalated : BOOLEAN]

\* A call waits for the specialist it consulted, or for the task it resumed
\* with the specialist's result.
Call == [at      : {"specialist", "resume"},
         task    : Tasks,
         profile : Profiles \cup {None},
         answer  : TERMINAL_STATUSES \cup {None}]

ASSUME RecordAssumption == None \notin TaskRecord \cup Call

TypeOK ==
    /\ FleetTypeOK
    /\ record \in [Tasks -> TaskRecord \cup {None}]
    /\ depth \in [Tasks -> Nat]
    /\ call \in [Callers -> Call \cup {None}]
    /\ again \subseteq Tasks /\ overtaken \subseteq Tasks

Init ==
    /\ capabilities = InitialCapabilities
    /\ busy = {}
    /\ record = [t \in Tasks |-> None]
    /\ depth = [t \in Tasks |-> 0]
    /\ call = [c \in Callers |-> None]
    /\ again = {} /\ overtaken = {}

-----------------------------------------------------------------------------
(* register_task()                                                         *)

Known(t) == record[t] # None

\* A task without a profile of its own takes over its parent's.
RegisterTask(t, parent, profile) ==
    /\ record' = [record EXCEPT ![t] =
         [status    |-> "submitted",
          terminal  |-> FALSE,
          profile   |-> IF profile = None /\ parent # None
                          THEN record[parent].profile ELSE profile,
          parent    |-> parent,
          escalated |-> FALSE]]
    /\ depth' = [depth EXCEPT ![t] = IF parent = None THEN @ ELSE depth[parent] + 1]

\* A caller routes a task and registers it under a fresh id, below a task there
\* is or as a root (the tests of the orchestrator do; the executor registers none).
Submit(t, parent, intent) ==
    LET decision == Route(intent)
    IN  /\ ~ Known(t) /\ t \notin InFlight
        /\ parent # None => Known(parent)
        /\ decision.status = "dispatched"
        /\ MarkBusy(decision)
        /\ \E named \in NamesProfile :
             RegisterTask(t, parent, IF named THEN decision.profile_name ELSE None)
        /\ UNCHANGED <<capabilities, call, history>>

-----------------------------------------------------------------------------
(* on_status_change()                                                      *)

SetStatus(t, status) == record' = [record EXCEPT ![t].status = status]

ReturnFrom(c) == call' = [call EXCEPT ![c] = None]

Consult(c, t, candidates) ==
    call' = [call EXCEPT ![c] = [at      |-> "specialist",
                                 task    |-> t,
                                 profile |-> The(First(candidates)).profile_name,
                                 answer  |-> None]]

Resume(c, t, result) ==
    call' = [call EXCEPT ![c] = [at      |-> "resume",
                                 task    |-> t,
                                 profile |-> record[t].profile,
                                 answer  |-> result]]

Escalated(t) == [record[t] EXCEPT !.status = "input_required",
                                  !.terminal = FALSE,
                                  !.escalated = TRUE]

\* Specialists for a question, by the first intent type any can handle.
Candidates(tags) ==
    LET consultants == Discover(Consultation, tags)
    IN  IF consultants # {} THEN consultants ELSE Discover(ActionRequest, tags)

\* Slip: one level too many.
TooDeepByOne(t) == depth[t] > MAX_SPECIALIST_DEPTH

TooDeep(t) == depth[t] >= MAX_SPECIALIST_DEPTH

\* input_required: the first candidate is consulted, busy or not; a chain that
\* is too deep, or a question nobody can answer, goes to a human.
HandleInputRequired(c, t) ==
    \E tags \in QuestionTags :
      IF TooDeep(t) \/ Candidates(tags) = {}
        THEN /\ record' = [record EXCEPT ![t] = Escalated(t)]
             /\ UNCHANGED call
        ELSE /\ record' = [record EXCEPT ![t].status = "input_required",
                                         ![t].terminal = FALSE]
             /\ Consult(c, t, Candidates(tags))

\* Slip: a cancelled task keeps its profile.
EndTaskUnlessCancelled(t, status) ==
    /\ record' = [record EXCEPT ![t].status = status, ![t].terminal = TRUE]
    /\ IF status = "cancelled" THEN UNCHANGED busy ELSE Release(record[t].profile)

EndTask(t, status) ==
    /\ record' = [record EXCEPT ![t].status = status, ![t].terminal = TRUE]
    /\ Release(record[t].profile)

Ended(t) == Known(t) /\ record[t].terminal

Remember(t, result) ==
    /\ again' = IF Ended(t) THEN again \cup {t} ELSE again
    /\ overtaken' = IF /\ result \in TERMINAL_STATUSES
                       /\ \E d \in Callers : call[d] # None /\ call[d].task = t
                      THEN overtaken \cup {t} ELSE overtaken

\* A status change of a task, up to its end or to the first wait.  Every report
\* of a registered task is taken: the second end releases the profile again, a
\* question reopens a task that has ended, and others may wait for the task.
Report(c, t, result) ==
    /\ c # Recovery /\ call[c] = None
    /\ Known(t)
    /\ \/ /\ result \in TERMINAL_STATUSES
          /\ EndTask(t, result)
          /\ UNCHANGED call
       \/ /\ result = "escalated"
          /\ record' = [record EXCEPT ![t].status = "input_required",
                                      ![t].terminal = FALSE]
          /\ UNCHANGED <<busy, call>>
       \/ /\ result = "input_required"
          /\ HandleInputRequired(c, t)
          /\ UNCHANGED busy
    /\ Remember(t, result)
    /\ UNCHANGED <<capabilities, depth>>

\* Recovery after a restart: an unfinished task of the store is registered
\* without a profile and reported as asking for input, in one go; its question
\* carries no tags.
Recover(t) ==
    /\ t \in InFlight /\ ~ Known(t)
    /\ call[Recovery] = None
    /\ LET fresh == [status |-> "input_required", terminal |-> FALSE,
                     profile |-> None, parent |-> None, escalated |-> FALSE]
       IN  IF Candidates({}) = {}
             THEN /\ record' = [record EXCEPT ![t] = [fresh EXCEPT !.escalated = TRUE]]
                  /\ UNCHANGED call
             ELSE /\ record' = [record EXCEPT ![t] = fresh]
                  /\ Consult(Recovery, t, Candidates({}))
    /\ UNCHANGED <<fleetVars, depth, history>>

\* The specialist ends: a terminal result, whichever it is, resumes the task;
\* a question of its own goes to a human if it says so.
SpecialistEnds(c, result) ==
    /\ call[c] # None /\ call[c].at = "specialist"
    /\ LET t == call[c].task
       IN  \/ /\ result \in TERMINAL_STATUSES
              /\ Resume(c, t, result)
              /\ UNCHANGED record
           \/ /\ result = "escalated"
              /\ record' = [record EXCEPT ![t].escalated = TRUE,
                                          ![t].status = "input_required"]
              /\ ReturnFrom(c)
           \/ /\ result = "input_required"
              /\ SetStatus(t, "input_required")
              /\ ReturnFrom(c)
           \/ /\ result = "raised"
              /\ ReturnFrom(c)
              /\ UNCHANGED record
    /\ UNCHANGED <<fleetVars, depth, history>>

\* Slip: a resumption that fails releases the profile of a task that stays open.
ResumeEndsReleasing(c, result) ==
    /\ call[c] # None /\ call[c].at = "resume"
    /\ LET t == call[c].task
           failed == result \in TERMINAL_STATUSES \ {"completed"}
       IN  IF result = "raised"
             THEN UNCHANGED <<record, busy>>
             ELSE /\ SetStatus(t, IF failed THEN result ELSE "working")
                  /\ IF failed THEN Release(record[t].profile) ELSE UNCHANGED busy
    /\ ReturnFrom(c)
    /\ UNCHANGED <<capabilities, depth, history>>

\* Slip: a task counts as completed once its resumption is.
ResumeEndsCompleting(c, result) ==
    /\ call[c] # None /\ call[c].at = "resume"
    /\ IF result = "raised"
         THEN UNCHANGED record
         ELSE SetStatus(call[c].task,
                        IF result \in TERMINAL_STATUSES THEN result ELSE "working")
    /\ ReturnFrom(c)
    /\ UNCHANGED <<fleetVars, depth, history>>

\* Slip: the status is that of the result, also of a call that raised.
ResumeEndsWithResult(c, result) ==
    /\ call[c] # None /\ call[c].at = "resume"
    /\ SetStatus(call[c].task, result)
    /\ ReturnFrom(c)
    /\ UNCHANGED <<fleetVars, depth, history>>

\* The resumed task ends or asks again: it counts as working, unless it ended
\* without completing.  Its terminal flag and its profile are left alone.
ResumeEnds(c, result) ==
    /\ call[c] # None /\ call[c].at = "resume"
    /\ IF result = "raised"
         THEN UNCHANGED record
         ELSE SetStatus(call[c].task,
                        IF result \in TERMINAL_STATUSES \ {"completed"}
                          THEN result ELSE "working")
    /\ ReturnFrom(c)
    /\ UNCHANGED <<fleetVars, depth, history>>

-----------------------------------------------------------------------------
EndsWait(c) ==
    \/ \E result \in SpecialistResults : SpecialistEnds(c, result)
    \/ \E result \in ResumeResults : ResumeEnds(c, result)

Next ==
    \/ \E t \in Tasks, parent \in Tasks \cup {None}, intent \in Submitted :
         Submit(t, parent, intent)
    \/ \E c \in Callers, t \in Tasks, result \in Reports : Report(c, t, result)
    \/ \E t \in Tasks : Recover(t)
    \/ \E c \in Callers : EndsWait(c)

Spec == Init /\ [][Next]_vars

-----------------------------------------------------------------------------
Unfinished == {t \in Tasks : Known(t) /\ ~ record[t].terminal}

\* No profile stays busy for good: whatever is reported, late, twice or while
\* others wait, a busy profile has an unfinished task whose end will release it
\* (a cancelled task releases as well, a failed resumption ends none).
NoProfileIsLost == busy \subseteq {record[t].profile : t \in Unfinished}

\* The profiles release() was told, by name, of a task that had ended before.
Disturbed == {record[t].profile : t \in again}

\* The availability tracker is exact through questions, consultations, failing
\* resumptions, recoveries and overlapping calls: a profile is busy exactly while
\* a task that names it is unfinished, and one such task at a time.  Only a report
\* of a task that has ended can break that, and only for the profile it names.
TrackerIsExact ==
    \A p \in Profiles \ Disturbed :
      /\ p \in busy <=> \E t \in Unfinished : record[t].profile = p
      /\ \A t, u \in Unfinished : record[t].profile = p /\ record[u].profile = p => t = u

\* "terminal: True if task is in a terminal state" (persistence.py), as far as
\* on_status_change() keeps to it: an ended task counts as open again only after
\* its end overtook a call that waited for it, and a task that has not ended
\* counts as failed, cancelled or rejected after such a resumption, as completed
\* never.
FlagFitsStatus ==
    \A t \in Tasks :
      Known(t) =>
        /\ record[t].terminal /\ record[t].status \notin TERMINAL_STATUSES
             => t \in overtaken
        /\ record[t].status = "completed" => record[t].terminal

Level[t \in {u \in Tasks : Known(u)}] ==
    IF record[t].parent = None THEN 0 ELSE 1 + Level[record[t].parent]

\* Consultations do not chain without end: a specialist is consulted only for
\* a task with fewer than MAX_SPECIALIST_DEPTH ancestors in the graph.
ChainsAreBounded ==
    [][\A c \in Callers :
         call[c] = None /\ call'[c] # None
           => Level'[call'[c].task] < MAX_SPECIALIST_DEPTH]_vars

\* "If specialist succeeded, compose answer and resume", otherwise "propagate
\* failure" (orchestrator.py, comments of _handle_input_required).
ResumedWithAnAnswer ==
    \A c \in Callers :
      call[c] # None /\ call[c].at = "resume" => call[c].answer = "completed"

=============================================================================
