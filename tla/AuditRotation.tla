--------------------------- MODULE AuditRotation ---------------------------
(***************************************************************************)
(* The audit log on disk (src/adapter/audit_logger.py): log_event()        *)
(* rotates the log when it is full, by removing the oldest backup and      *)
(* renaming the others one by one, and then appends a line.  Any of these  *)
(* may fail, which the rotation ignores, and the process may be killed     *)
(* between two of them.                                                    *)
(*                                                                         *)
(* A lock makes one event of one thread after the other; the files show    *)
(* what is on disk at any moment.  Entries are numbered in the order of    *)
(* their events and have one size.                                         *)
(***************************************************************************)
EXTENDS Integers, Sequences, FiniteSets

CONSTANTS
    MaxBackups,   \* max_backups: 3
    PerFile,      \* max_bytes, in entries
    MaxEvents,    \* events that are logged
    MaxFaults     \* operations that fail, and kills

ASSUME AuditAssumption ==
    /\ {MaxBackups, PerFile} \subseteq Nat \ {0}
    /\ {MaxEvents, MaxFaults} \subseteq Nat

Torn == -1   \* the beginning of a line, at the end of a file
Junk == 0    \* a line that begins as one and goes on as another

VARIABLES
    files,    \* the log, 0, and its backups; an empty one does not exist
    step,     \* where log_event() stands
    place,    \* the backup the loop of the rotation is at
    entries,  \* how many events there have been
    written,  \* those whose line has been written
    faults,   \* how many operations have failed, kills included
    undone,   \* rotations that did not get to rename the log
    stuck     \* backups that could not be renamed, and torn lines

vars == <<files, step, place, entries, written, faults, undone, stuck>>

TypeOK ==
    /\ files \in [0 .. MaxBackups -> Seq(Torn .. MaxEvents)]
    /\ step \in {"idle", "remove", "shift", "rename", "append"}
    /\ place \in 0 .. MaxBackups - 1
    /\ entries \in 0 .. MaxEvents
    /\ written \subseteq 1 .. entries
    /\ faults \in 0 .. MaxFaults /\ undone \in 0 .. MaxFaults /\ stuck \in 0 .. MaxFaults

Init ==
    /\ files = [i \in 0 .. MaxBackups |-> <<>>]
    /\ step = "idle"
    /\ place = 0
    /\ entries = 0
    /\ written = {}
    /\ faults = 0
    /\ undone = 0
    /\ stuck = 0

-----------------------------------------------------------------------------
Fault == faults < MaxFaults /\ faults' = faults + 1

Move(src, dst) == files' = [files EXCEPT ![dst] = files[src], ![src] = <<>>]

\* Slip: a file that has just reached the size is not rotated.
LogEventWhenOver ==
    /\ step = "idle"
    /\ entries < MaxEvents
    /\ entries' = entries + 1
    /\ step' = IF Len(files[0]) <= PerFile THEN "append" ELSE "remove"
    /\ UNCHANGED <<files, place, written, faults, undone, stuck>>

LogEvent ==
    /\ step = "idle"
    /\ entries < MaxEvents
    /\ entries' = entries + 1
    /\ step' = IF Len(files[0]) < PerFile THEN "append" ELSE "remove"
    /\ UNCHANGED <<files, place, written, faults, undone, stuck>>

\* Slip: the loop begins with the oldest backup.
RemoveOldestAndShiftIt ==
    /\ step = "remove"
    /\ \/ files' = [files EXCEPT ![MaxBackups] = <<>>] /\ UNCHANGED faults
       \/ Fault /\ UNCHANGED files
    /\ place' = MaxBackups
    /\ step' = "shift"
    /\ UNCHANGED <<entries, written, undone, stuck>>

\* What cannot be removed is overwritten by the next rename.
RemoveOldest ==
    /\ step = "remove"
    /\ \/ files' = [files EXCEPT ![MaxBackups] = <<>>] /\ UNCHANGED faults
       \/ Fault /\ UNCHANGED files
    /\ place' = MaxBackups - 1
    /\ step' = "shift"
    /\ UNCHANGED <<entries, written, undone, stuck>>

\* Slip: the backups are shifted from the newest to the oldest.
ShiftUpwards ==
    /\ step = "shift"
    /\ LET src == MaxBackups - place
       IN  IF place = 0
             THEN /\ step' = "rename"
                  /\ UNCHANGED <<files, place, faults, stuck>>
             ELSE /\ Move(src, src + 1)
                  /\ place' = place - 1
                  /\ UNCHANGED <<step, faults, stuck>>
    /\ UNCHANGED <<entries, written, undone>>

\* A backup that cannot be renamed stays, for the next rename to overwrite.
Shift ==
    /\ step = "shift"
    /\ \/ /\ place = 0
          /\ step' = "rename"
          /\ UNCHANGED <<files, place, faults, stuck>>
       \/ /\ place > 0
          /\ \/ files[place] # <<>> /\ Move(place, place + 1) /\ UNCHANGED <<faults, stuck>>
             \/ files[place] = <<>> /\ UNCHANGED <<files, faults, stuck>>
             \/ /\ files[place] # <<>> /\ Fault
                /\ stuck' = stuck + 1
                /\ UNCHANGED files
          /\ place' = place - 1
          /\ UNCHANGED step
    /\ UNCHANGED <<entries, written, undone>>

\* Slip: the log is copied.
RenameLogCopying ==
    /\ step = "rename"
    /\ \/ files' = [files EXCEPT ![1] = files[0]] /\ UNCHANGED <<faults, undone>>
       \/ Fault /\ undone' = undone + 1 /\ UNCHANGED files
    /\ step' = "append"
    /\ UNCHANGED <<place, entries, written, stuck>>

\* A log that cannot be renamed is appended to.
RenameLog ==
    /\ step = "rename"
    /\ \/ Move(0, 1) /\ UNCHANGED <<faults, undone>>
       \/ Fault /\ undone' = undone + 1 /\ UNCHANGED files
    /\ step' = "append"
    /\ UNCHANGED <<place, entries, written, stuck>>

EndsTorn(file) == file # <<>> /\ file[Len(file)] = Torn

\* The text goes on where the file ends.
Extended(file, line) ==
    IF EndsTorn(file) THEN [file EXCEPT ![Len(file)] = Junk] ELSE Append(file, line)

\* The line is written; or the disk is full, log_event() raises, and nothing
\* or the beginning of the line is in the file.
AppendLine ==
    /\ step = "append"
    /\ \/ /\ files' = [files EXCEPT ![0] = Extended(@, entries)]
          /\ written' = written \cup {entries}
          /\ UNCHANGED <<faults, stuck>>
       \/ /\ Fault
          /\ UNCHANGED <<files, written, stuck>>
       \/ /\ Fault
          /\ ~ EndsTorn(files[0])
          /\ files' = [files EXCEPT ![0] = Append(@, Torn)]
          /\ stuck' = stuck + 1
          /\ UNCHANGED written
    /\ step' = "idle"
    /\ UNCHANGED <<place, entries, undone>>

\* The process is killed, and the next event finds what is on disk.
Kill ==
    /\ step # "idle"
    /\ Fault
    /\ step' = "idle"
    /\ undone' = IF step \in {"shift", "rename"} THEN undone + 1 ELSE undone
    /\ UNCHANGED <<files, place, entries, written, stuck>>

-----------------------------------------------------------------------------
Rotate == RemoveOldest \/ Shift \/ RenameLog

Finished ==
    /\ step = "idle" /\ entries = MaxEvents
    /\ UNCHANGED vars

Next == LogEvent \/ Rotate \/ AppendLine \/ Kill \/ Finished

Spec == Init /\ [][Next]_vars

-----------------------------------------------------------------------------
Positions == UNION {{i} \X DOMAIN files[i] : i \in 0 .. MaxBackups}

At(pos) == files[pos[1]][pos[2]]

OnDisk == {At(pos) : pos \in Positions} \ {Torn, Junk}

Before(p, q) == p[1] > q[1] \/ (p[1] = q[1] /\ p[2] < q[2])

\* Read from the oldest backup to the log, the entries are in the order of
\* their events and none is there twice, whatever failed and whenever the
\* process was killed.
InOrder ==
    \A p, q \in Positions :
      Before(p, q) /\ {At(p), At(q)} \subseteq OnDisk => At(p) < At(q)

Recent(n) == {e \in written : Cardinality({f \in written : f >= e}) <= n}

\* Entries are lost from the oldest on: what is on disk has no gap, and a
\* rotation that does not come to its end, by a failure or a kill, costs one
\* backup and no more.  Only a backup that cannot be renamed, which the next
\* rename overwrites, and a torn line, which takes the next one with it,
\* make other gaps.
LostOldestFirst ==
    stuck = 0 =>
      /\ Recent(PerFile * (MaxBackups - undone)) \subseteq OnDisk
      /\ \A e \in written, f \in OnDisk : f < e => e \in OnDisk

\* No file outgrows the limit by more than a line for every rotation that did
\* not come to its end.
SizeIsBounded == \A i \in 0 .. MaxBackups : Len(files[i]) <= PerFile + undone

=============================================================================
