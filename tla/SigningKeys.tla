---------------------------- MODULE SigningKeys ----------------------------
(***************************************************************************)
(* The key that signs a node's Agent Card                                  *)
(* (src/adapter/agent_card_signer.py, ensure_keys, and the route that      *)
(* calls it, src/adapter/agent_card_route.py).  Gateways that share a      *)
(* profile look for its key in the profile's .env file at every request    *)
(* for the card; the first ones find none and generate one under a lock    *)
(* file, which every one of them removes when it is done.                  *)
(*                                                                         *)
(* A lock belongs to the file that was opened, not to its name: a process  *)
(* may hold or await the lock of a file that has been removed, while       *)
(* another makes a new one.  The environment of the process is put back    *)
(* after every request, so a request starts from what the file says.       *)
(***************************************************************************)
EXTENDS Naturals, FiniteSets

CONSTANTS
    Processes,
    Inodes,       \* lock files, told apart whatever their name
    None,
    FirstFiles,   \* how the .env file may be at first
    MaxServes,    \* requests for the card, to all the processes together
    MaxCrashes, MaxFailures

MaxKey == MaxServes

NoKey == 0

\* text: the name of the key is in it, though no key may be; ended: its last
\* line has an end; others: every other line it had is there as it was.
EnvFile == [exists : BOOLEAN, key : 0 .. MaxKey, text : BOOLEAN,
            ended : BOOLEAN, others : BOOLEAN]

ASSUME KeysAssumption ==
    /\ IsFiniteSet(Processes)
    /\ None \notin Inodes \cup Processes
    /\ Cardinality(Inodes) > Cardinality(Processes)
    /\ FirstFiles \subseteq {f \in EnvFile : f.key = NoKey /\ f.others}
    /\ {MaxServes, MaxCrashes, MaxFailures} \subseteq Nat

VARIABLES
    pc,         \* process -> where its request for the card stands
    key,        \* process -> the key it has found or generated, or NoKey
    fd,         \* process -> the lock file it has open, or None
    saved,      \* process -> whether it rewrites the other lines
    env,        \* the .env file
    lockFile,   \* the lock file its name leads to, or None
    signed,     \* the keys cards were signed with
    generated,  \* how many keys have been generated
    serves,     \* how many requests there have been
    crashes,    \* how many processes have been killed
    failures,   \* how many writes have failed
    cut,        \* whether a rewriting of the file was cut short
    orphaned,   \* whether a lock file others use went without a key
    glued       \* whether a key was appended to another line

processVars == <<pc, key, fd, saved>>
countVars   == <<crashes, failures, cut, orphaned, glued>>
vars == <<processVars, env, lockFile, signed, generated, serves, countVars>>

\* "waiting" for the lock; "looking" for the key again; "writing" and
\* "filling" before and after the file is truncated; "unlinking" the lock
\* file, which has been closed.
HasLock(p) == pc[p] \in {"looking", "writing", "filling"}

TypeOK ==
    /\ pc \in [Processes -> {"idle", "opening", "waiting", "looking",
                             "writing", "filling", "unlinking"}]
    /\ key \in [Processes -> 0 .. MaxKey]
    /\ fd \in [Processes -> Inodes \cup {None}]
    /\ \A p \in Processes : fd[p] # None <=> HasLock(p) \/ pc[p] = "waiting"
    /\ saved \in [Processes -> BOOLEAN]
    /\ env \in EnvFile
    /\ lockFile \in Inodes \cup {None}
    /\ signed \subseteq 1 .. MaxKey
    /\ generated \in 0 .. MaxKey
    /\ serves \in 0 .. MaxServes
    /\ crashes \in 0 .. MaxCrashes
    /\ failures \in 0 .. MaxFailures
    /\ cut \in BOOLEAN /\ orphaned \in BOOLEAN /\ glued \in BOOLEAN

Init ==
    /\ pc = [p \in Processes |-> "idle"]
    /\ key = [p \in Processes |-> NoKey]
    /\ fd = [p \in Processes |-> None]
    /\ saved = [p \in Processes |-> FALSE]
    /\ env \in FirstFiles
    /\ lockFile = None
    /\ signed = {}
    /\ generated = 0
    /\ serves = 0
    /\ crashes = 0
    /\ failures = 0
    /\ cut = FALSE
    /\ orphaned = FALSE
    /\ glued = FALSE

-----------------------------------------------------------------------------
Goto(p, point) == pc' = [pc EXCEPT ![p] = point]

CloseLock(p) == fd' = [fd EXCEPT ![p] = None]

\* The key _load_env_file() finds: a line that begins with its name and goes
\* on with a value.
Found == env.key

\* The card goes out, signed if there is a key.
Serve(k) == signed' = signed \cup ({k} \ {NoKey})

\* A request for the card: a key in the file signs it at once.
FirstLook(p) ==
    /\ pc[p] = "idle"
    /\ serves < MaxServes
    /\ serves' = serves + 1
    /\ \/ /\ Found # NoKey
          /\ Serve(Found)
          /\ UNCHANGED pc
       \/ /\ Found = NoKey
          /\ Goto(p, "opening")
          /\ UNCHANGED signed
    /\ UNCHANGED <<key, fd, saved, env, lockFile, generated, countVars>>

\* A file that is not in use, whichever the system takes.
NewFile == CHOOSE i \in Inodes : \A q \in Processes : fd[q] # i

\* Slip: the lock is the existence of the file.
OpenLockExclusive(p) ==
    /\ pc[p] = "opening"
    /\ lockFile = None
    /\ lockFile' = NewFile
    /\ fd' = [fd EXCEPT ![p] = lockFile']
    /\ Goto(p, "waiting")
    /\ UNCHANGED <<key, saved, env, signed, generated, serves, countVars>>

\* The lock file is opened, or made if its name leads to none.
OpenLock(p) ==
    /\ pc[p] = "opening"
    /\ lockFile' = IF lockFile = None THEN NewFile ELSE lockFile
    /\ fd' = [fd EXCEPT ![p] = lockFile']
    /\ Goto(p, "waiting")
    /\ UNCHANGED <<key, saved, env, signed, generated, serves, countVars>>

TakeLock(p) ==
    /\ pc[p] = "waiting"
    /\ \A q \in Processes : HasLock(q) => fd[q] # fd[p]
    /\ Goto(p, "looking")
    /\ UNCHANGED <<key, fd, saved, env, lockFile, signed, generated, serves, countVars>>

Generate(p) ==
    /\ generated' = generated + 1
    /\ key' = [key EXCEPT ![p] = generated']
    /\ Goto(p, "writing")
    /\ UNCHANGED fd

\* Slip: no second look.
SecondLookOmitted(p) ==
    /\ pc[p] = "looking"
    /\ Generate(p)
    /\ UNCHANGED <<saved, env, lockFile, signed, serves, countVars>>

\* With the lock: another process may have written the key meanwhile.
SecondLook(p) ==
    /\ pc[p] = "looking"
    /\ \/ /\ Found # NoKey
          /\ key' = [key EXCEPT ![p] = Found]
          /\ CloseLock(p)
          /\ Goto(p, "unlinking")
          /\ UNCHANGED generated
       \/ Found = NoKey /\ Generate(p)
    /\ UNCHANGED <<saved, env, lockFile, signed, serves, countVars>>

\* The name of the key is not in the file: a line is appended, and the lock
\* file closed.  After a line without an end it is the rest of that line.
AppendKey(p) ==
    /\ pc[p] = "writing"
    /\ env.exists /\ ~ env.text
    /\ env' = [env EXCEPT !.key = IF env.ended THEN key[p] ELSE NoKey,
                          !.text = TRUE, !.ended = TRUE,
                          !.others = @ /\ env.ended]
    /\ glued' = (glued \/ ~ env.ended)
    /\ CloseLock(p)
    /\ Goto(p, "unlinking")
    /\ UNCHANGED <<key, saved, lockFile, signed, generated, serves,
                   crashes, failures, cut, orphaned>>

\* No file, or the name of the key is in it: what is to be kept has been read,
\* and the file is opened for writing, which empties it.
Truncate(p) ==
    /\ pc[p] = "writing"
    /\ ~ env.exists \/ env.text
    /\ saved' = [saved EXCEPT ![p] = env.others]
    /\ env' = [exists |-> TRUE, key |-> NoKey, text |-> FALSE,
               ended |-> TRUE, others |-> FALSE]
    /\ Goto(p, "filling")
    /\ UNCHANGED <<key, fd, lockFile, signed, generated, serves, countVars>>

\* Slip: only the new line is written.
FillWithKeyOnly(p) ==
    /\ pc[p] = "filling"
    /\ env' = [env EXCEPT !.key = key[p], !.text = TRUE]
    /\ CloseLock(p)
    /\ Goto(p, "unlinking")
    /\ UNCHANGED <<key, saved, lockFile, signed, generated, serves, countVars>>

\* The other lines and the key are written, and the lock file closed.
Fill(p) ==
    /\ pc[p] = "filling"
    /\ env' = [env EXCEPT !.key = key[p], !.text = TRUE, !.others = saved[p]]
    /\ CloseLock(p)
    /\ Goto(p, "unlinking")
    /\ UNCHANGED <<key, saved, lockFile, signed, generated, serves, countVars>>

\* Slip: the exception passes by the closing of the lock file.
WriteFailsKeepingLock(p) ==
    /\ pc[p] \in {"writing", "filling"}
    /\ failures < MaxFailures
    /\ failures' = failures + 1
    /\ cut' = (cut \/ pc[p] = "filling")
    /\ key' = [key EXCEPT ![p] = NoKey]
    /\ Goto(p, "unlinking")
    /\ UNCHANGED <<fd, saved, env, lockFile, signed, generated, serves, crashes, orphaned, glued>>

\* The file cannot be opened or written: an exception, and no key.
WriteFails(p) ==
    /\ pc[p] \in {"writing", "filling"}
    /\ failures < MaxFailures
    /\ failures' = failures + 1
    /\ cut' = (cut \/ pc[p] = "filling")
    /\ key' = [key EXCEPT ![p] = NoKey]
    /\ CloseLock(p)
    /\ Goto(p, "unlinking")
    /\ UNCHANGED <<saved, env, lockFile, signed, generated, serves, crashes, orphaned, glued>>

\* Whatever the name leads to is removed, and the card goes out.
Unlink(p) ==
    /\ pc[p] = "unlinking"
    /\ lockFile' = None
    /\ Serve(key[p])
    /\ orphaned' = (orphaned \/ (key[p] = NoKey /\ \E q \in Processes : fd[q] # None))
    /\ key' = [key EXCEPT ![p] = NoKey]
    /\ saved' = [saved EXCEPT ![p] = FALSE]
    /\ Goto(p, "idle")
    /\ UNCHANGED <<fd, env, generated, serves, crashes, failures, cut, glued>>

\* The process is killed and starts again.  The system closes its lock file,
\* which frees the lock and leaves the file.
Crash(p) ==
    /\ pc[p] # "idle"
    /\ crashes < MaxCrashes
    /\ crashes' = crashes + 1
    /\ cut' = (cut \/ pc[p] = "filling")
    /\ key' = [key EXCEPT ![p] = NoKey]
    /\ saved' = [saved EXCEPT ![p] = FALSE]
    /\ CloseLock(p)
    /\ Goto(p, "idle")
    /\ UNCHANGED <<env, lockFile, signed, generated, serves, failures, orphaned, glued>>

-----------------------------------------------------------------------------
GoOn(p) ==
    \/ OpenLock(p)
    \/ TakeLock(p)
    \/ SecondLook(p)
    \/ AppendKey(p)
    \/ Truncate(p)
    \/ Fill(p)
    \/ Unlink(p)

\* No process has a request for the card or will have one.
Finished ==
    /\ serves = MaxServes
    /\ \A p \in Processes : pc[p] = "idle"
    /\ UNCHANGED vars

Next ==
    \/ \E p \in Processes : FirstLook(p) \/ GoOn(p) \/ WriteFails(p) \/ Crash(p)
    \/ Finished

\* A process runs, and one that waits for a lock that stays free gets it.
Spec == Init /\ [][Next]_vars

FairSpec == Spec /\ \A p \in Processes : WF_vars(GoOn(p))

-----------------------------------------------------------------------------
\* Every card that was ever signed is signed with the key on disk: a profile
\* has one key, for processes that start together, wait for the lock of a
\* file that is gone, or are killed (agent_card_signer.py:62-65, "only one
\* generates").  It is no longer certain when a write fails and the lock file
\* is removed, without a key, under processes that have it open, nor when the
\* file ended within a line the key was appended to.
SignedWithKeyOnDisk == ~ orphaned /\ ~ glued => signed \subseteq {Found}

Rewriting == \E p \in Processes : pc[p] = "filling"

\* The other lines of the profile's .env survive: only a process that is
\* killed, or fails to write, within the rewriting takes them along, and a
\* last line without an end takes up the key.
OthersKept ==
    ~ orphaned /\ ~ glued /\ ~ cut /\ ~ Rewriting => env.others

\* Every request for the card ends, although processes die with the lock.
EveryRequestEnds == \A p \in Processes : pc[p] # "idle" ~> pc[p] = "idle"

=============================================================================
