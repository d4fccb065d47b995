------------------------- MODULE SigningKeysProofs -------------------------
(***************************************************************************)
(* The key of a profile, for any number of gateways that share it: the     *)
(* bounds of its counters, one key for all, no more keys generated than    *)
(* crashes and failures call for, and the other lines of the file kept.    *)
(***************************************************************************)
EXTENDS SigningKeys, FiniteSetTheorems, TLAPS

-----------------------------------------------------------------------------
(* What holds of the lock and of the file, step by step.                   *)

Writer(p) == pc[p] \in {"writing", "filling"}

\* The requests that may still generate a key.
Pending == {p \in Processes : pc[p] \in {"opening", "waiting", "looking"}}

\* A request generates one key at most.
KeysFitRequests == generated + Cardinality(Pending) <= serves

TypeInv == TypeOK /\ KeysFitRequests

\* The lock of a file has one holder, whatever its name leads to.
LockIsExclusive ==
    \A p, q \in Processes : HasLock(p) /\ HasLock(q) /\ fd[p] = fd[q] => p = q

\* Until there is a key, every process that has a lock file open has the one
\* the name leads to.  Once there is one, nobody is writing, and what was
\* signed, or is about to be, is that key.
OneKey ==
    ~ orphaned /\ ~ glued =>
      /\ Found = NoKey => \A p \in Processes : fd[p] # None => fd[p] = lockFile
      /\ Found # NoKey => \A p \in Processes : ~ Writer(p)
      /\ \A p \in Processes : pc[p] = "unlinking" /\ key[p] # NoKey => key[p] = Found
      /\ signed \subseteq {Found}

\* The lines a process rewrites are all of them, and nobody else writes.
LinesSaved ==
    ~ orphaned /\ ~ glued /\ ~ cut =>
      /\ \A p \in Processes : pc[p] = "filling" => saved[p]
      /\ ~ Rewriting => env.others

KeyInv == LockIsExclusive /\ OneKey /\ LinesSaved

-----------------------------------------------------------------------------
(* Files and counts.                                                       *)

\* The constants, as the proofs use them.
LEMMA ConstantFacts ==
    /\ IsFiniteSet(Processes)
    /\ None \notin Inodes
    /\ MaxServes \in Nat /\ MaxCrashes \in Nat /\ MaxFailures \in Nat
    /\ MaxKey = MaxServes
    /\ \A f \in FirstFiles : f \in EnvFile /\ f.key = NoKey /\ f.others
    BY KeysAssumption DEF MaxKey

\* A card is signed with a key, or not at all.
LEMMA ServeSigns ==
    ASSUME NEW k \in 0 .. MaxKey, signed \subseteq 1 .. MaxKey, Serve(k)
    PROVE  signed' \subseteq 1 .. MaxKey
<1>1. k # 0 => k \in 1 .. MaxKey
    BY ConstantFacts
<1>2. signed' = signed \cup ({k} \ {0})
    BY DEF Serve, NoKey
<1> QED
    BY <1>1, <1>2

\* There are more files than processes, so one is not in use.
LEMMA NewFileIsUnused ==
    ASSUME TypeOK
    PROVE  NewFile \in Inodes /\ \A q \in Processes : fd[q] # NewFile
<1> DEFINE used == {fd[q] : q \in Processes}
<1>1. fd \in Surjection(Processes, used)
    BY DEF Surjection, TypeOK
<1>2. IsFiniteSet(used) /\ Cardinality(used) <= Cardinality(Processes)
    BY <1>1, FS_Surjection, ConstantFacts
<1>3. \E i \in Inodes : i \notin used
    <2>1. SUFFICES ASSUME Inodes \subseteq used
                   PROVE  FALSE
        OBVIOUS
    <2>2. IsFiniteSet(Inodes) /\ Cardinality(Inodes) <= Cardinality(used)
        BY <1>2, <2>1, FS_Subset
    <2>3. /\ Cardinality(Inodes) \in Nat /\ Cardinality(used) \in Nat
          /\ Cardinality(Processes) \in Nat
        BY <1>2, <2>2, FS_CardinalityType, ConstantFacts
    <2> QED
        BY <1>2, <2>2, <2>3, KeysAssumption
<1> QED
    BY <1>3 DEF NewFile

\* A step of one process adds it to those that may generate a key, or takes
\* it out.
LEMMA PendingCount ==
    ASSUME pc = [q \in Processes |-> pc[q]], NEW p \in Processes, NEW point,
           pc' = [pc EXCEPT ![p] = point]
    PROVE  /\ Cardinality(Pending) \in Nat /\ Cardinality(Pending') \in Nat
           /\ Cardinality(Pending') <= Cardinality(Pending) + 1
           /\ (p \in Pending \/ point \notin {"opening", "waiting", "looking"})
              => Cardinality(Pending') <= Cardinality(Pending)
           /\ (p \in Pending /\ point \notin {"opening", "waiting", "looking"})
              => Cardinality(Pending') = Cardinality(Pending) - 1
<1>1. \A S : S \subseteq Processes => IsFiniteSet(S) /\ Cardinality(S) \in Nat
    BY ConstantFacts, FS_Subset, FS_CardinalityType
<1>2. IsFiniteSet(Pending) /\ Cardinality(Pending) \in Nat /\ Cardinality(Pending') \in Nat
    BY <1>1 DEF Pending
<1>3. CASE point \in {"opening", "waiting", "looking"}
    <2>1. Pending' = Pending \cup {p}
        BY <1>3 DEF Pending
    <2>2. Cardinality(Pending \cup {p}) = IF p \in Pending THEN Cardinality(Pending)
                                                        ELSE Cardinality(Pending) + 1
        BY <1>2, FS_AddElement
    <2> QED
        BY <1>2, <1>3, <2>1, <2>2
<1>4. CASE point \notin {"opening", "waiting", "looking"}
    <2>1. Pending' = Pending \ {p}
        BY <1>4 DEF Pending
    <2>2. Cardinality(Pending \ {p}) = IF p \in Pending THEN Cardinality(Pending) - 1
                                                      ELSE Cardinality(Pending)
        BY <1>2, FS_RemoveElement
    <2> QED
        BY <1>2, <1>4, <2>1, <2>2
<1> QED
    BY <1>3, <1>4

-----------------------------------------------------------------------------
(* Types.                                                                  *)

\* The gateways start with no request, no lock and a file without a key.
LEMMA InitIsTyped == Init => TypeInv
<1> SUFFICES ASSUME Init PROVE TypeInv
    OBVIOUS
<1>1. TypeOK
    <2>1. env \in EnvFile /\ lockFile = None /\ fd = [p \in Processes |-> None]
        BY ConstantFacts DEF Init
    <2>2. /\ pc = [p \in Processes |-> "idle"] /\ key = [p \in Processes |-> 0]
          /\ saved = [p \in Processes |-> FALSE] /\ signed = {}
        BY DEF Init, NoKey
    <2>3. generated = 0 /\ serves = 0 /\ crashes = 0 /\ failures = 0
        BY DEF Init
    <2>4. cut \in BOOLEAN /\ orphaned \in BOOLEAN /\ glued \in BOOLEAN
        BY DEF Init
    <2>5. \A p \in Processes : fd[p] # None <=> HasLock(p) \/ pc[p] = "waiting"
        BY <2>1, <2>2 DEF HasLock
    <2>6. 0 \in 0 .. MaxKey /\ 0 \in 0 .. MaxServes /\ 0 \in 0 .. MaxCrashes
          /\ 0 \in 0 .. MaxFailures
        BY ConstantFacts
    <2> QED
        BY <2>1, <2>2, <2>3, <2>4, <2>5, <2>6 DEF TypeOK
<1>2. Pending = {}
    BY DEF Init, Pending
<1>3. KeysFitRequests
    BY <1>2, FS_EmptySet DEF Init, KeysFitRequests
<1> QED
    BY <1>1, <1>3 DEF TypeInv

\* The two looks for a key keep the types and the count of keys.
LEMMA LookingKeepsType ==
    ASSUME TypeInv, NEW p \in Processes, FirstLook(p) \/ SecondLook(p)
    PROVE  TypeInv'
<1>0. /\ TypeOK /\ KeysFitRequests
      /\ pc = [q \in Processes |-> pc[q]]
      /\ generated \in Nat /\ serves \in 0 .. MaxServes
    BY ConstantFacts DEF TypeInv, TypeOK
<1>1. CASE FirstLook(p)
    <2>1. TypeOK'
        <3>1. env.key \in 0 .. MaxKey /\ signed \subseteq 1 .. MaxKey
            BY <1>0 DEF TypeOK, EnvFile
        <3>2. signed' \subseteq 1 .. MaxKey
            BY <1>1, <3>1, ServeSigns DEF FirstLook, Found
        <3>3. serves' \in 0 .. MaxServes
            BY <1>0, <1>1, ConstantFacts DEF FirstLook
        <3> QED
            BY <1>0, <1>1, <3>2, <3>3 DEF FirstLook, TypeOK, HasLock, Goto, countVars
    <2>2. /\ generated' = generated /\ serves' = serves + 1
          /\ (UNCHANGED pc \/ pc' = [pc EXCEPT ![p] = "opening"])
        BY <1>1 DEF FirstLook, Goto
    <2>3. KeysFitRequests'
        <3>1. CASE UNCHANGED pc
            <4>1. Pending' = Pending /\ Cardinality(Pending) \in Nat
                BY <3>1, ConstantFacts, FS_Subset, FS_CardinalityType DEF Pending
            <4> QED
                BY <1>0, <2>2, <4>1 DEF KeysFitRequests
        <3>2. CASE pc' = [pc EXCEPT ![p] = "opening"]
            <4>1. /\ Cardinality(Pending) \in Nat /\ Cardinality(Pending') \in Nat
                  /\ Cardinality(Pending') <= Cardinality(Pending) + 1
                BY <1>0, <3>2, PendingCount
            <4> QED
                BY <1>0, <2>2, <4>1 DEF KeysFitRequests
        <3> QED
            BY <2>2, <3>1, <3>2
    <2> QED
        BY <2>1, <2>3 DEF TypeInv
<1>2. CASE SecondLook(p)
    <2>1. p \in Pending
        BY <1>2 DEF SecondLook, Pending
    <2>2. CASE Found # NoKey
        <3>1. pc' = [pc EXCEPT ![p] = "unlinking"] /\ UNCHANGED <<generated, serves>>
            BY <1>2, <2>2 DEF SecondLook, Goto
        <3>2. /\ Cardinality(Pending) \in Nat /\ Cardinality(Pending') \in Nat
              /\ Cardinality(Pending') = Cardinality(Pending) - 1
            BY <1>0, <2>1, <3>1, PendingCount
        <3>3. KeysFitRequests'
            BY <1>0, <3>1, <3>2 DEF KeysFitRequests
        <3>4. TypeOK'
            BY <1>0, <1>2, <2>2, ConstantFacts
            DEF SecondLook, CloseLock, Found, EnvFile, TypeOK, HasLock, Goto, countVars
        <3> QED
            BY <3>3, <3>4 DEF TypeInv
    <2>3. CASE Found = NoKey
        <3>1. /\ pc' = [pc EXCEPT ![p] = "writing"]
              /\ generated' = generated + 1 /\ serves' = serves
            BY <1>2, <2>3 DEF SecondLook, Generate, Goto
        <3>2. /\ Cardinality(Pending) \in Nat /\ Cardinality(Pending') \in Nat
              /\ Cardinality(Pending') = Cardinality(Pending) - 1
            BY <1>0, <2>1, <3>1, PendingCount
        <3>3. KeysFitRequests' /\ generated' \in 0 .. MaxKey
            BY <1>0, <3>1, <3>2, ConstantFacts DEF KeysFitRequests
        <3>4. TypeOK'
            <4>1. /\ pc[p] = "looking" /\ key' = [key EXCEPT ![p] = generated']
                  /\ UNCHANGED <<fd, saved, env, lockFile, signed, serves, countVars>>
                BY <1>2, <2>3 DEF SecondLook, Generate
            <4>2. key' \in [Processes -> 0 .. MaxKey]
                BY <1>0, <3>3, <4>1 DEF TypeOK
            <4>3. \A q \in Processes : fd'[q] # None <=> HasLock(q)' \/ pc'[q] = "waiting"
                BY <1>0, <3>1, <4>1 DEF TypeOK, HasLock
            <4> QED
                BY <1>0, <3>1, <3>3, <4>1, <4>2, <4>3 DEF TypeOK, countVars
        <3> QED
            BY <3>3, <3>4 DEF TypeInv
    <2> QED
        BY <2>2, <2>3
<1> QED
    BY <1>1, <1>2

\* The steps that generate no key.
LEMMA RestKeepsType ==
    ASSUME TypeInv, NEW p \in Processes,
           \/ OpenLock(p) \/ TakeLock(p) \/ AppendKey(p) \/ Truncate(p)
           \/ Fill(p) \/ Unlink(p) \/ WriteFails(p) \/ Crash(p)
    PROVE  TypeInv'
<1>0. /\ TypeOK /\ KeysFitRequests
      /\ pc = [q \in Processes |-> pc[q]]
      /\ generated \in Nat /\ serves \in Nat
    BY ConstantFacts DEF TypeInv, TypeOK
<1>1. KeysFitRequests'
    <2>1. /\ generated' = generated /\ serves' = serves
          /\ \E point : /\ pc' = [pc EXCEPT ![p] = point]
                        /\ \/ p \in Pending
                           \/ point \notin {"opening", "waiting", "looking"}
        BY DEF OpenLock, TakeLock, AppendKey, Truncate, Fill, Unlink, WriteFails, Crash,
               Pending, Goto, countVars
    <2>2. PICK point : /\ pc' = [pc EXCEPT ![p] = point]
                       /\ p \in Pending \/ point \notin {"opening", "waiting", "looking"}
        BY <2>1
    <2>3. /\ Cardinality(Pending) \in Nat /\ Cardinality(Pending') \in Nat
          /\ Cardinality(Pending') <= Cardinality(Pending)
        BY <1>0, <2>2, PendingCount
    <2> QED
        BY <1>0, <2>1, <2>3 DEF KeysFitRequests
<1> USE <1>0, ConstantFacts DEF TypeOK, HasLock, Goto, NoKey, countVars, CloseLock
<1>2. CASE OpenLock(p)
    <2>1. TypeOK'
        BY <1>2, NewFileIsUnused DEF OpenLock
    <2> QED
        BY <1>1, <2>1 DEF TypeInv
<1>3. CASE TakeLock(p)
    BY <1>1, <1>3 DEF TakeLock, TypeInv
<1>4. CASE AppendKey(p)
    <2>1. env' \in EnvFile
        <3>1. /\ env \in EnvFile /\ env.exists \in BOOLEAN /\ env.ended \in BOOLEAN
              /\ env.others \in BOOLEAN /\ key[p] \in 0 .. MaxKey
            BY DEF EnvFile
        <3>2. env' = [env EXCEPT !.key = IF env.ended THEN key[p] ELSE NoKey,
                                 !.text = TRUE, !.ended = TRUE,
                                 !.others = env.others /\ env.ended]
            BY <1>4 DEF AppendKey
        <3>3. (IF env.ended THEN key[p] ELSE NoKey) \in 0 .. MaxKey
            BY <3>1
        <3>4. (env.others /\ env.ended) \in BOOLEAN
            OBVIOUS
        <3> QED
            BY <3>1, <3>2, <3>3, <3>4 DEF EnvFile
    <2>2. TypeOK'
        BY <1>4, <2>1 DEF AppendKey
    <2> QED
        BY <1>1, <2>2 DEF TypeInv
<1>5. CASE Truncate(p)
    <2>1. TypeOK'
        BY <1>5 DEF Truncate, EnvFile
    <2> QED
        BY <1>1, <2>1 DEF TypeInv
<1>6. CASE Fill(p)
    <2>1. TypeOK'
        BY <1>6 DEF Fill, EnvFile
    <2> QED
        BY <1>1, <2>1 DEF TypeInv
<1>7. CASE Unlink(p)
    <2>1. signed' \subseteq 1 .. MaxKey
        <3>1. key[p] \in 0 .. MaxKey /\ signed \subseteq 1 .. MaxKey
            OBVIOUS
        <3>2. Serve(key[p])
            BY <1>7 DEF Unlink
        <3> QED
            BY <3>1, <3>2, ServeSigns
    <2>2. orphaned' \in BOOLEAN
        BY <1>7 DEF Unlink
    <2>3. TypeOK'
        BY <1>7, <2>1, <2>2 DEF Unlink
    <2> QED
        BY <1>1, <2>3 DEF TypeInv
<1>8. CASE WriteFails(p)
    <2>1. TypeOK'
        BY <1>8 DEF WriteFails
    <2> QED
        BY <1>1, <2>1 DEF TypeInv
<1>9. CASE Crash(p)
    <2>1. TypeOK'
        BY <1>9 DEF Crash
    <2> QED
        BY <1>1, <2>1 DEF TypeInv
<1> QED
    BY <1>2, <1>3, <1>4, <1>5, <1>6, <1>7, <1>8, <1>9

\* Every step keeps them.
LEMMA NextKeepsType ==
    ASSUME TypeInv, [Next]_vars
    PROVE  TypeInv'
<1>1. CASE UNCHANGED vars
    BY <1>1 DEF vars, processVars, countVars, TypeInv, TypeOK, HasLock, KeysFitRequests, Pending
<1> QED
    BY <1>1, LookingKeepsType, RestKeepsType DEF Next, GoOn, Finished

\* So they hold throughout.
LEMMA TypeInvariant == Spec => []TypeInv
    BY InitIsTyped, NextKeepsType, PTL DEF Spec

\* Every variable keeps its type; a key is numbered within the requests there
\* may be, because a request generates one at most.
THEOREM TypeCorrect == Spec => []TypeOK
    BY TypeInvariant, PTL DEF TypeInv

-----------------------------------------------------------------------------
(* One key, and the other lines.                                           *)

\* While nothing went wrong with the lock files, one process at most writes.
LEMMA OneWriter ==
    ASSUME TypeOK, LockIsExclusive, OneKey, ~ orphaned, ~ glued,
           NEW p \in Processes, NEW q \in Processes, Writer(p), Writer(q)
    PROVE  p = q
<1>1. HasLock(p) /\ HasLock(q)
    BY DEF Writer, HasLock
<1>2. fd[p] # None /\ fd[q] # None
    BY <1>1 DEF TypeOK
<1>3. Found = NoKey
    BY DEF OneKey
<1>4. fd[p] = fd[q]
    BY <1>2, <1>3 DEF OneKey
<1> QED
    BY <1>1, <1>4 DEF LockIsExclusive

\* A step of one process, at its place in the request.
LEMMA OneMoves ==
    ASSUME TypeOK, NEW p \in Processes, NEW point, Goto(p, point)
    PROVE  pc'[p] = point /\ \A q \in Processes \ {p} : pc'[q] = pc[q]
    BY DEF TypeOK, Goto

\* A lock is taken when nobody has it, and a file that is held is not opened
\* anew under its holder.
LEMMA LockStaysExclusive ==
    ASSUME TypeOK, LockIsExclusive, [Next]_vars
    PROVE  LockIsExclusive'
<1> USE DEF LockIsExclusive, HasLock
<1>1. CASE UNCHANGED vars
    BY <1>1 DEF vars, processVars
<1>2. ASSUME NEW p \in Processes, TakeLock(p)
      PROVE  LockIsExclusive'
    <2>1. /\ pc'[p] = "looking" /\ \A q \in Processes \ {p} : pc'[q] = pc[q]
          /\ fd' = fd /\ \A q \in Processes : HasLock(q) => fd[q] # fd[p]
        BY <1>2, OneMoves DEF TakeLock
    <2> QED
        BY <2>1
<1>3. ASSUME NEW p \in Processes,
             FirstLook(p) \/ OpenLock(p) \/ SecondLook(p) \/ AppendKey(p) \/ Truncate(p)
             \/ Fill(p) \/ Unlink(p) \/ WriteFails(p) \/ Crash(p)
      PROVE  LockIsExclusive'
    <2>1. \A q \in Processes \ {p} : pc'[q] = pc[q] /\ fd'[q] = fd[q]
        BY <1>3 DEF FirstLook, OpenLock, SecondLook, AppendKey, Truncate, Fill, Unlink,
                    WriteFails, Crash, Goto, CloseLock, Generate, TypeOK, countVars
    <2>2. HasLock(p)' => HasLock(p) /\ fd'[p] = fd[p]
        BY <1>3 DEF FirstLook, OpenLock, SecondLook, AppendKey, Truncate, Fill, Unlink,
                    WriteFails, Crash, Goto, CloseLock, Generate, TypeOK, countVars
    <2> QED
        BY <2>1, <2>2
<1> QED
    BY <1>1, <1>2, <1>3 DEF Next, GoOn, Finished

\* What went wrong stays known.
LEMMA FaultsStay ==
    ASSUME [Next]_vars
    PROVE  (orphaned => orphaned') /\ (glued => glued') /\ (cut => cut')
<1>1. CASE UNCHANGED vars
    BY <1>1 DEF vars, countVars
<1>2. ASSUME NEW p \in Processes,
             FirstLook(p) \/ OpenLock(p) \/ TakeLock(p) \/ SecondLook(p) \/ Truncate(p) \/ Fill(p)
      PROVE  orphaned' = orphaned /\ glued' = glued /\ cut' = cut
    BY <1>2 DEF FirstLook, OpenLock, TakeLock, SecondLook, Truncate, Fill, countVars
<1>3. ASSUME NEW p \in Processes, AppendKey(p) \/ Unlink(p) \/ WriteFails(p) \/ Crash(p)
      PROVE  (orphaned => orphaned') /\ (glued => glued') /\ (cut => cut')
    <2>1. CASE AppendKey(p)
        BY <2>1, Zenon DEF AppendKey
    <2>2. CASE Unlink(p)
        BY <2>2, Zenon DEF Unlink
    <2>3. CASE WriteFails(p)
        BY <2>3, Zenon DEF WriteFails
    <2>4. CASE Crash(p)
        BY <2>4, Zenon DEF Crash
    <2> QED
        BY <1>3, <2>1, <2>2, <2>3, <2>4
<1> QED
    BY <1>1, <1>2, <1>3, Zenon DEF Next, GoOn, Finished

\* What a step of the request of p leaves of the key, action by action.
LEMMA OneKeyStays ==
    ASSUME TypeOK, LockIsExclusive, OneKey, [Next]_vars
    PROVE  OneKey'
<1> SUFFICES ASSUME ~ orphaned', ~ glued'
             PROVE  /\ (Found = NoKey => \A q \in Processes : fd[q] # None => fd[q] = lockFile)'
                    /\ (Found # NoKey => \A q \in Processes : ~ Writer(q))'
                    /\ (\A q \in Processes :
                          pc[q] = "unlinking" /\ key[q] # NoKey => key[q] = Found)'
                    /\ (signed \subseteq {Found})'
    BY Zenon DEF OneKey
<1>0. ~ orphaned /\ ~ glued
    BY FaultsStay
<1> DEFINE OpenAreOne == Found = NoKey => \A q \in Processes : fd[q] # None => fd[q] = lockFile
           NobodyWrites == Found # NoKey => \A q \in Processes : ~ Writer(q)
           ToUnlink == \A q \in Processes :
                         pc[q] = "unlinking" /\ key[q] # NoKey => key[q] = Found
<1>1. OpenAreOne /\ NobodyWrites /\ ToUnlink /\ signed \subseteq {Found}
    BY <1>0, Zenon DEF OneKey
<1>2. /\ signed \subseteq 1 .. MaxKey /\ MaxKey \in Nat
      /\ Found = NoKey => signed = {}
    BY <1>1, ConstantFacts DEF TypeOK, NoKey
<1>3. CASE UNCHANGED vars
    BY <1>1, <1>3 DEF vars, processVars, Found, Writer
<1>4. ASSUME NEW p \in Processes, FirstLook(p)
      PROVE  (OpenAreOne /\ NobodyWrites /\ ToUnlink /\ signed \subseteq {Found})'
    BY <1>1, <1>4 DEF FirstLook, Serve, Found, Writer, Goto, TypeOK
<1>5. ASSUME NEW p \in Processes, OpenLock(p)
      PROVE  (OpenAreOne /\ NobodyWrites /\ ToUnlink /\ signed \subseteq {Found})'
    <2>1. lockFile = None /\ Found = NoKey => \A q \in Processes : fd[q] = None
        BY <1>1
    <2>2. OpenAreOne'
        BY <1>1, <1>5, <2>1 DEF OpenLock, Found, TypeOK
    <2> QED
        BY <1>1, <1>5, <2>2 DEF OpenLock, Found, Writer, Goto, TypeOK
<1>6. ASSUME NEW p \in Processes, TakeLock(p)
      PROVE  (OpenAreOne /\ NobodyWrites /\ ToUnlink /\ signed \subseteq {Found})'
    BY <1>1, <1>6 DEF TakeLock, Found, Writer, Goto, TypeOK
<1>7. ASSUME NEW p \in Processes, SecondLook(p)
      PROVE  (OpenAreOne /\ NobodyWrites /\ ToUnlink /\ signed \subseteq {Found})'
    BY <1>1, <1>7 DEF SecondLook, Generate, CloseLock, Found, Writer, Goto, TypeOK
<1>8. ASSUME NEW p \in Processes, AppendKey(p) \/ Fill(p)
      PROVE  (OpenAreOne /\ NobodyWrites /\ ToUnlink /\ signed \subseteq {Found})'
    <2>1. Writer(p) /\ Found = NoKey
        BY <1>1, <1>8 DEF AppendKey, Fill, Writer
    <2>2. \A q \in Processes : Writer(q) => q = p
        BY <1>0, <2>1, OneWriter
    <2>3. /\ pc'[p] = "unlinking" /\ \A q \in Processes \ {p} : pc'[q] = pc[q]
          /\ fd'[p] = None /\ \A q \in Processes \ {p} : fd'[q] = fd[q]
          /\ key' = key /\ lockFile' = lockFile /\ signed' = signed
        BY <1>8 DEF AppendKey, Fill, Goto, CloseLock, TypeOK
    <2>4. Found' = key[p]
        <3>1. env \in EnvFile
            BY DEF TypeOK
        <3>2. CASE Fill(p)
            BY <3>1, <3>2 DEF Fill, Found, EnvFile
        <3>3. CASE AppendKey(p)
            BY <3>1, <3>3 DEF AppendKey, Found, EnvFile
        <3> QED
            BY <1>8, <3>2, <3>3
    <2>5. OpenAreOne'
        BY <1>1, <2>1, <2>3
    <2>6. NobodyWrites'
        BY <2>2, <2>3 DEF Writer
    <2>7. ToUnlink'
        BY <1>1, <2>1, <2>3, <2>4
    <2> QED
        BY <1>2, <2>1, <2>3, <2>5, <2>6, <2>7
<1>9. ASSUME NEW p \in Processes, Truncate(p)
      PROVE  (OpenAreOne /\ NobodyWrites /\ ToUnlink /\ signed \subseteq {Found})'
    <2>1. Writer(p) /\ Found = NoKey /\ Found' = NoKey
        BY <1>1, <1>9 DEF Truncate, Writer, Found
    <2> QED
        BY <1>1, <1>9, <2>1 DEF Truncate, Writer, Goto, TypeOK
<1>10. ASSUME NEW p \in Processes, Unlink(p)
       PROVE  (OpenAreOne /\ NobodyWrites /\ ToUnlink /\ signed \subseteq {Found})'
    <2>1. /\ key[p] # NoKey => key[p] = Found
          /\ key[p] # NoKey \/ \A q \in Processes : fd[q] = None
        BY <1>1, <1>10 DEF Unlink
    <2> QED
        BY <1>1, <1>10, <2>1 DEF Unlink, Serve, Found, Writer, Goto, TypeOK
<1>11. ASSUME NEW p \in Processes, WriteFails(p) \/ Crash(p)
       PROVE  (OpenAreOne /\ NobodyWrites /\ ToUnlink /\ signed \subseteq {Found})'
    <2>1. CASE WriteFails(p)
        BY <1>1, <2>1 DEF WriteFails, CloseLock, Found, Writer, Goto, TypeOK
    <2>2. CASE Crash(p)
        BY <1>1, <2>2 DEF Crash, CloseLock, Found, Writer, Goto, TypeOK
    <2> QED
        BY <1>11, <2>1, <2>2
<1> QED
    BY <1>3, <1>4, <1>5, <1>6, <1>7, <1>8, <1>9, <1>10, <1>11 DEF Next, GoOn, Finished

\* What a process is to rewrite it has read from a whole file, and it alone
\* writes.
LEMMA LinesStaySaved ==
    ASSUME TypeOK, LockIsExclusive, OneKey, LinesSaved, [Next]_vars
    PROVE  LinesSaved'
<1> SUFFICES ASSUME ~ orphaned', ~ glued', ~ cut'
             PROVE  /\ (\A q \in Processes : pc[q] = "filling" => saved[q])'
                    /\ (~ Rewriting => env.others)'
    BY Zenon DEF LinesSaved
<1>0. ~ orphaned /\ ~ glued /\ ~ cut
    BY FaultsStay
<1> DEFINE AreSaved == \A q \in Processes : pc[q] = "filling" => saved[q]
           AreThere == ~ Rewriting => env.others
<1>1. AreSaved /\ AreThere
    BY <1>0, Zenon DEF LinesSaved
<1>2. CASE UNCHANGED vars
    BY <1>1, <1>2 DEF vars, processVars, Rewriting
<1>3. ASSUME NEW p \in Processes,
             FirstLook(p) \/ OpenLock(p) \/ TakeLock(p) \/ SecondLook(p) \/ Unlink(p)
             \/ WriteFails(p) \/ Crash(p)
      PROVE  (AreSaved /\ AreThere)'
    <2>1. /\ pc[p] # "filling" /\ pc'[p] # "filling" /\ env' = env
          /\ \A q \in Processes \ {p} : pc'[q] = pc[q] /\ saved'[q] = saved[q]
        BY <1>3 DEF FirstLook, OpenLock, TakeLock, SecondLook, Unlink, WriteFails, Crash,
                    Generate, CloseLock, Goto, TypeOK, countVars
    <2> QED
        BY <1>1, <2>1 DEF Rewriting
<1>4. ASSUME NEW p \in Processes, AppendKey(p) \/ Truncate(p) \/ Fill(p)
      PROVE  (AreSaved /\ AreThere)'
    <2>1. Writer(p)
        BY <1>4 DEF AppendKey, Truncate, Fill, Writer
    <2>2. \A q \in Processes \ {p} : pc[q] # "filling"
        BY <1>0, <2>1, OneWriter DEF Writer
    <2>3. CASE AppendKey(p)
        BY <1>1, <2>2, <2>3 DEF AppendKey, Rewriting, Goto, TypeOK, EnvFile
    <2>4. CASE Truncate(p)
        BY <1>1, <2>2, <2>4 DEF Truncate, Rewriting, Goto, TypeOK
    <2>5. CASE Fill(p)
        BY <1>1, <2>2, <2>5 DEF Fill, Rewriting, Goto, TypeOK, EnvFile
    <2> QED
        BY <1>4, <2>3, <2>4, <2>5
<1> QED
    BY <1>2, <1>3, <1>4 DEF Next, GoOn, Finished

\* The lock excludes, the key in use is the one on disk, and the other lines are
\* there or being rewritten, throughout, unless a fault the properties except.
LEMMA KeyInvariant == Spec => [](TypeInv /\ KeyInv)
<1>1. Init => KeyInv
    BY ConstantFacts DEF Init, KeyInv, LockIsExclusive, HasLock, OneKey, Found, Writer, LinesSaved,
                         Rewriting
<1>2. ASSUME TypeInv, KeyInv, [Next]_vars
      PROVE  KeyInv'
    BY <1>2, LockStaysExclusive, OneKeyStays, LinesStaySaved DEF TypeInv, KeyInv
<1> QED
    BY <1>1, <1>2, InitIsTyped, NextKeepsType, PTL DEF Spec

\* Every card is signed with the key on disk, whatever number of processes
\* start together, however they come by a lock file that is removed under
\* them, and whenever they are killed; unless a lock file others have open is
\* removed without a key, or the key was appended to another line.
THEOREM OneKeyForAll == Spec => []SignedWithKeyOnDisk
<1>1. KeyInv => SignedWithKeyOnDisk
    BY DEF KeyInv, OneKey, SignedWithKeyOnDisk
<1> QED
    BY <1>1, KeyInvariant, PTL

\* The other lines of the profile's file are kept, unless in addition a
\* rewriting was cut short, or is under way.
THEOREM OtherLinesAreKept == Spec => []OthersKept
<1>1. KeyInv => OthersKept
    BY Zenon DEF KeyInv, LinesSaved, OthersKept
<1> QED
    BY <1>1, KeyInvariant, PTL

-----------------------------------------------------------------------------
(* A key is generated in vain only by a process that is killed or cannot   *)
(* write.                                                                  *)

WrittenOrWriting == Found # NoKey \/ \E p \in Processes : Writer(p)

\* The one key that is not lost.
Standing == IF WrittenOrWriting THEN 1 ELSE 0

\* Every key that was generated is on disk, about to be written, or was lost to
\* a crash or a failed write.
KeysCounted ==
    ~ orphaned /\ ~ glued =>
      generated <= crashes + failures + Standing

\* Who writes has a key to write.
WritersHaveKeys == \A p \in Processes : Writer(p) => key[p] # NoKey

\* A bound remains one as it grows.
LEMMA MoreIsEnough ==
    ASSUME NEW a \in Nat, NEW b \in Nat, NEW c \in Nat, NEW d \in Nat, a <= b + c
    PROVE  a <= b + c + d
    OBVIOUS

\* A step that generates no key, ends no writing and takes no key from the file
\* leaves the count right.
LEMMA NothingToCount ==
    ASSUME KeysCounted, ~ orphaned, ~ glued,
           generated \in Nat, crashes \in Nat, failures \in Nat,
           generated' = generated, crashes' = crashes, failures' = failures,
           WrittenOrWriting => WrittenOrWriting'
    PROVE  KeysCounted'
<1>1. generated <= crashes + failures + Standing
    BY Zenon DEF KeysCounted
<1>2. generated' <= crashes' + failures' + Standing'
    BY <1>1 DEF Standing
<1> QED
    BY <1>2, Zenon DEF KeysCounted

\* Each step counts what it generates, writes or loses.
LEMMA KeysStayCounted ==
    ASSUME TypeOK, LockIsExclusive, OneKey, WritersHaveKeys, KeysCounted, [Next]_vars
    PROVE  KeysCounted'
<1> SUFFICES ASSUME ~ orphaned', ~ glued'
             PROVE  KeysCounted'
    BY Zenon DEF KeysCounted
<1>0. /\ ~ orphaned /\ ~ glued
      /\ generated \in Nat /\ crashes \in Nat /\ failures \in Nat
    BY FaultsStay, ConstantFacts DEF TypeOK
<1>1. generated <= crashes + failures + Standing
    BY <1>0, Zenon DEF KeysCounted
<1>2. CASE UNCHANGED vars
    BY <1>0, <1>2, NothingToCount DEF vars, processVars, countVars, WrittenOrWriting, Writer, Found
<1>3. ASSUME NEW p \in Processes,
             FirstLook(p) \/ OpenLock(p) \/ TakeLock(p) \/ Unlink(p)
      PROVE  KeysCounted'
    <2>1. /\ env' = env /\ generated' = generated /\ crashes' = crashes /\ failures' = failures
          /\ ~ Writer(p) /\ \A q \in Processes \ {p} : pc'[q] = pc[q]
        BY <1>3 DEF FirstLook, OpenLock, TakeLock, Unlink, Goto, Writer, TypeOK, countVars
    <2>2. WrittenOrWriting => WrittenOrWriting'
        BY <2>1 DEF WrittenOrWriting, Writer, Found
    <2> QED
        BY <1>0, <2>1, <2>2, NothingToCount
<1>4. ASSUME NEW p \in Processes, SecondLook(p)
      PROVE  KeysCounted'
    <2>1. /\ env' = env /\ crashes' = crashes /\ failures' = failures
          /\ pc[p] = "looking" /\ \A q \in Processes \ {p} : pc'[q] = pc[q]
        BY <1>4 DEF SecondLook, Generate, Goto, TypeOK, countVars
    <2>2. CASE generated' = generated
        <3>1. WrittenOrWriting => WrittenOrWriting'
            BY <2>1 DEF WrittenOrWriting, Writer, Found
        <3> QED
            BY <1>0, <2>1, <2>2, <3>1, NothingToCount
    <2>3. CASE Found = NoKey /\ Generate(p)
        <3>1. \A q \in Processes : ~ Writer(q)
            <4>1. ASSUME NEW q \in Processes, Writer(q)
                  PROVE  FALSE
                <5>1. HasLock(q) /\ HasLock(p) /\ p # q
                    BY <2>1, <4>1 DEF HasLock, Writer
                <5>2. fd[q] = fd[p]
                    BY <1>0, <2>3, <5>1 DEF OneKey, TypeOK
                <5> QED
                    BY <5>1, <5>2 DEF LockIsExclusive
            <4> QED
                BY <4>1
        <3>2. ~ WrittenOrWriting
            BY <2>3, <3>1 DEF WrittenOrWriting
        <3>3. generated' = generated + 1 /\ Writer(p)'
            BY <2>3 DEF Generate, Goto, Writer, TypeOK
        <3>4. WrittenOrWriting'
            BY <3>3 DEF WrittenOrWriting
        <3>5. generated <= crashes + failures
            BY <1>0, <1>1, <3>2 DEF Standing
        <3>6. generated' <= crashes' + failures' + 1
            BY <1>0, <2>1, <3>3, <3>5
        <3> QED
            BY <3>4, <3>6 DEF KeysCounted, Standing
    <2> QED
        BY <1>4, <2>2, <2>3 DEF SecondLook
<1>5. ASSUME NEW p \in Processes, AppendKey(p) \/ Fill(p)
      PROVE  KeysCounted'
    <2>1. /\ generated' = generated /\ crashes' = crashes /\ failures' = failures
          /\ Writer(p)
        BY <1>5 DEF AppendKey, Fill, Writer, countVars
    <2>2. Found' = key[p]
        <3>1. env \in EnvFile
            BY DEF TypeOK
        <3>2. CASE Fill(p)
            BY <3>1, <3>2 DEF Fill, Found, EnvFile
        <3>3. CASE AppendKey(p)
            BY <3>1, <3>3 DEF AppendKey, Found, EnvFile
        <3> QED
            BY <1>5, <3>2, <3>3
    <2>3. WrittenOrWriting'
        BY <2>1, <2>2 DEF WritersHaveKeys, WrittenOrWriting
    <2> QED
        BY <1>0, <2>1, <2>3, NothingToCount
<1>6. ASSUME NEW p \in Processes, Truncate(p)
      PROVE  KeysCounted'
    <2>1. /\ generated' = generated /\ crashes' = crashes /\ failures' = failures
          /\ Writer(p)'
        BY <1>6 DEF Truncate, Writer, Goto, TypeOK, countVars
    <2>2. WrittenOrWriting'
        BY <2>1 DEF WrittenOrWriting
    <2> QED
        BY <1>0, <2>1, <2>2, NothingToCount
<1>7. ASSUME NEW p \in Processes, WriteFails(p) \/ Crash(p)
      PROVE  KeysCounted'
    <2>1. /\ generated' = generated
          /\ crashes' + failures' = crashes + failures + 1
          /\ crashes' \in Nat /\ failures' \in Nat
        <3>1. CASE WriteFails(p)
            BY <1>0, <3>1 DEF WriteFails
        <3>2. CASE Crash(p)
            BY <1>0, <3>2 DEF Crash
        <3> QED
            BY <1>7, <3>1, <3>2
    <2>2. generated <= crashes + failures + 1
        BY <1>0, <1>1 DEF Standing
    <2>3. generated' <= crashes' + failures'
        BY <1>0, <2>1, <2>2
    <2>4. generated' <= crashes' + failures' + Standing'
        <3>1. Standing' \in Nat /\ generated' \in Nat
            BY <1>0, <2>1 DEF Standing
        <3> QED
            BY <2>1, <2>3, <3>1, MoreIsEnough
    <2> QED
        BY <2>4, Zenon DEF KeysCounted
<1> QED
    BY <1>2, <1>3, <1>4, <1>5, <1>6, <1>7 DEF Next, GoOn, Finished

\* Nobody begins to write without a key.
LEMMA WritersKeepKeys ==
    ASSUME TypeOK, WritersHaveKeys, [Next]_vars
    PROVE  WritersHaveKeys'
<1> USE DEF WritersHaveKeys, Writer
<1>1. CASE UNCHANGED vars
    BY <1>1 DEF vars, processVars
<1>2. ASSUME NEW p \in Processes, SecondLook(p)
      PROVE  WritersHaveKeys'
    <2>1. /\ \A q \in Processes \ {p} : pc'[q] = pc[q] /\ key'[q] = key[q]
          /\ generated \in Nat
        BY <1>2, ConstantFacts DEF SecondLook, Generate, CloseLock, Goto, TypeOK
    <2>2. Writer(p)' => key'[p] = generated + 1
        BY <1>2 DEF SecondLook, Generate, CloseLock, Goto, TypeOK
    <2> QED
        BY <2>1, <2>2 DEF NoKey
<1>3. ASSUME NEW p \in Processes,
             FirstLook(p) \/ OpenLock(p) \/ TakeLock(p) \/ AppendKey(p) \/ Truncate(p)
             \/ Fill(p) \/ Unlink(p) \/ WriteFails(p) \/ Crash(p)
      PROVE  WritersHaveKeys'
    <2>1. \A q \in Processes \ {p} : pc'[q] = pc[q] /\ key'[q] = key[q]
        BY <1>3 DEF FirstLook, OpenLock, TakeLock, AppendKey, Truncate, Fill, Unlink,
                    WriteFails, Crash, Goto, TypeOK
    <2>2. Writer(p)' => Writer(p) /\ key'[p] = key[p]
        BY <1>3 DEF FirstLook, OpenLock, TakeLock, AppendKey, Truncate, Fill, Unlink,
                    WriteFails, Crash, Goto, TypeOK
    <2> QED
        BY <2>1, <2>2
<1> QED
    BY <1>1, <1>2, <1>3 DEF Next, GoOn, Finished

\* A profile comes by more than one key only at the price of the ones before:
\* beyond the first, each took a process killed, or a write failed, unless
\* the lock or the file went wrong as above.
KeysAreNotWasted ==
    ~ orphaned /\ ~ glued => generated <= 1 + crashes + failures

\* "only one generates" (agent_card_signer.py:62-65), for processes that start
\* together and for those that are killed with the lock or while they write:
\* without crashes and failures, one key is all that is ever generated.
THEOREM OneGenerates == Spec => []KeysAreNotWasted
<1>1. Init => WritersHaveKeys /\ KeysCounted
    BY DEF Init, WritersHaveKeys, Writer, KeysCounted, Standing
<1>2. ASSUME TypeInv, KeyInv, WritersHaveKeys, KeysCounted, [Next]_vars
      PROVE  WritersHaveKeys' /\ KeysCounted'
    BY <1>2, WritersKeepKeys, KeysStayCounted DEF TypeInv, KeyInv
<1>3. TypeInv /\ KeysCounted => KeysAreNotWasted
    BY ConstantFacts DEF TypeInv, TypeOK, KeysCounted, Standing, KeysAreNotWasted
<1> QED
    BY <1>1, <1>2, <1>3, KeyInvariant, PTL DEF Spec

=============================================================================
