------------------------ MODULE AuditRotationProofs ------------------------
(***************************************************************************)
(* The rotation of the audit log, for any number of backups and any size   *)
(* of a file, however many operations fail and however often the process   *)
(* is killed: the size of the files, the order of what they hold, and what *)
(* may be missing.                                                         *)
(***************************************************************************)
EXTENDS AuditRotation, FiniteSetTheorems, TLAPS

Files == 0 .. MaxBackups
Backups == 1 .. MaxBackups

-----------------------------------------------------------------------------
(* The invariants.                                                         *)

\* A fault is counted once as a rotation that did not come to its end or as
\* something stuck; an event that is being logged has not been written.
CountsInv ==
    /\ undone + stuck <= faults
    /\ step # "idle" => entries >= 1 /\ entries \notin written

\* A log that is appended to is not full, but for rotations left undone.
SizeInv ==
    /\ SizeIsBounded
    /\ step = "append" => Len(files[0]) < PerFile + undone

\* What is on disk has been written, in this order.
OrderInv ==
    /\ \A i \in Files : \A j \in DOMAIN files[i] : files[i][j] > 0 => files[i][j] \in written
    /\ \A i, k \in Files : \A j \in DOMAIN files[i], l \in DOMAIN files[k] :
         /\ i > k \/ (i = k /\ j < l)
         /\ files[i][j] > 0 /\ files[k][l] > 0
         => files[i][j] < files[k][l]

Rotating == step \in {"shift", "rename"}

\* Every line is an entry, a backup is a full file, and so is a log that is
\* rotated, which finds the place before the one the loop is at empty.
Whole ==
    /\ \A i \in Files : \A j \in DOMAIN files[i] : files[i][j] > 0
    /\ \A i \in Backups : files[i] # <<>> => Len(files[i]) >= PerFile
    /\ step = "remove" \/ Rotating => Len(files[0]) >= PerFile
    /\ step = "rename" => place = 0
    /\ Rotating /\ place + 1 < MaxBackups => files[place + 1] = <<>>

Holds(e) == \E i \in Files : \E j \in DOMAIN files[i] : files[i][j] = e

Lost == \E e \in written : ~ Holds(e)

\* What is lost is older than what is on disk.
NoGap == \A e, f \in written : Holds(f) /\ f < e => Holds(e)

Holes(m) == {i \in 1 .. m : files[i] = <<>>}

\* Every hole below a backup, or anywhere once entries are lost, is owed to a
\* rotation left undone or, above the place the loop is at, to this one.
FewHoles ==
    \A m \in Backups :
      /\ files[m] # <<>> /\ (Rotating => m <= place + 1) => Cardinality(Holes(m)) <= undone
      /\ files[m] # <<>> \/ (Lost /\ m = MaxBackups) =>
           Cardinality(Holes(m)) <= undone + (IF Rotating THEN 1 ELSE 0)

\* All of it while nothing is stuck.
LogInv == stuck = 0 => Whole /\ NoGap /\ FewHoles

-----------------------------------------------------------------------------
(* Files.                                                                  *)

Lines == Torn .. MaxEvents

\* The constants and the marks of torn and joined lines, as the proofs use them.
LEMMA ConstantFacts ==
    /\ MaxBackups \in Nat /\ MaxBackups > 0
    /\ PerFile \in Nat /\ PerFile > 0
    /\ MaxEvents \in Nat /\ MaxFaults \in Nat
    /\ Torn = -1 /\ Junk = 0 /\ Torn \in Lines /\ Junk \in Lines
    /\ \A e \in 0 .. MaxEvents : e \in Lines
    BY AuditAssumption DEF Lines, Torn, Junk

\* A file is a sequence of numbered lines.
LEMMA FileFacts ==
    ASSUME TypeOK, NEW i \in Files
    PROVE  /\ files[i] \in Seq(Lines) /\ Len(files[i]) \in Nat
           /\ DOMAIN files[i] = 1 .. Len(files[i])
           /\ \A j \in DOMAIN files[i] : files[i][j] \in Lines /\ files[i][j] \in Int
           /\ files[i] = <<>> <=> Len(files[i]) = 0
<1>1. files[i] \in Seq(Lines)
    BY DEF TypeOK, Files, Lines
<1>2. \A x \in Lines : x \in Int
    BY ConstantFacts DEF Lines
<1> QED
    BY <1>1, <1>2

\* Renaming a file.
LEMMA MoveFacts ==
    ASSUME TypeOK, NEW k \in 0 .. MaxBackups - 1, Move(k, k + 1)
    PROVE  /\ k \in Files /\ k + 1 \in Files /\ k # k + 1
           /\ files' \in [Files -> Seq(Lines)]
           /\ files'[k + 1] = files[k] /\ files'[k] = <<>>
           /\ \A i \in Files \ {k, k + 1} : files'[i] = files[i]
<1>1. k \in Files /\ k + 1 \in Files /\ k # k + 1
    BY ConstantFacts DEF Files
<1>2. files \in [Files -> Seq(Lines)] /\ <<>> \in Seq(Lines) /\ files[k] \in Seq(Lines)
    BY <1>1 DEF TypeOK, Files, Lines
<1> QED
    BY <1>1, <1>2 DEF Move

\* Writing a line at the end of a file.
LEMMA ExtendedFacts ==
    ASSUME NEW file \in Seq(Lines), NEW line \in Lines
    PROVE  /\ Extended(file, line) \in Seq(Lines)
           /\ Len(Extended(file, line)) <= Len(file) + 1
           /\ Len(Extended(file, line)) >= Len(file)
           /\ \/ /\ ~ EndsTorn(file)
                 /\ Len(Extended(file, line)) = Len(file) + 1
                 /\ \A j \in 1 .. Len(file) : Extended(file, line)[j] = file[j]
                 /\ Extended(file, line)[Len(file) + 1] = line
              \/ /\ EndsTorn(file) /\ Len(file) > 0 /\ file[Len(file)] = Torn
                 /\ Len(Extended(file, line)) = Len(file)
                 /\ \A j \in 1 .. Len(file) - 1 : Extended(file, line)[j] = file[j]
                 /\ Extended(file, line)[Len(file)] = Junk
<1>0. Len(file) \in Nat /\ Junk \in Lines
    BY ConstantFacts
<1>1. CASE EndsTorn(file)
    <2>1. Len(file) > 0 /\ file[Len(file)] = Torn
        BY <1>0, <1>1 DEF EndsTorn
    <2>2. Extended(file, line) = [file EXCEPT ![Len(file)] = Junk]
        BY <1>1 DEF Extended
    <2> QED
        BY <1>0, <1>1, <2>1, <2>2
<1>2. CASE ~ EndsTorn(file)
    <2>1. Extended(file, line) = Append(file, line)
        BY <1>2 DEF Extended
    <2> QED
        BY <1>0, <1>2, <2>1
<1> QED
    BY <1>1, <1>2

-----------------------------------------------------------------------------
(* Types and counts.                                                       *)

TypeInv == TypeOK /\ CountsInv

\* The log starts empty and every counter at zero.
LEMMA InitIsTyped == Init => TypeInv
<1> SUFFICES ASSUME Init PROVE TypeInv
    OBVIOUS
<1>1. <<>> \in Seq(Torn .. MaxEvents)
    OBVIOUS
<1>2. /\ 0 \in 0 .. MaxBackups - 1 /\ 0 \in 0 .. MaxEvents /\ 0 \in 0 .. MaxFaults
    BY ConstantFacts
<1> QED
    BY <1>1, <1>2 DEF Init, TypeInv, TypeOK, CountsInv

\* Every operation of log_event(), done, undone or cut short, keeps the types
\* and moves the counters within their bounds.
LEMMA NextKeepsType ==
    ASSUME TypeInv, [Next]_vars
    PROVE  TypeInv'
<1>0. /\ TypeOK /\ CountsInv
      /\ place \in Int /\ entries \in Int /\ faults \in Int /\ undone \in Int /\ stuck \in Int
      /\ entries >= 0 /\ undone >= 0 /\ stuck >= 0
      /\ files \in [Files -> Seq(Lines)]
    BY DEF TypeInv, TypeOK, Files, Lines
<1> USE <1>0, ConstantFacts
<1> DEFINE Bounded == /\ place \in 0 .. MaxBackups - 1 /\ entries \in 0 .. MaxEvents
                      /\ faults \in 0 .. MaxFaults /\ undone \in 0 .. MaxFaults
                      /\ stuck \in 0 .. MaxFaults /\ undone + stuck <= faults
                      /\ step \in {"idle", "remove", "shift", "rename", "append"}
                      /\ step # "idle" => entries >= 1 /\ entries \notin written
                      /\ written \subseteq 1 .. entries
<1>1. Bounded
    BY DEF TypeOK, CountsInv
<1>2. ASSUME files' \in [Files -> Seq(Lines)], Bounded'
      PROVE  TypeInv'
    BY <1>2 DEF TypeInv, TypeOK, CountsInv, Files, Lines
<1> HIDE <1>0
<1>3. CASE UNCHANGED vars \/ Finished
    BY <1>0, <1>3 DEF vars, Finished, TypeInv, TypeOK, CountsInv
<1>4. CASE LogEvent
    <2>1. Bounded'
        BY <1>1, <1>4 DEF LogEvent
    <2> QED
        BY <1>0, <1>2, <1>4, <2>1 DEF LogEvent
<1>5. CASE RemoveOldest
    <2>1. files' \in [Files -> Seq(Lines)]
        <3>1. <<>> \in Seq(Lines)
            OBVIOUS
        <3>2. \/ files' = files
              \/ files' = [files EXCEPT ![MaxBackups] = <<>>]
            BY <1>5 DEF RemoveOldest
        <3> QED
            BY <1>0, <3>1, <3>2
    <2>2. Bounded'
        BY <1>1, <1>5 DEF RemoveOldest, Fault
    <2> QED
        BY <1>2, <2>1, <2>2
<1>6. CASE Shift
    <2>1. place > 0 => place \in 0 .. MaxBackups - 1
        BY <1>1
    <2>2. files' \in [Files -> Seq(Lines)]
        BY <1>0, <1>6, <2>1, MoveFacts DEF Shift
    <2>3. Bounded'
        <3>1. UNCHANGED <<entries, written, undone>>
            BY <1>6 DEF Shift
        <3>2. /\ place' \in 0 .. MaxBackups - 1
              /\ step' \in {"shift", "rename"} /\ step = "shift"
            BY <1>1, <1>6 DEF Shift
        <3>3. \/ UNCHANGED <<faults, stuck>>
              \/ faults < MaxFaults /\ faults' = faults + 1 /\ stuck' = stuck + 1
            BY <1>6 DEF Shift, Fault
        <3> QED
            BY <1>1, <3>1, <3>2, <3>3
    <2> QED
        BY <1>2, <2>2, <2>3
<1>7. CASE RenameLog
    <2>1. files' \in [Files -> Seq(Lines)]
        <3>1. 0 \in 0 .. MaxBackups - 1 /\ 0 + 1 = 1
            OBVIOUS
        <3>2. Move(0, 1) => files' \in [Files -> Seq(Lines)]
            BY <1>0, <3>1, MoveFacts
        <3> QED
            BY <1>0, <1>7, <3>2 DEF RenameLog
    <2>2. Bounded'
        BY <1>1, <1>7 DEF RenameLog, Fault
    <2> QED
        BY <1>2, <2>1, <2>2
<1>8. CASE AppendLine
    <2>1. files[0] \in Seq(Lines) /\ 0 \in Files /\ entries \in Lines
        BY <1>0, <1>1 DEF Files
    <2>2. Extended(files[0], entries) \in Seq(Lines) /\ Append(files[0], Torn) \in Seq(Lines)
        BY <2>1, ExtendedFacts
    <2>3. files' \in [Files -> Seq(Lines)]
        BY <1>0, <1>8, <2>2 DEF AppendLine
    <2>4. Bounded'
        <3>1. /\ step = "append" /\ step' = "idle"
              /\ UNCHANGED <<place, entries, undone>>
              /\ written' = written \/ written' = written \cup {entries}
              /\ \/ UNCHANGED <<faults, stuck>>
                 \/ Fault /\ (stuck' = stuck \/ stuck' = stuck + 1)
            BY <1>8 DEF AppendLine
        <3>2. written' \subseteq 1 .. entries'
            <4>1. entries \in 1 .. entries /\ written \subseteq 1 .. entries
                BY <1>1, <3>1, <1>0
            <4> QED
                BY <3>1, <4>1
        <3> QED
            BY <1>1, <3>1, <3>2 DEF Fault
    <2> QED
        BY <1>2, <2>3, <2>4
<1>9. CASE Kill
    <2>1. Bounded'
        BY <1>1, <1>9 DEF Kill, Fault
    <2> QED
        BY <1>0, <1>2, <1>9, <2>1 DEF Kill
<1> QED
    BY <1>3, <1>4, <1>5, <1>6, <1>7, <1>8, <1>9 DEF Next, Rotate

\* So the types hold throughout.
LEMMA TypeInvariant == Spec => []TypeInv
    BY InitIsTyped, NextKeepsType, PTL DEF Spec

\* Every file is a sequence of lines, and every counter keeps its bound.
THEOREM TypeCorrect == Spec => []TypeOK
    BY TypeInvariant, PTL DEF TypeInv

-----------------------------------------------------------------------------
(* The size of the files.                                                  *)

\* No operation lets a file hold more than its limit and what the operations
\* left undone added: the log is rotated before it is written to when it is full.
LEMMA NextKeepsSize ==
    ASSUME TypeInv, SizeInv, [Next]_vars
    PROVE  SizeInv'
<1>0. TypeOK /\ undone \in Nat /\ 0 \in Files
    BY ConstantFacts DEF TypeInv, TypeOK, Files
<1>a. \A i \in Files : Len(files[i]) \in Nat /\ Len(files[i]) <= PerFile + undone
    BY <1>0, FileFacts DEF SizeInv, SizeIsBounded, Files
<1>b. step = "append" => Len(files[0]) < PerFile + undone
    BY DEF SizeInv
<1> USE <1>0, ConstantFacts
<1>1. ASSUME undone' = undone \/ undone' = undone + 1,
             \A i \in Files : \/ files'[i] = files[i] \/ files'[i] = <<>>
                              \/ \E k \in Files : files'[i] = files[k],
             step' = "append" => Len(files'[0]) < PerFile + undone'
      PROVE  SizeInv'
    <2>1. \A i \in Files : Len(files'[i]) <= PerFile + undone'
        BY <1>a, <1>1
    <2> QED
        BY <1>1, <2>1 DEF SizeInv, SizeIsBounded, Files
<1>2. CASE UNCHANGED vars \/ Finished
    BY <1>1, <1>2, <1>b DEF vars, Finished
<1>3. CASE LogEvent
    BY <1>1, <1>3, <1>a DEF LogEvent
<1>4. CASE RemoveOldest
    <2>1. \A i \in Files : files'[i] = files[i] \/ files'[i] = <<>>
        BY <1>4 DEF RemoveOldest, TypeOK, Files
    <2> QED
        BY <1>1, <1>4, <2>1 DEF RemoveOldest
<1>5. CASE Shift
    <2>1. \A i \in Files : \/ files'[i] = files[i] \/ files'[i] = <<>>
                           \/ \E k \in Files : files'[i] = files[k]
        BY <1>5, MoveFacts DEF Shift, TypeOK, Files
    <2> QED
        BY <1>1, <1>5, <2>1 DEF Shift
<1>6. CASE RenameLog
    <2>0. 0 \in 0 .. MaxBackups - 1 /\ 0 + 1 = 1
        OBVIOUS
    <2>1. CASE Move(0, 1) /\ undone' = undone
        <3>1. /\ files'[0] = <<>> /\ Len(files'[0]) = 0
              /\ \A i \in Files : \/ files'[i] = files[i] \/ files'[i] = <<>>
                                  \/ \E k \in Files : files'[i] = files[k]
            BY <2>0, <2>1, MoveFacts
        <3> QED
            BY <1>1, <2>1, <3>1
    <2>2. CASE undone' = undone + 1 /\ files' = files
        BY <1>1, <1>a, <2>2
    <2> QED
        BY <1>6, <2>1, <2>2 DEF RenameLog
<1>7. CASE AppendLine
    <2>1. files[0] \in Seq(Lines) /\ entries \in Lines
        BY FileFacts DEF TypeOK
    <2>2. /\ Len(Extended(files[0], entries)) <= Len(files[0]) + 1
          /\ Extended(files[0], entries) \in Seq(Lines)
          /\ Len(Append(files[0], Torn)) = Len(files[0]) + 1
        <3>1. \A line \in Lines : Len(Append(files[0], line)) = Len(files[0]) + 1
            BY <2>1
        <3> QED
            BY <2>1, <3>1, ExtendedFacts
    <2>3. /\ step = "append" /\ undone' = undone /\ step' = "idle"
          /\ \/ files' = files
             \/ files' = [files EXCEPT ![0] = Extended(files[0], entries)]
             \/ files' = [files EXCEPT ![0] = Append(files[0], Torn)]
        BY <1>7 DEF AppendLine
    <2>4. \A i \in Files \ {0} : files'[i] = files[i]
        BY <2>3 DEF TypeOK, Files
    <2>5. Len(files'[0]) <= PerFile + undone
        BY <1>a, <1>b, <2>2, <2>3 DEF TypeOK, Files
    <2> QED
        BY <1>a, <2>3, <2>4, <2>5 DEF SizeInv, SizeIsBounded, Files
<1>8. CASE Kill
    BY <1>1, <1>8 DEF Kill
<1> QED
    BY <1>2, <1>3, <1>4, <1>5, <1>6, <1>7, <1>8 DEF Next, Rotate

\* No file outgrows the limit by more than a line for every rotation left
\* undone, whichever operations fail.
THEOREM FilesAreBounded == Spec => []SizeIsBounded
<1>1. Init => SizeInv
    BY ConstantFacts DEF Init, SizeInv, SizeIsBounded
<1>2. SizeInv => SizeIsBounded
    BY DEF SizeInv
<1> QED
    BY <1>1, <1>2, NextKeepsSize, TypeInvariant, PTL DEF Spec

-----------------------------------------------------------------------------
(* The order of the entries.                                               *)

RemoveTop == files' = [files EXCEPT ![MaxBackups] = <<>>] /\ written' = written

MoveAt(k) == Move(k, k + 1) /\ written' = written

WriteLine == /\ step = "append"
             /\ files' = [files EXCEPT ![0] = Extended(@, entries)]
             /\ written' = written \cup {entries}

TearLine == /\ step = "append" /\ stuck' = stuck + 1
            /\ files' = [files EXCEPT ![0] = Append(@, Torn)]
            /\ written' = written

\* What a step may do to the files.
LEMMA StepsOnFiles ==
    ASSUME TypeOK, [Next]_vars
    PROVE  \/ UNCHANGED <<files, written>>
           \/ RemoveTop
           \/ \E k \in 0 .. MaxBackups - 1 : MoveAt(k)
           \/ WriteLine \/ TearLine
<1>1. 0 \in 0 .. MaxBackups - 1 /\ 0 + 1 = 1
    BY ConstantFacts
<1>2. place \in 0 .. MaxBackups - 1
    BY DEF TypeOK
<1>3. CASE RenameLog
    BY <1>1, <1>3 DEF RenameLog, MoveAt
<1>4. CASE Shift
    BY <1>2, <1>4 DEF Shift, MoveAt
<1>5. CASE RemoveOldest
    BY <1>5 DEF RemoveOldest, RemoveTop
<1>6. CASE AppendLine
    BY <1>6 DEF AppendLine, WriteLine, TearLine
<1>7. CASE UNCHANGED vars \/ Finished \/ LogEvent \/ Kill
    BY <1>7 DEF vars, Finished, LogEvent, Kill
<1> QED
    BY <1>3, <1>4, <1>5, <1>6, <1>7 DEF Next, Rotate

\* A line that was where Was leads to, before it in the order of the files or
\* in its place, is in order where it is.
LEMMA OrderIsKept ==
    ASSUME OrderInv, written' = written, NEW Was,
           \A i \in Files : DOMAIN files'[i] # {} =>
             /\ Was[i] \in Files /\ files'[i] = files[Was[i]]
             /\ \A k \in Files : DOMAIN files'[k] # {} /\ i > k => Was[i] > Was[k]
    PROVE  OrderInv'
    BY DEF OrderInv

\* No operation puts an older entry behind a newer one, in a file or from one
\* file to the next.
LEMMA NextKeepsOrder ==
    ASSUME TypeInv, OrderInv, [Next]_vars
    PROVE  OrderInv'
<1>0. TypeOK /\ CountsInv /\ 0 \in Files /\ MaxBackups \in Files
      /\ \A i \in Files : i \in Int
    BY ConstantFacts DEF TypeInv, Files
<1>1. CASE UNCHANGED <<files, written>>
    BY <1>1 DEF OrderInv
<1>2. CASE RemoveTop
    <2> DEFINE Was == [i \in Files |-> i]
    <2>1. \A i \in Files : DOMAIN files'[i] # {} => files'[i] = files[i]
        BY <1>0, <1>2 DEF RemoveTop, TypeOK, Files
    <2>2. \A i \in Files : Was[i] = i
        OBVIOUS
    <2> HIDE DEF Was
    <2> QED
        BY <1>2, <2>1, <2>2, OrderIsKept DEF RemoveTop
<1>3. ASSUME NEW k \in 0 .. MaxBackups - 1, MoveAt(k)
      PROVE  OrderInv'
    <2> DEFINE Was == [i \in Files |-> IF i = k + 1 THEN k ELSE i]
    <2>1. /\ k \in Files /\ k + 1 \in Files /\ k # k + 1 /\ k \in Int
          /\ files'[k + 1] = files[k] /\ DOMAIN files'[k] = {}
          /\ \A i \in Files \ {k, k + 1} : files'[i] = files[i]
        BY <1>0, <1>3, MoveFacts DEF MoveAt
    <2>2. \A i \in Files : DOMAIN files'[i] # {} => i # k /\ files'[i] = files[Was[i]]
        BY <2>1
    <2>3. \A i, l \in Files : i # k /\ l # k /\ i > l => Was[i] > Was[l]
        BY <1>0, <2>1
    <2>4. \A i \in Files : Was[i] \in Files
        BY <2>1
    <2> HIDE DEF Was
    <2> QED
        BY <1>3, <2>2, <2>3, <2>4, OrderIsKept DEF MoveAt
<1>4. ASSUME NEW file, files' = [files EXCEPT ![0] = file],
             written \subseteq written', DOMAIN file \subseteq Int,
             \A j \in DOMAIN file : file[j] > 0 =>
               \/ j \in DOMAIN files[0] /\ file[j] = files[0][j]
               \/ /\ file[j] = entries /\ entries \in written' /\ step = "append"
                  /\ \A l \in DOMAIN file : l <= j
      PROVE  OrderInv'
    <2>1. files'[0] = file /\ \A i \in Files \ {0} : files'[i] = files[i] /\ i > 0
        BY <1>0, <1>4, ConstantFacts DEF TypeOK, Files
    <2>2. \A i \in Files : \A j \in DOMAIN files[i] :
            files[i][j] > 0 /\ step = "append" => files[i][j] < entries
        <3>1. \A e \in written : step = "append" => e < entries
            BY <1>0 DEF TypeOK, CountsInv
        <3> QED
            BY <3>1 DEF OrderInv
    <2>3. \A i \in Files : \A j \in DOMAIN files'[i] :
            files'[i][j] > 0 =>
              \/ j \in DOMAIN files[i] /\ files'[i][j] = files[i][j]
              \/ /\ i = 0 /\ files'[i][j] = entries /\ entries \in written' /\ step = "append"
                 /\ \A l \in DOMAIN files'[0] : l <= j
        BY <1>4, <2>1
    <2>4. \A i \in Files : \A j \in DOMAIN files'[i] : files'[i][j] > 0 => files'[i][j] \in written'
        BY <1>4, <2>3 DEF OrderInv
    <2>5. ASSUME NEW i \in Files, NEW k \in Files, NEW j \in DOMAIN files'[i],
                 NEW l \in DOMAIN files'[k], i > k \/ (i = k /\ j < l),
                 files'[i][j] > 0, files'[k][l] > 0
          PROVE  files'[i][j] < files'[k][l]
        <3>1. i # 0 \/ k = 0
            BY <1>0, <2>5 DEF Files
        <3>2. j \in DOMAIN files[i] /\ files'[i][j] = files[i][j]
            <4>1. i # 0 => files'[i] = files[i]
                BY <2>1
            <4>2. i = 0 => i = k /\ j < l /\ j \in Int /\ l \in Int
                BY <1>0, <1>4, <2>1, <2>5, <3>1
            <4> QED
                BY <2>3, <2>5, <4>1, <4>2
        <3>3. CASE l \in DOMAIN files[k] /\ files'[k][l] = files[k][l]
            BY <2>5, <3>2, <3>3 DEF OrderInv
        <3>4. CASE files'[k][l] = entries /\ step = "append"
            BY <2>2, <2>5, <3>2, <3>4
        <3> QED
            BY <2>3, <2>5, <3>3, <3>4
    <2> QED
        BY <2>4, <2>5 DEF OrderInv
<1> DEFINE log == files[0]
<1>5. /\ log \in Seq(Lines) /\ Len(log) \in Nat /\ DOMAIN log = 1 .. Len(log)
      /\ entries \in Lines /\ Torn \in Lines
    BY <1>0, FileFacts, ConstantFacts DEF TypeOK
<1>6. CASE WriteLine
    <2> DEFINE file == Extended(log, entries)
    <2>1. files' = [files EXCEPT ![0] = file] /\ written' = written \cup {entries}
          /\ step = "append"
        BY <1>6 DEF WriteLine
    <2>2. file \in Seq(Lines) /\ Len(file) \in Nat /\ DOMAIN file = 1 .. Len(file)
        <3>1. file \in Seq(Lines)
            BY <1>5, ExtendedFacts
        <3> QED
            BY <3>1
    <2>3. ASSUME NEW j \in DOMAIN file, file[j] > 0
          PROVE  \/ j \in DOMAIN log /\ file[j] = log[j]
                 \/ /\ file[j] = entries /\ entries \in written' /\ step = "append"
                    /\ \A l \in DOMAIN file : l <= j
        <3>1. CASE /\ Len(file) = Len(log) + 1
                   /\ \A i \in 1 .. Len(log) : file[i] = log[i]
                   /\ file[Len(log) + 1] = entries
            BY <1>5, <2>1, <2>2, <2>3, <3>1
        <3>2. CASE /\ Len(file) = Len(log) /\ Len(log) > 0
                   /\ \A i \in 1 .. Len(log) - 1 : file[i] = log[i]
                   /\ file[Len(log)] = Junk
            BY <1>5, <2>2, <2>3, <3>2, ConstantFacts
        <3> QED
            BY <1>5, <3>1, <3>2, ExtendedFacts
    <2>4. DOMAIN file \subseteq Int /\ written \subseteq written'
        BY <2>1, <2>2
    <2> HIDE DEF file
    <2> QED
        BY <1>4, <2>1, <2>3, <2>4
<1>7. CASE TearLine
    <2> DEFINE file == Append(log, Torn)
    <2>1. files' = [files EXCEPT ![0] = file] /\ written' = written
        BY <1>7 DEF TearLine
    <2>2. /\ DOMAIN file = 1 .. Len(log) + 1
          /\ file[Len(log) + 1] = Torn
          /\ \A i \in 1 .. Len(log) : file[i] = log[i]
        BY <1>5
    <2>3. \A j \in DOMAIN file : file[j] > 0 => j \in DOMAIN log /\ file[j] = log[j]
        BY <1>5, <2>2, ConstantFacts
    <2>4. DOMAIN file \subseteq Int /\ written \subseteq written'
        BY <1>5, <2>1, <2>2
    <2> HIDE DEF file
    <2> QED
        BY <1>4, <2>1, <2>3, <2>4
<1> QED
    BY <1>0, <1>1, <1>2, <1>3, <1>6, <1>7, StepsOnFiles

\* So the order holds throughout, with the types.
LEMMA OrderInvariant == Spec => [](TypeInv /\ OrderInv)
<1>1. Init => OrderInv
    BY DEF Init, OrderInv, Files
<1> QED
    BY <1>1, NextKeepsOrder, InitIsTyped, NextKeepsType, PTL DEF Spec

\* Whatever failed and whenever the process was killed, what is on disk is in
\* the order of the events, from the oldest backup to the log.
THEOREM EntriesAreInOrder == Spec => []InOrder
<1>1. TypeInv /\ OrderInv => InOrder
    <2> SUFFICES ASSUME TypeInv, OrderInv, NEW p \in Positions, NEW q \in Positions,
                        Before(p, q), {At(p), At(q)} \subseteq OnDisk
                 PROVE  At(p) < At(q)
        BY DEF InOrder
    <2>1. PICK i \in Files : \E j \in DOMAIN files[i] : p = <<i, j>>
        BY DEF Positions, Files
    <2>2. PICK j \in DOMAIN files[i] : p = <<i, j>>
        BY <2>1
    <2>3. PICK k \in Files : \E l \in DOMAIN files[k] : q = <<k, l>>
        BY DEF Positions, Files
    <2>4. PICK l \in DOMAIN files[k] : q = <<k, l>>
        BY <2>3
    <2>5. At(p) = files[i][j] /\ At(q) = files[k][l] /\ (i > k \/ (i = k /\ j < l))
        BY <2>2, <2>4 DEF At, Before
    <2>6. \A line \in Lines : line \notin {Torn, Junk} => line > 0
        BY ConstantFacts DEF Lines
    <2>7. files[i][j] > 0 /\ files[k][l] > 0
        BY <2>5, <2>6, FileFacts DEF OnDisk, TypeInv
    <2> QED
        BY <2>5, <2>7 DEF OrderInv
<1> QED
    BY <1>1, OrderInvariant, PTL

-----------------------------------------------------------------------------
(* What is on disk and what is lost.                                       *)

\* An element more makes a finite set larger by one at most.
LEMMA AtMostOneMore ==
    ASSUME NEW S, IsFiniteSet(S), NEW x
    PROVE  Cardinality(S) \in Nat /\ Cardinality(S \cup {x}) <= Cardinality(S) + 1
<1>1. Cardinality(S) \in Nat
    BY FS_CardinalityType
<1>2. Cardinality(S \cup {x}) = IF x \in S THEN Cardinality(S) ELSE Cardinality(S) + 1
    BY FS_AddElement
<1> QED
    BY <1>1, <1>2

\* The empty places below a backup are finitely many, before and after a step.
LEMMA HolesCount ==
    ASSUME NEW m \in Backups
    PROVE  /\ IsFiniteSet(Holes(m)) /\ Cardinality(Holes(m)) \in Nat
           /\ IsFiniteSet(Holes(m)') /\ Cardinality(Holes(m)') \in Nat
<1>1. IsFiniteSet(1 .. m)
    BY FS_Interval DEF Backups
<1>2. Holes(m) \subseteq 1 .. m /\ Holes(m)' \subseteq 1 .. m
    BY DEF Holes
<1> QED
    BY <1>1, <1>2, FS_Subset, FS_CardinalityType

\* Entries below the oldest backup.
HoldsBelow(e) == \E i \in Files \ {MaxBackups} : \E j \in DOMAIN files[i] : files[i][j] = e

\* To take the oldest backup away leaves no gap.
LEMMA TopIsOldest ==
    ASSUME TypeInv, OrderInv, Whole, NoGap, written' = written,
           \A e : Holds(e)' <=> HoldsBelow(e)
    PROVE  NoGap'
<1> SUFFICES ASSUME NEW e \in written, NEW f \in written, HoldsBelow(f), f < e
             PROVE  HoldsBelow(e)
    BY DEF NoGap
<1>1. Holds(f)
    BY DEF Holds, HoldsBelow
<1>2. PICK i \in Files : \E j \in DOMAIN files[i] : files[i][j] = e
    BY <1>1 DEF NoGap, Holds
<1>3. PICK j \in DOMAIN files[i] : files[i][j] = e
    BY <1>2
<1>4. PICK k \in Files \ {MaxBackups} : \E l \in DOMAIN files[k] : files[k][l] = f
    BY DEF HoldsBelow
<1>5. PICK l \in DOMAIN files[k] : files[k][l] = f
    BY <1>4
<1>6. CASE i = MaxBackups
    <2>1. i > k
        BY <1>4, <1>6, ConstantFacts DEF Files
    <2>2. e < f
        BY <1>3, <1>5, <2>1 DEF OrderInv, Whole
    <2>3. e \in Int /\ f \in Int
        BY DEF TypeInv, TypeOK
    <2> QED
        BY <2>2, <2>3
<1> QED
    BY <1>3, <1>6 DEF HoldsBelow

\* What the renaming of a file leaves on disk.
LEMMA MoveHolds ==
    ASSUME TypeOK, NEW k \in 0 .. MaxBackups - 1, Move(k, k + 1)
    PROVE  /\ files[k + 1] = <<>> => \A e : Holds(e)' <=> Holds(e)
           /\ k + 1 = MaxBackups => \A e : Holds(e)' <=> HoldsBelow(e)
<1>1. /\ k \in Files /\ k + 1 \in Files /\ k # k + 1
      /\ files'[k + 1] = files[k] /\ DOMAIN files'[k] = {}
      /\ \A i \in Files \ {k, k + 1} : files'[i] = files[i]
    BY MoveFacts
<1>2. ASSUME files[k + 1] = <<>>, NEW e
      PROVE  Holds(e)' <=> Holds(e)
    BY <1>1, <1>2 DEF Holds
<1>3. ASSUME k + 1 = MaxBackups, NEW e
      PROVE  Holds(e)' <=> HoldsBelow(e)
    BY <1>1, <1>3 DEF Holds, HoldsBelow
<1> QED
    BY <1>2, <1>3

-----------------------------------------------------------------------------
(* The steps of the rotation, while nothing is stuck.                      *)

Log == Whole /\ NoGap /\ FewHoles

\* The counters are natural numbers and the place of a rotation is a backup's.
LEMMA CounterFacts ==
    ASSUME TypeInv
    PROVE  /\ undone \in Nat /\ entries \in Nat /\ stuck \in Nat
           /\ place \in 0 .. MaxBackups - 1 /\ place \in Int
           /\ 0 \in Files /\ MaxBackups \in Backups /\ MaxBackups \in Files
           /\ \A m \in Backups : m \in Files /\ m \in Int /\ 1 <= m /\ m <= MaxBackups
    BY ConstantFacts DEF TypeInv, TypeOK, Files, Backups

\* The files stay as they are: a rotation goes on past an empty place, or is
\* left undone.
LEMMA QuietStepKeepsLog ==
    ASSUME TypeInv, Log, UNCHANGED <<files, written>>,
           step' = "remove" => Len(files[0]) >= PerFile,
           \/ ~ Rotating' /\ undone' = undone + (IF Rotating THEN 1 ELSE 0)
           \/ /\ Rotating /\ Rotating' /\ undone' = undone
              /\ \/ place' = place /\ (step' = "rename" => place = 0)
                 \/ place' = place - 1 /\ files[place] = <<>> /\ step' # "rename"
           \/ /\ step = "remove" /\ step' = "shift" /\ undone' = undone
              /\ place' = MaxBackups - 1
    PROVE  Log'
<1> USE CounterFacts
<1>1. /\ \A m : Holes(m)' = Holes(m)
      /\ \A e : Holds(e)' <=> Holds(e)
      /\ Lost' <=> Lost
    BY DEF Holes, Holds, Lost
<1>2. Whole'
    BY DEF Log, Whole, Rotating
<1>3. NoGap'
    BY <1>1 DEF Log, NoGap
<1>4. FewHoles'
    <2> SUFFICES ASSUME NEW m \in Backups
                 PROVE  /\ files[m] # <<>> /\ (Rotating' => m <= place' + 1)
                             => Cardinality(Holes(m)) <= undone'
                        /\ files[m] # <<>> \/ (Lost /\ m = MaxBackups) =>
                             Cardinality(Holes(m)) <= undone' + (IF Rotating' THEN 1 ELSE 0)
        BY <1>1 DEF FewHoles
    <2>1. /\ files[m] # <<>> /\ (Rotating => m <= place + 1) => Cardinality(Holes(m)) <= undone
          /\ files[m] # <<>> \/ (Lost /\ m = MaxBackups) =>
               Cardinality(Holes(m)) <= undone + (IF Rotating THEN 1 ELSE 0)
        BY DEF Log, FewHoles
    <2>2. Cardinality(Holes(m)) \in Nat
        BY HolesCount
    <2>3. CASE ~ Rotating' /\ undone' = undone + (IF Rotating THEN 1 ELSE 0)
        BY <2>1, <2>2, <2>3
    <2>4. CASE Rotating /\ Rotating' /\ undone' = undone /\ (place' = place \/ place' = place - 1)
        BY <2>1, <2>2, <2>4
    <2>5. CASE step = "remove" /\ step' = "shift" /\ undone' = undone
        BY <2>1, <2>2, <2>5 DEF Rotating
    <2> QED
        BY <2>3, <2>4, <2>5
<1> QED
    BY <1>2, <1>3, <1>4 DEF Log

\* The oldest backup is removed.
LEMMA RemovingKeepsLog ==
    ASSUME TypeInv, OrderInv, Log, step = "remove", step' = "shift", undone' = undone,
           place' = MaxBackups - 1, RemoveTop
    PROVE  Log'
<1> USE CounterFacts
<1>0. TypeOK /\ place' + 1 = MaxBackups /\ Rotating' /\ ~ Rotating
    BY ConstantFacts DEF TypeInv, Rotating
<1>1. /\ files'[MaxBackups] = <<>> /\ written' = written
      /\ \A i \in Files \ {MaxBackups} : files'[i] = files[i]
    BY <1>0 DEF RemoveTop, TypeOK, Files
<1>2. \A e : Holds(e)' <=> HoldsBelow(e)
    BY <1>1 DEF Holds, HoldsBelow
<1>3. NoGap'
    BY <1>1, <1>2, TopIsOldest DEF Log
<1>4. Whole'
    <2>1. 0 \in Files \ {MaxBackups}
        BY ConstantFacts
    <2>2. /\ \A i \in Files : files'[i] = files[i] \/ files'[i] = <<>>
          /\ files'[0] = files[0]
        BY <1>1, <2>1
    <2> QED
        BY <1>0, <2>2 DEF Log, Whole
<1>5. FewHoles'
    <2> SUFFICES ASSUME NEW m \in Backups
                 PROVE  /\ files'[m] # <<>> => Cardinality(Holes(m)') <= undone
                        /\ files'[m] # <<>> \/ (Lost' /\ m = MaxBackups) =>
                             Cardinality(Holes(m)') <= undone + 1
        BY <1>0 DEF FewHoles
    <2>1. files[m] # <<>> \/ (Lost /\ m = MaxBackups) => Cardinality(Holes(m)) <= undone
        BY <1>0 DEF Log, FewHoles
    <2>2. IsFiniteSet(Holes(m)) /\ Cardinality(Holes(m)) \in Nat
        BY HolesCount
    <2>3. CASE m # MaxBackups
        <3>1. Holes(m)' = Holes(m)
            BY <1>1, <2>3 DEF Holes, Files
        <3>2. files'[m] = files[m]
            BY <1>1, <2>3
        <3> QED
            BY <2>1, <2>2, <2>3, <3>1, <3>2
    <2>4. CASE m = MaxBackups /\ files[m] # <<>>
        <3>1. Holes(m)' = Holes(m) \cup {m}
            BY <1>1, <2>4 DEF Holes, Files
        <3>2. Cardinality(Holes(m)') <= Cardinality(Holes(m)) + 1
            BY <2>2, <3>1, AtMostOneMore
        <3> QED
            BY <1>1, <2>1, <2>2, <2>4, <3>2, HolesCount
    <2>5. CASE m = MaxBackups /\ files[m] = <<>>
        <3>1. \A i \in Files : files'[i] = files[i]
            BY <1>1, <2>5
        <3>2. Holes(m)' = Holes(m) /\ (Lost' <=> Lost)
            BY <1>1, <3>1 DEF Holes, Lost, Holds, Files, Backups
        <3> QED
            BY <1>1, <2>1, <2>2, <2>5, <3>2
    <2> QED
        BY <2>3, <2>4, <2>5
<1> QED
    BY <1>3, <1>4, <1>5 DEF Log

\* A backup is renamed: the hole above it is filled, and there is one in its
\* place; or the oldest one, which could not be removed, is overwritten.
LEMMA ShiftingKeepsLog ==
    ASSUME TypeInv, OrderInv, Log, step = "shift", step' = "shift", undone' = undone,
           place > 0, place' = place - 1, files[place] # <<>>, MoveAt(place)
    PROVE  Log'
<1> USE CounterFacts
<1> DEFINE k == place
<1>0. /\ TypeOK /\ Rotating /\ Rotating' /\ written' = written
      /\ k \in Backups /\ k + 1 \in Backups /\ k \in Files /\ k + 1 \in Files
      /\ Move(k, k + 1)
    BY ConstantFacts DEF TypeInv, Rotating, MoveAt, Backups, Files
<1>1. /\ files'[k + 1] = files[k] /\ files'[k] = <<>>
      /\ \A i \in Files \ {k, k + 1} : files'[i] = files[i]
    BY <1>0, MoveFacts
<1>2. files[k + 1] = <<>> \/ k + 1 = MaxBackups
    BY <1>0 DEF Log, Whole, Backups
<1>3. files[k + 1] = <<>> => \A e : Holds(e)' <=> Holds(e)
    BY <1>0, MoveHolds
<1>4. NoGap'
    <2>1. CASE files[k + 1] = <<>>
        BY <1>0, <1>3, <2>1 DEF Log, NoGap
    <2>2. CASE k + 1 = MaxBackups
        BY <1>0, <2>2, MoveHolds, TopIsOldest DEF Log
    <2> QED
        BY <1>2, <2>1, <2>2
<1>5. Whole'
    <2>1. \A i \in Files : \/ files'[i] = <<>>
                           \/ i \in Files \ {k, k + 1} /\ files'[i] = files[i]
                           \/ i = k + 1 /\ files'[i] = files[k]
        BY <1>1
    <2>2. files'[0] = files[0]
        BY <1>1
    <2>3. files'[place' + 1] = <<>>
        BY <1>1
    <2>4. \A i \in Files : \A j \in DOMAIN files'[i] : files'[i][j] > 0
        <3>1. \A i \in Files : \A j \in DOMAIN files[i] : files[i][j] > 0
            BY DEF Log, Whole
        <3>2. DOMAIN <<>> = {}
            OBVIOUS
        <3> QED
            BY <1>0, <2>1, <3>1, <3>2
    <2>5. \A i \in Backups : files'[i] # <<>> => Len(files'[i]) >= PerFile
        BY <1>0, <2>1 DEF Log, Whole, Files, Backups
    <2> QED
        BY <1>0, <2>2, <2>3, <2>4, <2>5 DEF Log, Whole
<1>6. FewHoles'
    <2> SUFFICES ASSUME NEW m \in Backups
                 PROVE  /\ files'[m] # <<>> /\ m <= k => Cardinality(Holes(m)') <= undone
                        /\ files'[m] # <<>> \/ (Lost' /\ m = MaxBackups) =>
                             Cardinality(Holes(m)') <= undone + 1
        BY <1>0 DEF FewHoles
    <2>1. \A n \in Backups :
            /\ files[n] # <<>> /\ n <= k + 1 => Cardinality(Holes(n)) <= undone
            /\ files[n] # <<>> \/ (Lost /\ n = MaxBackups) => Cardinality(Holes(n)) <= undone + 1
        BY <1>0 DEF Log, FewHoles
    <2>2. \A n \in Backups : IsFiniteSet(Holes(n)) /\ Cardinality(Holes(n)) \in Nat
        BY HolesCount
    <2>3. CASE m < k
        <3>1. \A i \in 1 .. m : i \in Files \ {k, k + 1}
            BY <1>0, <2>3 DEF Files, Backups
        <3>2. Holes(m)' = Holes(m) /\ files'[m] = files[m]
            BY <1>1, <3>1 DEF Holes, Backups
        <3> QED
            BY <2>1, <2>2, <2>3, <3>2
    <2>4. CASE m = k
        BY <1>0, <1>1, <2>4 DEF Backups
    <2>5. CASE m > k /\ files[k + 1] = <<>>
        <3>1. Holes(m)' = (Holes(m) \ {k + 1}) \cup {k}
            BY <1>0, <1>1, <2>5 DEF Holes, Files, Backups
        <3>2. k + 1 \in Holes(m) /\ k \notin Holes(m)
            BY <1>0, <2>5 DEF Holes, Backups
        <3>3. Cardinality(Holes(m)') = Cardinality(Holes(m))
            <4>1. /\ IsFiniteSet(Holes(m) \ {k + 1})
                  /\ Cardinality(Holes(m) \ {k + 1}) = Cardinality(Holes(m)) - 1
                BY <2>2, <3>2, FS_RemoveElement
            <4>2. Cardinality((Holes(m) \ {k + 1}) \cup {k}) = Cardinality(Holes(m) \ {k + 1}) + 1
                BY <3>2, <4>1, FS_AddElement
            <4> QED
                BY <2>2, <3>1, <4>1, <4>2
        <3>4. CASE m = k + 1
            <4>1. Holes(m) = Holes(k) \cup {m}
                BY <1>0, <2>5, <3>4 DEF Holes, Backups
            <4>2. Cardinality(Holes(m)) <= Cardinality(Holes(k)) + 1
                <5>1. IsFiniteSet(Holes(k)) /\ Cardinality(Holes(k)) \in Nat
                    BY <1>0, <2>2
                <5>2. Cardinality(Holes(k) \cup {m}) <= Cardinality(Holes(k)) + 1
                    BY <5>1, AtMostOneMore
                <5> QED
                    BY <4>1, <5>2
            <4>3. Cardinality(Holes(k)) <= undone
                BY <1>0, <2>1
            <4>4. ~ (m <= k)
                BY <1>0, <3>4
            <4>5. Cardinality(Holes(m)') <= undone + 1
                <5>1. Cardinality(Holes(m)) \in Nat /\ Cardinality(Holes(k)) \in Nat
                    BY <1>0, <2>2
                <5> QED
                    BY <3>3, <4>2, <4>3, <5>1
            <4> QED
                BY <4>4, <4>5
        <3>5. CASE m # k + 1
            <4>1. files'[m] = files[m] /\ (Lost' <=> Lost)
                BY <1>0, <1>1, <1>3, <2>5, <3>5 DEF Lost
            <4> QED
                BY <2>1, <2>2, <2>5, <3>3, <3>5, <4>1
        <3> QED
            BY <3>4, <3>5
    <2>6. CASE m > k /\ files[k + 1] # <<>>
        <3>1. m = k + 1
            BY <1>2, <2>6
        <3>2. Cardinality(Holes(m)) <= undone
            BY <2>1, <2>6, <3>1
        <3>3. Holes(m)' = Holes(m) \cup {k}
            BY <1>0, <1>1, <2>6, <3>1 DEF Holes, Files, Backups
        <3>4. Cardinality(Holes(m)') <= Cardinality(Holes(m)) + 1
            <4>1. IsFiniteSet(Holes(m)) /\ Cardinality(Holes(m)) \in Nat
                BY <2>2
            <4>2. Cardinality(Holes(m) \cup {k}) <= Cardinality(Holes(m)) + 1
                BY <4>1, AtMostOneMore
            <4> QED
                BY <3>3, <4>2
        <3>5. Cardinality(Holes(m)) \in Nat /\ Cardinality(Holes(m)') \in Nat
            BY HolesCount
        <3>6. Cardinality(Holes(m)') <= undone + 1
            BY <3>2, <3>4, <3>5
        <3>7. ~ (m <= k)
            BY <1>0, <3>1
        <3> QED
            BY <3>6, <3>7
    <2> QED
        BY <2>3, <2>4, <2>5, <2>6
<1> QED
    BY <1>4, <1>5, <1>6 DEF Log

\* The log is renamed, which fills the first place.
LEMMA RenamingKeepsLog ==
    ASSUME TypeInv, OrderInv, Log, step = "rename", step' = "append", undone' = undone,
           MoveAt(0)
    PROVE  Log'
<1> USE CounterFacts
<1>0. /\ TypeOK /\ Rotating /\ ~ Rotating' /\ written' = written /\ place = 0
      /\ 1 \in Backups /\ 1 \in Files /\ Move(0, 0 + 1) /\ 0 \in 0 .. MaxBackups - 1
      /\ 0 + 1 = 1
    BY ConstantFacts DEF TypeInv, Rotating, MoveAt, Backups, Files, Log, Whole
<1>1. /\ files'[1] = files[0] /\ files'[0] = <<>>
      /\ \A i \in Files \ {0, 1} : files'[i] = files[i]
    BY <1>0, MoveFacts
<1>2. files[1] = <<>> \/ 1 = MaxBackups
    BY <1>0, ConstantFacts DEF Log, Whole
<1>3. files[1] = <<>> => \A e : Holds(e)' <=> Holds(e)
    BY <1>0, MoveHolds
<1>4. Len(files[0]) >= PerFile /\ files[0] # <<>>
    BY <1>0, FileFacts, ConstantFacts DEF Log, Whole
<1>5. NoGap'
    <2>1. CASE files[1] = <<>>
        BY <1>0, <1>3, <2>1 DEF Log, NoGap
    <2>2. CASE 1 = MaxBackups
        BY <1>0, <2>2, MoveHolds, TopIsOldest DEF Log
    <2> QED
        BY <1>2, <2>1, <2>2
<1>6. Whole'
    <2>1. \A i \in Files : \/ files'[i] = <<>>
                           \/ i \in Files \ {0, 1} /\ files'[i] = files[i]
                           \/ i = 1 /\ files'[i] = files[0]
        BY <1>1
    <2> QED
        BY <1>0, <1>4, <2>1 DEF Log, Whole, Rotating
<1>7. FewHoles'
    <2> SUFFICES ASSUME NEW m \in Backups,
                        files'[m] # <<>> \/ (Lost' /\ m = MaxBackups)
                 PROVE  Cardinality(Holes(m)') <= undone
        BY <1>0 DEF FewHoles
    <2>1. CASE m = 1
        <3>1. Holes(m)' = {}
            BY <1>1, <1>4, <2>1 DEF Holes
        <3> QED
            BY <3>1, FS_EmptySet
    <2>2. CASE m # 1
        <3>1. files[1] = <<>> /\ files'[m] = files[m] /\ (Lost' <=> Lost)
            BY <1>0, <1>1, <1>2, <1>3, <2>2 DEF Lost
        <3>2. Cardinality(Holes(m)) <= undone + 1
            BY <1>0, <3>1 DEF Log, FewHoles
        <3>3. Holes(m)' = Holes(m) \ {1} /\ 1 \in Holes(m)
            BY <1>1, <1>4, <3>1 DEF Holes, Files, Backups
        <3>4. Cardinality(Holes(m)') = Cardinality(Holes(m)) - 1 /\ Cardinality(Holes(m)) \in Nat
            <4>1. IsFiniteSet(Holes(m)) /\ Cardinality(Holes(m)) \in Nat
                BY HolesCount
            <4>2. Cardinality(Holes(m) \ {1}) = Cardinality(Holes(m)) - 1
                BY <3>3, <4>1, FS_RemoveElement
            <4> QED
                BY <3>3, <4>1, <4>2
        <3> QED
            BY <3>2, <3>4
    <2> QED
        BY <2>1, <2>2
<1> QED
    BY <1>5, <1>6, <1>7 DEF Log

\* A line is written.
LEMMA WritingKeepsLog ==
    ASSUME TypeInv, OrderInv, Log, step' = "idle", undone' = undone, WriteLine
    PROVE  Log'
<1> USE CounterFacts
<1>0. /\ TypeOK /\ CountsInv /\ ~ Rotating /\ ~ Rotating' /\ step = "append"
      /\ written' = written \cup {entries} /\ written \subseteq Nat
    BY DEF TypeInv, Rotating, WriteLine, TypeOK
<1>1. \A f \in written : f < entries
    BY <1>0 DEF TypeOK, CountsInv
<1> DEFINE log == files[0]
           new == Extended(log, entries)
<1>2. /\ log \in Seq(Lines) /\ Len(log) \in Nat /\ DOMAIN log = 1 .. Len(log)
      /\ entries \in Lines /\ entries > 0
    BY <1>0, FileFacts, ConstantFacts DEF TypeOK, CountsInv
<1>3. ~ EndsTorn(log)
    BY <1>2, ConstantFacts DEF Log, Whole, EndsTorn
<1>4. /\ new \in Seq(Lines) /\ DOMAIN new = 1 .. Len(log) + 1
      /\ \A j \in 1 .. Len(log) : new[j] = log[j]
      /\ new[Len(log) + 1] = entries
    BY <1>2, <1>3 DEF Extended
<1>5. files'[0] = new /\ \A i \in Files \ {0} : files'[i] = files[i]
    BY <1>0 DEF WriteLine, TypeOK, Files
<1> HIDE DEF new
<1>6. \A e : Holds(e)' <=> Holds(e) \/ e = entries
    <2> TAKE e
    <2>1. (\E j \in DOMAIN files'[0] : files'[0][j] = e)
            <=> (\E j \in DOMAIN files[0] : files[0][j] = e) \/ e = entries
        <3>1. Len(log) + 1 \in DOMAIN new /\ DOMAIN log \subseteq DOMAIN new
            BY <1>2, <1>4
        <3>2. \A j \in DOMAIN new : j \in DOMAIN log \/ j = Len(log) + 1
            BY <1>2, <1>4
        <3> QED
            BY <1>2, <1>4, <1>5, <3>1, <3>2
    <2> QED
        BY <1>5, <2>1 DEF Holds
<1>7. NoGap'
    BY <1>0, <1>1, <1>6 DEF NoGap, Log
<1>8. Whole'
    <2>1. \A j \in DOMAIN new : new[j] > 0
        <3>1. \A j \in DOMAIN log : log[j] > 0
            BY ConstantFacts DEF Log, Whole, Files
        <3>2. \A j \in DOMAIN new : j \in DOMAIN log \/ j = Len(log) + 1
            BY <1>2, <1>4
        <3> QED
            BY <1>2, <1>4, <3>1, <3>2
    <2>2. \A i \in Files : \A j \in DOMAIN files'[i] : files'[i][j] > 0
        BY <1>5, <2>1 DEF Log, Whole
    <2>3. \A i \in Backups : files'[i] = files[i]
        BY <1>5
    <2> QED
        BY <1>0, <2>2, <2>3 DEF Log, Whole, WriteLine
<1>9. FewHoles'
    <2>1. \A m \in Backups : files'[m] = files[m] /\ Holes(m)' = Holes(m)
        BY <1>5 DEF Holes, Files, Backups
    <2>2. Lost' => Lost
        BY <1>0, <1>6 DEF Lost
    <2> QED
        BY <1>0, <2>1, <2>2 DEF FewHoles, Log
<1> QED
    BY <1>7, <1>8, <1>9 DEF Log

\* Every operation keeps what is said of the log, as long as nothing is stuck.
LEMMA NextKeepsLog ==
    ASSUME TypeInv, OrderInv, LogInv, [Next]_vars
    PROVE  LogInv'
<1> SUFFICES ASSUME stuck' = 0
             PROVE  Log'
    BY DEF LogInv, Log
<1> USE CounterFacts, ConstantFacts
<1>0. stuck = 0 /\ Log
    BY DEF LogInv, Log, Next, Rotate, LogEvent, RemoveOldest, Shift, RenameLog, AppendLine, Kill,
           Finished, vars
<1>1. CASE UNCHANGED vars \/ Finished
    <2>1. UNCHANGED <<files, written, step, place, undone>>
        BY <1>1 DEF vars, Finished
    <2> QED
        BY <1>0, <2>1 DEF Log, Whole, NoGap, FewHoles, Rotating, Holds, Lost, Holes
<1>2. CASE LogEvent
    BY <1>0, <1>2, FileFacts, QuietStepKeepsLog DEF LogEvent, Rotating, TypeInv
<1>3. CASE RemoveOldest
    BY <1>0, <1>3, QuietStepKeepsLog, RemovingKeepsLog
    DEF RemoveOldest, RemoveTop, Rotating, Log, Whole
<1>4. CASE Shift
    BY <1>0, <1>4, QuietStepKeepsLog, ShiftingKeepsLog DEF Shift, MoveAt, Rotating
<1>5. CASE RenameLog
    BY <1>0, <1>5, QuietStepKeepsLog, RenamingKeepsLog DEF RenameLog, MoveAt, Rotating
<1>6. CASE AppendLine
    BY <1>0, <1>6, QuietStepKeepsLog, WritingKeepsLog DEF AppendLine, WriteLine, Rotating
<1>7. CASE Kill
    BY <1>0, <1>7, QuietStepKeepsLog DEF Kill, Rotating
<1> QED
    BY <1>1, <1>2, <1>3, <1>4, <1>5, <1>6, <1>7 DEF Next, Rotate

\* So it holds throughout, with the types and the order.
LEMMA LogInvariant == Spec => [](TypeInv /\ OrderInv /\ LogInv)
<1>1. Init => LogInv
    <2> SUFFICES ASSUME Init
                 PROVE  Log
        BY DEF LogInv, Log
    <2>1. \A i \in Files : files[i] = <<>> /\ DOMAIN files[i] = {}
        BY DEF Init, Files
    <2>2. \A m \in Backups : m \in Files
        BY ConstantFacts DEF Files, Backups
    <2>3. step = "idle" /\ written = {}
        BY DEF Init
    <2>4. Whole
        BY <2>1, <2>2, <2>3 DEF Whole, Rotating
    <2>5. NoGap /\ FewHoles
        BY <2>1, <2>2, <2>3 DEF NoGap, FewHoles, Rotating, Lost
    <2> QED
        BY <2>4, <2>5 DEF Log
<1>2. TypeInv /\ OrderInv /\ LogInv /\ [Next]_vars => LogInv'
    BY NextKeepsLog
<1> QED
    BY <1>1, <1>2, OrderInvariant, PTL DEF Spec

-----------------------------------------------------------------------------
(* How much is on disk.                                                    *)

\* The files that are full, and so is the log while it is rotated.
Full == {i \in Backups : files[i] # <<>>} \cup (IF Rotating THEN {0} ELSE {})

OnDiskIsHeld ==
    \A e : e \in OnDisk <=> Holds(e)

\* What OnDisk counts by positions is what the files hold.
LEMMA DiskHolds ==
    ASSUME TypeInv, Whole
    PROVE  OnDiskIsHeld
<1>1. \A e : (\E pos \in Positions : At(pos) = e) <=> Holds(e)
    <2> TAKE e
    <2>1. ASSUME NEW pos \in Positions, At(pos) = e
          PROVE  Holds(e)
        <3>1. PICK i \in Files : \E j \in DOMAIN files[i] : pos = <<i, j>>
            BY DEF Positions, Files
        <3> QED
            BY <2>1, <3>1 DEF At, Holds
    <2>2. ASSUME NEW i \in Files, NEW j \in DOMAIN files[i], files[i][j] = e
          PROVE  \E pos \in Positions : At(pos) = e
        <3>1. <<i, j>> \in Positions
            BY DEF Positions, Files
        <3>2. At(<<i, j>>) = e
            BY <2>2 DEF At
        <3> QED
            BY <3>1, <3>2
    <2> QED
        BY <2>1, <2>2 DEF Holds
<1>2. \A e : Holds(e) => e \notin {Torn, Junk}
    BY ConstantFacts DEF Whole, Holds
<1> QED
    BY <1>1, <1>2 DEF OnDiskIsHeld, OnDisk

\* Once an entry is lost, enough files are full.
LEMMA FullFiles ==
    ASSUME TypeInv, Log, Lost
    PROVE  /\ IsFiniteSet(Full) /\ Cardinality(Full) \in Nat
           /\ MaxBackups - undone <= Cardinality(Full)
<1> USE CounterFacts, ConstantFacts
<1> DEFINE full == {i \in Backups : files[i] # <<>>}
<1>1. IsFiniteSet(Backups) /\ Cardinality(Backups) = MaxBackups
    BY FS_Interval DEF Backups
<1>2. /\ IsFiniteSet(full) /\ Cardinality(full) \in Nat
      /\ IsFiniteSet(Holes(MaxBackups)) /\ Cardinality(Holes(MaxBackups)) \in Nat
    BY <1>1, FS_Subset, FS_CardinalityType, HolesCount
<1>3. Cardinality(full) = MaxBackups - Cardinality(Holes(MaxBackups))
    <2>1. Holes(MaxBackups) \subseteq Backups /\ full = Backups \ Holes(MaxBackups)
        BY DEF Holes, Backups
    <2>2. Cardinality(Backups \ Holes(MaxBackups)) = Cardinality(Backups) - Cardinality(Backups \cap Holes(MaxBackups))
        BY <1>1, FS_Difference
    <2>3. Backups \cap Holes(MaxBackups) = Holes(MaxBackups)
        BY <2>1
    <2> QED
        BY <1>1, <2>1, <2>2, <2>3
<1>4. Cardinality(Holes(MaxBackups)) <= undone + (IF Rotating THEN 1 ELSE 0)
    BY DEF Log, FewHoles
<1>5. CASE Rotating
    <2>1. Full = full \cup {0} /\ 0 \notin full
        BY <1>5 DEF Full
    <2>2. IsFiniteSet(full \cup {0}) /\ Cardinality(full \cup {0}) = Cardinality(full) + 1
        BY <1>2, <2>1, FS_AddElement
    <2> QED
        BY <1>2, <1>3, <1>4, <1>5, <2>1, <2>2
<1>6. CASE ~ Rotating
    <2>1. Full = full
        BY <1>6 DEF Full
    <2> QED
        BY <1>2, <1>3, <1>4, <1>6, <2>1
<1> QED
    BY <1>5, <1>6

\* The first PerFile entries of the full files are all different.
LEMMA FullFilesHold ==
    ASSUME TypeInv, OrderInv, Log, IsFiniteSet(Full), Cardinality(Full) \in Nat
    PROVE  \E S : /\ IsFiniteSet(S) /\ Cardinality(S) = Cardinality(Full) * PerFile
                  /\ \A e \in S : Holds(e)
<1> DEFINE Places == Full \X (1 .. PerFile)
           Line == [pos \in Places |-> files[pos[1]][pos[2]]]
           S == {Line[pos] : pos \in Places}
<1>1. \A i \in Full : i \in Files /\ i \in Int /\ Len(files[i]) >= PerFile
    BY CounterFacts, FileFacts DEF Full, Log, Whole, TypeInv
<1>2. \A i \in Full, j \in 1 .. PerFile : j \in DOMAIN files[i]
    BY <1>1, FileFacts, ConstantFacts DEF TypeInv
<1>3. IsFiniteSet(Places) /\ Cardinality(Places) = Cardinality(Full) * PerFile
    <2>1. IsFiniteSet(1 .. PerFile) /\ Cardinality(1 .. PerFile) = PerFile
        <3>1. 1 \in Int /\ PerFile \in Int /\ PerFile > 0
            BY ConstantFacts
        <3>2. Cardinality(1 .. PerFile) = IF 1 > PerFile THEN 0 ELSE PerFile - 1 + 1
            BY <3>1, FS_Interval
        <3>3. IsFiniteSet(1 .. PerFile)
            BY <3>1, FS_Interval
        <3> QED
            BY <3>1, <3>2, <3>3
    <2> QED
        BY <2>1, FS_Product
<1>4. Line \in Bijection(Places, S)
    <2>1. ASSUME NEW i \in Full, NEW j \in 1 .. PerFile, NEW k \in Full, NEW l \in 1 .. PerFile,
                 files[i][j] = files[k][l]
          PROVE  i = k /\ j = l
        <3>1. i \in Int /\ k \in Int /\ j \in Int /\ l \in Int /\ i \in Files /\ k \in Files
            BY <1>1
        <3>2. j \in DOMAIN files[i] /\ l \in DOMAIN files[k]
            BY <1>2
        <3>3. files[i][j] > 0 /\ files[k][l] > 0 /\ files[i][j] \in Int
            BY <3>1, <3>2, FileFacts DEF Log, Whole, TypeInv
        <3>4. ~ (i > k \/ (i = k /\ j < l)) /\ ~ (k > i \/ (k = i /\ l < j))
            BY <2>1, <3>1, <3>2, <3>3 DEF OrderInv
        <3> QED
            BY <3>1, <3>4
    <2>2. \A pos \in Places : /\ pos[1] \in Full /\ pos[2] \in 1 .. PerFile
                              /\ pos = <<pos[1], pos[2]>>
        OBVIOUS
    <2>3. \A p, q \in Places : Line[p] = Line[q] => p = q
        BY <2>1, <2>2
    <2> QED
        BY <2>3 DEF Bijection, Injection, Surjection, IsInjective
<1>5. IsFiniteSet(S) /\ Cardinality(S) = Cardinality(Places)
    <2>1. ExistsBijection(Places, S)
        BY <1>4, Zenon DEF ExistsBijection
    <2> HIDE DEF Places, S
    <2> QED
        BY <1>3, <2>1, FS_Bijection
<1>6. \A e \in S : Holds(e)
    BY <1>1, <1>2 DEF Holds
<1> QED
    BY <1>3, <1>5, <1>6

\* The newest entries are on disk: as many as the full files hold.
LEMMA RecentIsHeld ==
    ASSUME TypeInv, OrderInv, Log
    PROVE  \A e \in Recent(PerFile * (MaxBackups - undone)) : Holds(e)
<1> SUFFICES ASSUME NEW e \in written, ~ Holds(e),
                    Cardinality({f \in written : f >= e}) <= PerFile * (MaxBackups - undone)
             PROVE  FALSE
    BY DEF Recent
<1> DEFINE newer == {f \in written : f >= e}
<1>0. written \subseteq Nat /\ IsFiniteSet(written) /\ undone \in Nat
    <2>1. written \subseteq 1 .. entries /\ entries \in Nat /\ undone \in Nat
        BY DEF TypeInv, TypeOK
    <2>2. IsFiniteSet(1 .. entries)
        BY <2>1, FS_Interval
    <2> QED
        <3>1. IsFiniteSet(written)
            BY <2>1, <2>2, FS_Subset
        <3> QED
            BY <2>1, <3>1
<1>1. IsFiniteSet(newer) /\ Cardinality(newer) \in Nat
    BY <1>0, FS_Subset, FS_CardinalityType
<1>2. /\ IsFiniteSet(Full) /\ Cardinality(Full) \in Nat
      /\ MaxBackups - undone <= Cardinality(Full)
    BY FullFiles DEF Lost
<1>3. PICK S : /\ IsFiniteSet(S) /\ Cardinality(S) = Cardinality(Full) * PerFile
               /\ \A f \in S : Holds(f)
    BY <1>2, FullFilesHold
<1>4. S \cup {e} \subseteq newer /\ e \notin S
    <2>1. \A f \in S : f \in written
        BY <1>3 DEF Holds, OrderInv, Log, Whole
    <2>2. \A f \in S : ~ (f < e)
        BY <1>3, <2>1 DEF Log, NoGap
    <2>3. e \in Nat /\ \A f \in S : f \in Nat
        BY <1>0, <2>1
    <2> QED
        BY <1>3, <2>1, <2>2, <2>3
<1>5. Cardinality(S) + 1 <= Cardinality(newer)
    <2>1. Cardinality(S \cup {e}) = Cardinality(S) + 1 /\ IsFiniteSet(S \cup {e})
        BY <1>3, <1>4, FS_AddElement
    <2> QED
        BY <1>1, <1>4, <2>1, FS_Subset
<1>6. PerFile * (MaxBackups - undone) <= Cardinality(Full) * PerFile
    <2>1. \A x, y \in Int : \A n \in Nat : x <= y => n * x <= y * n
        OBVIOUS
    <2> QED
        BY <1>0, <1>2, <2>1, ConstantFacts
<1>7. /\ PerFile * (MaxBackups - undone) \in Int /\ Cardinality(Full) * PerFile \in Int
      /\ Cardinality(newer) <= PerFile * (MaxBackups - undone)
    BY <1>0, <1>2, ConstantFacts
<1> HIDE DEF newer
<1> QED
    BY <1>1, <1>3, <1>5, <1>6, <1>7

\* Entries are lost from the oldest on, one backup at most for every rotation
\* left undone, as long as no backup and no line is stuck.
THEOREM OldestAreLostFirst == Spec => []LostOldestFirst
<1>1. TypeInv /\ OrderInv /\ LogInv => LostOldestFirst
    <2> SUFFICES ASSUME TypeInv, OrderInv, Log
                 PROVE  /\ Recent(PerFile * (MaxBackups - undone)) \subseteq OnDisk
                        /\ \A e \in written, f \in OnDisk : f < e => e \in OnDisk
        BY DEF LogInv, LostOldestFirst, Log
    <2>1. \A e : e \in OnDisk <=> Holds(e)
        BY DiskHolds DEF OnDiskIsHeld, Log
    <2>2. \A f : Holds(f) => f \in written
        BY DEF Holds, OrderInv, Log, Whole
    <2> QED
        BY <2>1, <2>2, RecentIsHeld DEF Log, NoGap
<1> QED
    BY <1>1, LogInvariant, PTL

=============================================================================
