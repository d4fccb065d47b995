------------------------- MODULE RateLimiterProofs -------------------------
(***************************************************************************)
(* The rate limit, for every limit, window and number of peers: the        *)
(* variables have their types, no window holds more admitted requests than *)
(* the limit, none is refused below it, and Retry-After is enough.         *)
(***************************************************************************)
EXTENDS RateLimiter, FiniteSetTheorems, TLAPS

(***************************************************************************)
(* The invariant.  That a window never exceeds the limit follows from the  *)
(* guard of Admit, which counts a pruned bucket, so the bucket must be     *)
(* known to hold every admitted request that the window still covers       *)
(* (BucketIsRight), and nothing is admitted in the future.  Counting needs *)
(* finite sets, and a stamp of its own for each request (Counted), without *)
(* which two requests of an instant would count as one.                    *)
(***************************************************************************)
Counted ==
    \A h \in Headers :
      /\ IsFiniteSet(admitted[h])
      /\ \A s \in admitted[h] : s.at <= now /\ s.nr <= Cardinality(admitted[h])

BucketIsRight ==
    \A h \in Headers :
      /\ buckets[h] \subseteq admitted[h]
      /\ \A s \in admitted[h] : s.at > now - Window => s \in buckets[h]

\* A peer that was refused has been admitted nothing since.
SilentSinceRefused ==
    \A h \in Headers :
      refusedAt[h] # Never => \A s \in admitted[h] : s.at <= refusedAt[h]

LimitInv ==
    /\ TypeOK /\ Counted /\ BucketIsRight
    /\ SilentSinceRefused /\ NoWindowAboveLimit

\* The constants, as the proofs use them.
LEMMA LimiterFacts ==
    RateLimit \in Nat /\ RateLimit > 0 /\ Window \in Nat /\ Window > 0 /\ LastTick \in Nat
BY LimiterAssumption

\* The pruned bucket is exactly what was admitted in the last window.
LEMMA RecentIsTheWindow ==
    ASSUME Counted, BucketIsRight, TypeOK, NEW h \in Headers
    PROVE  /\ Recent(buckets[h])
                = {s \in admitted[h] : s.at > now - Window /\ s.at <= now}
           /\ IsFiniteSet(Recent(buckets[h]))
           /\ AdmittedIn(h, now - Window, now) = Cardinality(Recent(buckets[h]))
<1>1. Recent(buckets[h]) = {s \in admitted[h] : s.at > now - Window /\ s.at <= now}
    BY DEF Recent, Counted, BucketIsRight
<1>2. IsFiniteSet(Recent(buckets[h]))
    <2>1. Recent(buckets[h]) \subseteq admitted[h] /\ IsFiniteSet(admitted[h])
        BY DEF Recent, BucketIsRight, Counted
    <2> QED
        BY <2>1, FS_Subset
<1> QED
    BY <1>1, <1>2 DEF AdmittedIn

\* The next stamp is new, so admitting a request adds one to what is counted.
LEMMA StampIsNew ==
    ASSUME TypeOK, Counted, NEW h \in Headers
    PROVE  /\ Cardinality(admitted[h]) \in Nat
           /\ NewStamp(h) \in Stamp /\ NewStamp(h) \notin admitted[h]
           /\ NewStamp(h).at = now
           /\ NewStamp(h).nr = Cardinality(admitted[h]) + 1
           /\ IsFiniteSet(admitted[h] \cup {NewStamp(h)})
           /\ Cardinality(admitted[h] \cup {NewStamp(h)}) = Cardinality(admitted[h]) + 1
<1>1. IsFiniteSet(admitted[h]) /\ Cardinality(admitted[h]) \in Nat
    BY FS_CardinalityType DEF Counted
<1>2. /\ NewStamp(h).at = now
      /\ NewStamp(h).nr = Cardinality(admitted[h]) + 1
      /\ NewStamp(h) \in Stamp
    BY <1>1 DEF NewStamp, Stamp, TypeOK
<1>3. NewStamp(h) \notin admitted[h]
    <2> SUFFICES ASSUME NewStamp(h) \in admitted[h] PROVE FALSE
        OBVIOUS
    <2>1. Cardinality(admitted[h]) + 1 <= Cardinality(admitted[h])
        BY <1>2 DEF Counted
    <2> QED
        BY <1>1, <2>1
<1> QED
    BY <1>1, <1>2, <1>3, FS_AddElement

\* An element more counts for one at most.
LEMMA OneMoreAtMost ==
    ASSUME NEW S, NEW x, IsFiniteSet(S)
    PROVE  /\ IsFiniteSet(S \cup {x})
           /\ Cardinality(S \cup {x}) <= Cardinality(S) + 1
<1>1. /\ IsFiniteSet(S \cup {x})
      /\ Cardinality(S \cup {x}) = IF x \in S THEN Cardinality(S) ELSE Cardinality(S) + 1
    BY FS_AddElement
<1>2. Cardinality(S) \in Nat
    BY FS_CardinalityType
<1> QED
    BY <1>1, <1>2

\* A request that is let in fits every window it falls in: the bucket it was
\* counted against holds all that the last window let in.
LEMMA AdmitKeepsLimit ==
    ASSUME LimitInv, NEW h \in Headers, Admit(h)
    PROVE  LimitInv'
<1> USE LimiterFacts
<1> DEFINE new == NewStamp(h)
<1>1. TypeOK /\ Counted /\ BucketIsRight /\ SilentSinceRefused /\ NoWindowAboveLimit
    BY DEF LimitInv
<1>2. /\ new \in Stamp /\ new.at = now /\ new.nr = Cardinality(admitted[h]) + 1
      /\ Cardinality(admitted[h]) \in Nat
      /\ IsFiniteSet(admitted[h] \cup {new})
      /\ Cardinality(admitted[h] \cup {new}) = Cardinality(admitted[h]) + 1
    BY <1>1, StampIsNew
<1>3. /\ now' = now
      /\ admitted'[h] = admitted[h] \cup {new}
      /\ buckets'[h] = Recent(buckets[h]) \cup {new}
      /\ refusedAt'[h] = Never
      /\ \A g \in Headers \ {h} : /\ admitted'[g] = admitted[g]
                                  /\ buckets'[g] = buckets[g]
                                  /\ refusedAt'[g] = refusedAt[g]
    BY <1>1 DEF Admit, TypeOK
<1>4. TypeOK'
    <2>1. buckets[h] \subseteq Stamp /\ Recent(buckets[h]) \subseteq Stamp
        BY <1>1 DEF TypeOK, Recent
    <2> QED
        BY <1>1, <1>2, <2>1 DEF Admit, TypeOK
<1> HIDE DEF new
<1>5. now \in Nat /\ \A g \in Headers : \A s \in admitted[g] : s.at \in Nat /\ s.nr \in Nat
    BY <1>1 DEF TypeOK, Stamp
<1>6. Counted'
    <2> SUFFICES ASSUME NEW g \in Headers
                 PROVE  /\ IsFiniteSet(admitted'[g])
                        /\ \A s \in admitted'[g] :
                             s.at <= now' /\ s.nr <= Cardinality(admitted'[g])
        BY DEF Counted
    <2>1. CASE g = h
        <3>1. \A s \in admitted[h] : s.at <= now /\ s.nr <= Cardinality(admitted[h])
            BY <1>1 DEF Counted
        <3>2. \A s \in admitted[h] : s.nr <= Cardinality(admitted[h]) + 1
            BY <1>2, <1>5, <3>1
        <3>3. Cardinality(admitted'[h]) = Cardinality(admitted[h]) + 1
              /\ IsFiniteSet(admitted'[h])
            BY <1>2, <1>3
        <3>4. ASSUME NEW s \in admitted'[h]
              PROVE  s.at <= now /\ s.nr <= Cardinality(admitted[h]) + 1
            <4>1. s \in admitted[h] \/ s = new
                BY <1>3
            <4> QED
                BY <1>2, <1>5, <3>1, <3>2, <4>1
        <3> QED
            BY <1>3, <2>1, <3>3, <3>4
    <2>2. CASE g # h
        BY <1>1, <1>3, <2>2 DEF Counted
    <2> QED
        BY <2>1, <2>2
<1>7. BucketIsRight'
    <2>1. /\ Recent(buckets[h]) \subseteq admitted[h]
          /\ \A s \in admitted[h] : s.at > now - Window => s \in Recent(buckets[h])
        BY <1>1 DEF BucketIsRight, Recent
    <2> QED
        BY <1>1, <1>3, <2>1 DEF BucketIsRight
<1>8. SilentSinceRefused'
    BY <1>1, <1>3 DEF SilentSinceRefused
<1>9. NoWindowAboveLimit'
    <2> SUFFICES ASSUME NEW g \in Headers, NEW last \in 0 .. LastTick
                 PROVE  AdmittedIn(g, last - Window, last)' <= RateLimit
        BY DEF NoWindowAboveLimit
    <2> DEFINE before == {s \in admitted[g] : s.at > last - Window /\ s.at <= last}
               after == {s \in admitted'[g] : s.at > last - Window /\ s.at <= last}
    <2>1. AdmittedIn(g, last - Window, last)' = Cardinality(after)
        BY DEF AdmittedIn
    <2>2. Cardinality(before) <= RateLimit
        BY <1>1 DEF NoWindowAboveLimit, AdmittedIn
    <2>3. CASE g # h \/ last < now
        <3>1. after = before
            BY <1>2, <1>3, <1>5, <2>3
        <3> QED
            BY <2>1, <2>2, <3>1
    <2>4. CASE g = h /\ last >= now
        <3>1. /\ IsFiniteSet(Recent(buckets[h]))
              /\ Cardinality(Recent(buckets[h])) < RateLimit
              /\ Cardinality(Recent(buckets[h])) \in Nat
            BY <1>1, RecentIsTheWindow, FS_CardinalityType DEF Admit, AtLimit
        <3>2. after \subseteq Recent(buckets[h]) \cup {new}
            BY <1>1, <1>3, <1>5, <2>4 DEF Recent, BucketIsRight
        <3>3. /\ IsFiniteSet(Recent(buckets[h]) \cup {new})
              /\ Cardinality(Recent(buckets[h]) \cup {new})
                   <= Cardinality(Recent(buckets[h])) + 1
            BY <3>1, OneMoreAtMost
        <3>4. IsFiniteSet(after) /\ Cardinality(after) <= Cardinality(Recent(buckets[h]) \cup {new})
            BY <3>2, <3>3, FS_Subset
        <3> QED
            BY <2>1, <3>1, <3>3, <3>4, FS_CardinalityType
    <2> QED
        BY <1>5, <2>3, <2>4
<1> QED
    BY <1>4, <1>6, <1>7, <1>8, <1>9 DEF LimitInv

\* Every step keeps the invariant; the clock only drops requests from windows, and
\* a refusal admits nobody.
LEMMA NextKeepsLimit == LimitInv /\ [Next]_vars => LimitInv'
<1> SUFFICES ASSUME LimitInv, [Next]_vars PROVE LimitInv'
    OBVIOUS
<1> USE LimiterFacts
<1>1. CASE Tick
    <2>1. /\ now' = now + 1 /\ now < LastTick /\ now \in Nat
          /\ UNCHANGED <<buckets, admitted, refusedAt>>
        BY <1>1 DEF Tick, LimitInv, TypeOK
    <2>2. \A g \in Headers : \A s \in admitted[g] : s.at \in Nat /\ s.nr \in Nat
        BY DEF LimitInv, TypeOK, Stamp
    <2>3. TypeOK'
        BY <2>1 DEF LimitInv, TypeOK
    <2>4. Counted' /\ BucketIsRight' /\ SilentSinceRefused'
        BY <2>1, <2>2 DEF LimitInv, Counted, BucketIsRight, SilentSinceRefused
    <2>5. NoWindowAboveLimit'
        BY <2>1 DEF LimitInv, NoWindowAboveLimit, AdmittedIn
    <2> QED
        BY <2>3, <2>4, <2>5 DEF LimitInv
<1>2. ASSUME NEW h \in Headers, Refuse(h) PROVE LimitInv'
    <2>1. /\ refusedAt'[h] = now /\ \A g \in Headers \ {h} : refusedAt'[g] = refusedAt[g]
          /\ UNCHANGED <<now, buckets, admitted>>
        BY <1>2 DEF Refuse, LimitInv, TypeOK
    <2>2. TypeOK'
        BY <1>2 DEF Refuse, LimitInv, TypeOK
    <2>3. Counted' /\ BucketIsRight' /\ SilentSinceRefused' /\ NoWindowAboveLimit'
        BY <2>1 DEF LimitInv, Counted, BucketIsRight, SilentSinceRefused,
                    NoWindowAboveLimit, AdmittedIn
    <2> QED
        BY <2>2, <2>3 DEF LimitInv
<1>3. CASE UNCHANGED vars
    BY <1>3 DEF vars, LimitInv, TypeOK, Counted, BucketIsRight, SilentSinceRefused,
                NoWindowAboveLimit, AdmittedIn
<1> QED
    BY <1>1, <1>2, <1>3, AdmitKeepsLimit DEF Next

\* So it holds throughout, for every peer on its own.
THEOREM LimitInvariant == Spec => []LimitInv
<1>1. Init => LimitInv
    <2> SUFFICES ASSUME Init PROVE LimitInv
        OBVIOUS
    <2>1. \A h \in Headers : admitted[h] = {} /\ buckets[h] = {} /\ refusedAt[h] = Never
        BY DEF Init
    <2>2. TypeOK
        BY LimiterFacts DEF Init, TypeOK
    <2>3. Counted /\ BucketIsRight /\ SilentSinceRefused
        BY <2>1, FS_EmptySet DEF Counted, BucketIsRight, SilentSinceRefused
    <2>4. \A h \in Headers, last \in 0 .. LastTick : AdmittedIn(h, last - Window, last) = 0
        BY <2>1, FS_EmptySet DEF AdmittedIn
    <2>5. NoWindowAboveLimit
        BY <2>4, LimiterFacts DEF NoWindowAboveLimit
    <2> QED
        BY <2>2, <2>3, <2>5 DEF LimitInv
<1> QED
    BY <1>1, NextKeepsLimit, PTL DEF Spec

\* No window of the length of a minute, wherever it ends, holds more admitted
\* requests of a peer than the limit.
THEOREM WindowsAreLimited == Spec => []NoWindowAboveLimit
<1>1. LimitInv => NoWindowAboveLimit
    BY DEF LimitInv
<1> QED
    BY <1>1, LimitInvariant, PTL

\* A peer that was refused and stays silent for a window is let in.
THEOREM WaitingIsEnough == Spec => []RetryAfterIsEnough
<1>1. ASSUME LimitInv PROVE RetryAfterIsEnough
    <2> SUFFICES ASSUME NEW h \in Headers, refusedAt[h] # Never, now >= refusedAt[h] + Window
                 PROVE  ~ AtLimit(h)
        BY DEF RetryAfterIsEnough
    <2>1. refusedAt[h] \in Nat /\ now \in Nat
          /\ \A s \in admitted[h] : s.at \in Nat /\ s.at <= refusedAt[h]
        BY <1>1 DEF LimitInv, TypeOK, Stamp, SilentSinceRefused
    <2>2. \A s \in buckets[h] : ~ (s.at > now - Window)
        BY <1>1, <2>1, LimiterFacts DEF LimitInv, BucketIsRight
    <2>3. Recent(buckets[h]) = {}
        BY <2>2 DEF Recent
    <2> QED
        BY <2>3, FS_EmptySet, LimiterFacts DEF AtLimit
<1> QED
    BY <1>1, LimitInvariant, PTL

\* A peer is refused only when the last window is full of its own admitted
\* requests.
THEOREM RefusedForOwnRequests == Spec => RefusedOnlyAtLimit
<1> DEFINE Full == \A h \in Headers :
                     refusedAt'[h] # refusedAt[h] /\ refusedAt'[h] # Never
                       => AdmittedIn(h, now - Window, now) = RateLimit
<1>1. ASSUME LimitInv, [Next]_vars PROVE Full
    <2> SUFFICES ASSUME NEW h \in Headers, refusedAt'[h] # refusedAt[h], refusedAt'[h] # Never
                 PROVE  AdmittedIn(h, now - Window, now) = RateLimit
        OBVIOUS
    <2>1. Refuse(h)
        BY <1>1 DEF Next, Tick, Refuse, Admit, vars, LimitInv, TypeOK
    <2>2. AdmittedIn(h, now - Window, now) >= RateLimit
          /\ AdmittedIn(h, now - Window, now) \in Nat
        BY <1>1, <2>1, RecentIsTheWindow, FS_CardinalityType DEF Refuse, AtLimit, LimitInv
    <2>3. AdmittedIn(h, now - Window, now) <= RateLimit
        BY <1>1 DEF LimitInv, NoWindowAboveLimit, TypeOK
    <2> QED
        BY <2>2, <2>3, LimiterFacts
<1>2. LimitInv /\ [Next]_vars => [Full]_vars
    BY <1>1
<1> QED
    BY <1>2, LimitInvariant, PTL DEF Spec, RefusedOnlyAtLimit

=============================================================================
