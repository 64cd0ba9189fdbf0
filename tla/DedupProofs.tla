---------------------------- MODULE DedupProofs ----------------------------
(* Safety of Dedup for every set of ids, every TTL and cleanup period.       *)
EXTENDS Dedup, FiniteSetTheorems, TLAPS

\* What RecentIsRemembered needs: the map's time of an id is the time it was
\* last let through, and that is not in the future.
StampsAreCurrent == /\ entries \subseteq seen
                    /\ \A i \in entries : stamp[i] = last[i]
                    /\ \A i \in seen : last[i] <= now

\* What CleanupIsRegular needs: the insertions since the last cleanup all count
\* in the size modulo Every, which returns to 0 when the cleanup is due.
InsertsAreCounted == /\ IsFiniteSet(entries)
                     /\ since <= Cardinality(entries) % Every

DedupInv == TypeOK /\ RecentIsRemembered /\ StampsAreCurrent /\ InsertsAreCounted

\* One more element: the remainder is one more, or it is 0.
LEMMA NextRemainder ==
  ASSUME NEW n \in Nat, NEW d \in Nat \ {0}
  PROVE  /\ n % d \in 0..(d - 1)
         /\ (n + 1) % d # 0 => (n + 1) % d = (n % d) + 1
<1>1. n % d \in 0..(d - 1) /\ (n + 1) % d \in 0..(d - 1)
  OBVIOUS
<1>2. n = d * (n \div d) + (n % d) /\ n + 1 = d * ((n + 1) \div d) + ((n + 1) % d)
  OBVIOUS
<1> DEFINE q == n \div d
           p == (n + 1) \div d
           r == n % d
           s == (n + 1) % d
<1>3. q \in Int /\ p \in Int
  OBVIOUS
<1>4. d * (p - q) = r + 1 - s
  <2>1. d * (p - q) = d * p - d * q
    BY <1>3
  <2> QED BY <2>1, <1>1, <1>2, <1>3
<1>5. p - q >= 1 => d * (p - q) >= d
  BY <1>3
<1>6. p - q <= -1 => d * (p - q) <= -d
  BY <1>3
<1> HIDE DEF p, q, r, s
<1>7. s # 0 => p - q = 0
  BY <1>1, <1>3, <1>4, <1>5, <1>6 DEF r, s
<1>8. p - q = 0 => d * (p - q) = 0
  BY <1>3
<1>9. s # 0 => s = r + 1
  BY <1>1, <1>4, <1>7, <1>8 DEF r, s
<1> QED BY <1>1, <1>9 DEF r, s

THEOREM DedupInit == Init => DedupInv
<1> SUFFICES ASSUME Init PROVE DedupInv
  OBVIOUS
<1>1. TypeOK /\ RecentIsRemembered /\ StampsAreCurrent
  BY DEF Init, TypeOK, RecentIsRemembered, StampsAreCurrent
<1>2. IsFiniteSet(entries) /\ Cardinality(entries) = 0
  BY FS_EmptySet DEF Init
<1>3. 0 % Every \in 0..(Every - 1)
  BY NextRemainder, DedupAssumption DEF DedupAssumption
<1>4. InsertsAreCounted
  BY <1>2, <1>3, DedupAssumption DEF DedupAssumption, InsertsAreCounted, Init
<1> QED BY <1>1, <1>4 DEF DedupInv

LEMMA PassStep ==
  ASSUME DedupAssumption, DedupInv, NEW i \in Ids, Pass(i)
  PROVE  DedupInv'
<1>0. TypeOK /\ RecentIsRemembered /\ StampsAreCurrent /\ InsertsAreCounted
  BY DEF DedupInv
<1> DEFINE grown == entries \cup {i}
<1>1. /\ IsFiniteSet(grown)
      /\ Cardinality(grown) = Cardinality(entries) + 1
      /\ Cardinality(entries) \in Nat
  <2>1. i \notin entries
    BY DEF Pass
  <2> QED BY <2>1, <1>0, FS_AddElement, FS_CardinalityType DEF InsertsAreCounted
<1>2. /\ i \notin entries /\ now' = now
      /\ stamp' = [stamp EXCEPT ![i] = now] /\ last' = [last EXCEPT ![i] = now]
      /\ seen' = seen \cup {i}
  BY DEF Pass
<1>3. \/ /\ CleanupDue(Cardinality(grown))
         /\ entries' = {i} \cup {e \in entries : ~Expired(e)} /\ since' = 0
      \/ /\ ~CleanupDue(Cardinality(grown))
         /\ entries' = grown /\ since' = since + 1
  BY DEF Pass
<1>4. entries' \subseteq grown
      /\ \A e \in entries : ~Expired(e) => e \in entries'
  BY <1>3
<1>5. i \in entries'
  BY <1>3
<1>6. TypeOK'
  <2>1. since' \in Nat
    BY <1>3, <1>0 DEF TypeOK
  <2> QED BY <2>1, <1>0, <1>2, <1>4 DEF TypeOK
<1>7. StampsAreCurrent'
  BY <1>0, <1>2, <1>4 DEF StampsAreCurrent, TypeOK
<1>8. RecentIsRemembered'
  <2> SUFFICES ASSUME NEW e \in seen', now - last'[e] <= TTL PROVE e \in entries'
    BY <1>2 DEF RecentIsRemembered
  <2>1. CASE e = i
    BY <2>1, <1>5
  <2>2. CASE e # i
    <3>1. e \in seen /\ last'[e] = last[e] /\ last[e] \in Nat
      BY <2>2, <1>0, <1>2 DEF TypeOK
    <3>2. e \in entries /\ stamp[e] = last[e]
      BY <3>1, <1>0 DEF RecentIsRemembered, StampsAreCurrent
    <3>3. ~Expired(e)
      BY <3>1, <3>2, <1>0, DedupAssumption DEF Expired, TypeOK, DedupAssumption
    <3> QED BY <3>2, <3>3, <1>4
  <2> QED BY <2>1, <2>2
<1>9. InsertsAreCounted'
  <2>0. IsFiniteSet(entries')
    BY <1>1, <1>4, FS_Subset
  <2>1. CASE CleanupDue(Cardinality(grown))
    <3>1. since' = 0
      BY <2>1, <1>3
    <3>2. Cardinality(entries') % Every \in 0..(Every - 1)
      BY <2>0, FS_CardinalityType, NextRemainder, DedupAssumption DEF DedupAssumption
    <3> QED BY <2>0, <3>1, <3>2, DedupAssumption DEF InsertsAreCounted, DedupAssumption
  <2>2. CASE ~CleanupDue(Cardinality(grown))
    <3>1. entries' = grown /\ since' = since + 1
      BY <2>2, <1>3
    <3>2. (Cardinality(entries) + 1) % Every = (Cardinality(entries) % Every) + 1
      BY <2>2, <1>1, NextRemainder, DedupAssumption DEF CleanupDue, DedupAssumption
    <3>3. Cardinality(entries) % Every \in Nat /\ since \in Nat
      BY <1>0, <1>1, NextRemainder, DedupAssumption DEF DedupAssumption, TypeOK
    <3>4. since + 1 <= (Cardinality(entries) + 1) % Every
      BY <3>2, <3>3, <1>0 DEF InsertsAreCounted
    <3> QED BY <2>0, <3>1, <3>4, <1>1 DEF InsertsAreCounted
  <2> QED BY <2>1, <2>2
<1> QED BY <1>6, <1>7, <1>8, <1>9 DEF DedupInv

\* The map's guarantees hold in every state.
THEOREM DedupInvariant == Spec => []DedupInv
<1>1. DedupInv /\ [Next]_vars => DedupInv'
  <2> SUFFICES ASSUME DedupInv, [Next]_vars PROVE DedupInv'
    OBVIOUS
  <2>1. CASE Tick
    <3>1. TypeOK' /\ RecentIsRemembered' /\ StampsAreCurrent'
      BY <2>1, DedupAssumption
         DEF DedupAssumption, Tick, DedupInv, TypeOK, RecentIsRemembered, StampsAreCurrent
    <3>2. InsertsAreCounted'
      BY <2>1 DEF Tick, DedupInv, InsertsAreCounted
    <3> QED BY <3>1, <3>2 DEF DedupInv
  <2>2. ASSUME NEW i \in Ids, Pass(i) PROVE DedupInv'
    BY <2>2, PassStep, DedupAssumption
  <2>3. CASE UNCHANGED vars
    BY <2>3 DEF vars, DedupInv, TypeOK, RecentIsRemembered, StampsAreCurrent,
                InsertsAreCounted
  <2> QED BY <2>1, <2>2, <2>3 DEF Next, IsDuplicate, PassBlank, Suppress
<1> QED BY <1>1, DedupInit, PTL DEF Spec
-----------------------------------------------------------------------------
\* What was let through within the last TTL is still in the map.
THEOREM RecentIdsAreRemembered == Spec => []RecentIsRemembered
<1>1. DedupInv => RecentIsRemembered
  BY DEF DedupInv
<1> QED BY <1>1, DedupInvariant, PTL

\* No message is let through twice within TTL.
THEOREM NoEarlyReplay == Spec => NoReplayWithinTTL
<1>1. DedupInv => [\A i \in seen : Pass(i) => now - last[i] > TTL]_vars
  <2> SUFFICES ASSUME DedupInv, NEW i \in seen, Pass(i) PROVE now - last[i] > TTL
    OBVIOUS
  <2>1. i \in Ids /\ i \notin entries
    BY DEF DedupInv, TypeOK, Pass
  <2> QED BY <2>1, DedupAssumption
          DEF DedupInv, TypeOK, RecentIsRemembered, DedupAssumption
<1> QED BY <1>1, DedupInvariant, PTL DEF NoReplayWithinTTL

\* Fewer than Every insertions separate two cleanups.
THEOREM CleanupsAreRegular == Spec => []CleanupIsRegular
<1>1. DedupInv => CleanupIsRegular
  <2> SUFFICES ASSUME DedupInv PROVE since < Every
    BY DEF CleanupIsRegular
  <2>1. Cardinality(entries) \in Nat /\ since <= Cardinality(entries) % Every
    BY FS_CardinalityType DEF DedupInv, InsertsAreCounted
  <2>2. Cardinality(entries) % Every \in 0..(Every - 1)
    BY <2>1, NextRemainder, DedupAssumption DEF DedupAssumption
  <2> QED BY <2>1, <2>2, DedupAssumption DEF DedupInv, TypeOK, DedupAssumption
<1> QED BY <1>1, DedupInvariant, PTL
=============================================================================
