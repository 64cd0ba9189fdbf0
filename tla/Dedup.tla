------------------------------- MODULE Dedup -------------------------------
(***************************************************************************)
(* internal/inbound/dedup.go: the message-id filter in front of the         *)
(* handlers.  Feishu redelivers an event until it is acknowledged, so the   *)
(* same id may arrive any number of times, from several goroutines; each    *)
(* IsDuplicate call is atomic (mutex).  Expired entries are not removed by  *)
(* a timer but by the insertion that brings the map's size to a multiple of *)
(* Every.                                                                   *)
(***************************************************************************)
EXTENDS Integers, FiniteSets

CONSTANTS Ids,     \* message ids
          Blank,   \* the empty id
          TTL,     \* dedup_ttl_minutes
          Every,   \* 100 in the code
          Horizon  \* bound: the clock stops here

ASSUME DedupAssumption == /\ TTL \in Nat
                          /\ Every \in Nat \ {0}
                          /\ Blank \notin Ids
                          /\ Horizon \in Nat

VARIABLES now,      \* the clock
          entries,  \* ids in the map
          stamp,    \* entries[id], meaningful for ids in the map
          seen,     \* history: ids IsDuplicate let through at least once
          last,     \* history: when it last did
          since     \* history: insertions since the last cleanup

vars == <<now, entries, stamp, seen, last, since>>

TypeOK == /\ now \in Nat
          /\ entries \in SUBSET Ids
          /\ stamp \in [Ids -> Nat]
          /\ seen \in SUBSET Ids
          /\ last \in [Ids -> Nat]
          /\ since \in Nat

Init == /\ now = 0
        /\ entries = {}
        /\ stamp = [i \in Ids |-> 0]
        /\ seen = {}
        /\ last = [i \in Ids |-> 0]
        /\ since = 0

\* Mutant: every entry expires.
ExpiredAlways(i) == TRUE

Expired(i) == now - stamp[i] > TTL

\* Mutant: a size threshold instead of the multiples.
CleanupDueAbove(size) == size > Every

CleanupDue(size) == size % Every = 0

\* IsDuplicate(i) returns false: the id is inserted, and the cleanup runs
\* when the size asks for it.  The new entry cannot be expired.
Pass(i) == /\ i \notin entries
           /\ stamp' = [stamp EXCEPT ![i] = now]
           /\ LET grown == entries \cup {i} IN
              IF CleanupDue(Cardinality(grown))
              THEN /\ entries' = {i} \cup {e \in entries : ~Expired(e)}
                   /\ since' = 0
              ELSE /\ entries' = grown
                   /\ since' = since + 1
           /\ seen' = seen \cup {i}
           /\ last' = [last EXCEPT ![i] = now]
           /\ UNCHANGED now

\* IsDuplicate(i) returns true; the entry is not refreshed.
Suppress(i) == /\ i \in entries
               /\ UNCHANGED vars

\* An event without message id is never a duplicate and never remembered.
PassBlank(i) == /\ i = Blank
                /\ UNCHANGED vars

IsDuplicate(i) == IF i = Blank THEN PassBlank(i) ELSE Pass(i) \/ Suppress(i)

Tick == /\ now < Horizon
        /\ now' = now + 1
        /\ UNCHANGED <<entries, stamp, seen, last, since>>

Next == Tick \/ \E i \in Ids \cup {Blank} : IsDuplicate(i)

Spec == Init /\ [][Next]_vars
-----------------------------------------------------------------------------
(* Properties *)

\* The same message is handled twice only when more than TTL lies between the
\* two: within the window no redelivery gets through, whatever cleanups other
\* messages cause in the meantime (dedup.go:31-44).
NoReplayWithinTTL ==
  [][\A i \in seen : Pass(i) => now - last[i] > TTL]_vars

\* Every id let through within the last TTL is still in the map.
RecentIsRemembered == \A i \in seen : now - last[i] <= TTL => i \in entries

\* "Cleanup ... every 100 inserts" (dedup.go:37): the code looks at the size of
\* the map, which cleanups shrink, and still never inserts Every times without
\* a cleanup: expired entries cannot pile up behind a size that skips the
\* multiples.
CleanupIsRegular == since < Every
=============================================================================
