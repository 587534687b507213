------------------------- MODULE MeteredBufferPool -------------------------
(***************************************************************************)
(* The buffer pool with its metrics (metrics.rs): four counters that       *)
(* fetch_page adds to while it runs, and new_page never does.  reset has   *)
(* no caller.  metrics() is read where the tests read it, when no call is  *)
(* going on.                                                               *)
(***************************************************************************)
EXTENDS BufferPoolProperties

CONSTANT MaxFetches  \* bound: calls of fetch_page

ASSUME FetchBound == MaxFetches \in Nat

VARIABLES fetches, cacheHits, cacheMisses, evictions

counters == <<fetches, cacheHits, cacheMisses, evictions>>

MeteredInit == /\ Init
               /\ fetches = 0 /\ cacheHits = 0 /\ cacheMisses = 0 /\ evictions = 0

Add(n, happens) == IF happens THEN n + 1 ELSE n

\* record_fetch, when the call begins.
RecordFetch == \E t \in Threads, p \in PageIds : CallFetch(t, p)

\* record_hit, before the pin that may fail.
RecordHit == \E t \in Threads : FetchHit(t) \/ FetchHitFails(t)

\* record_miss, at the first lookup of a call that misses.  Mutant: at each one.
RecordEachMiss == \E t \in Threads :
                    FetchJoin(t) \/ FetchFromFree(t) \/ FetchFreeReserved(t) \/ FetchScan(t)
RecordMiss     == \E t \in Threads : ~loc[t].missed /\ loc'[t].missed

\* record_eviction, when a fetch has replaced a page.
RecordEviction == \E t \in Threads : CommitEviction(t)

MeteredNext ==
  /\ Next
  /\ fetches'     = Add(fetches, RecordFetch)
  /\ cacheHits'   = Add(cacheHits, RecordHit)
  /\ cacheMisses' = Add(cacheMisses, RecordMiss)
  /\ evictions'   = Add(evictions, RecordEviction)
  /\ fetches' <= MaxFetches

MeteredSpec     == MeteredInit /\ [][MeteredNext]_<<vars, counters>>
FairMeteredSpec == /\ MeteredSpec
                   /\ \A t \in Threads : WF_vars(Step(t))
                   /\ <>Quiet

-----------------------------------------------------------------------------
\* No call is going on: where the tests take their snapshot.
AtRest == \A t \in Threads : At(t, "idle")

\* What the counters say of finished calls: each fetch counted a hit or a miss, at
\* most one of either, so that "hit_rate <= 1.0" (tests/concurrent_buffer_pool.rs:105),
\* whatever the calls waited for, how often they looked their page up and how they
\* ended.  An eviction is counted for a miss, and only once the page is replaced: the
\* pages brought in are the misses, less those that joined another call or failed.
CountersAddUp ==
  /\ evictions <= cacheMisses
  /\ AtRest => /\ cacheHits <= fetches
               /\ cacheMisses <= fetches
               /\ fetches <= cacheHits + cacheMisses
               /\ evictions + Cardinality({p \in PageIds : IsMapped(table, p)})
                    <= cacheMisses

\* "metrics.cache_hits + metrics.cache_misses, metrics.fetches"
\* (tests/concurrent_buffer_pool.rs:100), as an equation, after all calls.
HitsAndMissesAreFetches == AtRest => cacheHits + cacheMisses = fetches
=============================================================================
