----------------------------- MODULE DomainCounts -----------------------------
(***************************************************************************)
(* The request counters by referring domain and path (DomainStatsService): *)
(* a map in memory that every counted request increments, a goroutine that *)
(* swaps it once a minute for an empty one and adds the old one to two     *)
(* tables in a transaction, and the admin's rankings, which read a table   *)
(* and then add what is in memory.                                         *)
(*                                                                         *)
(* The clock counts half days: a day is two ticks.  The tables are read    *)
(* and written through the pool's only connection, so a transaction is one *)
(* step to everyone else; the swap before it and the two reads of a        *)
(* ranking are steps of their own.                                         *)
(***************************************************************************)
EXTENDS Naturals, Functions

CONSTANTS
    Key,        \* counted (domain, path) pairs
    Window,     \* days of the longest range an admin may ask for: 90
    Keep,       \* days of daily_domain_stats that a cleanup keeps: 90
    MaxCalls,   \* bound on the requests of one key
    MaxClock    \* bound on the half days that pass

ASSUME WindowAssumption == Window \in Nat \ {0}
ASSUME KeepAssumption == Keep \in Nat /\ Keep >= Window
ASSUME MaxAssumption == MaxCalls \in Nat /\ MaxClock \in Nat
ASSUME KeyAssumption == Key # {}

VARIABLES
    clock,         \* half days since the start
    memoryStats,   \* DomainStatsService.memoryStats, the counts
    flush,         \* the goroutine of startPeriodicSave
    total,         \* domain_stats, the counts
    daily,         \* daily_domain_stats, by day; 0 for no row
    query,         \* one ranking an admin asks for
    hist           \* history, see below

vars == <<clock, memoryStats, flush, total, daily, query, hist>>

Tick == 0..MaxClock
DayOf(t) == t \div 2
Day == {DayOf(t) : t \in Tick}
None == [k \in Key |-> 0]
Plus(f, g) == [k \in Key |-> f[k] + g[k]]

\* The flush is "idle", or has "swapped" the maps, or has "dated" its batch.
NoFlush == [pc |-> "idle", batch |-> None, day |-> 0]

\* A query sums one key over the days first..last or over all time, and adds
\* the memory if "merge". due and quiet are history: the requests in its range
\* before it started, less what is lost; no flush has been under way during it.
NoQuery == [pc |-> "idle", kind |-> "total", key |-> CHOOSE k \in Key : TRUE,
            first |-> 0, last |-> 0, merge |-> FALSE,
            sum |-> 0, due |-> 0, quiet |-> TRUE]

\* hist. recorded: the requests of a key; made: when; lost: those that a failed
\* transaction or a dead process took along; purged: those whose daily row a
\* cleanup deleted.
Init ==
    /\ clock = 0
    /\ memoryStats = None
    /\ flush = NoFlush
    /\ total = None
    /\ daily = [d \in Day |-> None]
    /\ query = NoQuery
    /\ hist = [recorded |-> None, made |-> [t \in Tick |-> None],
               lost |-> None, purged |-> None]

-----------------------------------------------------------------------------
RecordRequest(k) ==
    /\ hist.recorded[k] < MaxCalls
    /\ memoryStats' = [memoryStats EXCEPT ![k] = @ + 1]
    /\ hist' = [hist EXCEPT !.recorded[k] = @ + 1, !.made[clock][k] = @ + 1]
    /\ UNCHANGED <<clock, flush, total, daily, query>>

(***************************************************************************)
(* flushToDatabase.                                                        *)
(***************************************************************************)
Loud == query' = [query EXCEPT !.quiet = FALSE]

\* Mutant: the map is copied and not replaced.
MutSwapCopies ==
    /\ flush.pc = "idle" /\ memoryStats # None
    /\ flush' = [flush EXCEPT !.pc = "swapped", !.batch = memoryStats]
    /\ Loud
    /\ UNCHANGED <<clock, memoryStats, total, daily, hist>>

Swap ==
    /\ flush.pc = "idle" /\ memoryStats # None
    /\ flush' = [flush EXCEPT !.pc = "swapped", !.batch = memoryStats]
    /\ memoryStats' = None
    /\ Loud
    /\ UNCHANGED <<clock, total, daily, hist>>

DateBatch ==
    /\ flush.pc = "swapped"
    /\ flush' = [flush EXCEPT !.pc = "dated", !.day = DayOf(clock)]
    /\ UNCHANGED <<clock, memoryStats, total, daily, query, hist>>

\* Mutant: the daily upsert sets the count of an existing row.
MutCommitSetsDaily ==
    /\ flush.pc = "dated"
    /\ total' = Plus(total, flush.batch)
    /\ daily' = [daily EXCEPT ![flush.day] =
           [k \in Key |-> IF flush.batch[k] > 0 THEN flush.batch[k] ELSE @[k]]]
    /\ flush' = NoFlush
    /\ UNCHANGED <<clock, memoryStats, query, hist>>

Commit ==
    /\ flush.pc = "dated"
    /\ total' = Plus(total, flush.batch)
    /\ daily' = [daily EXCEPT ![flush.day] = Plus(@, flush.batch)]
    /\ flush' = NoFlush
    /\ UNCHANGED <<clock, memoryStats, query, hist>>

\* Mutant: the goroutine returns with the error.
MutFlushFailsEnds ==
    /\ flush.pc = "dated"
    /\ hist' = [hist EXCEPT !.lost = Plus(@, flush.batch)]
    /\ flush' = [NoFlush EXCEPT !.pc = "ended"]
    /\ UNCHANGED <<clock, memoryStats, total, daily, query>>

\* An upsert fails and all are rolled back. The error is logged, the batch is
\* gone: memory has a new map already.
FlushFails ==
    /\ flush.pc = "dated"
    /\ hist' = [hist EXCEPT !.lost = Plus(@, flush.batch)]
    /\ flush' = NoFlush
    /\ UNCHANGED <<clock, memoryStats, total, daily, query>>

\* Mutant: the cutoff is a day later.
MutCleanupOldStatsEarly ==
    LET old == {d \in Day : d + Keep < DayOf(clock) + 1}
    IN  /\ flush.pc = "idle"
        /\ daily' = [d \in Day |-> IF d \in old THEN None ELSE daily[d]]
        /\ hist' = [hist EXCEPT !.purged = [k \in Key |->
               @[k] + SumFunctionOnSet([d \in Day |-> daily[d][k]], old)]]
        /\ UNCHANGED <<clock, memoryStats, flush, total, query>>

\* The same goroutine, on its other ticker.
CleanupOldStats ==
    LET old == {d \in Day : d + Keep < DayOf(clock)}
    IN  /\ flush.pc = "idle"
        /\ daily' = [d \in Day |-> IF d \in old THEN None ELSE daily[d]]
        /\ hist' = [hist EXCEPT !.purged = [k \in Key |->
               @[k] + SumFunctionOnSet([d \in Day |-> daily[d][k]], old)]]
        /\ UNCHANGED <<clock, memoryStats, flush, total, query>>

(***************************************************************************)
(* The admin's queries.                                                    *)
(***************************************************************************)
Since(k, t) ==
    SumFunctionOnSet([u \in Tick |-> hist.made[u][k]], {u \in Tick : u >= t})
Less(n, m) == IF n > m THEN n - m ELSE 0

Ask(kind, k, first, last, merge, made) ==
    /\ query.pc = "idle"
    /\ query' = [pc |-> "read", kind |-> kind, key |-> k,
                 first |-> first, last |-> last, merge |-> merge, sum |-> 0,
                 due |-> Less(made, hist.lost[k]),
                 quiet |-> flush.pc = "idle"]
    /\ UNCHANGED <<clock, memoryStats, flush, total, daily, hist>>

\* GetTopTotalDomains, GetDomainPathStats("total").
AskTotal(k) == Ask("total", k, 0, DayOf(clock), TRUE, hist.recorded[k])

\* getDomainRankWithinDays, GetDomainPathStats: the last n days, with today.
AskRank(k, n) ==
    LET first == Less(DayOf(clock) + 1, n)
    IN  Ask("days", k, first, DayOf(clock), TRUE, Since(k, 2 * first))

\* A past day of GetDailyTotalSeries, which does not count on the memory; its
\* last day is a rank of one day.
AskPastDay(k, d) ==
    /\ d < DayOf(clock) /\ DayOf(clock) < d + Window
    /\ Ask("days", k, d, d, FALSE, 0)

ReadTable ==
    LET k == query.key
    IN  /\ query.pc = "read"
        /\ query' = [query EXCEPT !.pc = "merge", !.sum =
               IF query.kind = "total" THEN total[k]
               ELSE SumFunctionOnSet([d \in Day |-> daily[d][k]],
                                     query.first..query.last)]
        /\ UNCHANGED <<clock, memoryStats, flush, total, daily, hist>>

\* memoryAggregateByDomain, memoryAggregateByDomainPath, snapshotMemoryCounts.
MergeMemory ==
    /\ query.pc = "merge"
    /\ query' = [query EXCEPT !.pc = "done", !.sum =
           IF query.merge THEN @ + memoryStats[query.key] ELSE @]
    /\ UNCHANGED <<clock, memoryStats, flush, total, daily, hist>>

\* The answer is sent, or reading the table has failed.
EndQuery ==
    /\ query.pc \in {"read", "done"}
    /\ query' = NoQuery
    /\ UNCHANGED <<clock, memoryStats, flush, total, daily, hist>>

-----------------------------------------------------------------------------
\* The process dies, in a transaction or not, or exits: main.go flushes
\* nothing on the way out.
Restart ==
    /\ hist' = [hist EXCEPT !.lost = Plus(Plus(@, memoryStats), flush.batch)]
    /\ memoryStats' = None
    /\ flush' = NoFlush
    /\ query' = NoQuery
    /\ UNCHANGED <<clock, total, daily>>

\* No query and no flush lasts for a day.
TimePasses ==
    /\ clock < MaxClock
    /\ query.pc \in {"read", "merge"} => DayOf(clock + 1) <= query.last + 1
    /\ flush.pc = "dated" => DayOf(clock + 1) <= flush.day + 1
    /\ clock' = clock + 1
    /\ UNCHANGED <<memoryStats, flush, total, daily, query, hist>>

FlushStep == Swap \/ DateBatch \/ Commit \/ FlushFails

Next ==
    \/ \E k \in Key : \/ RecordRequest(k) \/ AskTotal(k)
                      \/ \E n \in 1..Window : AskRank(k, n)
                      \/ \E d \in Day : AskPastDay(k, d)
    \/ FlushStep \/ CleanupOldStats
    \/ ReadTable \/ MergeMemory \/ EndQuery
    \/ Restart \/ TimePasses

Spec == Init /\ [][Next]_vars

\* The ticker ticks and a transaction ends.
FairSpec == Spec /\ WF_vars(FlushStep)

-----------------------------------------------------------------------------
(* Properties.                                                             *)

\* Between the swap, the transaction, its failure and a restart, every request
\* is in exactly one place: memory, the batch in flight, the table, or lost.
Conserved ==
    \A k \in Key :
        total[k] + flush.batch[k] + memoryStats[k] + hist.lost[k]
            = hist.recorded[k]

\* The two tables agree: a key's total is the sum of its days, those included
\* that a cleanup has deleted.
TotalsMatchDays ==
    \A k \in Key :
        total[k] = hist.purged[k]
                       + SumFunction([d \in Day |-> daily[d][k]])

\* A ranking that a flush overlaps may miss requests but never counts one
\* twice, because it reads the table before the memory. One that no flush
\* overlaps finds all the requests of its range that were recorded when it was
\* asked for and not lost; no cleanup deletes a day that can still be asked for.
RankingsAreRight ==
    query.pc = "done" =>
        /\ query.sum <= hist.recorded[query.key]
        /\ query.quiet => query.sum >= query.due

\* What is in memory gets flushed, also when transactions fail.
MemoryIsFlushed ==
    \A k \in Key : memoryStats[k] > 0 ~> memoryStats[k] = 0
=============================================================================
