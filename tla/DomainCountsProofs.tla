--------------------------- MODULE DomainCountsProofs ---------------------------
(* Theorems about DomainCounts, for any counted keys, any windows and any number *)
(* of days. What rankings sum over days is reasoned about in Induction.        *)
EXTENDS DomainCounts, Induction

Counts == [Key -> Nat]

\* The types of what is conserved; only the fields of the history are named.
Types ==
    /\ {memoryStats, total, hist.recorded, hist.lost} \subseteq Counts
    /\ flush \in [pc : {"idle", "swapped", "dated"}, batch : Counts, day : Nat]
    /\ DOMAIN hist = {"recorded", "made", "lost", "purged"}
    /\ clock \in Tick

\* A batch is in flight from the swap to the end of its transaction only.
BatchInFlight == flush.pc = "idle" => flush.batch = None

IInv == Types /\ BatchInFlight /\ Conserved

LEMMA NoneIsCounts == None \in Counts
  BY DEF None, Counts

LEMMA PlusAdds ==
    ASSUME NEW f \in Counts, NEW g \in Counts
    PROVE  Plus(f, g) \in Counts /\ \A k \in Key : Plus(f, g)[k] = f[k] + g[k]
  BY DEF Plus, Counts

LEMMA DayIsNat == \A t \in Tick : DayOf(t) \in Nat
  BY MaxAssumption DEF DayOf, Tick

LEMMA InitInv == Init => IInv
  <1> SUFFICES ASSUME Init PROVE IInv
    OBVIOUS
  <1>1. 0 \in Tick
    BY MaxAssumption DEF Tick
  <1> QED BY <1>1, NoneIsCounts
          DEF Init, NoFlush, IInv, Types, BatchInFlight, Conserved, None

\* The counts of a query are nobody's but its own.
LEMMA QueryKeeps ==
    ASSUME IInv, UNCHANGED <<clock, memoryStats, flush, total, hist>>
    PROVE  IInv'
  BY DEF IInv, Types, BatchInFlight, Conserved

LEMMA NextInv == IInv /\ [Next]_vars => IInv'
  <1> SUFFICES ASSUME IInv, [Next]_vars PROVE IInv'
    OBVIOUS
  <1> USE DEF IInv
  <1>0. CASE UNCHANGED vars
    BY <1>0, QueryKeeps DEF vars
  <1>1. ASSUME NEW k \in Key, RecordRequest(k) PROVE IInv'
    <2> USE <1>1 DEF RecordRequest
    <2>1. /\ memoryStats' = [memoryStats EXCEPT ![k] = @ + 1]
          /\ hist'.recorded = [hist.recorded EXCEPT ![k] = @ + 1]
          /\ hist'.lost = hist.lost /\ DOMAIN hist' = DOMAIN hist
      BY DEF Types
    <2>2. Types'
      BY <2>1 DEF Types, Counts
    <2>3. Conserved'
      BY <2>1 DEF Conserved, Types, Counts
    <2> QED BY <2>2, <2>3 DEF BatchInFlight
  <1>2. CASE Swap
    <2> USE <1>2, NoneIsCounts DEF Swap
    <2>1. flush'.batch = memoryStats /\ flush'.pc = "swapped" /\ memoryStats' = None
      BY DEF Types
    <2>2. Types'
      BY DEF Types
    <2>3. Conserved'
      <3> SUFFICES ASSUME NEW k \in Key
                   PROVE  total'[k] + flush'.batch[k] + memoryStats'[k] + hist'.lost[k]
                              = hist'.recorded[k]
        BY DEF Conserved
      <3>1. flush.batch[k] = 0 /\ memoryStats'[k] = 0
        BY <2>1 DEF BatchInFlight, None
      <3>2. total[k] \in Nat /\ memoryStats[k] \in Nat /\ hist.lost[k] \in Nat
        BY DEF Types, Counts
      <3> QED BY <2>1, <3>1, <3>2 DEF Conserved
    <2> QED BY <2>1, <2>2, <2>3 DEF BatchInFlight
  <1>3. CASE DateBatch
    <2>1. flush'.batch = flush.batch /\ flush'.pc = "dated"
      BY <1>3 DEF DateBatch, Types
    <2>2. Types'
      BY <1>3, DayIsNat DEF DateBatch, Types
    <2> QED BY <1>3, <2>1, <2>2 DEF DateBatch, BatchInFlight, Conserved
  <1>4. CASE Commit
    <2> USE <1>4, NoneIsCounts DEF Commit, NoFlush
    <2>1. flush.batch \in Counts /\ total \in Counts
      BY DEF Types
    <2>2. Types'
      BY <2>1, PlusAdds DEF Types
    <2>3. Conserved'
      <3> SUFFICES ASSUME NEW k \in Key
                   PROVE  total'[k] + flush'.batch[k] + memoryStats'[k] + hist'.lost[k]
                              = hist'.recorded[k]
        BY DEF Conserved
      <3>1. total'[k] = total[k] + flush.batch[k] /\ flush'.batch[k] = 0
        BY <2>1, PlusAdds DEF None
      <3>2. {total[k], flush.batch[k], memoryStats[k], hist.lost[k]} \subseteq Nat
        BY DEF Types, Counts
      <3> QED BY <3>1, <3>2 DEF Conserved
    <2> QED BY <2>2, <2>3 DEF BatchInFlight
  <1>5. CASE FlushFails
    <2> USE <1>5, NoneIsCounts DEF FlushFails, NoFlush
    <2>1. flush.batch \in Counts /\ hist.lost \in Counts
      BY DEF Types
    <2>2. /\ hist'.lost = Plus(hist.lost, flush.batch)
          /\ hist'.recorded = hist.recorded /\ DOMAIN hist' = DOMAIN hist
      BY DEF Types
    <2>3. Types'
      BY <2>1, <2>2, PlusAdds DEF Types
    <2>4. Conserved'
      <3> SUFFICES ASSUME NEW k \in Key
                   PROVE  total'[k] + flush'.batch[k] + memoryStats'[k] + hist'.lost[k]
                              = hist'.recorded[k]
        BY DEF Conserved
      <3>1. hist'.lost[k] = hist.lost[k] + flush.batch[k] /\ flush'.batch[k] = 0
        BY <2>1, <2>2, PlusAdds DEF None
      <3>2. {total[k], flush.batch[k], memoryStats[k], hist.lost[k]} \subseteq Nat
        BY DEF Types, Counts
      <3> QED BY <2>2, <3>1, <3>2 DEF Conserved
    <2> QED BY <2>3, <2>4 DEF BatchInFlight
  <1>6. CASE CleanupOldStats
    <2>1. /\ hist'.recorded = hist.recorded /\ hist'.lost = hist.lost
          /\ DOMAIN hist' = DOMAIN hist
      BY <1>6 DEF CleanupOldStats, Types
    <2> QED BY <1>6, <2>1 DEF CleanupOldStats, Types, BatchInFlight, Conserved
  <1>7. ASSUME NEW k \in Key,
               \/ AskTotal(k) \/ \E n \in 1..Window : AskRank(k, n)
               \/ \E d \in Day : AskPastDay(k, d)
        PROVE  IInv'
    BY <1>7, QueryKeeps DEF AskTotal, AskRank, AskPastDay, Ask
  <1>8. CASE ReadTable \/ MergeMemory \/ EndQuery
    BY <1>8, QueryKeeps DEF ReadTable, MergeMemory, EndQuery
  <1>9. CASE Restart
    <2> USE <1>9, NoneIsCounts DEF Restart, NoFlush
    <2>1. flush.batch \in Counts /\ hist.lost \in Counts /\ memoryStats \in Counts
      BY DEF Types
    <2>2. /\ hist'.lost = Plus(Plus(hist.lost, memoryStats), flush.batch)
          /\ hist'.recorded = hist.recorded /\ DOMAIN hist' = DOMAIN hist
      BY DEF Types
    <2>3. Plus(hist.lost, memoryStats) \in Counts
      BY <2>1, PlusAdds
    <2>4. Types'
      BY <2>1, <2>2, <2>3, PlusAdds DEF Types
    <2>5. Conserved'
      <3> SUFFICES ASSUME NEW k \in Key
                   PROVE  total'[k] + flush'.batch[k] + memoryStats'[k] + hist'.lost[k]
                              = hist'.recorded[k]
        BY DEF Conserved
      <3>1. /\ hist'.lost[k] = hist.lost[k] + memoryStats[k] + flush.batch[k]
            /\ flush'.batch[k] = 0 /\ memoryStats'[k] = 0
        BY <2>1, <2>2, <2>3, PlusAdds DEF None
      <3>2. {total[k], flush.batch[k], memoryStats[k], hist.lost[k]} \subseteq Nat
        BY DEF Types, Counts
      <3> QED BY <2>2, <3>1, <3>2 DEF Conserved
    <2> QED BY <2>4, <2>5 DEF BatchInFlight
  <1>10. CASE TimePasses
    <2>1. clock' \in Tick
      BY <1>10, MaxAssumption DEF TimePasses, Types, Tick
    <2> QED BY <1>10, <2>1 DEF TimePasses, Types, BatchInFlight, Conserved
  <1> QED BY <1>0, <1>1, <1>2, <1>3, <1>4, <1>5, <1>6, <1>7, <1>8, <1>9, <1>10
          DEF Next, FlushStep

\* Every request is in memory, in the batch in flight, in the table or lost with
\* a transaction or a process, and in one of them only.
THEOREM RequestsAreConserved == Spec => []Conserved
  <1>1. IInv => Conserved
    BY DEF IInv
  <1> QED BY <1>1, InitInv, NextInv, PTL DEF Spec

-----------------------------------------------------------------------------
(* The days. The rest of the state has a type, too.                          *)

Queries ==
    [pc : {"idle", "read", "merge", "done"}, kind : {"total", "days"}, key : Key,
     first : Nat, last : Nat, merge : BOOLEAN, sum : Nat, due : Nat,
     quiet : BOOLEAN]

RowTypes ==
    /\ daily \in [Day -> Counts] /\ flush.day \in Day
    /\ hist.made \in [Tick -> Counts] /\ hist.purged \in Counts
    /\ query \in Queries
    /\ query.pc # "idle" /\ query.kind = "days" => query.first..query.last \subseteq Day

DailyOf(k) == [d \in Day |-> daily[d][k]]
MadeOf(k) == [t \in Tick |-> hist.made[t][k]]
InDays(k, S) == SumFunctionOnSet(DailyOf(k), S)

LEMMA TickIsFinite == /\ Tick \subseteq Nat /\ IsFiniteSet(Tick) /\ 0 \in Tick
  BY MaxAssumption, FS_Interval DEF Tick

LEMMA DayOfGrows ==
    ASSUME NEW t \in Nat
    PROVE  /\ DayOf(t) \in Nat /\ DayOf(t) <= t /\ DayOf(t) <= DayOf(t + 1)
           /\ DayOf(t + 1) <= DayOf(t) + 1
           /\ \A d \in Nat : 2 * d <= t <=> d <= DayOf(t)
  BY DEF DayOf

LEMMA DayIsFinite ==
    /\ Day \subseteq Nat /\ IsFiniteSet(Day) /\ 0 \in Day
    /\ \A d \in Day, c \in Nat : c <= d => c \in Day
    /\ \A t \in Tick : DayOf(t) \in Day
  <1>1. Day \subseteq Nat /\ Day \subseteq Tick
    <2> SUFFICES ASSUME NEW t \in Tick PROVE DayOf(t) \in Nat /\ DayOf(t) \in Tick
      BY DEF Day
    <2>1. t \in Nat /\ t <= MaxClock
      BY MaxAssumption DEF Tick
    <2>2. DayOf(t) \in Nat /\ DayOf(t) <= t
      BY <2>1, DayOfGrows
    <2> QED BY <2>1, <2>2, MaxAssumption DEF Tick
  <1>2. IsFiniteSet(Day)
    BY <1>1, TickIsFinite, FS_Subset
  <1>3. ASSUME NEW d \in Day, NEW c \in Nat, c <= d PROVE c \in Day
    <2>1. PICK t \in Tick : d = DayOf(t)
      BY DEF Day
    <2>2. 2 * c \in Tick
      BY <1>3, <2>1, TickIsFinite, DayOfGrows, MaxAssumption DEF Tick
    <2>3. DayOf(2 * c) = c
      BY DEF DayOf
    <2> QED BY <2>2, <2>3 DEF Day
  <1>4. \A t \in Tick : DayOf(t) \in Day
    BY DEF Day
  <1>5. 0 \in Day
    <2>1. DayOf(0) = 0
      BY DEF DayOf
    <2> QED BY <1>4, <2>1, TickIsFinite
  <1> QED BY <1>1, <1>2, <1>3, <1>4, <1>5

\* What the sums add up are numbers.
LEMMA DaysCount ==
    ASSUME RowTypes, NEW k \in Key, NEW S \in SUBSET Day
    PROVE  /\ Counting(DailyOf(k), S) /\ InDays(k, S) \in Nat
           /\ \A d \in Day : DailyOf(k)[d] = daily[d][k] /\ daily[d][k] \in Nat
  <1>1. \A d \in Day : DailyOf(k)[d] = daily[d][k] /\ daily[d][k] \in Nat
    BY DEF RowTypes, Counts, DailyOf
  <1>2. IsFiniteSet(S)
    BY DayIsFinite, FS_Subset
  <1>3. Counting(DailyOf(k), S)
    BY <1>1, <1>2 DEF Counting
  <1> QED BY <1>1, <1>3, SumType DEF InDays

LEMMA LessIsNat ==
    ASSUME NEW n \in Nat, NEW m \in Nat
    PROVE  Less(n, m) \in Nat /\ Less(n, m) <= n /\ n <= Less(n, m) + m
  BY DEF Less

LEMMA SinceCounts ==
    ASSUME RowTypes, NEW k \in Key, NEW t \in Nat
    PROVE  /\ Counting(MadeOf(k), {u \in Tick : u >= t}) /\ Since(k, t) \in Nat
           /\ Since(k, t) = SumFunctionOnSet(MadeOf(k), {u \in Tick : u >= t})
  <1>1. Counting(MadeOf(k), {u \in Tick : u >= t})
    <2>1. IsFiniteSet({u \in Tick : u >= t})
      BY TickIsFinite, FS_Subset
    <2>2. \A u \in Tick : MadeOf(k)[u] \in Nat
      BY DEF RowTypes, Counts, MadeOf
    <2> QED BY <2>1, <2>2 DEF Counting
  <1> QED BY <1>1, SumType DEF Since, MadeOf

LEMMA RowTypesInit == Init => RowTypes
  <1> SUFFICES ASSUME Init PROVE RowTypes
    OBVIOUS
  <1>1. NoQuery \in Queries /\ NoQuery.pc = "idle"
    BY KeyAssumption DEF NoQuery, Queries
  <1> QED BY <1>1, NoneIsCounts, DayIsFinite DEF Init, RowTypes, NoFlush

LEMMA RowTypesNext == IInv /\ RowTypes /\ [Next]_vars => RowTypes'
  <1> SUFFICES ASSUME IInv, RowTypes, [Next]_vars PROVE RowTypes'
    OBVIOUS
  <1> USE DEF RowTypes
  <1>0. CASE UNCHANGED vars
    BY <1>0 DEF vars
  <1>1. ASSUME NEW k \in Key, RecordRequest(k) PROVE RowTypes'
    <2>1. hist'.made = [hist.made EXCEPT ![clock][k] = @ + 1] /\ hist'.purged = hist.purged
      BY <1>1 DEF RecordRequest, IInv, Types
    <2>2. hist'.made \in [Tick -> Counts]
      BY <2>1 DEF Counts, IInv, Types
    <2> QED BY <1>1, <2>1, <2>2 DEF RecordRequest
  <1>2. CASE Swap
    BY <1>2 DEF Swap, Loud, Queries, IInv, Types
  <1>3. CASE DateBatch
    BY <1>3, DayIsFinite DEF DateBatch, IInv, Types
  <1>4. CASE Commit
    <2>1. daily[flush.day] \in Counts /\ flush.batch \in Counts
      BY DEF IInv, Types
    <2>2. daily' \in [Day -> Counts]
      BY <1>4, <2>1, PlusAdds DEF Commit
    <2> QED BY <1>4, <2>2, DayIsFinite DEF Commit, NoFlush
  <1>5. CASE FlushFails
    BY <1>5, DayIsFinite DEF FlushFails, NoFlush, IInv, Types
  <1>6. CASE CleanupOldStats
    <2> DEFINE old == {d \in Day : d + Keep < DayOf(clock)}
    <2>1. /\ hist'.made = hist.made
          /\ hist'.purged = [k \in Key |-> hist.purged[k] + InDays(k, old)]
      BY <1>6 DEF CleanupOldStats, InDays, DailyOf, IInv, Types
    <2>2. hist'.purged \in Counts
      <3>1. \A k \in Key : InDays(k, old) \in Nat
        BY DaysCount
      <3> QED BY <2>1, <3>1 DEF Counts
    <2>3. daily' \in [Day -> Counts]
      BY <1>6, NoneIsCounts DEF CleanupOldStats
    <2> QED BY <1>6, <2>1, <2>2, <2>3 DEF CleanupOldStats
  <1>7. ASSUME NEW kind \in {"total", "days"}, NEW k \in Key, NEW first \in Nat,
               NEW last \in Nat, NEW merge \in BOOLEAN, NEW made \in Nat,
               kind = "days" => last \in Day,
               Ask(kind, k, first, last, merge, made)
        PROVE  RowTypes'
    <2>1. Less(made, hist.lost[k]) \in Nat
      BY LessIsNat DEF IInv, Types, Counts
    <2>2. kind = "days" => first..last \subseteq Day
      BY <1>7, DayIsFinite
    <2> QED BY <1>7, <2>1, <2>2 DEF Ask, Queries
  <1>8. ASSUME NEW k \in Key,
               \/ AskTotal(k) \/ \E n \in 1..Window : AskRank(k, n)
               \/ \E d \in Day : AskPastDay(k, d)
        PROVE  RowTypes'
    <2>0. DayOf(clock) \in Nat /\ DayOf(clock) \in Day
      BY DayIsFinite DEF IInv, Types
    <2>1. CASE AskTotal(k)
      <3>1. hist.recorded[k] \in Nat
        BY DEF IInv, Types, Counts
      <3> QED BY <1>7, <2>0, <2>1, <3>1 DEF AskTotal
    <2>2. ASSUME NEW n \in 1..Window, AskRank(k, n) PROVE RowTypes'
      <3>0. n \in Nat /\ DayOf(clock) + 1 \in Nat
        BY <2>0, WindowAssumption
      <3>1. Less(DayOf(clock) + 1, n) \in Nat
        BY <3>0, LessIsNat
      <3>3. 2 * Less(DayOf(clock) + 1, n) \in Nat
        BY <3>1
      <3>2. Since(k, 2 * Less(DayOf(clock) + 1, n)) \in Nat
        BY <3>3, SinceCounts
      <3> QED BY <1>7, <2>0, <2>2, <3>1, <3>2 DEF AskRank
    <2>3. ASSUME NEW d \in Day, AskPastDay(k, d) PROVE RowTypes'
      BY <1>7, <2>3, DayIsFinite DEF AskPastDay
    <2> QED BY <1>8, <2>1, <2>2, <2>3
  <1>9. CASE ReadTable
    <2> DEFINE n == IF query.kind = "total" THEN total[query.key]
                    ELSE InDays(query.key, query.first..query.last)
    <2>1. query.key \in Key /\ query.kind \in {"total", "days"} /\ query.pc = "read"
      BY <1>9 DEF Queries, ReadTable
    <2>2. n \in Nat
      BY <2>1, DaysCount DEF IInv, Types, Counts
    <2>3. query' = [query EXCEPT !.pc = "merge", !.sum = n]
      BY <1>9 DEF ReadTable, InDays, DailyOf
    <2> HIDE DEF n
    <2> QED BY <1>9, <2>1, <2>2, <2>3 DEF Queries, ReadTable
  <1>10. CASE MergeMemory
    <2>1. memoryStats[query.key] \in Nat /\ query.sum \in Nat
      BY DEF Queries, IInv, Types, Counts
    <2> DEFINE n == IF query.merge THEN query.sum + memoryStats[query.key] ELSE query.sum
    <2>2. n \in Nat /\ query' = [query EXCEPT !.pc = "done", !.sum = n]
      BY <1>10, <2>1 DEF MergeMemory
    <2> HIDE DEF n
    <2> QED BY <1>10, <2>2 DEF MergeMemory, Queries
  <1>11. CASE EndQuery \/ Restart
    <2>1. NoQuery \in Queries /\ NoQuery.pc = "idle"
      BY KeyAssumption DEF NoQuery, Queries
    <2> QED BY <1>11, <2>1, DayIsFinite DEF EndQuery, Restart, NoFlush, IInv, Types
  <1>12. CASE TimePasses
    BY <1>12 DEF TimePasses
  <1> QED BY <1>0, <1>1, <1>2, <1>3, <1>4, <1>5, <1>6, <1>8, <1>9, <1>10, <1>11, <1>12
          DEF Next, FlushStep

LEMMA TotalsMatchInit == Init => TotalsMatchDays
  <1> SUFFICES ASSUME Init, NEW k \in Key
               PROVE  total[k] = hist.purged[k] + InDays(k, Day)
    BY DEF TotalsMatchDays, SumFunction, InDays, DailyOf
  <1>1. \A d \in Day : DailyOf(k)[d] = 0
    BY DEF Init, DailyOf, None
  <1>2. InDays(k, Day) = 0
    BY <1>1, DayIsFinite, SumZero DEF InDays
  <1> QED BY <1>2 DEF Init, None

LEMMA TotalsMatchNext ==
    IInv /\ RowTypes /\ TotalsMatchDays /\ [Next]_vars => TotalsMatchDays'
  <1> SUFFICES ASSUME IInv, RowTypes, TotalsMatchDays, [Next]_vars, NEW k \in Key
               PROVE  total'[k] = hist'.purged[k] + InDays(k, Day)'
    BY DEF TotalsMatchDays, SumFunction, InDays, DailyOf
  <1>0. total[k] = hist.purged[k] + InDays(k, Day)
    BY DEF TotalsMatchDays, SumFunction, InDays, DailyOf
  <1>1. CASE Commit
    <2>1. hist' = hist /\ total'[k] = total[k] + flush.batch[k]
      BY <1>1, PlusAdds DEF Commit, IInv, Types
    <2>2. /\ DailyOf(k)'[flush.day] = DailyOf(k)[flush.day] + flush.batch[k]
          /\ \A d \in Day \ {flush.day} : DailyOf(k)'[d] = DailyOf(k)[d]
      BY <1>1, PlusAdds DEF Commit, DailyOf, IInv, Types, RowTypes
    <2>3. flush.batch[k] \in Nat /\ total[k] \in Nat /\ hist.purged[k] \in Nat
          /\ flush.day \in Day
      BY DEF IInv, Types, RowTypes, Counts
    <2>4. InDays(k, Day)' = InDays(k, Day) + flush.batch[k]
      BY <2>2, <2>3, DaysCount, SumGrows DEF InDays
    <2> QED BY <1>0, <2>1, <2>3, <2>4, DaysCount
  <1>2. CASE CleanupOldStats
    <2>0. PICK old \in SUBSET Day : old = {d \in Day : d + Keep < DayOf(clock)}
      OBVIOUS
    <2>1. /\ hist'.purged[k] = hist.purged[k] + InDays(k, old) /\ total' = total
          /\ \A d \in Day : DailyOf(k)'[d] = IF d \in old THEN 0 ELSE DailyOf(k)[d]
      BY <1>2, <2>0 DEF CleanupOldStats, InDays, DailyOf, None, IInv, Types
    <2>2. IsFiniteSet(old) /\ Counting(DailyOf(k), Day) /\ Counting(DailyOf(k), Day \ old)
      BY DaysCount, DayIsFinite, FS_Subset
    <2>3. Counting(DailyOf(k)', Day)
      BY <2>1, <2>2 DEF Counting
    <2>4. /\ InDays(k, Day) = InDays(k, old) + InDays(k, Day \ old)
          /\ InDays(k, Day)' = InDays(k, old)' + InDays(k, Day \ old)'
      BY <2>2, <2>3, SumParts DEF InDays
    <2>5. InDays(k, old)' = 0
      BY <2>1, <2>2, SumZero DEF InDays
    <2>6. InDays(k, Day \ old)' = InDays(k, Day \ old)
      BY <2>1, <2>2, SumSame DEF InDays
    <2>7. /\ InDays(k, old) \in Nat /\ InDays(k, Day \ old) \in Nat
          /\ hist.purged[k] \in Nat /\ total[k] \in Nat
      BY DaysCount DEF RowTypes, IInv, Types, Counts
    <2> QED BY <1>0, <2>1, <2>4, <2>5, <2>6, <2>7
  <1>3. CASE ~Commit /\ ~CleanupOldStats
    <2>1. UNCHANGED <<total, daily, hist.purged>>
      BY <1>3 DEF Next, vars, FlushStep, RecordRequest, AskTotal, AskRank, AskPastDay,
                  Ask, Swap, DateBatch, FlushFails, ReadTable, MergeMemory, EndQuery,
                  Restart, TimePasses, IInv, Types
    <2> QED BY <1>0, <2>1 DEF InDays, DailyOf
  <1> QED BY <1>1, <1>2, <1>3

-----------------------------------------------------------------------------
(* What rankings rest on.                                                    *)

\* Nothing is counted for a day to come.
NothingAhead ==
    /\ \A t \in Tick, k \in Key : t > clock => hist.made[t][k] = 0
    /\ \A d \in Day, k \in Key : d > DayOf(clock) => daily[d][k] = 0
    /\ flush.pc = "dated" => flush.day <= DayOf(clock)

\* The requests made since a day that no cleanup has reached are found in the
\* rows from that day on, but for those in memory, in a batch with a day of
\* them, or lost.
From(f) == {d \in Day : d >= f}
Batched(k, f) ==
    IF flush.pc = "dated" /\ flush.day < f THEN 0 ELSE flush.batch[k]
DaysCover ==
    \A k \in Key, f \in Nat :
        f + Keep >= DayOf(clock) =>
            Since(k, 2 * f) <= InDays(k, From(f)) + Batched(k, f) + memoryStats[k]
                                   + hist.lost[k]

LEMMA AheadInit == Init => NothingAhead
  BY DEF Init, NothingAhead, NoFlush, None

LEMMA AheadNext ==
    IInv /\ RowTypes /\ NothingAhead /\ [Next]_vars => NothingAhead'
  <1> SUFFICES ASSUME IInv, RowTypes, NothingAhead, [Next]_vars PROVE NothingAhead'
    OBVIOUS
  <1> USE DEF NothingAhead
  <1>0. clock \in Nat /\ DayOf(clock) \in Nat
    BY TickIsFinite, DayOfGrows DEF IInv, Types
  <1>1. ASSUME NEW k \in Key, RecordRequest(k) PROVE NothingAhead'
    <2>1. /\ \A t \in Tick : t # clock => hist'.made[t] = hist.made[t]
          /\ UNCHANGED <<clock, daily, flush>>
      BY <1>1 DEF RecordRequest, IInv, Types, RowTypes
    <2>2. ~(clock > clock)
      BY <1>0
    <2> QED BY <2>1, <2>2
  <1>2. CASE DateBatch
    BY <1>0, <1>2 DEF DateBatch, IInv, Types
  <1>3. CASE Commit
    <2>1. UNCHANGED <<clock, hist>> /\ flush'.pc = "idle" /\ flush.day <= DayOf(clock)
      BY <1>3 DEF Commit, NoFlush
    <2>2. \A d \in Day : d # flush.day => daily'[d] = daily[d]
      BY <1>3 DEF Commit, RowTypes
    <2>3. \A d \in Day : d > DayOf(clock) => d # flush.day
      BY <1>0, <2>1, DayIsFinite DEF RowTypes
    <2> QED BY <2>1, <2>2, <2>3
  <1>4. CASE CleanupOldStats
    <2>1. \A d \in Day, k \in Key : daily'[d][k] \in {0, daily[d][k]}
      BY <1>4 DEF CleanupOldStats, None
    <2>2. UNCHANGED <<clock, flush, hist.made>>
      BY <1>4 DEF CleanupOldStats, IInv, Types
    <2> QED BY <2>1, <2>2
  <1>5. CASE TimePasses
    <2>1. /\ clock' = clock + 1 /\ UNCHANGED <<daily, flush, hist>>
          /\ DayOf(clock) <= DayOf(clock') /\ DayOf(clock') \in Nat
      BY <1>0, <1>5, DayOfGrows DEF TimePasses
    <2>2. \A t \in Tick : t > clock' => t > clock
      BY <1>0, <2>1, TickIsFinite
    <2>3. ASSUME NEW d \in Nat
          PROVE  /\ d > DayOf(clock') => d > DayOf(clock)
                 /\ d <= DayOf(clock) => d <= DayOf(clock')
      BY <1>0, <2>1
    <2>4. Day \subseteq Nat /\ flush.day \in Nat
      BY DayIsFinite DEF RowTypes
    <2>5. \A t \in Tick, k \in Key : t > clock' => hist'.made[t][k] = 0
      BY <2>1, <2>2
    <2>6. \A d \in Day, k \in Key : d > DayOf(clock') => daily'[d][k] = 0
      <3> SUFFICES ASSUME NEW d \in Day, NEW k \in Key, d > DayOf(clock')
                   PROVE  daily[d][k] = 0
        BY <2>1
      <3>1. d > DayOf(clock)
        BY <2>3, <2>4
      <3> QED BY <3>1
    <2>7. flush'.pc = "dated" => flush'.day <= DayOf(clock')
      <3> SUFFICES ASSUME flush.pc = "dated" PROVE flush.day <= DayOf(clock')
        BY <2>1
      <3>1. flush.day <= DayOf(clock)
        OBVIOUS
      <3> QED BY <2>3, <2>4, <3>1
    <2> QED BY <2>5, <2>6, <2>7
  <1>6. CASE Swap \/ FlushFails \/ Restart
    <2>1. UNCHANGED <<clock, daily>> /\ hist'.made = hist.made
      BY <1>6 DEF Swap, FlushFails, Restart, IInv, Types
    <2>2. flush'.pc # "dated"
      <3>1. CASE Swap
        BY <3>1 DEF Swap, IInv, Types
      <3>2. CASE FlushFails \/ Restart
        <4>1. flush' = NoFlush
          BY <3>2 DEF FlushFails, Restart
        <4> QED BY <4>1 DEF NoFlush
      <3> QED BY <1>6, <3>1, <3>2
    <2> QED BY <2>1, <2>2
  <1>7. CASE UNCHANGED <<clock, daily, hist, flush>>
    BY <1>7
  <1> QED BY <1>1, <1>2, <1>3, <1>4, <1>5, <1>6, <1>7
          DEF Next, vars, FlushStep, AskTotal, AskRank, AskPastDay, Ask,
              ReadTable, MergeMemory, EndQuery

LEMMA CoverInit == Init => DaysCover
  <1> SUFFICES ASSUME Init, NEW k \in Key, NEW f \in Nat
               PROVE  Since(k, 2 * f) <= InDays(k, From(f)) + Batched(k, f)
                                             + memoryStats[k] + hist.lost[k]
    BY DEF DaysCover
  <1>1. RowTypes
    BY RowTypesInit
  <1>2. Since(k, 2 * f) = 0
    <2>1. \A t \in Tick : MadeOf(k)[t] = 0
      BY DEF Init, MadeOf, None
    <2>2. IsFiniteSet({u \in Tick : u >= 2 * f})
      BY TickIsFinite, FS_Subset
    <2>3. 2 * f \in Nat
      OBVIOUS
    <2>4. Since(k, 2 * f) = SumFunctionOnSet(MadeOf(k), {u \in Tick : u >= 2 * f})
      BY <1>1, <2>3, SinceCounts
    <2> QED BY <2>1, <2>2, <2>4, SumZero
  <1>3. InDays(k, From(f)) \in Nat
    BY <1>1, DaysCount DEF From
  <1> QED BY <1>2, <1>3 DEF Init, Batched, NoFlush, None

LEMMA CoverNext ==
    IInv /\ RowTypes /\ NothingAhead /\ DaysCover /\ [Next]_vars => DaysCover'
  <1> SUFFICES ASSUME IInv, RowTypes, NothingAhead, DaysCover, [Next]_vars,
                      NEW k \in Key, NEW f \in Nat, f + Keep >= DayOf(clock')
               PROVE  Since(k, 2 * f)' <= InDays(k, From(f))' + Batched(k, f)'
                                              + memoryStats'[k] + hist'.lost[k]
    BY DEF DaysCover
  <1> DEFINE since == Since(k, 2 * f)
             days == InDays(k, From(f))
             batched == Batched(k, f)
  <1> SUFFICES since' <= days' + batched' + memoryStats'[k] + hist'.lost[k]
    OBVIOUS
  <1>0. clock \in Tick /\ clock \in Nat /\ DayOf(clock) \in Nat /\ clock' \in Nat
    BY TickIsFinite, DayOfGrows, NextInv DEF IInv, Types
  <1>1. f + Keep >= DayOf(clock)
    <2>1. clock' = clock \/ clock' = clock + 1
      BY DEF Next, vars, FlushStep, RecordRequest, AskTotal, AskRank, AskPastDay,
             Ask, Swap, DateBatch, Commit, FlushFails, CleanupOldStats, ReadTable,
             MergeMemory, EndQuery, Restart, TimePasses
    <2>2. \A t \in Nat : DayOf(t) \in Nat /\ DayOf(t) <= DayOf(t + 1)
      BY DayOfGrows
    <2>3. DayOf(clock) <= DayOf(clock') /\ DayOf(clock') \in Nat
      <3>1. CASE clock' = clock
        BY <1>0, <3>1
      <3>2. CASE clock' = clock + 1
        <4>1. DayOf(clock) <= DayOf(clock + 1) /\ DayOf(clock + 1) \in Nat
          BY <1>0, <2>2
        <4> QED BY <3>2, <4>1
      <3> QED BY <2>1, <3>1, <3>2
    <2> QED BY <1>0, <2>3, KeepAssumption
  <1>2. since <= days + batched + memoryStats[k] + hist.lost[k]
    BY <1>1 DEF DaysCover
  <1>3. since \in Nat /\ days \in Nat /\ batched \in Nat /\ flush.batch[k] \in Nat
        /\ memoryStats[k] \in Nat /\ hist.lost[k] \in Nat
    <2>0. 2 * f \in Nat /\ From(f) \in SUBSET Day
      BY DEF From
    <2>1. since \in Nat /\ days \in Nat
      BY <2>0, SinceCounts, DaysCount
    <2>2. flush.batch[k] \in Nat /\ memoryStats[k] \in Nat /\ hist.lost[k] \in Nat
      BY DEF IInv, Types, Counts
    <2> QED BY <2>1, <2>2 DEF Batched
  <1>4. ASSUME NEW j \in Key, RecordRequest(j)
        PROVE  since' <= days' + batched' + memoryStats'[k] + hist'.lost[k]
    <2>1. /\ \A t \in Tick : t # clock => MadeOf(k)'[t] = MadeOf(k)[t]
          /\ MadeOf(k)'[clock] = MadeOf(k)[clock] + IF j = k THEN 1 ELSE 0
          /\ hist'.lost = hist.lost
          /\ memoryStats'[k] = memoryStats[k] + IF j = k THEN 1 ELSE 0
          /\ UNCHANGED <<flush, daily>>
      BY <1>0, <1>4 DEF RecordRequest, MadeOf, IInv, Types, RowTypes, Counts
    <2>0. 2 * f \in Nat
      OBVIOUS
    <2>2. PICK S \in SUBSET Tick : S = {u \in Tick : u >= 2 * f}
      OBVIOUS
    <2>3. Counting(MadeOf(k), S) /\ since = SumFunctionOnSet(MadeOf(k), S)
      BY <2>0, <2>2, SinceCounts
    <2>4. since' = SumFunctionOnSet(MadeOf(k)', S)
      BY <2>2 DEF Since, MadeOf
    <2>5. since' = since \/ since' = since + IF j = k THEN 1 ELSE 0
      <3>1. CASE clock \in S
        BY <2>1, <2>3, <2>4, <3>1, SumGrows
      <3>2. CASE clock \notin S
        BY <2>1, <2>3, <2>4, <3>2, SumSame
      <3> QED BY <3>1, <3>2
    <2>6. days' = days /\ batched' = batched
      BY <2>1 DEF InDays, DailyOf, From, Batched
    <2> HIDE DEF since, days, batched
    <2> QED BY <1>2, <1>3, <2>1, <2>5, <2>6
  <1>5. CASE Swap
    <2>1. /\ UNCHANGED <<daily, hist>> /\ flush'.batch = memoryStats
          /\ flush'.pc = "swapped" /\ memoryStats'[k] = 0 /\ flush.batch[k] = 0
      BY <1>5 DEF Swap, None, IInv, Types, BatchInFlight
    <2>2. /\ since' = since /\ days' = days
          /\ batched = 0 /\ batched' = memoryStats[k]
      BY <2>1 DEF Since, InDays, DailyOf, From, Batched
    <2> HIDE DEF since, days, batched
    <2> QED BY <1>2, <1>3, <2>1, <2>2
  <1>6. CASE DateBatch
    <2>1. /\ UNCHANGED <<daily, hist, memoryStats>> /\ flush'.batch = flush.batch
          /\ flush'.day = DayOf(clock) /\ flush'.pc = "dated" /\ flush.pc = "swapped"
      BY <1>6 DEF DateBatch, IInv, Types
    <2>2. since' = since /\ days' = days /\ batched = flush.batch[k]
      BY <2>1 DEF Since, InDays, DailyOf, From, Batched
    <2>3. CASE DayOf(clock) < f
      <3>1. since = 0
        <4>1. \A u \in Tick : u >= 2 * f => u > clock
          BY <1>0, <2>3, TickIsFinite, DayOfGrows
        <4>2. \A u \in Tick : u >= 2 * f => MadeOf(k)[u] = 0
          BY <4>1 DEF NothingAhead, MadeOf
        <4>3. IsFiniteSet({u \in Tick : u >= 2 * f}) /\ 2 * f \in Nat
          BY TickIsFinite, FS_Subset
        <4> QED BY <4>2, <4>3, SinceCounts, SumZero
      <3>2. batched' \in Nat
        BY <1>3, <2>1 DEF Batched
      <3> HIDE DEF since, days, batched
      <3> QED BY <1>3, <2>1, <2>2, <3>1, <3>2
    <2>4. CASE ~(DayOf(clock) < f)
      <3>1. batched' = flush.batch[k]
        BY <2>1, <2>4 DEF Batched
      <3> HIDE DEF since, days, batched
      <3> QED BY <1>2, <1>3, <2>1, <2>2, <3>1
    <2> QED BY <2>3, <2>4
  <1>7. CASE Commit
    <2>1. /\ UNCHANGED <<hist, memoryStats>> /\ flush'.batch[k] = 0
          /\ flush'.pc = "idle" /\ flush.pc = "dated"
      BY <1>7 DEF Commit, NoFlush, None
    <2>2. /\ DailyOf(k)'[flush.day] = DailyOf(k)[flush.day] + flush.batch[k]
          /\ \A d \in Day \ {flush.day} : DailyOf(k)'[d] = DailyOf(k)[d]
          /\ flush.day \in Day
      BY <1>7, PlusAdds DEF Commit, DailyOf, IInv, Types, RowTypes
    <2>3. since' = since /\ batched' = 0
      BY <2>1 DEF Since, Batched
    <2>4. PICK S \in SUBSET Day : S = From(f)
      BY DEF From
    <2>5. Counting(DailyOf(k), S) /\ days = SumFunctionOnSet(DailyOf(k), S)
          /\ days' = SumFunctionOnSet(DailyOf(k)', S)
      BY <2>4, DaysCount DEF InDays, From
    <2>6. CASE flush.day < f
      <3>1. days' = days
        <4>0. ~(flush.day >= f)
          <5>1. flush.day \in Nat
            BY <2>2, DayIsFinite
          <5> QED BY <2>6, <5>1
        <4>1. flush.day \notin S
          BY <2>4, <4>0, Zenon DEF From
        <4> QED BY <2>2, <2>5, <4>1, SumSame
      <3>2. batched = 0
        BY <2>1, <2>6 DEF Batched
      <3> HIDE DEF since, days, batched
      <3> QED BY <1>2, <1>3, <2>1, <2>3, <3>1, <3>2
    <2>7. CASE ~(flush.day < f)
      <3>1. days' = days + flush.batch[k]
        <4>0. flush.day >= f
          <5>1. flush.day \in Nat
            BY <2>2, DayIsFinite
          <5> QED BY <2>7, <5>1
        <4>1. flush.day \in S
          BY <2>2, <2>4, <4>0, Zenon DEF From
        <4> QED BY <1>3, <2>2, <2>5, <4>1, SumGrows
      <3>2. batched = flush.batch[k]
        BY <2>7 DEF Batched
      <3> HIDE DEF since, days, batched
      <3> QED BY <1>2, <1>3, <2>1, <2>3, <3>1, <3>2
    <2> QED BY <2>6, <2>7
  <1>8. CASE FlushFails \/ Restart
    <2>1. /\ UNCHANGED <<daily, hist.made>> /\ flush'.batch[k] = 0
          /\ flush'.pc = "idle"
      BY <1>8 DEF FlushFails, Restart, NoFlush, None, IInv, Types
    <2>2. memoryStats'[k] + hist'.lost[k] >= memoryStats[k] + hist.lost[k] + flush.batch[k]
          /\ memoryStats'[k] \in Nat /\ hist'.lost[k] \in Nat
      <3>0. flush.batch \in Counts /\ hist.lost \in Counts /\ memoryStats \in Counts
        BY DEF IInv, Types
      <3>1. CASE FlushFails
        <4>1. hist'.lost = Plus(hist.lost, flush.batch) /\ memoryStats' = memoryStats
          BY <3>1 DEF FlushFails, IInv, Types
        <4>2. hist'.lost[k] = hist.lost[k] + flush.batch[k]
          BY <3>0, <4>1, PlusAdds
        <4> QED BY <1>3, <4>1, <4>2
      <3>2. CASE Restart
        <4>1. /\ hist'.lost = Plus(Plus(hist.lost, memoryStats), flush.batch)
              /\ memoryStats' = None
          BY <3>2 DEF Restart, IInv, Types
        <4>2. Plus(hist.lost, memoryStats) \in Counts
          BY <3>0, PlusAdds
        <4>3. /\ hist'.lost[k] = hist.lost[k] + memoryStats[k] + flush.batch[k]
              /\ memoryStats'[k] = 0
          BY <3>0, <4>1, <4>2, PlusAdds DEF None
        <4> QED BY <1>3, <4>3
      <3> QED BY <1>8, <3>1, <3>2
    <2>3. /\ since' = since /\ days' = days /\ batched' = 0
          /\ batched <= flush.batch[k]
      BY <1>3, <2>1 DEF Since, InDays, DailyOf, From, Batched
    <2> HIDE DEF since, days, batched
    <2> QED BY <1>2, <1>3, <2>2, <2>3
  <1>9. CASE CleanupOldStats
    <2>1. /\ UNCHANGED <<clock, flush, memoryStats, hist.made, hist.lost>>
          /\ \A d \in Day : d + Keep >= DayOf(clock) => daily'[d] = daily[d]
      <3>1. \A d \in Day : d + Keep >= DayOf(clock) => ~(d + Keep < DayOf(clock))
        BY <1>0, DayIsFinite, KeepAssumption
      <3> QED BY <1>9, <3>1 DEF CleanupOldStats, IInv, Types, RowTypes
    <2>2. PICK S \in SUBSET Day : S = From(f)
      BY DEF From
    <2>3. \A d \in S : DailyOf(k)'[d] = DailyOf(k)[d]
      <3>1. \A d \in S : d + Keep >= DayOf(clock)
        BY <1>0, <1>1, <2>2, DayIsFinite, KeepAssumption DEF From
      <3> QED BY <2>1, <3>1 DEF DailyOf
    <2>4. Counting(DailyOf(k), S) /\ days = SumFunctionOnSet(DailyOf(k), S)
          /\ days' = SumFunctionOnSet(DailyOf(k)', S)
      BY <2>2, DaysCount DEF InDays, From
    <2>5. days' = days
      BY <2>3, <2>4, SumSame
    <2>6. since' = since /\ batched' = batched
      BY <2>1 DEF Since, Batched
    <2> HIDE DEF since, days, batched
    <2> QED BY <1>2, <2>1, <2>5, <2>6
  <1>10. CASE UNCHANGED <<daily, hist, flush, memoryStats>>
    <2>1. since' = since /\ days' = days /\ batched' = batched
      BY <1>10 DEF Since, InDays, DailyOf, From, Batched
    <2> HIDE DEF since, days, batched
    <2> QED BY <1>2, <1>10, <2>1
  <1> QED BY <1>4, <1>5, <1>6, <1>7, <1>8, <1>9, <1>10
          DEF Next, vars, FlushStep, AskTotal, AskRank, AskPastDay, Ask,
              ReadTable, MergeMemory, EndQuery, TimePasses

-----------------------------------------------------------------------------
(* The rankings.                                                             *)

\* What a ranking may count on before and after it has read a table: it finds
\* what it must unless a flush comes between, and never more than was recorded.
QuietIsIdle == query.pc # "idle" /\ query.quiet => flush.pc = "idle"
PastOwesNothing == ~query.merge => query.due = 0
ToRead ==
    query.pc = "read" /\ query.quiet /\ query.merge =>
        /\ query.kind = "total" =>
               total[query.key] + memoryStats[query.key] >= query.due
        /\ query.kind = "days" =>
               /\ query.first + Window > query.last
               /\ DayOf(clock) <= query.last + 1
               /\ InDays(query.key, query.first..query.last)
                      + memoryStats[query.key] >= query.due
ToMerge ==
    query.pc = "merge" =>
        /\ query.sum <= total[query.key]
        /\ query.quiet /\ query.merge =>
               query.sum + memoryStats[query.key] >= query.due
Reading == QuietIsIdle /\ PastOwesNothing /\ ToRead /\ ToMerge /\ RankingsAreRight

AllInv == IInv /\ RowTypes /\ TotalsMatchDays /\ NothingAhead /\ DaysCover

LEMMA ReadingInit == Init => Reading
  BY DEF Init, NoQuery, Reading, QuietIsIdle, PastOwesNothing, ToRead, ToMerge,
         RankingsAreRight

\* The counts of a key are numbers, and of its requests no more are in the table
\* and in memory than were recorded.
LEMMA CountsAdd ==
    ASSUME AllInv, NEW k \in Key
    PROVE  /\ {total[k], memoryStats[k], hist.lost[k], hist.recorded[k]} \subseteq Nat
           /\ total[k] + memoryStats[k] <= hist.recorded[k]
           /\ flush.pc = "idle" =>
                  total[k] + memoryStats[k] + hist.lost[k] = hist.recorded[k]
  <1>1. /\ {total[k], memoryStats[k], hist.lost[k], hist.recorded[k]} \subseteq Nat
        /\ flush.batch[k] \in Nat
    BY DEF AllInv, IInv, Types, Counts
  <1>2. total[k] + flush.batch[k] + memoryStats[k] + hist.lost[k] = hist.recorded[k]
    BY DEF AllInv, IInv, Conserved
  <1>3. flush.pc = "idle" => flush.batch[k] = 0
    BY DEF AllInv, IInv, BatchInFlight, None
  <1> QED BY <1>1, <1>2, <1>3

\* What a ranking of days is asked to find is in the rows of these days and in
\* memory when no batch is in flight.
LEMMA RowsHaveDays ==
    ASSUME AllInv, NEW k \in Key, NEW f \in Nat, flush.pc = "idle",
           f + Keep >= DayOf(clock)
    PROVE  /\ Since(k, 2 * f) <= InDays(k, f..DayOf(clock)) + memoryStats[k] + hist.lost[k]
           /\ Since(k, 2 * f) \in Nat /\ InDays(k, f..DayOf(clock)) \in Nat
  <1> USE DEF AllInv
  <1>0. clock \in Tick /\ DayOf(clock) \in Nat /\ DayOf(clock) \in Day
    BY DayIsFinite DEF IInv, Types
  <1>1. PICK R \in SUBSET Day : R = f..DayOf(clock)
    BY <1>0, DayIsFinite
  <1>2. PICK S \in SUBSET Day : S = From(f)
    BY DEF From
  <1>3. R \subseteq S
    BY <1>0, <1>1, <1>2 DEF From
  <1>4. /\ InDays(k, S) = InDays(k, R) + InDays(k, S \ R)
        /\ InDays(k, R) \in Nat
    <2>1. Counting(DailyOf(k), S) /\ InDays(k, R) \in Nat
      BY DaysCount
    <2> QED BY <1>3, <2>1, SumParts DEF InDays
  <1>5. InDays(k, S \ R) = 0
    <2>1. ASSUME NEW d \in S \ R PROVE d \in Day /\ DailyOf(k)[d] = 0
      <3>1. d \in Nat /\ d \in Day /\ d >= f
        BY <1>2, DayIsFinite DEF From
      <3>2. d > DayOf(clock)
        BY <1>0, <1>1, <2>1, <3>1
      <3> QED BY <3>1, <3>2, DaysCount DEF NothingAhead
    <2>2. IsFiniteSet(S \ R)
      BY DayIsFinite, FS_Subset
    <2> QED BY <2>1, <2>2, SumZero DEF InDays
  <1>6. Batched(k, f) = 0
    BY DEF Batched, IInv, BatchInFlight, None
  <1>7. Since(k, 2 * f) <= InDays(k, S) + Batched(k, f) + memoryStats[k] + hist.lost[k]
    BY <1>2 DEF DaysCover
  <1>8. 2 * f \in Nat
    OBVIOUS
  <1>9. Since(k, 2 * f) \in Nat
    BY <1>8, SinceCounts
  <1> QED BY <1>1, <1>4, <1>5, <1>6, <1>7, <1>9, CountsAdd

LEMMA ReadingNext == AllInv /\ Reading /\ [Next]_vars => Reading'
  <1> SUFFICES ASSUME AllInv, Reading, [Next]_vars PROVE Reading'
    OBVIOUS
  <1> DEFINE k == query.key
             days == InDays(k, query.first..query.last)
  <1>t. /\ query \in Queries /\ k \in Key /\ query.due \in Nat /\ query.sum \in Nat
        /\ query.first \in Nat /\ query.last \in Nat
    BY DEF AllInv, RowTypes, Queries
  <1>n. {total[k], memoryStats[k], hist.lost[k], hist.recorded[k]} \subseteq Nat
    BY <1>t, CountsAdd
  <1>c. clock \in Nat /\ DayOf(clock) \in Nat
    BY TickIsFinite, DayOfGrows DEF AllInv, IInv, Types
  <1>d. query.kind = "days" /\ query.pc = "read" => days \in Nat
    BY <1>t, DaysCount DEF AllInv, RowTypes
  <1>0. CASE UNCHANGED vars
    <2>1. days' = days
      BY <1>0 DEF vars, InDays, DailyOf
    <2> HIDE DEF days
    <2> QED BY <1>0, <2>1 DEF vars, days, Reading, QuietIsIdle, PastOwesNothing, ToRead,
                              ToMerge, RankingsAreRight
  <1>1. ASSUME NEW j \in Key, RecordRequest(j) PROVE Reading'
    <2>1. /\ UNCHANGED <<clock, flush, total, daily, query>>
          /\ memoryStats'[k] \in Nat /\ memoryStats'[k] >= memoryStats[k]
          /\ hist'.recorded[k] \in Nat /\ hist'.recorded[k] >= hist.recorded[k]
      BY <1>t, <1>1, <1>n DEF RecordRequest, AllInv, IInv, Types, Counts
    <2>2. days' = days
      BY <2>1 DEF InDays, DailyOf
    <2>3. ToRead'
      <3> SUFFICES ASSUME query.pc = "read", query.quiet, query.merge
                   PROVE  /\ query.kind = "total" => total[k] + memoryStats'[k] >= query.due
                          /\ query.kind = "days" =>
                                 /\ query.first + Window > query.last
                                 /\ DayOf(clock) <= query.last + 1
                                 /\ days + memoryStats'[k] >= query.due
        BY <2>1, <2>2 DEF ToRead
      <3> HIDE DEF days
      <3>1. /\ query.kind = "total" => total[k] + memoryStats[k] >= query.due
            /\ query.kind = "days" =>
                   /\ query.first + Window > query.last
                   /\ DayOf(clock) <= query.last + 1
                   /\ days + memoryStats[k] >= query.due
        BY DEF Reading, ToRead, days
      <3> QED BY <1>t, <1>n, <1>d, <2>1, <3>1
    <2>4. ToMerge'
      BY <1>t, <1>n, <2>1 DEF Reading, ToMerge
    <2>5. RankingsAreRight'
      BY <1>t, <1>n, <2>1 DEF Reading, RankingsAreRight
    <2> QED BY <2>1, <2>3, <2>4, <2>5 DEF Reading, QuietIsIdle, PastOwesNothing
  <1>2. CASE Swap
    <2>1. /\ UNCHANGED <<total, hist>> /\ ~query'.quiet
          /\ \A x \in {"pc", "key", "kind", "merge", "sum", "due"} : query'[x] = query[x]
      BY <1>t, <1>2 DEF Swap, Loud, Queries
    <2> QED BY <2>1 DEF Reading, QuietIsIdle, PastOwesNothing, ToRead, ToMerge,
                        RankingsAreRight
  <1>3. CASE DateBatch \/ Commit \/ FlushFails
    <2>1. /\ query' = query /\ (query.pc = "idle" \/ ~query.quiet)
          /\ hist'.recorded = hist.recorded
      BY <1>3 DEF DateBatch, Commit, FlushFails, Reading, QuietIsIdle, AllInv, IInv, Types
    <2>2. total'[k] \in Nat /\ total[k] <= total'[k]
      <3>1. total' = total \/ total' = Plus(total, flush.batch)
        BY <1>3 DEF DateBatch, Commit, FlushFails
      <3>2. total \in Counts /\ flush.batch \in Counts /\ flush.batch[k] \in Nat
        BY <1>t DEF AllInv, IInv, Types, Counts
      <3>3. Plus(total, flush.batch)[k] = total[k] + flush.batch[k]
        BY <1>t, <3>2, PlusAdds
      <3> QED BY <1>n, <3>1, <3>2, <3>3
    <2>3. ToMerge'
      BY <1>t, <1>n, <2>1, <2>2 DEF Reading, ToMerge
    <2> QED BY <2>1, <2>3 DEF Reading, QuietIsIdle, PastOwesNothing, ToRead,
                              RankingsAreRight
  <1>4. CASE CleanupOldStats
    <2>1. /\ UNCHANGED <<clock, memoryStats, flush, total, query>>
          /\ hist'.recorded = hist.recorded
      BY <1>4 DEF CleanupOldStats, AllInv, IInv, Types
    <2>2. ToRead'
      <3> SUFFICES ASSUME query.pc = "read", query.quiet, query.merge, query.kind = "days"
                   PROVE  days' = days
        BY <2>1 DEF Reading, ToRead
      <3>1. PICK R \in SUBSET Day : R = query.first..query.last
        BY DEF AllInv, RowTypes
      <3>2. query.first + Window > query.last /\ DayOf(clock) <= query.last + 1
        BY DEF Reading, ToRead
      <3>3. ASSUME NEW d \in R PROVE DailyOf(k)'[d] = DailyOf(k)[d]
        <4>1. d \in Nat /\ d \in Day /\ d >= query.first
          BY <1>t, <3>1
        <4>2. ~(d + Keep < DayOf(clock))
          BY <1>t, <1>c, <3>2, <4>1, WindowAssumption, KeepAssumption
        <4>3. daily'[d] = daily[d]
          BY <1>4, <4>1, <4>2 DEF CleanupOldStats
        <4> QED BY <2>1, <4>1, <4>3 DEF DailyOf
      <3>4. Counting(DailyOf(k), R)
        BY <1>t, DaysCount DEF AllInv
      <3>5. SumFunctionOnSet(DailyOf(k)', R) = SumFunctionOnSet(DailyOf(k), R)
        BY <3>3, <3>4, SumSame
      <3> QED BY <2>1, <3>1, <3>5 DEF InDays
    <2> QED BY <2>1, <2>2 DEF Reading, QuietIsIdle, PastOwesNothing, ToMerge,
                              RankingsAreRight
  <1>5. ASSUME NEW j \in Key, AskTotal(j) PROVE Reading'
    <2>1. /\ query'.pc = "read" /\ query'.kind = "total" /\ query'.key = j /\ query'.merge
          /\ query'.quiet = (flush.pc = "idle")
          /\ query'.due = Less(hist.recorded[j], hist.lost[j])
          /\ UNCHANGED <<flush, total, memoryStats>>
      BY <1>5 DEF AskTotal, Ask
    <2>2. flush.pc = "idle" => total[j] + memoryStats[j] >= query'.due
      BY <2>1, CountsAdd DEF Less
    <2> QED BY <2>1, <2>2 DEF Reading, QuietIsIdle, PastOwesNothing, ToRead, ToMerge,
                              RankingsAreRight
  <1>6. ASSUME NEW j \in Key, NEW n \in 1..Window, AskRank(j, n) PROVE Reading'
    <2> DEFINE f == Less(DayOf(clock) + 1, n)
    <2>0. n \in Nat /\ n <= Window /\ DayOf(clock) + 1 \in Nat
      BY <1>c, WindowAssumption
    <2>1. f \in Nat /\ DayOf(clock) + 1 <= f + n
      BY <2>0, LessIsNat
    <2>2. /\ query'.pc = "read" /\ query'.kind = "days" /\ query'.key = j /\ query'.merge
          /\ query'.quiet = (flush.pc = "idle")
          /\ query'.first = f /\ query'.last = DayOf(clock)
          /\ query'.due = Less(Since(j, 2 * f), hist.lost[j])
          /\ UNCHANGED <<clock, daily, flush, total, memoryStats>>
      BY <1>6 DEF AskRank, Ask
    <2> HIDE DEF f
    <2>3. f + Window > DayOf(clock) /\ f + Keep >= DayOf(clock)
      BY <1>c, <2>0, <2>1, WindowAssumption, KeepAssumption
    <2>4. flush.pc = "idle" => InDays(j, f..DayOf(clock)) + memoryStats[j] >= query'.due
      <3> SUFFICES ASSUME flush.pc = "idle"
                   PROVE  InDays(j, f..DayOf(clock)) + memoryStats[j] >= query'.due
        OBVIOUS
      <3> DEFINE m == InDays(j, f..DayOf(clock))
                 made == Since(j, 2 * f)
      <3>1. made <= m + memoryStats[j] + hist.lost[j] /\ made \in Nat /\ m \in Nat
        BY <2>1, <2>3, RowsHaveDays
      <3>2. memoryStats[j] \in Nat /\ hist.lost[j] \in Nat
        BY CountsAdd
      <3>3. m + memoryStats[j] >= Less(made, hist.lost[j])
        <4> HIDE DEF m, made
        <4> QED BY <3>1, <3>2 DEF Less
      <3> QED BY <2>2, <3>3
    <2>5. days' = InDays(j, f..DayOf(clock))
      BY <2>2 DEF InDays, DailyOf
    <2>6. ToRead'
      <3> HIDE DEF days
      <3>1. days' + memoryStats'[j] >= query'.due \/ flush.pc # "idle"
        BY <2>2, <2>4, <2>5
      <3>2. DayOf(clock') <= query'.last + 1 /\ query'.first + Window > query'.last
        BY <1>c, <2>2, <2>3
      <3>3. flush.pc # "idle" => ToRead'
        BY <2>2 DEF ToRead
      <3>4. days' + memoryStats'[query'.key] >= query'.due => ToRead'
        BY <2>2, <3>2 DEF ToRead, days
      <3> QED BY <2>2, <3>1, <3>3, <3>4
    <2> QED BY <2>2, <2>6 DEF Reading, QuietIsIdle, PastOwesNothing, ToMerge,
                              RankingsAreRight
  <1>7. ASSUME NEW j \in Key, NEW d \in Day, AskPastDay(j, d) PROVE Reading'
    <2>1. /\ query'.pc = "read" /\ ~query'.merge
          /\ query'.quiet = (flush.pc = "idle")
          /\ query'.due = Less(0, hist.lost[j])
          /\ UNCHANGED flush
      BY <1>7 DEF AskPastDay, Ask
    <2>2. query'.due = 0
      <3>1. hist.lost[j] \in Nat
        BY CountsAdd
      <3> QED BY <2>1, <3>1 DEF Less
    <2> QED BY <2>1, <2>2 DEF Reading, QuietIsIdle, PastOwesNothing, ToRead, ToMerge,
                              RankingsAreRight
  <1>8. CASE ReadTable
    <2> DEFINE n == IF query.kind = "total" THEN total[k] ELSE days
    <2>1. query.pc = "read" /\ query' = [query EXCEPT !.pc = "merge", !.sum = n]
          /\ UNCHANGED <<clock, memoryStats, flush, total, daily, hist>>
      BY <1>8 DEF ReadTable, InDays, DailyOf
    <2>2. query.kind = "days" => days <= total[k]
      <3> SUFFICES ASSUME query.kind = "days" PROVE days <= total[k]
        OBVIOUS
      <3>1. PICK R \in SUBSET Day : R = query.first..query.last
        BY <2>1 DEF AllInv, RowTypes
      <3>2. Counting(DailyOf(k), Day) /\ InDays(k, R) \in Nat /\ InDays(k, Day \ R) \in Nat
        BY <1>t, DaysCount DEF AllInv
      <3>3. InDays(k, Day) = InDays(k, R) + InDays(k, Day \ R)
        BY <3>2, SumParts DEF InDays
      <3>4. total[k] = hist.purged[k] + InDays(k, Day)
        BY <1>t DEF AllInv, TotalsMatchDays, SumFunction, InDays, DailyOf
      <3>5. hist.purged[k] \in Nat
        BY <1>t DEF AllInv, RowTypes, Counts
      <3> QED BY <1>n, <3>1, <3>2, <3>3, <3>4, <3>5
    <2>3. n <= total[k]
      <3>1. query.kind \in {"total", "days"}
        BY <1>t DEF Queries
      <3> QED BY <1>n, <2>2, <3>1
    <2>4. query.quiet /\ query.merge => n + memoryStats[k] >= query.due
      <3>1. query.kind \in {"total", "days"}
        BY <1>t DEF Queries
      <3> QED BY <2>1, <3>1 DEF Reading, ToRead
    <2> HIDE DEF n
    <2>5. /\ query'.pc = "merge" /\ query'.sum = n
          /\ \A x \in {"key", "quiet", "merge", "due"} : query'[x] = query[x]
      BY <1>t, <2>1 DEF Queries
    <2> QED BY <2>1, <2>3, <2>4, <2>5 DEF Reading, QuietIsIdle, PastOwesNothing, ToRead,
                                          ToMerge, RankingsAreRight
  <1>9. CASE MergeMemory
    <2> DEFINE n == IF query.merge THEN query.sum + memoryStats[k] ELSE query.sum
    <2>1. query.pc = "merge" /\ query' = [query EXCEPT !.pc = "done", !.sum = n]
          /\ UNCHANGED <<clock, memoryStats, flush, total, daily, hist>>
      BY <1>9 DEF MergeMemory
    <2>2. n <= hist.recorded[k]
      <3>1. total[k] + memoryStats[k] <= hist.recorded[k]
        BY <1>t, CountsAdd
      <3>2. query.sum <= total[k]
        BY <2>1 DEF Reading, ToMerge
      <3> QED BY <1>t, <1>n, <3>1, <3>2
    <2>3. query.quiet => n >= query.due
      BY <1>t, <2>1 DEF Reading, ToMerge, PastOwesNothing
    <2> HIDE DEF n
    <2>4. /\ query'.pc = "done" /\ query'.sum = n
          /\ \A x \in {"key", "quiet", "merge", "due"} : query'[x] = query[x]
      BY <1>t, <2>1 DEF Queries
    <2> QED BY <2>1, <2>2, <2>3, <2>4 DEF Reading, QuietIsIdle, PastOwesNothing, ToRead,
                                          ToMerge, RankingsAreRight
  <1>10. CASE EndQuery \/ Restart
    <2>1. query' = NoQuery
      BY <1>10 DEF EndQuery, Restart
    <2> QED BY <2>1 DEF NoQuery, Reading, QuietIsIdle, PastOwesNothing, ToRead, ToMerge,
                        RankingsAreRight
  <1>11. CASE TimePasses
    <2>1. /\ UNCHANGED <<memoryStats, flush, total, daily, query, hist>>
          /\ query.pc = "read" => DayOf(clock') <= query.last + 1
      BY <1>11 DEF TimePasses
    <2>2. days' = days
      BY <2>1 DEF InDays, DailyOf
    <2> HIDE DEF days
    <2> QED BY <2>1, <2>2 DEF days, Reading, QuietIsIdle, PastOwesNothing, ToRead, ToMerge,
                              RankingsAreRight
  <1> QED BY <1>0, <1>1, <1>2, <1>3, <1>4, <1>5, <1>6, <1>7, <1>8, <1>9, <1>10, <1>11
          DEF Next, FlushStep

LEMMA AllInitNext == (Init => AllInv) /\ (AllInv /\ [Next]_vars => AllInv')
  BY InitInv, NextInv, RowTypesInit, RowTypesNext, TotalsMatchInit, TotalsMatchNext,
     AheadInit, AheadNext, CoverInit, CoverNext DEF AllInv

\* The two tables agree: whatever is committed, rolled back or cleaned up, a
\* key's total is what its rows by day add up to with those a cleanup deleted.
THEOREM TotalsMatch == Spec => []TotalsMatchDays
  <1>1. AllInv => TotalsMatchDays
    BY DEF AllInv
  <1> QED BY <1>1, AllInitNext, PTL DEF Spec

\* An admin's ranking never counts a request twice, and finds all of its range
\* that were recorded before and not lost if no flush overlaps it: the days that
\* can be asked for are days that no cleanup has deleted.
THEOREM RankingsCount == Spec => []RankingsAreRight
  <1>1. Init => AllInv /\ Reading
    BY AllInitNext, ReadingInit
  <1>2. AllInv /\ Reading /\ [Next]_vars => AllInv' /\ Reading'
    BY AllInitNext, ReadingNext
  <1>3. AllInv /\ Reading => RankingsAreRight
    BY DEF Reading
  <1> QED BY <1>1, <1>2, <1>3, PTL DEF Spec
=============================================================================
