--------------------------- MODULE SourceCacheProofs ---------------------------
(***************************************************************************)
(* What SourceCache guarantees for any number of sources, goroutines and   *)
(* configurations.  Everything rests on one inductive invariant, IInv.     *)
(***************************************************************************)
EXTENDS SourceCache, TLAPS

(***************************************************************************)
(* The properties are not inductive as they stand.  A list must be genuine *)
(* and cacheable before it is stored, and the configuration a goroutine    *)
(* copied must be one the row has held; a goroutine that skips the cache,  *)
(* or has an API source, has a list no older than itself as soon as it has *)
(* one; and one that started on a cached source still finds it cached, so  *)
(* that it never gets as far as the upstream.  GoodJob says so of one      *)
(* goroutine j, given the history, the upstreams and the cached lists.     *)
(***************************************************************************)
GoodJob(j, held, content, lists) ==
    /\ j.got # NoList => /\ j.got.cfg \in held[j.src]
                         /\ j.got.gen <= content[j.src]
    /\ j.pc # "idle" => j.cfg \in held[j.src]
    /\ j.pc \in {"store", "stamp"} => j.got.cfg = j.cfg /\ ~IsApi(j.cfg)
    /\ j.pc \in {"idle", "edit", "count", "lookup", "fetch"} => j.got = NoList
    /\ j.since <= content[j.src]
    /\ (SkipsCache(j) \/ IsApi(j.cfg)) /\ j.got # NoList =>
           /\ j.got.cfg = j.cfg
           /\ Remote(j.cfg) => j.got.gen >= j.since
    /\ j.hot => lists[j.src] # NoList
    /\ j.hot /\ ~IsApi(j.cfg) /\ ~SkipsCache(j) =>
           /\ j.pc \notin {"fetch", "store", "stamp"}
           /\ j.pc \in {"restamp", "done"} => j.outcome = "ok" /\ j.got # NoList

GoodSource(s) ==
    /\ Cached(s) => Genuine(s, memoryCache[s]) /\ ~IsApi(memoryCache[s].cfg)
    /\ dataSources[s].status # "none" => dataSources[s].cfg \in had[s]

IInv ==
    /\ TypeOK
    /\ \A s \in Source : GoodSource(s)
    /\ \A w \in Slot : GoodJob(job[w], had, upstream, memoryCache)
    /\ \A d \in check.todo : d.cfg \in had[d.src]

-----------------------------------------------------------------------------
USE DEF Slot, List, SyncTime, Row, Due

LEMMA IdleType == Idle \in Job
  BY ConfigAssumption, MaxGenAssumption DEF Idle, Job

\* A goroutine starts well-typed.
LEMMA StartedType ==
    ASSUME TypeOK, NEW s \in Source, NEW c \in Config,
           NEW kind \in {"serve", "save", "sync", "count", "tick"},
           NEW pc \in {"edit", "count", "lookup"}
    PROVE  Started(kind, pc, s, c) \in Job
  BY DEF Started, TypeOK, Job, Cached

\* So does the preload a save starts, if it starts any.
LEMMA PreloadType ==
    ASSUME TypeOK, NEW s \in Source, NEW c \in Config, NEW a \in BOOLEAN
    PROVE  PreloadOnSave(s, c, a) \in Job
  BY StartedType, IdleType DEF PreloadOnSave

LEMMA EndedType ==
    ASSUME NEW j \in Job, NEW outcome \in {"ok", "error"}
    PROVE  Ended(j, outcome) \in Job
  BY DEF Ended, Job

LEMMA ShownType ==
    ASSUME TypeOK, NEW s \in Source, NEW c \in Config
    PROVE  Shown(s, c) \in List
  BY MaxGenAssumption DEF Shown, TypeOK

\* A stamp leaves a row.
LEMMA StampType ==
    ASSUME TypeOK, NEW s \in Source, StampSync(s)
    PROVE  dataSources' \in [Source -> Row]
<1>1. dataSources \in [Source -> Row]
  BY DEF TypeOK
<1>2. CASE UNCHANGED dataSources
  BY <1>1, <1>2
<1>3. CASE dataSources' = [dataSources EXCEPT ![s].sync = "fresh"]
  <2>1. [dataSources[s] EXCEPT !.sync = "fresh"] \in Row
    BY <1>1
  <2>2. QED
    BY <1>1, <1>3, <2>1
<1>4. QED
  BY <1>2, <1>3 DEF StampSync

\* It changes last_sync, and that to now.
LEMMA StampWritesSync ==
    ASSUME TypeOK, NEW s \in Source, StampSync(s), NEW r \in Source
    PROVE  /\ dataSources'[r] = [dataSources[r] EXCEPT
                                     !.sync = dataSources'[r].sync]
           /\ dataSources'[r].sync \in {dataSources[r].sync, "fresh"}
<1>1. dataSources \in [Source -> Row]
  BY DEF TypeOK
<1>2. dataSources'[r] \in {dataSources[r],
                            [dataSources[r] EXCEPT !.sync = "fresh"]}
  BY <1>1 DEF StampSync
<1>3. QED
  BY <1>1, <1>2

\* Moving on changes the program counter and nothing else.
LEMMA MovedType ==
    ASSUME NEW j \in Job,
           NEW pc \in {"idle", "edit", "count", "lookup", "fetch", "store",
                       "stamp", "restamp", "done"}
    PROVE  /\ [j EXCEPT !.pc = pc] \in Job
           /\ [j EXCEPT !.pc = pc].pc = pc
           /\ [j EXCEPT !.pc = pc].got = j.got
  BY DEF Job

LEMMA GotType ==
    ASSUME NEW j \in Job, NEW l \in List \cup {NoList}
    PROVE  /\ [j EXCEPT !.got = l] \in Job
           /\ [j EXCEPT !.got = l].got = l
           /\ [j EXCEPT !.got = l].pc = j.pc
  BY DEF Job

LEMMA AgedType ==
    /\ \A sync \in SyncTime : Aged(sync) \in SyncTime
    /\ \A r \in Row : [r EXCEPT !.sync = Aged(r.sync)] \in Row
    /\ \A d \in Due : [d EXCEPT !.sync = Aged(d.sync)] \in Due
    /\ \A j \in Job : /\ [j EXCEPT !.sync = Aged(j.sync)] \in Job
                      /\ [j EXCEPT !.sync = Aged(j.sync)].pc = j.pc
                      /\ [j EXCEPT !.sync = Aged(j.sync)].got = j.got
<1>1. \A sync \in SyncTime : Aged(sync) \in SyncTime
  BY DEF Aged
<1>2. \A r \in Row : [r EXCEPT !.sync = Aged(r.sync)] \in Row
  BY <1>1
<1>3. \A d \in Due : [d EXCEPT !.sync = Aged(d.sync)] \in Due
  BY <1>1
<1>4. ASSUME NEW j \in Job
      PROVE  /\ [j EXCEPT !.sync = Aged(j.sync)] \in Job
             /\ [j EXCEPT !.sync = Aged(j.sync)].pc = j.pc
             /\ [j EXCEPT !.sync = Aged(j.sync)].got = j.got
  <2>1. Aged(j.sync) \in SyncTime
    BY <1>1 DEF Job
  <2>2. QED
    BY <2>1 DEF Job
<1>5. QED
  BY <1>1, <1>2, <1>3, <1>4

-----------------------------------------------------------------------------
LEMMA InitType == Init => TypeOK
<1> SUFFICES ASSUME Init PROVE TypeOK
  OBVIOUS
<1>1. (CHOOSE c \in Config : TRUE) \in Config
  BY ConfigAssumption
<1>2. dataSources \in [Source -> Row]
  BY <1>1 DEF Init
<1>3. job \in [Slot -> Job] /\ \A w \in Slot : job[w].pc = "idle"
  <2>1. Idle.pc = "idle"
    BY DEF Idle
  <2>2. QED
    BY <2>1, IdleType DEF Init
<1>4. upstream \in [Source -> 0..MaxGen]
  BY MaxGenAssumption DEF Init
<1>5. QED
  BY <1>2, <1>3, <1>4 DEF Init, TypeOK

LEMMA TypeStep == TypeOK /\ [Next]_vars => TypeOK'
<1> SUFFICES ASSUME TypeOK, [Next]_vars PROVE TypeOK'
  OBVIOUS
<1> USE DEF TypeOK
<1>1. ASSUME NEW w \in Worker, NEW s \in Source, NEW c \in Config,
             CreateDataSource(w, s, c)
      PROVE  TypeOK'
  <2>1. PreloadOnSave(s, c, TRUE) \in Job
    BY PreloadType
  <2>2. PreloadOnSave(s, c, TRUE).pc \notin {"store", "stamp"}
    BY DEF PreloadOnSave, Started, Idle
  <2>3. QED
    BY <1>1, <2>1, <2>2 DEF CreateDataSource, Inserted
<1>2. ASSUME NEW w \in Worker, NEW s \in Source, ReadForUpdate(w, s)
      PROVE  TypeOK'
  <2> DEFINE read == Started("save", "edit", s, dataSources[s].cfg)
             new == [read EXCEPT !.sync = dataSources[s].sync]
  <2>1. read \in Job
    BY StartedType
  <2>2. new \in Job /\ new.pc = "edit"
    BY <2>1 DEF Job, Started
  <2>3. QED
    BY <1>2, <2>2 DEF ReadForUpdate
<1>3. ASSUME NEW w \in Worker, NEW c \in Config, NEW a \in BOOLEAN,
             SaveDataSource(w, c, a)
      PROVE  TypeOK'
  <2> DEFINE s == job[w].src
             saved == IF Live(s)
                        THEN [status |-> "live", cfg |-> c, active |-> a,
                              sync |-> job[w].sync]
                        ELSE Inserted(c, job[w].sync)
  <2>1. s \in Source /\ saved \in Row
    BY DEF Job, Inserted
  <2>2. PreloadOnSave(s, c, saved.active) \in Job
    BY <2>1, PreloadType
  <2>3. PreloadOnSave(s, c, saved.active).pc \notin {"store", "stamp"}
    BY DEF PreloadOnSave, Started, Idle
  <2>4. QED
    BY <1>3, <2>1, <2>2, <2>3 DEF SaveDataSource
<1>4. ASSUME NEW w \in Worker, AbandonUpdate(w) PROVE TypeOK'
  BY <1>4, IdleType DEF AbandonUpdate, Idle
<1>5. ASSUME NEW s \in Source, DeleteDataSource(s) PROVE TypeOK'
  BY <1>5 DEF DeleteDataSource
<1>6. ASSUME NEW w \in Worker, NEW s \in Source,
             Serve(w, s) \/ RefreshDataSource(w, s) \/ CountURLs(w, s)
      PROVE  TypeOK'
  <2>1. PICK kind \in {"serve", "sync", "count"}, pc \in {"lookup", "count"} :
            job' = [job EXCEPT ![w] = Started(kind, pc, s, dataSources[s].cfg)]
    BY <1>6 DEF Serve, RefreshDataSource, CountURLs
  <2>2. Started(kind, pc, s, dataSources[s].cfg) \in Job
    BY StartedType
  <2>3. Started(kind, pc, s, dataSources[s].cfg).pc \notin {"store", "stamp"}
    BY DEF Started
  <2>4. UNCHANGED <<dataSources, memoryCache, upstream, check, had>>
    BY <1>6 DEF Serve, RefreshDataSource, CountURLs
  <2>5. QED
    BY <2>1, <2>2, <2>3, <2>4
<1>7. CASE StartCheck
  <2>1. DueRows \in SUBSET Due
    BY DEF DueRows
  <2>2. QED
    BY <1>7, <2>1 DEF StartCheck
<1>8. CASE EndCheck
  BY <1>8 DEF EndCheck
<1>9. ASSUME NEW d \in Due, CheckSource(d) PROVE TypeOK'
  <2>1. Started("tick", "lookup", d.src, d.cfg) \in Job
    BY StartedType
  <2>2. Started("tick", "lookup", d.src, d.cfg).pc \notin {"store", "stamp"}
    BY DEF Started
  <2>3. QED
    BY <1>9, <2>1, <2>2 DEF CheckSource
<1>10. ASSUME NEW w \in Slot, CountFromCache(w) PROVE TypeOK'
  <2>1. Idle.pc = "idle"
    BY DEF Idle
  <2>2. PICK j \in {Idle, [job[w] EXCEPT !.pc = "lookup"]} :
            job' = [job EXCEPT ![w] = j]
    BY <1>10 DEF CountFromCache
  <2>3. j \in Job /\ j.pc \notin {"store", "stamp"}
    <3>1. CASE j = Idle
      BY <2>1, <3>1, IdleType
    <3>2. CASE j = [job[w] EXCEPT !.pc = "lookup"]
      BY <3>2, MovedType
    <3>3. QED
      BY <3>1, <3>2
  <2>4. QED
    BY <1>10, <2>2, <2>3 DEF CountFromCache
<1>11. ASSUME NEW w \in Slot, Lookup(w) PROVE TypeOK'
  <2> DEFINE j == job[w]
             hit == [j EXCEPT !.got = memoryCache[j.src]]
             miss == [j EXCEPT !.pc = "fetch"]
  <2>1. hit \in Job /\ miss \in Job /\ miss.pc = "fetch"
    BY DEF Job
  <2>2. Ended(hit, "ok") \in Job
    BY <2>1, EndedType
  <2>3. Ended(hit, "ok").pc \in {"restamp", "done"}
    BY <2>1 DEF Ended, Job
  <2>4. QED
    BY <1>11, <2>1, <2>2, <2>3 DEF Lookup
<1>12. ASSUME NEW w \in Slot, FetchList(w) PROVE TypeOK'
  <2> DEFINE j == [job[w] EXCEPT !.got = Shown(job[w].src, job[w].cfg)]
             kept == [j EXCEPT !.pc = "store"]
  <2>1. job[w].src \in Source /\ job[w].cfg \in Config
    BY DEF Job
  <2>2. Shown(job[w].src, job[w].cfg) \in List
    BY <2>1, ShownType
  <2>3. j \in Job /\ j.got = Shown(job[w].src, job[w].cfg)
    BY <2>2, GotType
  <2>4. kept \in Job /\ kept.got = j.got
    BY <2>3, MovedType
  <2>5. Ended(j, "ok") \in Job
    BY <2>3, EndedType
  <2>6. Ended(j, "ok").pc \in {"restamp", "done"}
    BY <2>3 DEF Ended, Job
  <2>7. kept.got # NoList
    BY <2>2, <2>3, <2>4, NoListAssumption
  <2>8. QED
    BY <1>12, <2>3, <2>4, <2>5, <2>6, <2>7 DEF FetchList
<1>13. ASSUME NEW w \in Slot, FetchNothing(w) \/ FetchFails(w) PROVE TypeOK'
  <2>1. PICK outcome \in {"ok", "error"} :
            job' = [job EXCEPT ![w] = Ended(job[w], outcome)]
    BY <1>13 DEF FetchNothing, FetchFails
  <2>2. Ended(job[w], outcome) \in Job
    BY EndedType
  <2>3. Ended(job[w], outcome).pc \in {"restamp", "done"}
    BY DEF Ended, Job
  <2>4. UNCHANGED <<dataSources, memoryCache, upstream, check, had>>
    BY <1>13 DEF FetchNothing, FetchFails
  <2>5. QED
    BY <2>1, <2>2, <2>3, <2>4
<1>14. ASSUME NEW w \in Slot, Store(w) PROVE TypeOK'
  <2>1. [job[w] EXCEPT !.pc = "stamp"] \in Job
    BY MovedType
  <2>2. /\ job' = [job EXCEPT ![w] = [job[w] EXCEPT !.pc = "stamp"]]
        /\ [job[w] EXCEPT !.pc = "stamp"].got # NoList
    <3>1. [job[w] EXCEPT !.pc = "stamp"].got = job[w].got
      BY MovedType
    <3>2. QED
      BY <1>14, <3>1 DEF Store
  <2>3. memoryCache' \in [Source -> List \cup {NoList}]
    BY <1>14 DEF Store, Job
  <2>4. QED
    BY <1>14, <2>1, <2>2, <2>3 DEF Store
<1>15. ASSUME NEW w \in Slot, Stamp(w) PROVE TypeOK'
  <2>1. Ended(job[w], "ok") \in Job
    BY EndedType
  <2>2. Ended(job[w], "ok").pc \in {"restamp", "done"}
    BY DEF Ended, Job
  <2>3. dataSources' \in [Source -> Row]
    <3>1. StampSync(job[w].src) /\ job[w].src \in Source
      BY <1>15 DEF Stamp, TypeOK, Job
    <3>2. QED
      BY <3>1, StampType
  <2>4. QED
    BY <1>15, <2>1, <2>2, <2>3 DEF Stamp
<1>16. ASSUME NEW w \in Slot, Restamp(w) PROVE TypeOK'
  <2>1. /\ [job[w] EXCEPT !.pc = "done"] \in Job
        /\ [job[w] EXCEPT !.pc = "done"].pc = "done"
    BY MovedType
  <2>2. job' = [job EXCEPT ![w] = [job[w] EXCEPT !.pc = "done"]]
    BY <1>16 DEF Restamp
  <2>3. dataSources' \in [Source -> Row]
    <3>1. StampSync(job[w].src) /\ job[w].src \in Source
      BY <1>16 DEF Restamp, TypeOK, Job
    <3>2. QED
      BY <3>1, StampType
  <2>4. QED
    BY <1>16, <2>1, <2>2, <2>3 DEF Restamp
<1>17. ASSUME NEW w \in Slot, Return(w) PROVE TypeOK'
  BY <1>17, IdleType DEF Return, Idle
<1>18. ASSUME NEW s \in Source, UpstreamChanges(s) PROVE TypeOK'
  BY <1>18, MaxGenAssumption DEF UpstreamChanges
<1>19. CASE DayPasses
  <2>1. dataSources' \in [Source -> Row]
    BY <1>19, AgedType DEF DayPasses
  <2>2. /\ job' \in [Slot -> Job]
        /\ \A w \in Slot : job'[w].pc = job[w].pc /\ job'[w].got = job[w].got
    BY <1>19, AgedType DEF DayPasses
  <2>3. check' \in [pc : {"sleep", "check"}, todo : SUBSET Due]
    <3>1. {[d EXCEPT !.sync = Aged(d.sync)] : d \in check.todo} \in SUBSET Due
      BY AgedType
    <3>2. check' = [check EXCEPT !.todo =
                        {[d EXCEPT !.sync = Aged(d.sync)] : d \in check.todo}]
      BY <1>19 DEF DayPasses
    <3>3. QED
      BY <3>1, <3>2
  <2>4. memoryCache' = memoryCache /\ upstream' = upstream /\ had' = had
    BY <1>19 DEF DayPasses
  <2>5. QED
    BY <2>1, <2>2, <2>3, <2>4
<1>20. CASE Restart
  BY <1>20, IdleType DEF Restart, Idle
<1>21. CASE UNCHANGED vars
  BY <1>21 DEF vars
<1>22. CASE \E w \in Slot : JobStep(w)
  BY <1>22, <1>10, <1>11, <1>12, <1>13, <1>14, <1>15, <1>16, <1>17 DEF JobStep
<1> HIDE DEF TypeOK
<1>23. CASE AdminStep
  BY <1>23, <1>1, <1>2, <1>3, <1>4, <1>5 DEF AdminStep
<1>24. CASE StartStep
  BY <1>24, <1>6 DEF StartStep
<1>25. CASE CheckStep
  BY <1>25, <1>7, <1>8, <1>9 DEF CheckStep
<1>26. CASE Environment
  BY <1>26, <1>18, <1>19, <1>20 DEF Environment
<1>27. QED
  BY <1>21, <1>22, <1>23, <1>24, <1>25, <1>26 DEF Next

\* Every variable keeps its type, and a goroutine that is about to store a list
\* has one: the empty result of a fetch never reaches the cache.
THEOREM TypeCorrect == Spec => []TypeOK
  BY InitType, TypeStep, PTL DEF Spec

-----------------------------------------------------------------------------
(* The fields a change to a goroutine leaves alone.                        *)

LEMMA EndedFields ==
    ASSUME NEW j \in Job, NEW outcome \in {"ok", "error"}
    PROVE  /\ Ended(j, outcome).kind = j.kind
           /\ Ended(j, outcome).src = j.src
           /\ Ended(j, outcome).cfg = j.cfg
           /\ Ended(j, outcome).since = j.since
           /\ Ended(j, outcome).hot = j.hot
           /\ Ended(j, outcome).got = j.got
           /\ Ended(j, outcome).outcome = outcome
           /\ Ended(j, outcome).pc \in {"restamp", "done"}
  BY DEF Ended, Job

LEMMA MovedFields ==
    ASSUME NEW j \in Job,
           NEW pc \in {"idle", "edit", "count", "lookup", "fetch", "store",
                       "stamp", "restamp", "done"}
    PROVE  /\ [j EXCEPT !.pc = pc].kind = j.kind
           /\ [j EXCEPT !.pc = pc].src = j.src
           /\ [j EXCEPT !.pc = pc].cfg = j.cfg
           /\ [j EXCEPT !.pc = pc].since = j.since
           /\ [j EXCEPT !.pc = pc].hot = j.hot
           /\ [j EXCEPT !.pc = pc].got = j.got
           /\ [j EXCEPT !.pc = pc].outcome = j.outcome
           /\ [j EXCEPT !.pc = pc].pc = pc
  BY DEF Job

LEMMA GotFields ==
    ASSUME NEW j \in Job, NEW l \in List \cup {NoList}
    PROVE  /\ [j EXCEPT !.got = l].kind = j.kind
           /\ [j EXCEPT !.got = l].src = j.src
           /\ [j EXCEPT !.got = l].cfg = j.cfg
           /\ [j EXCEPT !.got = l].since = j.since
           /\ [j EXCEPT !.got = l].hot = j.hot
           /\ [j EXCEPT !.got = l].outcome = j.outcome
           /\ [j EXCEPT !.got = l].pc = j.pc
           /\ [j EXCEPT !.got = l].got = l
  BY DEF Job

LEMMA SyncFields ==
    ASSUME NEW j \in Job, NEW sync \in SyncTime
    PROVE  /\ [j EXCEPT !.sync = sync].kind = j.kind
           /\ [j EXCEPT !.sync = sync].src = j.src
           /\ [j EXCEPT !.sync = sync].cfg = j.cfg
           /\ [j EXCEPT !.sync = sync].since = j.since
           /\ [j EXCEPT !.sync = sync].hot = j.hot
           /\ [j EXCEPT !.sync = sync].outcome = j.outcome
           /\ [j EXCEPT !.sync = sync].pc = j.pc
           /\ [j EXCEPT !.sync = sync].got = j.got
  BY DEF Job

-----------------------------------------------------------------------------
(* GoodJob, as a goroutine starts, as the world goes on around it, and as  *)
(* it takes its own steps.                                                 *)

LEMMA GoodIdle ==
    ASSUME NEW held, NEW content \in [Source -> 0..MaxGen], NEW lists
    PROVE  GoodJob(Idle, held, content, lists)
  BY IdleType, MaxGenAssumption DEF GoodJob, Idle, SkipsCache, Job

LEMMA GoodStarted ==
    ASSUME TypeOK, NEW s \in Source, NEW c \in Config, NEW held,
           c \in held[s],
           NEW kind \in {"serve", "save", "sync", "count", "tick"},
           NEW pc \in {"edit", "count", "lookup"}
    PROVE  GoodJob(Started(kind, pc, s, c), held, upstream, memoryCache)
<1> DEFINE j == Started(kind, pc, s, c)
<1>1. /\ j.pc = pc /\ j.kind = kind /\ j.src = s /\ j.cfg = c
      /\ j.since = upstream[s] /\ j.hot = Cached(s) /\ j.got = NoList
  BY DEF Started
<1>2. upstream[s] <= upstream[s]
  BY MaxGenAssumption DEF TypeOK
<1> HIDE DEF j
<1>3. GoodJob(j, held, upstream, memoryCache)
  BY <1>1, <1>2 DEF GoodJob, Cached
<1>4. QED
  BY <1>3 DEF j

\* Histories and upstreams only grow, and a cached source stays cached.
LEMMA JobsStayGood ==
    ASSUME IInv, TypeOK',
           \A s \in Source : /\ had[s] \subseteq had'[s]
                             /\ upstream[s] <= upstream'[s]
                             /\ Cached(s) => memoryCache'[s] # NoList
    PROVE  \A w \in Slot : GoodJob(job[w], had', upstream', memoryCache')
<1> SUFFICES ASSUME NEW w \in Slot
             PROVE  GoodJob(job[w], had', upstream', memoryCache')
  OBVIOUS
<1> DEFINE j == job[w]
<1>1. j \in Job /\ j.src \in Source
  BY DEF Job, IInv, TypeOK
<1>2. j.since \in Nat /\ (j.got # NoList => j.got.gen \in Nat)
  <2>1. j.since \in 0..MaxGen /\ j.got \in List \cup {NoList}
    BY <1>1 DEF Job
  <2>2. \A l \in List : l.gen \in 0..MaxGen
    OBVIOUS
  <2>3. QED
    BY <2>1, <2>2, MaxGenAssumption
<1>3. upstream[j.src] \in Nat /\ upstream'[j.src] \in Nat
  BY <1>1, MaxGenAssumption DEF IInv, TypeOK
<1>4. GoodJob(j, had, upstream, memoryCache)
  BY DEF IInv
<1> HIDE DEF j
<1>5. GoodJob(j, had', upstream', memoryCache')
  BY <1>1, <1>2, <1>3, <1>4 DEF GoodJob, Cached
<1>6. QED
  BY <1>5 DEF j

LEMMA GoodAged ==
    ASSUME NEW j \in Job, NEW sync \in SyncTime,
           NEW held, NEW content, NEW lists,
           GoodJob(j, held, content, lists)
    PROVE  GoodJob([j EXCEPT !.sync = sync], held, content, lists)
  BY SyncFields DEF GoodJob, SkipsCache

\* A step of goroutine w that leaves every other variable alone.
LEMMA OwnStep ==
    ASSUME IInv, NEW w \in Slot, NEW j,
           job' = [job EXCEPT ![w] = j],
           GoodJob(j, had, upstream, memoryCache),
           UNCHANGED <<dataSources, memoryCache, upstream, check, had>>,
           TypeOK'
    PROVE  IInv'
  BY DEF IInv, TypeOK, GoodSource, Cached, Genuine

-----------------------------------------------------------------------------
LEMMA InitInv == Init => IInv
<1> SUFFICES ASSUME Init PROVE IInv
  OBVIOUS
<1>1. TypeOK
  BY InitType
<1>2. \A w \in Slot : GoodJob(job[w], had, upstream, memoryCache)
  <2>1. GoodJob(Idle, had, upstream, memoryCache)
    BY <1>1, GoodIdle DEF TypeOK
  <2>2. QED
    BY <2>1 DEF Init
<1>3. QED
  BY <1>1, <1>2 DEF IInv, Init, GoodSource, Cached

\* The admin's calls: the history grows by the configuration that is saved.
LEMMA AdminInv ==
    ASSUME IInv, AdminStep, TypeOK' PROVE IInv'
<1> USE DEF IInv, TypeOK
<1>1. ASSUME NEW w \in Worker, NEW s \in Source, NEW c \in Config,
             NEW row \in Row, NEW j,
             row.cfg = c,
             dataSources' = [dataSources EXCEPT ![s] = row],
             had' = [had EXCEPT ![s] = @ \cup {c}],
             job' = [job EXCEPT ![w] = j],
             GoodJob(j, had', upstream, memoryCache),
             UNCHANGED <<memoryCache, upstream, check>>
      PROVE  IInv'
  <2>1. \A r \in Source : had[r] \subseteq had'[r]
    BY <1>1
  <2>2. \A v \in Slot : GoodJob(job'[v], had', upstream', memoryCache')
    <3>1. \A r \in Source : upstream[r] <= upstream'[r]
      BY <1>1, MaxGenAssumption
    <3>2. \A v \in Slot : GoodJob(job[v], had', upstream', memoryCache')
      BY <1>1, <2>1, <3>1, JobsStayGood DEF Cached
    <3>3. QED
      BY <1>1, <3>2
  <2>3. \A r \in Source : GoodSource(r)'
    <3> TAKE r \in Source
    <3>1. dataSources'[r].status # "none" => dataSources'[r].cfg \in had'[r]
      BY <1>1 DEF GoodSource
    <3>2. QED
      BY <1>1, <2>1, <3>1 DEF GoodSource, Genuine, Cached
  <2>4. \A d \in check'.todo : d.cfg \in had'[d.src]
    BY <1>1, <2>1
  <2>5. QED
    BY <2>2, <2>3, <2>4
<1>2. ASSUME NEW s \in Source, NEW c \in Config, NEW a \in BOOLEAN, NEW held,
             c \in held[s]
      PROVE  GoodJob(PreloadOnSave(s, c, a), held, upstream, memoryCache)
  BY <1>2, GoodStarted, GoodIdle DEF PreloadOnSave
<1>3. ASSUME NEW w \in Worker, NEW s \in Source, NEW c \in Config,
             CreateDataSource(w, s, c)
      PROVE  IInv'
  <2>1. Inserted(c, "never") \in Row /\ Inserted(c, "never").cfg = c
    BY DEF Inserted
  <2>2. c \in had'[s]
    BY <1>3 DEF CreateDataSource
  <2>3. GoodJob(PreloadOnSave(s, c, TRUE), had', upstream, memoryCache)
    BY <1>2, <2>2
  <2>4. QED
    BY <1>1, <1>3, <2>1, <2>3 DEF CreateDataSource
<1>4. ASSUME NEW w \in Worker, NEW s \in Source, ReadForUpdate(w, s)
      PROVE  IInv'
  <2> DEFINE read == Started("save", "edit", s, dataSources[s].cfg)
  <2>1. dataSources[s].cfg \in had[s] /\ dataSources[s].sync \in SyncTime
    BY <1>4 DEF ReadForUpdate, Live, GoodSource
  <2>2. GoodJob(read, had, upstream, memoryCache) /\ read \in Job
    BY <2>1, GoodStarted, StartedType
  <2>3. GoodJob([read EXCEPT !.sync = dataSources[s].sync],
                had, upstream, memoryCache)
    BY <2>1, <2>2, GoodAged
  <2>4. QED
    BY <1>4, <2>3, OwnStep DEF ReadForUpdate
<1>5. ASSUME NEW w \in Worker, NEW c \in Config, NEW a \in BOOLEAN,
             SaveDataSource(w, c, a)
      PROVE  IInv'
  <2> DEFINE s == job[w].src
             saved == IF Live(s)
                        THEN [status |-> "live", cfg |-> c, active |-> a,
                              sync |-> job[w].sync]
                        ELSE Inserted(c, job[w].sync)
  <2>1. s \in Source /\ saved \in Row /\ saved.cfg = c
    BY DEF Job, Inserted
  <2>2. c \in had'[s]
    BY <1>5, <2>1 DEF SaveDataSource
  <2>3. saved.active \in BOOLEAN
    BY <2>1
  <2>4. GoodJob(PreloadOnSave(s, c, saved.active), had', upstream, memoryCache)
    BY <1>2, <2>1, <2>2, <2>3
  <2>5. QED
    BY <1>1, <1>5, <2>1, <2>4 DEF SaveDataSource
<1>6. ASSUME NEW w \in Worker, AbandonUpdate(w) PROVE IInv'
  BY <1>6, GoodIdle, OwnStep DEF AbandonUpdate
<1>7. ASSUME NEW s \in Source, DeleteDataSource(s) PROVE IInv'
  <2>1. \A r \in Source : GoodSource(r)'
    BY <1>7 DEF DeleteDataSource, GoodSource, Genuine, Cached, Live
  <2>2. QED
    BY <1>7, <2>1 DEF DeleteDataSource
<1>8. QED
  BY <1>3, <1>4, <1>5, <1>6, <1>7 DEF AdminStep

LEMMA StartInv ==
    ASSUME IInv, StartStep, TypeOK' PROVE IInv'
<1>1. PICK w \in Worker, s \in Source :
          Serve(w, s) \/ RefreshDataSource(w, s) \/ CountURLs(w, s)
  BY DEF StartStep
<1>2. PICK kind \in {"serve", "sync", "count"}, pc \in {"lookup", "count"} :
          job' = [job EXCEPT ![w] = Started(kind, pc, s, dataSources[s].cfg)]
  BY <1>1 DEF Serve, RefreshDataSource, CountURLs
<1>3. dataSources[s].cfg \in had[s] /\ dataSources[s].cfg \in Config
  BY <1>1 DEF Serve, RefreshDataSource, CountURLs, Live, IInv, GoodSource,
     TypeOK
<1>4. GoodJob(Started(kind, pc, s, dataSources[s].cfg),
              had, upstream, memoryCache)
  BY <1>3, GoodStarted DEF IInv
<1>5. UNCHANGED <<dataSources, memoryCache, upstream, check, had>>
  BY <1>1 DEF Serve, RefreshDataSource, CountURLs
<1>6. QED
  BY <1>2, <1>4, <1>5, OwnStep

LEMMA CheckInv ==
    ASSUME IInv, CheckStep, TypeOK' PROVE IInv'
<1> USE DEF IInv
<1>1. CASE StartCheck
  <2>1. \A d \in DueRows : d.cfg \in had[d.src]
    BY DEF DueRows, GoodSource, Live
  <2>2. QED
    BY <1>1, <2>1 DEF StartCheck, GoodSource, Genuine, Cached
<1>2. CASE EndCheck
  BY <1>2 DEF EndCheck, GoodSource, Genuine, Cached
<1>3. ASSUME NEW d \in Due, CheckSource(d) PROVE IInv'
  <2>1. d.src \in Source /\ d.cfg \in Config /\ d.cfg \in had[d.src]
    BY <1>3 DEF CheckSource
  <2>2. GoodJob(Started("tick", "lookup", d.src, d.cfg),
                had, upstream, memoryCache)
    BY <2>1, GoodStarted
  <2>3. \A w \in Slot : GoodJob(job'[w], had, upstream, memoryCache)
    BY <1>3, <2>2 DEF CheckSource, TypeOK
  <2>4. \A s \in Source : GoodSource(s)'
    BY <1>3 DEF CheckSource, GoodSource, Genuine, Cached
  <2>5. \A e \in check'.todo : e.cfg \in had[e.src]
    BY <1>3 DEF CheckSource, TypeOK
  <2>6. QED
    BY <1>3, <2>3, <2>4, <2>5 DEF CheckSource
<1>4. QED
  BY <1>1, <1>2, <1>3 DEF CheckStep

LEMMA JobInv ==
    ASSUME IInv, NEW w \in Slot, JobStep(w), TypeOK' PROVE IInv'
<1> DEFINE j == job[w]
<1>1. /\ j \in Job /\ j.src \in Source /\ j.cfg \in Config
      /\ GoodJob(j, had, upstream, memoryCache)
  BY DEF IInv, TypeOK, Job
<1>2. CASE CountFromCache(w)
  <2>1. GoodJob([j EXCEPT !.pc = "lookup"], had, upstream, memoryCache)
    BY <1>1, <1>2, MovedFields DEF CountFromCache, GoodJob, SkipsCache
  <2>2. GoodJob(Idle, had, upstream, memoryCache)
    BY GoodIdle DEF IInv, TypeOK
  <2>3. QED
    BY <1>2, <2>1, <2>2, OwnStep DEF CountFromCache
<1>3. CASE Lookup(w)
  <2> DEFINE hit == [j EXCEPT !.got = memoryCache[j.src]]
             miss == [j EXCEPT !.pc = "fetch"]
  <2>1. memoryCache[j.src] \in List \cup {NoList}
    BY <1>1 DEF IInv, TypeOK
  <2>2. /\ hit \in Job /\ hit.kind = j.kind /\ hit.src = j.src
        /\ hit.cfg = j.cfg /\ hit.since = j.since /\ hit.hot = j.hot
        /\ hit.got = memoryCache[j.src]
    BY <1>1, <2>1, GotType, GotFields
  <2>3. Hits(j) => GoodJob(Ended(hit, "ok"), had, upstream, memoryCache)
    <3> DEFINE e == Ended(hit, "ok")
    <3>1. /\ e.kind = j.kind /\ e.src = j.src /\ e.cfg = j.cfg
          /\ e.since = j.since /\ e.hot = j.hot /\ e.got = hit.got
          /\ e.outcome = "ok" /\ e.pc \in {"restamp", "done"}
      BY <2>2, EndedFields
    <3>2. Cached(j.src) => Genuine(j.src, memoryCache[j.src])
      BY <1>1 DEF IInv, GoodSource
    <3> HIDE DEF e, hit
    <3>3. Hits(j) => GoodJob(e, had, upstream, memoryCache)
      BY <1>1, <1>3, <2>2, <3>1, <3>2
         DEF Lookup, Hits, GoodJob, SkipsCache, Genuine, Cached
    <3>4. QED
      BY <3>3 DEF e
  <2>4. ~Hits(j) => GoodJob(miss, had, upstream, memoryCache)
    <3>1. /\ miss.kind = j.kind /\ miss.src = j.src /\ miss.cfg = j.cfg
          /\ miss.since = j.since /\ miss.hot = j.hot /\ miss.got = j.got
          /\ miss.pc = "fetch"
      BY <1>1, MovedFields
    <3> HIDE DEF miss
    <3>2. QED
      BY <1>1, <1>3, <3>1 DEF Lookup, Hits, GoodJob, SkipsCache, Cached
  <2>5. job' = [job EXCEPT ![w] = IF Hits(j) THEN Ended(hit, "ok") ELSE miss]
    BY <1>3 DEF Lookup
  <2>6. UNCHANGED <<dataSources, memoryCache, upstream, check, had>>
    BY <1>3 DEF Lookup
  <2> HIDE DEF hit, miss
  <2>7. QED
    BY <2>3, <2>4, <2>5, <2>6, OwnStep
<1>4. CASE FetchList(w)
  <2> DEFINE l == Shown(j.src, j.cfg)
             f == [j EXCEPT !.got = l]
             kept == [f EXCEPT !.pc = "store"]
  <2>1. l \in List /\ l.cfg = j.cfg
        /\ (Remote(j.cfg) => l.gen = upstream[j.src])
        /\ l.gen <= upstream[j.src]
    BY <1>1, ShownType, MaxGenAssumption DEF Shown, IInv, TypeOK
  <2>2. /\ f \in Job /\ f.kind = j.kind /\ f.src = j.src
        /\ f.cfg = j.cfg /\ f.since = j.since /\ f.hot = j.hot
        /\ f.got = l /\ f.pc = j.pc
    BY <1>1, <2>1, GotType, GotFields
  <2>3. j.pc = "fetch"
    BY <1>4, <2>2 DEF FetchList
  <2> HIDE DEF l, f
  <2>4. IsApi(j.cfg) => GoodJob(Ended(f, "ok"), had, upstream, memoryCache)
    <3> DEFINE e == Ended(f, "ok")
    <3>1. /\ e.kind = j.kind /\ e.src = j.src /\ e.cfg = j.cfg
          /\ e.since = j.since /\ e.hot = j.hot /\ e.got = l
          /\ e.outcome = "ok" /\ e.pc \in {"restamp", "done"}
      BY <2>2, EndedFields
    <3> HIDE DEF e
    <3>2. IsApi(j.cfg) => GoodJob(e, had, upstream, memoryCache)
      BY <1>1, <2>1, <2>3, <3>1 DEF GoodJob, SkipsCache
    <3>3. QED
      BY <3>2 DEF e
  <2>5. ~IsApi(j.cfg) => GoodJob(kept, had, upstream, memoryCache)
    <3>1. /\ kept.kind = j.kind /\ kept.src = j.src /\ kept.cfg = j.cfg
          /\ kept.since = j.since /\ kept.hot = j.hot /\ kept.got = l
          /\ kept.pc = "store"
      BY <2>2, MovedFields
    <3> HIDE DEF kept
    <3>2. QED
      BY <1>1, <2>1, <2>3, <3>1 DEF GoodJob, SkipsCache
  <2>6. job' = [job EXCEPT ![w] = IF IsApi(j.cfg) THEN Ended(f, "ok") ELSE kept]
    BY <1>4, <2>2 DEF FetchList, f, l
  <2>7. UNCHANGED <<dataSources, memoryCache, upstream, check, had>>
    BY <1>4 DEF FetchList
  <2> HIDE DEF kept
  <2>8. QED
    BY <2>4, <2>5, <2>6, <2>7, OwnStep
<1>5. CASE FetchNothing(w) \/ FetchFails(w)
  <2>1. PICK outcome \in {"ok", "error"} :
            job' = [job EXCEPT ![w] = Ended(j, outcome)]
    BY <1>5 DEF FetchNothing, FetchFails
  <2>2. j.pc = "fetch"
    BY <1>5 DEF FetchNothing, FetchFails
  <2>3. GoodJob(Ended(j, outcome), had, upstream, memoryCache)
    BY <1>1, <2>2, EndedFields DEF GoodJob, SkipsCache
  <2>4. UNCHANGED <<dataSources, memoryCache, upstream, check, had>>
    BY <1>5 DEF FetchNothing, FetchFails
  <2>5. QED
    BY <2>1, <2>3, <2>4, OwnStep
<1>6. CASE Store(w)
  <2> DEFINE stored == [j EXCEPT !.pc = "stamp"]
  <2>1. /\ stored.kind = j.kind /\ stored.src = j.src /\ stored.cfg = j.cfg
        /\ stored.since = j.since /\ stored.hot = j.hot /\ stored.got = j.got
        /\ stored.pc = "stamp"
    BY <1>1, MovedFields
  <2>2. j.pc = "store" /\ j.got # NoList
    BY <1>6 DEF Store, IInv, TypeOK
  <2>3. memoryCache' = [memoryCache EXCEPT ![j.src] = j.got]
    BY <1>6 DEF Store
  <2>4. job' = [job EXCEPT ![w] = stored] /\ UNCHANGED <<upstream, had>>
        /\ UNCHANGED <<dataSources, check>>
    BY <1>6 DEF Store
  <2>5. \A s \in Source : Cached(s) => memoryCache'[s] # NoList
    BY <1>1, <2>2, <2>3 DEF Cached, IInv, TypeOK
  <2>6. \A s \in Source : upstream[s] <= upstream'[s]
    BY <2>4, MaxGenAssumption DEF IInv, TypeOK
  <2>7. \A v \in Slot : GoodJob(job[v], had', upstream', memoryCache')
    BY <2>4, <2>5, <2>6, JobsStayGood
  <2> HIDE DEF stored
  <2>8. GoodJob(stored, had', upstream', memoryCache')
    <3>1. GoodJob(j, had', upstream', memoryCache')
      BY <2>7
    <3>2. QED
      BY <2>1, <2>2, <3>1 DEF GoodJob, SkipsCache
  <2>9. \A s \in Source : GoodSource(s)'
    <3> TAKE s \in Source
    <3>1. CASE s = j.src
      <4>1. memoryCache'[s] = j.got
        BY <2>3, <3>1 DEF IInv, TypeOK
      <4>2. Genuine(s, j.got) /\ ~IsApi(j.got.cfg)
        BY <1>1, <2>2, <3>1 DEF GoodJob, Genuine
      <4>3. QED
        BY <2>4, <4>1, <4>2 DEF GoodSource, Genuine, Cached, IInv
    <3>2. CASE s # j.src
      BY <2>3, <2>4, <3>2 DEF GoodSource, Genuine, Cached, IInv, TypeOK
    <3>3. QED
      BY <3>1, <3>2
  <2>10. QED
    BY <2>4, <2>7, <2>8, <2>9 DEF IInv, TypeOK
<1>7. CASE Stamp(w) \/ Restamp(w)
  <2>1. PICK k \in {Ended(j, "ok"), [j EXCEPT !.pc = "done"]} :
            job' = [job EXCEPT ![w] = k] /\ GoodJob(k, had, upstream, memoryCache)
    <3>1. CASE Stamp(w)
      <4>1. GoodJob(Ended(j, "ok"), had, upstream, memoryCache)
        <5>1. j \in Job /\ j.pc = "stamp" /\ GoodJob(j, had, upstream, memoryCache)
          BY <1>1, <3>1 DEF Stamp, IInv, TypeOK
        <5> DEFINE e == Ended(j, "ok")
        <5>2. /\ e.kind = j.kind /\ e.src = j.src /\ e.cfg = j.cfg
              /\ e.since = j.since /\ e.hot = j.hot /\ e.got = j.got
              /\ e.pc \in {"restamp", "done"}
          BY <5>1, EndedFields
        <5> HIDE DEF e
        <5>3. GoodJob(e, had, upstream, memoryCache)
          BY <5>1, <5>2 DEF GoodJob, SkipsCache
        <5>4. QED
          BY <5>3 DEF e
      <4>2. QED
        BY <3>1, <4>1 DEF Stamp
    <3>2. CASE Restamp(w)
      <4>1. GoodJob([j EXCEPT !.pc = "done"], had, upstream, memoryCache)
        BY <1>1, <3>2, MovedFields DEF Restamp, GoodJob, SkipsCache
      <4>2. QED
        BY <3>2, <4>1 DEF Restamp
    <3>3. QED
      BY <1>7, <3>1, <3>2
  <2>2. UNCHANGED <<memoryCache, upstream, check, had>> /\ StampSync(j.src)
    BY <1>7 DEF Stamp, Restamp
  <2>3. ASSUME NEW s \in Source
        PROVE  /\ dataSources'[s].status = dataSources[s].status
               /\ dataSources'[s].cfg = dataSources[s].cfg
    <3>1. TypeOK /\ dataSources[s] \in Row /\ j.src \in Source
      BY <1>1 DEF IInv, TypeOK, Job
    <3>2. dataSources'[s] = [dataSources[s] EXCEPT !.sync = dataSources'[s].sync]
      BY <2>2, <3>1, StampWritesSync
    <3>3. QED
      BY <3>1, <3>2
  <2>4. \A s \in Source : GoodSource(s)'
    BY <2>2, <2>3 DEF GoodSource, Genuine, Cached, IInv
  <2>5. QED
    BY <2>1, <2>2, <2>4 DEF IInv, TypeOK
<1>8. CASE Return(w)
  <2>1. GoodJob(Idle, had, upstream, memoryCache)
    BY GoodIdle DEF IInv, TypeOK
  <2>2. QED
    BY <1>8, <2>1, OwnStep DEF Return
<1>9. QED
  BY <1>2, <1>3, <1>4, <1>5, <1>6, <1>7, <1>8 DEF JobStep

LEMMA EnvironmentInv ==
    ASSUME IInv, Environment, TypeOK' PROVE IInv'
<1>1. ASSUME NEW s \in Source, UpstreamChanges(s) PROVE IInv'
  <2>1. \A r \in Source : upstream[r] <= upstream'[r]
    BY <1>1, MaxGenAssumption DEF UpstreamChanges, IInv, TypeOK
  <2>2. UNCHANGED <<dataSources, memoryCache, job, check, had>>
    BY <1>1 DEF UpstreamChanges
  <2>3. \A w \in Slot : GoodJob(job[w], had', upstream', memoryCache')
    BY <2>1, <2>2, JobsStayGood DEF Cached
  <2>4. \A r \in Source : GoodSource(r)'
    <3> SUFFICES ASSUME NEW r \in Source, Cached(r)
                 PROVE  memoryCache[r].gen <= upstream'[r]
      BY <2>2 DEF IInv, GoodSource, Genuine, Cached
    <3>1. memoryCache[r] \in List
      BY DEF Cached, IInv, TypeOK
    <3>2. /\ memoryCache[r].gen \in Nat
          /\ upstream[r] \in Nat /\ upstream'[r] \in Nat
      BY <3>1, MaxGenAssumption DEF IInv, TypeOK
    <3>3. memoryCache[r].gen <= upstream[r]
      BY DEF IInv, GoodSource, Genuine
    <3>4. QED
      BY <2>1, <3>2, <3>3
  <2>5. QED
    BY <2>2, <2>3, <2>4 DEF IInv
<1>2. CASE DayPasses
  <2>1. UNCHANGED <<memoryCache, upstream, had>>
    BY <1>2 DEF DayPasses
  <2>2. \A w \in Slot : GoodJob(job'[w], had, upstream, memoryCache)
    <3> TAKE w \in Slot
    <3>1. job[w] \in Job /\ job[w].sync \in SyncTime
      BY DEF IInv, TypeOK, Job
    <3>2. Aged(job[w].sync) \in SyncTime
      BY <3>1, AgedType
    <3>3. GoodJob([job[w] EXCEPT !.sync = Aged(job[w].sync)],
                  had, upstream, memoryCache)
      BY <3>1, <3>2, GoodAged DEF IInv
    <3>4. QED
      BY <1>2, <3>3 DEF DayPasses
  <2>3. \A s \in Source : GoodSource(s)'
    <3>1. \A s \in Source : /\ dataSources'[s].status = dataSources[s].status
                            /\ dataSources'[s].cfg = dataSources[s].cfg
      BY <1>2 DEF DayPasses, IInv, TypeOK
    <3>2. QED
      BY <2>1, <3>1 DEF GoodSource, Genuine, Cached, IInv
  <2>4. \A d \in check'.todo : d.cfg \in had'[d.src]
    <3>1. check'.todo = {[d EXCEPT !.sync = Aged(d.sync)] : d \in check.todo}
      BY <1>2 DEF DayPasses, IInv, TypeOK
    <3>2. \A d \in check.todo :
              LET e == [d EXCEPT !.sync = Aged(d.sync)]
              IN  e.src = d.src /\ e.cfg = d.cfg
      BY DEF IInv, TypeOK
    <3>3. QED
      BY <2>1, <3>1, <3>2 DEF IInv
  <2>5. QED
    BY <2>1, <2>2, <2>3, <2>4 DEF IInv
<1>3. CASE Restart
  <2>1. GoodJob(Idle, had', upstream', memoryCache')
    BY GoodIdle DEF TypeOK
  <2>2. QED
    BY <1>3, <2>1 DEF Restart, IInv, GoodSource, Cached
<1>4. QED
  BY <1>1, <1>2, <1>3 DEF Environment

LEMMA StepInv == IInv /\ [Next]_vars => IInv'
<1> SUFFICES ASSUME IInv, [Next]_vars PROVE IInv'
  OBVIOUS
<1>1. TypeOK'
  BY TypeStep DEF IInv
<1>2. CASE Next
  BY <1>1, <1>2, AdminInv, StartInv, CheckInv, EnvironmentInv, JobInv DEF Next
<1>3. CASE UNCHANGED vars
  BY <1>3 DEF vars, IInv, TypeOK, GoodSource, Genuine, Cached
<1>4. QED
  BY <1>2, <1>3

LEMMA Inductive == Spec => []IInv
  BY InitInv, StepInv, PTL DEF Spec

-----------------------------------------------------------------------------
(* The results.                                                            *)

\* Whatever runs beside it, every cached list came from a configuration and
\* an upstream generation its own source had, never from an API source; so
\* did every list a goroutine returns to its caller.
THEOREM ListsAreGenuine == Spec => []OnlyGenuineLists
<1>1. IInv => OnlyGenuineLists
  BY DEF IInv, OnlyGenuineLists, GoodSource, GoodJob, Genuine
<1>2. QED
  BY <1>1, Inductive, PTL

\* A refresh that reports success brings content of its own time or later.
THEOREM RefreshesAreNew == Spec => []RefreshIsNew
<1>1. IInv => RefreshIsNew
  BY DEF IInv, RefreshIsNew, GoodJob, SkipsCache
<1>2. QED
  BY <1>1, Inductive, PTL

\* An API source is never answered from the cache.
THEOREM ApiAnswersAreLive == Spec => []ApiIsLive
<1>1. IInv => ApiIsLive
  BY DEF IInv, ApiIsLive, GoodJob, IsApi, Remote
<1>2. QED
  BY <1>1, Inductive, PTL

\* A cached source is always answered, whatever its upstream does.
THEOREM CachedSourcesAnswer == Spec => []CachedNeverFails
<1>1. IInv => CachedNeverFails
  BY DEF IInv, CachedNeverFails, GoodJob, SkipsCache
<1>2. QED
  BY <1>1, Inductive, PTL

-----------------------------------------------------------------------------
(* The cache implements PublishedLists: a Store publishes, a save adds a   *)
(* configuration, a restart forgets, and nothing else shows.               *)

LEMMA StoreMaps ==
    ASSUME IInv, NEW w \in Slot, Store(w)
    PROVE  Published!Publish(job[w].src)
<1> DEFINE j == job[w]
<1>1. j.src \in Source /\ j.cfg \in Config
  BY DEF IInv, TypeOK, Job
<1>2. j.got \in List
  BY DEF Store, IInv, TypeOK, Job
<1>3. /\ j.got.cfg \in had[j.src] /\ j.got.gen <= upstream[j.src]
      /\ ~IsApi(j.got.cfg)
  BY <1>2, NoListAssumption DEF Store, IInv, TypeOK, GoodJob
<1>4. /\ j.got.cfg \in had[j.src] \cap {c \in Config : ~IsApi(c)}
      /\ j.got.gen \in 0..upstream[j.src]
  BY <1>1, <1>2, <1>3, MaxGenAssumption DEF IInv, TypeOK
<1>5. j.got = [cfg |-> j.got.cfg, gen |-> j.got.gen]
  BY <1>2
<1>6. memoryCache' = [memoryCache EXCEPT ![j.src] =
                          [cfg |-> j.got.cfg, gen |-> j.got.gen]]
  BY <1>5 DEF Store
<1>7. UNCHANGED <<had, upstream>>
  BY DEF Store
<1>8. QED
  BY <1>4, <1>6, <1>7 DEF Published!Publish

LEMMA StepMaps == IInv /\ [Next]_vars => [Published!Next]_(Published!pvars)
<1> SUFFICES ASSUME IInv, [Next]_vars
             PROVE  Published!Next \/ UNCHANGED Published!pvars
  OBVIOUS
<1> USE DEF Published!pvars
<1>1. ASSUME NEW w \in Worker, NEW s \in Source, NEW c \in Config,
             CreateDataSource(w, s, c)
      PROVE  Published!Next
  BY <1>1 DEF CreateDataSource, Published!Next, Published!Configure
<1>2. ASSUME NEW w \in Worker, NEW c \in Config, NEW a \in BOOLEAN,
             SaveDataSource(w, c, a)
      PROVE  Published!Next
  <2>1. job[w].src \in Source
    BY DEF IInv, TypeOK, Job
  <2>2. QED
    BY <1>2, <2>1 DEF SaveDataSource, Published!Next, Published!Configure
<1>3. CASE AdminStep
  BY <1>1, <1>2, <1>3 DEF AdminStep, ReadForUpdate, AbandonUpdate,
     DeleteDataSource
<1>4. CASE StartStep
  BY <1>4 DEF StartStep, Serve, RefreshDataSource, CountURLs
<1>5. CASE CheckStep
  BY <1>5 DEF CheckStep, StartCheck, CheckSource, EndCheck
<1>6. ASSUME NEW w \in Slot, JobStep(w)
      PROVE  Published!Next \/ UNCHANGED Published!pvars
  <2>1. CASE Store(w)
    <3>1. job[w].src \in Source
      BY DEF IInv, TypeOK, Job
    <3>2. QED
      BY <2>1, <3>1, StoreMaps DEF Published!Next
  <2>2. CASE ~Store(w)
    BY <1>6, <2>2 DEF JobStep, CountFromCache, Lookup, FetchList,
       FetchNothing, FetchFails, Stamp, Restamp, Return
  <2>3. QED
    BY <2>1, <2>2
<1>7. CASE Environment
  BY <1>7 DEF Environment, UpstreamChanges, DayPasses, Restart,
     Published!Next, Published!ContentChanges, Published!ForgetAll
<1>8. CASE UNCHANGED vars
  BY <1>8 DEF vars
<1>9. QED
  BY <1>3, <1>4, <1>5, <1>6, <1>7, <1>8 DEF Next

\* Readers of the cache see whole genuine lists that follow one another
\* directly, whatever the goroutines behind them do, until a restart.
THEOREM CacheKeepsPromise == Spec => KeepsPromise
<1>1. Init => Published!Init
  BY DEF Init, Published!Init
<1>2. QED
  BY <1>1, Inductive, StepMaps, PTL DEF Spec, KeepsPromise, Published!Spec

-----------------------------------------------------------------------------
\* No goroutine undoes or resurrects what an admin saved or deleted.
THEOREM JobsLeaveTheRow == Spec => JobsWriteOnlyLastSync
<1>1. TypeOK /\ [Next]_vars => [AdminStep \/ OnlyLastSyncChanges]_vars
  <2> DEFINE Same(r) == dataSources'[r] = [dataSources[r] EXCEPT
                                               !.sync = dataSources'[r].sync]
             InTime(r) == dataSources'[r].sync \in
                 {dataSources[r].sync, "fresh", Aged(dataSources[r].sync)}
  <2> SUFFICES ASSUME TypeOK, Next, ~AdminStep, NEW r \in Source
               PROVE  Same(r) /\ InTime(r)
    BY DEF OnlyLastSyncChanges
  <2>1. dataSources[r] \in Row
    BY DEF TypeOK
  <2>2. CASE dataSources' = dataSources
    BY <2>1, <2>2
  <2>3. CASE DayPasses
    <3>1. dataSources'[r] = [dataSources[r] EXCEPT
                                 !.sync = Aged(dataSources[r].sync)]
      BY <2>3 DEF DayPasses
    <3>2. QED
      BY <2>1, <3>1
  <2>4. CASE \E w \in Slot : Stamp(w) \/ Restamp(w)
    <3>1. PICK w \in Slot : Stamp(w) \/ Restamp(w)
      BY <2>4
    <3>2. StampSync(job[w].src) /\ job[w].src \in Source
      BY <3>1 DEF Stamp, Restamp, TypeOK, Job
    <3>3. QED
      BY <3>2, StampWritesSync
  <2>5. dataSources' = dataSources \/ DayPasses
            \/ \E w \in Slot : Stamp(w) \/ Restamp(w)
    BY DEF Next, StartStep, Serve, RefreshDataSource, CountURLs, CheckStep,
       StartCheck, EndCheck, CheckSource, JobStep, CountFromCache, Lookup,
       FetchList, FetchNothing, FetchFails, Store, Return, Environment,
       UpstreamChanges, Restart
  <2>6. QED
    BY <2>2, <2>3, <2>4, <2>5
<1>2. QED
  BY <1>1, TypeCorrect, PTL DEF Spec, JobsWriteOnlyLastSync
=============================================================================
