------------------------------ MODULE SourceCache ------------------------------
(***************************************************************************)
(* The data-source cache of the random-api server: the data_sources rows,  *)
(* the in-memory cache of URL lists keyed by data source, and every        *)
(* goroutine that reads the one and fills the other -- requests, the       *)
(* preload an admin's save starts, manual and start-up refreshes, URL      *)
(* counting, and the periodic check of the preloader.                      *)
(*                                                                         *)
(* A URL list is abstracted to where it came from: the configuration it    *)
(* was fetched under and the generation of the upstream content it shows.  *)
(* A fetch is not atomic: a goroutine copies the row, looks in the cache,  *)
(* asks the upstream, stores the list and stamps last_sync in five steps,  *)
(* with the steps of any other goroutine in between.                       *)
(***************************************************************************)
EXTENDS Naturals

CONSTANTS
    Source,    \* ids of data sources
    Config,    \* contents of the type and config columns
    TypeOf,    \* the data source type each configuration stands for
    Hollow,    \* configurations that name nothing: no URL, no endpoint id
    Worker,    \* slots for goroutines of requests and of admin calls
    NoList,    \* no URL list
    MaxGen     \* bound on the changes of one upstream's content

ASSUME SlotAssumption == Worker \cap Source = {}
ASSUME TypeOfAssumption ==
    TypeOf \in [Config -> {"remote", "manual", "endpoint", "api"}]
ASSUME ConfigAssumption == Config # {} /\ Source # {}
ASSUME NoListAssumption == NoList \notin [cfg : Config, gen : Nat]
ASSUME MaxGenAssumption == MaxGen \in Nat

VARIABLES
    dataSources,   \* the data_sources table
    memoryCache,   \* CacheManager.memoryCache, by data source
    upstream,      \* generation of the content each upstream serves now
    job,           \* the goroutines, by slot
    check,         \* the periodic check of the preloader
    had            \* history: the configurations a row has ever held

vars == <<dataSources, memoryCache, upstream, job, check, had>>

(***************************************************************************)
(* A slot of Worker holds any goroutine; the slot named after a source     *)
(* holds the goroutine the periodic check starts for it, of which there is *)
(* at most one, because a check waits for its goroutines before the next.  *)
(***************************************************************************)
Slot == Worker \cup Source
List == [cfg : Config, gen : 0..MaxGen]
SyncTime == {"never", "fresh", "old"}     \* "old": more than 24 hours ago

Row == [status : {"none", "live", "deleted"}, cfg : Config,
        active : BOOLEAN, sync : SyncTime]

Job == [pc : {"idle", "edit", "count", "lookup", "fetch", "store", "stamp",
              "restamp", "done"},
        kind : {"none", "serve", "save", "sync", "count", "tick"},
        src : Source, cfg : Config, sync : SyncTime,
        since : 0..MaxGen, hot : BOOLEAN,
        got : List \cup {NoList}, outcome : {"none", "ok", "error"}]

Idle == [pc |-> "idle", kind |-> "none",
         src |-> CHOOSE s \in Source : TRUE, cfg |-> CHOOSE c \in Config : TRUE,
         sync |-> "never", since |-> 0, hot |-> FALSE,
         got |-> NoList, outcome |-> "none"]

Due == [src : Source, cfg : Config, sync : SyncTime]

IsApi(c) == TypeOf[c] = "api"
Remote(c) == TypeOf[c] \in {"remote", "api"}
Live(s) == dataSources[s].status = "live"
Cached(s) == memoryCache[s] # NoList

Init ==
    /\ dataSources = [s \in Source |->
           [status |-> "none", cfg |-> CHOOSE c \in Config : TRUE,
            active |-> FALSE, sync |-> "never"]]
    /\ memoryCache = [s \in Source |-> NoList]
    /\ upstream = [s \in Source |-> 0]
    /\ job = [w \in Slot |-> Idle]
    /\ check = [pc |-> "sleep", todo |-> {}]
    /\ had = [s \in Source |-> {}]

-----------------------------------------------------------------------------
(* Starting a goroutine. "since" and "hot" are history: the upstream's     *)
(* generation, and whether the source was cached, when it started.         *)

Started(kind, pc, s, c) ==
    [pc |-> pc, kind |-> kind, src |-> s, cfg |-> c, sync |-> "never",
     since |-> upstream[s], hot |-> Cached(s), got |-> NoList,
     outcome |-> "none"]

\* PreloadDataSourceOnSave: nothing for an inactive or an API source. The
\* goroutine it starts takes over the slot of the admin call, which returns.
PreloadOnSave(s, c, active) ==
    IF active /\ ~IsApi(c) THEN Started("save", "lookup", s, c) ELSE Idle

(***************************************************************************)
(* The admin's calls on a data source.                                     *)
(***************************************************************************)

\* gorm inserts the column default TRUE for an is_active of FALSE, whether
\* the insert is a Create or the upsert by which Save replaces a row that
\* its UPDATE did not find (a soft-deleted one).
Inserted(c, sync) ==
    [status |-> "live", cfg |-> c, active |-> TRUE, sync |-> sync]

CreateDataSource(w, s, c) ==
    /\ job[w].pc = "idle" /\ dataSources[s].status = "none"
    /\ dataSources' = [dataSources EXCEPT ![s] = Inserted(c, "never")]
    /\ had' = [had EXCEPT ![s] = @ \cup {c}]
    /\ job' = [job EXCEPT ![w] = PreloadOnSave(s, c, TRUE)]
    /\ UNCHANGED <<memoryCache, upstream, check>>

\* AdminHandler.UpdateDataSource reads the row ...
ReadForUpdate(w, s) ==
    /\ job[w].pc = "idle" /\ Live(s)
    /\ job' = [job EXCEPT ![w] =
           [Started("save", "edit", s, dataSources[s].cfg)
               EXCEPT !.sync = dataSources[s].sync]]
    /\ UNCHANGED <<dataSources, memoryCache, upstream, check, had>>

\* ... and saves every column of its copy, last_sync included.
SaveDataSource(w, c, active) ==
    LET s == job[w].src
        saved == IF Live(s)
                   THEN [status |-> "live", cfg |-> c, active |-> active,
                         sync |-> job[w].sync]
                   ELSE Inserted(c, job[w].sync)
    IN  /\ job[w].pc = "edit"
        /\ dataSources' = [dataSources EXCEPT ![s] = saved]
        /\ had' = [had EXCEPT ![s] = @ \cup {c}]
        /\ job' = [job EXCEPT ![w] = PreloadOnSave(s, c, saved.active)]
        /\ UNCHANGED <<memoryCache, upstream, check>>

\* A body that does not parse, or a failing Save: the call returns an error.
AbandonUpdate(w) ==
    /\ job[w].pc = "edit"
    /\ job' = [job EXCEPT ![w] = Idle]
    /\ UNCHANGED <<dataSources, memoryCache, upstream, check, had>>

\* A soft delete. The endpoint's key, not the source's, is invalidated, and
\* no list is ever stored under it: the source's list stays.
DeleteDataSource(s) ==
    /\ Live(s)
    /\ dataSources' = [dataSources EXCEPT ![s].status = "deleted"]
    /\ UNCHANGED <<memoryCache, upstream, job, check, had>>

(***************************************************************************)
(* The goroutines that ask for a source's URLs. Each copies the row first. *)
(***************************************************************************)

\* GetRandomURL picks an active source of an active endpoint.
Serve(w, s) ==
    /\ job[w].pc = "idle" /\ Live(s) /\ dataSources[s].active
    /\ job' = [job EXCEPT ![w] =
                   Started("serve", "lookup", s, dataSources[s].cfg)]
    /\ UNCHANGED <<dataSources, memoryCache, upstream, check, had>>

\* Preloader.RefreshDataSource, for the admin's sync and for InitData.
RefreshDataSource(w, s) ==
    /\ job[w].pc = "idle" /\ Live(s) /\ dataSources[s].active
    /\ ~IsApi(dataSources[s].cfg)
    /\ job' = [job EXCEPT ![w] =
                   Started("sync", "lookup", s, dataSources[s].cfg)]
    /\ UNCHANGED <<dataSources, memoryCache, upstream, check, had>>

\* HandleURLStats and preloadURLStats list the rows ...
CountURLs(w, s) ==
    /\ job[w].pc = "idle" /\ Live(s) /\ dataSources[s].active
    /\ job' = [job EXCEPT ![w] =
                   Started("count", "count", s, dataSources[s].cfg)]
    /\ UNCHANGED <<dataSources, memoryCache, upstream, check, had>>

\* ... and GetDataSourceURLCount answers from the cache or with an estimate,
\* except for a manual source that is not cached, which it fetches.
CountFromCache(w) ==
    LET fetches == TypeOf[job[w].cfg] = "manual" /\ ~Cached(job[w].src)
    IN  /\ job[w].pc = "count"
        /\ job' = [job EXCEPT ![w] =
                       IF fetches THEN [@ EXCEPT !.pc = "lookup"] ELSE Idle]
        /\ UNCHANGED <<dataSources, memoryCache, upstream, check, had>>

(***************************************************************************)
(* The periodic check (a check that finds the preloader paused does        *)
(* nothing; module Preloader has the pause).                               *)
(***************************************************************************)
ShouldPeriodicRefresh(d) == TypeOf[d.cfg] = "remote" /\ d.sync # "fresh"

DueRows ==
    {[src |-> s, cfg |-> dataSources[s].cfg, sync |-> dataSources[s].sync] :
        s \in {t \in Source : /\ Live(t) /\ dataSources[t].active
                              /\ TypeOf[dataSources[t].cfg]
                                     \notin {"api", "endpoint"}}}

StartCheck ==
    /\ check.pc = "sleep"
    /\ check' = [pc |-> "check", todo |-> DueRows]
    /\ UNCHANGED <<dataSources, memoryCache, upstream, job, had>>

CheckSource(d) ==
    LET refresh == ~Cached(d.src) \/ ShouldPeriodicRefresh(d)
    IN  /\ check.pc = "check" /\ d \in check.todo
        /\ check' = [check EXCEPT !.todo = @ \ {d}]
        /\ job' = IF refresh
                    THEN [job EXCEPT ![d.src] =
                              Started("tick", "lookup", d.src, d.cfg)]
                    ELSE job
        /\ UNCHANGED <<dataSources, memoryCache, upstream, had>>

EndCheck ==
    /\ check.pc = "check" /\ check.todo = {}
    /\ \A s \in Source : job[s].pc = "idle"
    /\ check' = [check EXCEPT !.pc = "sleep"]
    /\ UNCHANGED <<dataSources, memoryCache, upstream, job, had>>

-----------------------------------------------------------------------------
(* FetchURLsWithOptions, one action per step.                              *)

\* Mutant: RefreshDataSource asks with skipCache = false.
MutSkipsCacheNever(j) == FALSE

\* RefreshDataSource is the one caller that skips the cache.
SkipsCache(j) == j.kind = "sync"

\* The periodic refresh stamps last_sync once more after a fetch that did
\* not fail, whatever that fetch did.
Ended(j, outcome) ==
    [j EXCEPT !.outcome = outcome,
              !.pc = IF j.kind = "tick" /\ outcome = "ok"
                       THEN "restamp" ELSE "done"]

\* Mutant: the cache is looked up before the type is.
MutHitsBeforeType(j) == ~SkipsCache(j) /\ Cached(j.src)

Hits(j) == ~IsApi(j.cfg) /\ ~SkipsCache(j) /\ Cached(j.src)

Lookup(w) ==
    LET j == job[w]
    IN  /\ j.pc = "lookup"
        /\ job' = [job EXCEPT ![w] =
               IF Hits(j) THEN Ended([j EXCEPT !.got = memoryCache[j.src]], "ok")
                          ELSE [j EXCEPT !.pc = "fetch"]]
        /\ UNCHANGED <<dataSources, memoryCache, upstream, check, had>>

\* What the upstream of s shows under configuration c. A manual or endpoint
\* list is written in the configuration itself and has no generations.
Shown(s, c) ==
    [cfg |-> c, gen |-> IF Remote(c) THEN upstream[s] ELSE 0]

\* Mutant: an API list is cached like any other.
MutFetchListCachesApi(w) ==
    LET j == [job[w] EXCEPT !.got = Shown(job[w].src, job[w].cfg)]
    IN  /\ j.pc = "fetch" /\ (Remote(j.cfg) \/ j.cfg \notin Hollow)
        /\ job' = [job EXCEPT ![w] = [j EXCEPT !.pc = "store"]]
        /\ UNCHANGED <<dataSources, memoryCache, upstream, check, had>>

\* A list: an API source returns it, the others store it first.
FetchList(w) ==
    LET j == [job[w] EXCEPT !.got = Shown(job[w].src, job[w].cfg)]
    IN  /\ j.pc = "fetch" /\ (Remote(j.cfg) \/ j.cfg \notin Hollow)
        /\ job' = [job EXCEPT ![w] = IF IsApi(j.cfg) THEN Ended(j, "ok")
                                     ELSE [j EXCEPT !.pc = "store"]]
        /\ UNCHANGED <<dataSources, memoryCache, upstream, check, had>>

\* Mutant: the check for an empty list is missing.
MutFetchNothingStores(w) ==
    /\ job[w].pc = "fetch"
    /\ \/ TypeOf[job[w].cfg] = "remote"
       \/ TypeOf[job[w].cfg] = "manual" /\ job[w].cfg \in Hollow
    /\ job' = [job EXCEPT ![w].pc = "store"]
    /\ UNCHANGED <<dataSources, memoryCache, upstream, check, had>>

\* An empty list is returned without an error, and is not cached.
FetchNothing(w) ==
    /\ job[w].pc = "fetch"
    /\ \/ TypeOf[job[w].cfg] = "remote"
       \/ TypeOf[job[w].cfg] = "manual" /\ job[w].cfg \in Hollow
    /\ job' = [job EXCEPT ![w] = Ended(@, "ok")]
    /\ UNCHANGED <<dataSources, memoryCache, upstream, check, had>>

\* Mutant: a failing fetch drops the cached list.
MutFetchFailsInvalidates(w) ==
    /\ job[w].pc = "fetch"
    /\ Remote(job[w].cfg)
    /\ memoryCache' = [memoryCache EXCEPT ![job[w].src] = NoList]
    /\ job' = [job EXCEPT ![w] = Ended(@, "error")]
    /\ UNCHANGED <<dataSources, upstream, check, had>>

FetchFails(w) ==
    /\ job[w].pc = "fetch"
    /\ \/ Remote(job[w].cfg)
       \/ TypeOf[job[w].cfg] = "endpoint" /\ job[w].cfg \in Hollow
    /\ job' = [job EXCEPT ![w] = Ended(@, "error")]
    /\ UNCHANGED <<dataSources, memoryCache, upstream, check, had>>

\* Mutant: the goroutine reads the row again for the key's configuration, so
\* that the list is filed under what the row says now.
MutStoreRelabels(w) ==
    /\ job[w].pc = "store"
    /\ memoryCache' = [memoryCache EXCEPT ![job[w].src] =
           [cfg |-> dataSources[job[w].src].cfg, gen |-> job[w].got.gen]]
    /\ job' = [job EXCEPT ![w].pc = "stamp"]
    /\ UNCHANGED <<dataSources, upstream, check, had>>

Store(w) ==
    /\ job[w].pc = "store"
    /\ memoryCache' = [memoryCache EXCEPT ![job[w].src] = job[w].got]
    /\ job' = [job EXCEPT ![w].pc = "stamp"]
    /\ UNCHANGED <<dataSources, upstream, check, had>>

\* UPDATE of the one column last_sync; it misses a soft-deleted row, and a
\* database error is only logged.
StampSync(s) ==
    \/ /\ Live(s)
       /\ dataSources' = [dataSources EXCEPT ![s].sync = "fresh"]
    \/ UNCHANGED dataSources

\* Mutant: the goroutine saves its whole copy of the row.
MutStampSavesRow(w) ==
    LET s == job[w].src
    IN  /\ job[w].pc = "stamp"
        /\ dataSources' = [dataSources EXCEPT ![s] =
               [status |-> "live", cfg |-> job[w].cfg, active |-> TRUE,
                sync |-> "fresh"]]
        /\ job' = [job EXCEPT ![w] = Ended(@, "ok")]
        /\ UNCHANGED <<memoryCache, upstream, check, had>>

Stamp(w) ==
    /\ job[w].pc = "stamp"
    /\ StampSync(job[w].src)
    /\ job' = [job EXCEPT ![w] = Ended(@, "ok")]
    /\ UNCHANGED <<memoryCache, upstream, check, had>>

\* refreshDataSourceAsync's own stamp.
Restamp(w) ==
    /\ job[w].pc = "restamp"
    /\ StampSync(job[w].src)
    /\ job' = [job EXCEPT ![w].pc = "done"]
    /\ UNCHANGED <<memoryCache, upstream, check, had>>

\* Mutant: wg.Done is skipped on the error path.
MutReturnOnlyOk(w) ==
    /\ job[w].pc = "done" /\ job[w].outcome = "ok"
    /\ job' = [job EXCEPT ![w] = Idle]
    /\ UNCHANGED <<dataSources, memoryCache, upstream, check, had>>

\* Mutant: the periodic check's goroutines never call wg.Done.
MutReturnKeepsTicks(w) ==
    /\ job[w].pc = "done" /\ job[w].kind # "tick"
    /\ job' = [job EXCEPT ![w] = Idle]
    /\ UNCHANGED <<dataSources, memoryCache, upstream, check, had>>

Return(w) ==
    /\ job[w].pc = "done"
    /\ job' = [job EXCEPT ![w] = Idle]
    /\ UNCHANGED <<dataSources, memoryCache, upstream, check, had>>

-----------------------------------------------------------------------------
(* The environment.                                                        *)

UpstreamChanges(s) ==
    /\ upstream[s] < MaxGen
    /\ upstream' = [upstream EXCEPT ![s] = @ + 1]
    /\ UNCHANGED <<dataSources, memoryCache, job, check, had>>

Aged(sync) == IF sync = "fresh" THEN "old" ELSE sync

\* Twenty-four hours go by.
DayPasses ==
    /\ \E s \in Source : dataSources[s].sync = "fresh"
    /\ dataSources' = [s \in Source |->
                           [dataSources[s] EXCEPT !.sync = Aged(@)]]
    /\ job' = [w \in Slot |-> [job[w] EXCEPT !.sync = Aged(@)]]
    /\ check' = [check EXCEPT !.todo = {[d EXCEPT !.sync = Aged(@)] : d \in @}]
    /\ UNCHANGED <<memoryCache, upstream, had>>

\* The process ends, in any state, and starts again with an empty cache.
Restart ==
    /\ memoryCache' = [s \in Source |-> NoList]
    /\ job' = [w \in Slot |-> Idle]
    /\ check' = [pc |-> "sleep", todo |-> {}]
    /\ UNCHANGED <<dataSources, upstream, had>>

-----------------------------------------------------------------------------
AdminStep ==
    \/ \E w \in Worker, s \in Source :
          \/ \E c \in Config : CreateDataSource(w, s, c)
          \/ ReadForUpdate(w, s)
    \/ \E w \in Worker, c \in Config, a \in BOOLEAN : SaveDataSource(w, c, a)
    \/ \E w \in Worker : AbandonUpdate(w)
    \/ \E s \in Source : DeleteDataSource(s)

StartStep ==
    \E w \in Worker, s \in Source :
        Serve(w, s) \/ RefreshDataSource(w, s) \/ CountURLs(w, s)

CheckStep == StartCheck \/ EndCheck \/ \E d \in Due : CheckSource(d)

JobStep(w) ==
    \/ CountFromCache(w)
    \/ Lookup(w) \/ FetchList(w) \/ FetchNothing(w) \/ FetchFails(w)
    \/ Store(w) \/ Stamp(w) \/ Restamp(w) \/ Return(w)

Environment == DayPasses \/ Restart \/ \E s \in Source : UpstreamChanges(s)

Next ==
    \/ AdminStep \/ StartStep \/ CheckStep \/ Environment
    \/ \E w \in Slot : JobStep(w)

Spec == Init /\ [][Next]_vars

\* Goroutines run, every fetch returns (its HTTP client has a timeout) and
\* the check's goroutine runs; nobody owes a request, a save or a restart.
FairSpec ==
    /\ Spec
    /\ \A w \in Slot : WF_vars(JobStep(w))
    /\ WF_vars(EndCheck \/ \E d \in Due : CheckSource(d))

-----------------------------------------------------------------------------
(***************************************************************************)
(* Properties.                                                             *)
(***************************************************************************)

TypeOK ==
    /\ dataSources \in [Source -> Row]
    /\ memoryCache \in [Source -> List \cup {NoList}]
    /\ upstream \in [Source -> 0..MaxGen]
    /\ job \in [Slot -> Job]
    /\ check \in [pc : {"sleep", "check"}, todo : SUBSET Due]
    /\ had \in [Source -> SUBSET Config]
    /\ \A w \in Slot : job[w].pc \in {"store", "stamp"} => job[w].got # NoList

\* A list that source s may show: fetched under a configuration its row has
\* held, at a generation its upstream has reached.
Genuine(s, l) ==
    /\ l.cfg \in had[s]
    /\ l.gen <= upstream[s]

\* Every cached list, and every list a goroutine holds for its caller, came
\* from that very source; a cached one never came from an API source, whose
\* answers data_source_fetcher.go:69 and :159 say are not kept (what
\* service/README.md:25 and 33-36 say of them is not what the code does).
OnlyGenuineLists ==
    /\ \A s \in Source : Cached(s) =>
           Genuine(s, memoryCache[s]) /\ ~IsApi(memoryCache[s].cfg)
    /\ \A w \in Slot : job[w].got # NoList => Genuine(job[w].src, job[w].got)

\* A manual or start-up refresh that reports success with URLs brings what the
\* row it read names, no older than the moment it began, however many
\* requests, saves and checks of the same source ran beside it.
RefreshIsNew ==
    \A w \in Slot :
        job[w].kind = "sync" /\ job[w].outcome = "ok" /\ job[w].got # NoList =>
            /\ job[w].got.cfg = job[w].cfg
            /\ Remote(job[w].cfg) => job[w].got.gen >= job[w].since

\* A request on an API source is answered live ("without the cache", says
\* data_source_fetcher.go:69), even when the same source, under an earlier
\* configuration, left a list in the cache.
ApiIsLive ==
    \A w \in Slot :
        IsApi(job[w].cfg) /\ job[w].got # NoList =>
            /\ job[w].got.cfg = job[w].cfg
            /\ job[w].got.gen >= job[w].since

\* Once a source is cached no goroutine that may use the cache comes back
\* with an error or with nothing: upstream failures stay invisible, whatever
\* fetches, saves and deletions run between its start and its lookup.
CachedNeverFails ==
    \A w \in Slot :
        /\ job[w].hot /\ ~IsApi(job[w].cfg) /\ job[w].kind # "sync"
        /\ job[w].pc \in {"restamp", "done"}
        => job[w].outcome = "ok" /\ job[w].got # NoList

\* A goroutine holds a copy of the row through the whole fetch and writes to
\* the row afterwards. Whatever the admin saved or deleted meanwhile stays
\* as saved: outside the admin's own steps only last_sync changes, and it
\* changes to now, or by ageing.
OnlyLastSyncChanges ==
    \A s \in Source :
        /\ dataSources'[s] = [dataSources[s] EXCEPT
                                  !.sync = dataSources'[s].sync]
        /\ dataSources'[s].sync
               \in {dataSources[s].sync, "fresh", Aged(dataSources[s].sync)}
JobsWriteOnlyLastSync == [][AdminStep \/ OnlyLastSyncChanges]_vars

\* The cache, with all the goroutines that fill it, keeps the promise of
\* PublishedLists: "cached for good, refreshed only when the data change", says
\* cache_manager.go:15 (the five minutes and the second
\* cache of service/README.md:29-31 are not in the code).
Published == INSTANCE PublishedLists WITH
                 shown <- memoryCache, held <- had, content <- upstream,
                 Cacheable <- {c \in Config : ~IsApi(c)}
KeepsPromise == Published!Spec

\* Every goroutine ends, unless it is an admin call still reading its body,
\* and every periodic check ends, which waits for the goroutines it has begun, so
\* that the next one can run.
WorkEnds ==
    /\ \A w \in Worker : job[w].pc \notin {"idle", "edit"} ~> job[w].pc = "idle"
    /\ check.pc = "check" ~> check.pc = "sleep"

-----------------------------------------------------------------------------
(* A claim of the documentation that the code does not keep.              *)

\* A source is preloaded when it is saved, and fetched again every 24 hours:
\* the preload of a source that is cached already, if it reports success with
\* URLs, brings what the row it copied names, no older than when it began.
PreloadsFetch ==
    \A w \in Slot :
        /\ job[w].kind \in {"save", "tick"} /\ job[w].hot
        /\ job[w].pc = "done" /\ job[w].got # NoList
        =>
            /\ job[w].got.cfg = job[w].cfg
            /\ Remote(job[w].cfg) => job[w].got.gen >= job[w].since
=============================================================================
