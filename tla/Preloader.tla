------------------------------- MODULE Preloader -------------------------------
(***************************************************************************)
(* The life of the preloader (service.Preloader) and the start-up of the   *)
(* application's data (initapp.InitData) that pauses it: a goroutine that  *)
(* checks the data sources when it starts and at every tick, a flag that   *)
(* lets it skip its checks, a channel whose closing ends it, and one       *)
(* goroutine per data source that preloads it, of which a semaphore lets a *)
(* few run at once.  What a check and a preload do is SourceCache.         *)
(***************************************************************************)
EXTENDS Naturals, FiniteSets

CONSTANTS
    Source,      \* data sources that may be active
    Permits,     \* capacity of InitData's semaphore: 5
    MaxStarts    \* bound on the goroutines that Start starts

ASSUME PermitsAssumption == Permits \in Nat \ {0}
ASSUME MaxStartsAssumption == MaxStarts \in Nat \ {0}
ASSUME SourceAssumption == IsFiniteSet(Source)

VARIABLES
    running,     \* Preloader.running
    paused,      \* Preloader.paused
    closed,      \* stopChan is closed
    loop,        \* the goroutines of runPeriodicRefresh, in order
    init,        \* where InitData is
    job,         \* InitData's goroutines, by data source
    semaphore,   \* tokens in InitData's semaphore
    intruded     \* history: a check began while InitData had the preloader
                 \* paused

vars == <<running, paused, closed, loop, init, job, semaphore, intruded>>
preloader == <<running, paused, closed, loop>>
startUp == <<init, job, semaphore>>

Loop == 1..MaxStarts
Preloading ==
    \/ init \in {"list", "preload", "resume"}
    \/ \E s \in Source : job[s] \in {"queued", "running"}

Init ==
    /\ running = FALSE /\ paused = FALSE /\ closed = FALSE
    /\ loop = [l \in Loop |-> "none"]
    /\ init = "service"
    /\ job = [s \in Source |-> "none"]
    /\ semaphore = 0
    /\ intruded = FALSE

-----------------------------------------------------------------------------
(* Preloader.                                                              *)

Started(l) ==
    /\ loop[l] = "none" /\ \A m \in Loop : m < l => loop[m] # "none"
    /\ running' = TRUE
    /\ loop' = [loop EXCEPT ![l] = "start"]
    /\ UNCHANGED <<paused, closed>>

\* A caller other than GetEndpointService; nothing if it is running.
Start ==
    /\ init \in {"done", "failed"}
    /\ \/ ~running /\ \E l \in Loop : Started(l)
       \/ running /\ UNCHANGED preloader
    /\ UNCHANGED <<startUp, intruded>>

\* Nothing if it is not running. The channel is never made again: the second
\* time, close panics on the way out of the call.
Stop ==
    /\ init \in {"done", "failed"}
    /\ running' = FALSE
    /\ closed' = (closed \/ running)
    /\ UNCHANGED <<paused, loop, startUp, intruded>>

\* Mutant: the flag is read once, before the loop.
MutBeginCheckPaused(l) ==
    /\ loop[l] \in {"start", "wait"}
    /\ loop' = [loop EXCEPT ![l] = "check"]
    /\ intruded' = (intruded \/ Preloading)
    /\ UNCHANGED <<running, paused, closed, startUp>>

\* At the start, and at every tick.
BeginCheck(l) ==
    /\ loop[l] \in {"start", "wait"}
    /\ loop' = [loop EXCEPT ![l] = IF paused THEN "wait" ELSE "check"]
    /\ intruded' = (intruded \/ (~paused /\ Preloading))
    /\ UNCHANGED <<running, paused, closed, startUp>>

EndCheck(l) ==
    /\ loop[l] = "check"
    /\ loop' = [loop EXCEPT ![l] = "wait"]
    /\ UNCHANGED <<running, paused, closed, startUp, intruded>>

\* Mutant: only a loop that is paused looks at the channel.
MutEndLoopPaused(l) ==
    /\ loop[l] = "wait" /\ closed /\ paused
    /\ loop' = [loop EXCEPT ![l] = "ended"]
    /\ UNCHANGED <<running, paused, closed, startUp, intruded>>

EndLoop(l) ==
    /\ loop[l] = "wait" /\ closed
    /\ loop' = [loop EXCEPT ![l] = "ended"]
    /\ UNCHANGED <<running, paused, closed, startUp, intruded>>

-----------------------------------------------------------------------------
(* InitData.                                                               *)

\* GetEndpointService starts the preloader.
InitService ==
    /\ init = "service" /\ init' = "pause"
    /\ Started(1)
    /\ UNCHANGED <<job, semaphore, intruded>>

Pause ==
    /\ init = "pause" /\ init' = "list"
    /\ paused' = TRUE
    /\ UNCHANGED <<running, closed, loop, job, semaphore, intruded>>

\* Mutant: with nothing to preload InitData returns at once.
MutListEndpointsReturns ==
    /\ init = "list"
    /\ \/ \E active \in SUBSET Source :
             /\ job' = [s \in Source |->
                            IF s \in active THEN "queued" ELSE "none"]
             /\ init' = IF active = {} THEN "done" ELSE "preload"
       \/ init' = "failed" /\ UNCHANGED job
    /\ UNCHANGED <<preloader, semaphore, intruded>>

\* One goroutine for each active source, or an error that ends InitData.
ListEndpoints ==
    /\ init = "list"
    /\ \/ \E active \in SUBSET Source :
             /\ job' = [s \in Source |->
                            IF s \in active THEN "queued" ELSE "none"]
             /\ init' = IF active = {} THEN "resume" ELSE "preload"
       \/ init' = "failed" /\ UNCHANGED job
    /\ UNCHANGED <<preloader, semaphore, intruded>>

\* Mutant: one more than the capacity.
MutAcquireOver(s) ==
    /\ job[s] = "queued" /\ semaphore <= Permits
    /\ semaphore' = semaphore + 1
    /\ job' = [job EXCEPT ![s] = "running"]
    /\ UNCHANGED <<preloader, init, intruded>>

Acquire(s) ==
    /\ job[s] = "queued" /\ semaphore < Permits
    /\ semaphore' = semaphore + 1
    /\ job' = [job EXCEPT ![s] = "running"]
    /\ UNCHANGED <<preloader, init, intruded>>

\* Mutant: a preload that fails leaves its token.
MutReleaseOnSuccess(s) ==
    /\ job[s] = "running"
    /\ \E ok \in BOOLEAN : semaphore' = IF ok THEN semaphore - 1 ELSE semaphore
    /\ job' = [job EXCEPT ![s] = "done"]
    /\ UNCHANGED <<preloader, init, intruded>>

\* The preload has succeeded or failed.
Release(s) ==
    /\ job[s] = "running"
    /\ semaphore' = semaphore - 1
    /\ job' = [job EXCEPT ![s] = "done"]
    /\ UNCHANGED <<preloader, init, intruded>>

Wait ==
    /\ init = "preload" /\ \A s \in Source : job[s] \in {"none", "done"}
    /\ init' = "resume"
    /\ UNCHANGED <<preloader, job, semaphore, intruded>>

Resume ==
    /\ init = "resume" /\ init' = "done"
    /\ paused' = FALSE
    /\ UNCHANGED <<running, closed, loop, job, semaphore, intruded>>

-----------------------------------------------------------------------------
InitStep == InitService \/ Pause \/ ListEndpoints \/ Wait \/ Resume

Next ==
    \/ Start \/ Stop
    \/ \E l \in Loop : BeginCheck(l) \/ EndCheck(l) \/ EndLoop(l)
    \/ InitStep
    \/ \E s \in Source : Acquire(s) \/ Release(s)

Spec == Init /\ [][Next]_vars

\* Goroutines run, preloads and checks end (SourceCache), tickers tick, and a
\* select that finds both the tick and the closed channel ready, time and
\* again, takes the channel some time.
FairSpec ==
    /\ Spec
    /\ WF_vars(InitStep)
    /\ \A s \in Source : SF_vars(Acquire(s)) /\ WF_vars(Release(s))
    /\ \A l \in Loop : /\ WF_vars(BeginCheck(l)) /\ WF_vars(EndCheck(l))
                       /\ SF_vars(EndLoop(l))

-----------------------------------------------------------------------------
(* Properties.                                                             *)

TypeOK ==
    /\ running \in BOOLEAN /\ paused \in BOOLEAN /\ closed \in BOOLEAN
    /\ loop \in [Loop -> {"none", "start", "check", "wait", "ended"}]
    /\ init \in {"service", "pause", "list", "preload", "resume", "done",
                 "failed"}
    /\ job \in [Source -> {"none", "queued", "running", "done"}]
    /\ semaphore \in 0..Permits
    /\ intruded \in BOOLEAN

\* From the pause to the end of InitData no check begins.
NoCheckBeginsDuringInit == ~intruded

\* The start-up ends, however many preloads fail.
InitEnds == init = "pause" ~> init \in {"done", "failed"}

\* After a start-up without an error the sources are checked again and again,
\* until somebody calls Stop, which ends the goroutine sooner or later.
LoopLivesUntilStop ==
    /\ init = "done" ~> (closed \/ \E l \in Loop : loop[l] = "check")
    /\ ~running ~> (running \/ \A l \in Loop : loop[l] \in {"none", "ended"})
=============================================================================
