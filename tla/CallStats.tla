------------------------------- MODULE CallStats -------------------------------
(***************************************************************************)
(* The call counters of the server (stats.StatsManager), the public        *)
(* handler whose requests they count (HandleAPIRequest), and the shutdown  *)
(* sequence of main.go that stops both.                                    *)
(*                                                                         *)
(* A request is two goroutines: the handler waits, at most ten seconds,    *)
(* for the worker that finds the URL, counts the call and puts the result  *)
(* into a channel of capacity one.  The counters live in memory behind one *)
(* mutex; a goroutine writes them to stats.json when they are dirty, and a *)
(* write first truncates the file, so the process can die in between.      *)
(***************************************************************************)
EXTENDS Naturals, FiniteSets

CONSTANTS
    Request,     \* slots for requests in flight
    Endpoint,    \* public paths
    MaxCalls,    \* bound on the counted calls of one endpoint
    MaxNights,   \* bound on the midnights that pass
    DiskFails    \* whether a write of stats.json may fail

ASSUME RequestAssumption == IsFiniteSet(Request)
ASSUME MaxCallsAssumption == MaxCalls \in Nat
ASSUME MaxNightsAssumption == MaxNights \in Nat
ASSUME DiskFailsAssumption == DiskFails \in BOOLEAN

VARIABLES
    phase,      \* where gracefulShutdown is
    req,        \* the requests in flight, both goroutines of each
    stats,      \* StatsManager.Stats
    dirty,      \* StatsManager.isDirty
    saver,      \* whether periodicSave still runs
    resetter,   \* whether startDailyReset still runs
    due,        \* a midnight timer has fired and not been served
    writer,     \* who holds the mutex while it writes the file
    file,       \* stats.json; its data until it is cut short
    nights,     \* midnights passed
    hist        \* history, see below

vars == <<phase, req, stats, dirty, saver, resetter, due, writer, file,
          nights, hist>>
manager == <<stats, dirty, saver, resetter, due, writer, file>>

Zero == [e \in Endpoint |-> [total |-> 0, today |-> 0]]

\* The phases after "up", in gracefulShutdown: "closing" is Stats.Shutdown
\* waiting for the goroutines, "saved" after its last save, "noDB" after
\* database.Close, "drain" inside server.Shutdown; then "down".
NoRequest == [handler |-> "none", worker |-> "none", chan |-> "empty",
              ep |-> CHOOSE e \in Endpoint : TRUE]

\* base: the totals the process began with; sent: the redirects answered
\* since; before: the totals when the signal to stop came; todays: the calls
\* counted since the last midnight; inherited: today's calls as loaded from the
\* file, until the first midnight; failed: the last write of the file failed;
\* graceful: the process ended through gracefulShutdown.
NoHistory == [base |-> Zero, sent |-> [e \in Endpoint |-> 0],
              before |-> [e \in Endpoint |-> 0], todays |-> [e \in Endpoint |-> 0],
              inherited |-> [e \in Endpoint |-> 0],
              failed |-> FALSE, graceful |-> FALSE]

\* by: which of the three saves it is, "tick", "exit" or "final"; open:
\* os.WriteFile has opened the file.
NoWriter == [by |-> "none", open |-> FALSE]

Init ==
    /\ phase = "up" /\ req = [r \in Request |-> NoRequest]
    /\ stats = Zero /\ dirty = FALSE
    /\ saver = "run" /\ resetter = "run" /\ due = FALSE
    /\ writer = NoWriter /\ file = [data |-> Zero, cut |-> FALSE] /\ nights = 0
    /\ hist = NoHistory

\* No counter in memory exceeds MaxCalls, so neither need todays.
Capped(n) == IF n > MaxCalls THEN MaxCalls ELSE n

\* What the next start would load: from a file that is missing or, after an
\* error that is ignored, cut short, no counters at all.
Loaded == IF file.cut THEN Zero ELSE file.data

Unlocked == writer = NoWriter

-----------------------------------------------------------------------------
(* HandleAPIRequest.                                                       *)

InFlight(e) == {r \in Request : req[r].worker # "none" /\ req[r].ep = e}

\* The server accepts connections until server.Shutdown.
Arrive(r, e) ==
    /\ phase \in {"up", "closing", "saved", "noDB"}
    /\ req[r] = NoRequest
    /\ stats[e].total + Cardinality(InFlight(e)) < MaxCalls
    /\ req' = [req EXCEPT ![r] = [handler |-> "wait", worker |-> "query",
                                  chan |-> "empty", ep |-> e]]
    /\ UNCHANGED <<phase, manager, nights, hist>>

\* GetRandomURL asks the database, which may know no such endpoint and which
\* knows nothing once it is closed, and then a data source.
QueryEndpoint(r) ==
    /\ req[r].worker = "query"
    /\ \/ /\ phase \in {"up", "closing", "saved"}
          /\ req' = [req EXCEPT ![r].worker = "fetch"]
       \/ req' = [req EXCEPT ![r].worker = "sendError"]
    /\ UNCHANGED <<phase, manager, nights, hist>>

FetchURL(r) ==
    /\ req[r].worker = "fetch"
    /\ \E next \in {"count", "sendError"} :
           req' = [req EXCEPT ![r].worker = next]
    /\ UNCHANGED <<phase, manager, nights, hist>>

\* Mutant: the first call of an endpoint only creates its entry.
MutIncrementCallsCreates(r) ==
    LET e == req[r].ep
        n == IF stats[e].total = 0 THEN 0 ELSE 1
    IN  /\ req[r].worker = "count" /\ Unlocked
        /\ req' = [req EXCEPT ![r].worker = "send"]
        /\ stats' = [stats EXCEPT ![e] = [total |-> @.total + n,
                                          today |-> @.today + n]]
        /\ dirty' = TRUE
        /\ hist' = [hist EXCEPT !.todays[e] = Capped(@ + 1)]
        /\ UNCHANGED <<phase, saver, resetter, due, writer, file, nights>>

\* Mutant: an existing entry is changed without setting isDirty.
MutIncrementCallsClean(r) ==
    LET e == req[r].ep
    IN  /\ req[r].worker = "count" /\ Unlocked
        /\ req' = [req EXCEPT ![r].worker = "send"]
        /\ stats' = [stats EXCEPT ![e] = [total |-> @.total + 1,
                                          today |-> @.today + 1]]
        /\ dirty' = (dirty \/ stats[e].total = 0)
        /\ hist' = [hist EXCEPT !.todays[e] = Capped(@ + 1)]
        /\ UNCHANGED <<phase, saver, resetter, due, writer, file, nights>>

IncrementCalls(r) ==
    LET e == req[r].ep
    IN  /\ req[r].worker = "count" /\ Unlocked
        /\ req' = [req EXCEPT ![r].worker = "send"]
        /\ stats' = [stats EXCEPT ![e] = [total |-> @.total + 1,
                                          today |-> @.today + 1]]
        /\ dirty' = TRUE
        /\ hist' = [hist EXCEPT !.todays[e] = Capped(@ + 1)]
        /\ UNCHANGED <<phase, saver, resetter, due, writer, file, nights>>

\* Mutant: the channel has no buffer, and a send needs a waiting handler.
MutSendResultUnbuffered(r) ==
    /\ req[r].worker \in {"send", "sendError"} /\ req[r].handler = "wait"
    /\ req' = [req EXCEPT ![r].chan =
                              IF req[r].worker = "send" THEN "url" ELSE "error",
                          ![r].worker = "done"]
    /\ UNCHANGED <<phase, manager, nights, hist>>

SendResult(r) ==
    /\ req[r].worker \in {"send", "sendError"}
    /\ req' = [req EXCEPT ![r].chan =
                              IF req[r].worker = "send" THEN "url" ELSE "error",
                          ![r].worker = "done"]
    /\ UNCHANGED <<phase, manager, nights, hist>>

\* The handler redirects, or answers 404 ...
Answer(r) ==
    LET e == req[r].ep
    IN  /\ req[r].handler = "wait" /\ req[r].chan # "empty"
        /\ req' = [req EXCEPT ![r].handler = "done", ![r].chan = "empty"]
        /\ hist' = [hist EXCEPT !.sent[e] =
                        IF req[r].chan = "url" THEN @ + 1 ELSE @]
        /\ UNCHANGED <<phase, manager, nights>>

\* Mutant: the deadline starts to run when the upstream has answered.
MutTimeoutAfterFetch(r) ==
    /\ req[r].handler = "wait" /\ req[r].worker # "fetch"
    /\ req' = [req EXCEPT ![r].handler = "done"]
    /\ UNCHANGED <<phase, manager, nights, hist>>

\* ... or 504 when ten seconds are over or the client is gone; both may be
\* ready at once. The worker goes on.
Timeout(r) ==
    /\ req[r].handler = "wait"
    /\ req' = [req EXCEPT ![r].handler = "done"]
    /\ UNCHANGED <<phase, manager, nights, hist>>

Forget(r) ==
    /\ req[r].handler = "done" /\ req[r].worker = "done"
    /\ req' = [req EXCEPT ![r] = NoRequest]
    /\ UNCHANGED <<phase, manager, nights, hist>>

-----------------------------------------------------------------------------
(* StatsManager.                                                           *)

\* saveStatsLocked: os.WriteFile truncates the file and then writes it; the
\* caller holds the mutex. Opening the file may fail and leave it as it was.
BeginSave(who) ==
    /\ Unlocked
    /\ \E open \in {TRUE, ~DiskFails} :
          /\ writer' = [by |-> who, open |-> open]
          /\ file' = IF open THEN [file EXCEPT !.cut = TRUE] ELSE file

NoSave == UNCHANGED <<writer, file>>

\* Mutant: the comparison of the interval is the other way round.
MutPeriodicSaveNever == FALSE /\ UNCHANGED vars

\* The ticker's case of periodicSave. At three seconds between ticks and one
\* second as the minimal interval the second condition always holds.
PeriodicSave ==
    /\ phase # "down" /\ saver = "run" /\ dirty
    /\ BeginSave("tick")
    /\ UNCHANGED <<phase, req, stats, dirty, saver, resetter, due, nights, hist>>

\* Mutant: a write that stops half way is not noticed.
MutEndSaveShort ==
    /\ ~Unlocked
    /\ UNCHANGED file
    /\ hist' = [hist EXCEPT !.failed = DiskFails /\ ~writer.open]
    /\ writer' = NoWriter
    /\ dirty' = (dirty /\ writer.by # "tick")
    /\ saver' = IF writer.by = "exit" THEN "exited" ELSE saver
    /\ phase' = IF writer.by = "final" THEN "saved" ELSE phase
    /\ UNCHANGED <<req, stats, resetter, due, nights>>

\* The end of a write, and what its caller does next: the ticker clears
\* isDirty whether or not the write succeeded; the save on the way out does
\* not clear it.
EndSave ==
    /\ ~Unlocked
    /\ \/ /\ writer.open
          /\ file' = [data |-> stats, cut |-> FALSE]
          /\ hist' = [hist EXCEPT !.failed = FALSE]
       \/ /\ DiskFails
          /\ UNCHANGED file
          /\ hist' = [hist EXCEPT !.failed = TRUE]
    /\ writer' = NoWriter
    /\ dirty' = (dirty /\ writer.by # "tick")
    /\ saver' = IF writer.by = "exit" THEN "exited" ELSE saver
    /\ phase' = IF writer.by = "final" THEN "saved" ELSE phase
    /\ UNCHANGED <<req, stats, resetter, due, nights>>

\* Mutant: the return is inside the if.
MutSaverExitsDirty ==
    /\ phase = "closing" /\ saver = "run" /\ Unlocked /\ dirty
    /\ BeginSave("exit")
    /\ UNCHANGED <<phase, req, stats, dirty, saver, resetter, due, nights, hist>>

\* The shutdown case of periodicSave.
SaverExits ==
    /\ phase = "closing" /\ saver = "run" /\ Unlocked
    /\ IF dirty
         THEN BeginSave("exit") /\ UNCHANGED saver
         ELSE saver' = "exited" /\ NoSave
    /\ UNCHANGED <<phase, req, stats, dirty, resetter, due, nights, hist>>

\* Mutant: the loop resets copies of the entries.
MutDailyResetCopies ==
    /\ phase # "down" /\ resetter = "run" /\ due /\ Unlocked
    /\ dirty' = TRUE /\ due' = FALSE
    /\ UNCHANGED <<phase, req, stats, saver, resetter, writer, file, nights, hist>>

DailyReset ==
    /\ phase # "down" /\ resetter = "run" /\ due /\ Unlocked
    /\ stats' = [e \in Endpoint |-> [stats[e] EXCEPT !.today = 0]]
    /\ dirty' = TRUE /\ due' = FALSE
    /\ UNCHANGED <<phase, req, saver, resetter, writer, file, nights, hist>>

ResetterExits ==
    /\ phase = "closing" /\ resetter = "run"
    /\ resetter' = "exited"
    /\ UNCHANGED <<phase, req, stats, dirty, saver, due, writer, file, nights,
                   hist>>

-----------------------------------------------------------------------------
(* main.go.                                                                *)

\* Mutant: gracefulShutdown goes straight on to the database.
MutSignalForgetsStats ==
    /\ phase = "up"
    /\ phase' = "saved"
    /\ hist' = [hist EXCEPT !.before = [e \in Endpoint |-> stats[e].total]]
    /\ UNCHANGED <<req, manager, nights>>

Signal ==
    /\ phase = "up"
    /\ phase' = "closing"
    /\ hist' = [hist EXCEPT !.before = [e \in Endpoint |-> stats[e].total]]
    /\ UNCHANGED <<req, manager, nights>>

\* Shutdown has waited for both goroutines: the last save.
LastSave ==
    /\ phase = "closing" /\ saver = "exited" /\ resetter = "exited" /\ Unlocked
    /\ IF dirty
         THEN BeginSave("final") /\ UNCHANGED phase
         ELSE phase' = "saved" /\ NoSave
    /\ UNCHANGED <<req, stats, dirty, saver, resetter, due, nights, hist>>

CloseDatabase ==
    /\ phase = "saved" /\ phase' = "noDB"
    /\ UNCHANGED <<req, manager, nights, hist>>

ShutdownServer ==
    /\ phase = "noDB" /\ phase' = "drain"
    /\ UNCHANGED <<req, manager, nights, hist>>

\* server.Shutdown has waited for the handlers; workers left over die.
Exit ==
    /\ phase = "drain" /\ \A r \in Request : req[r].handler # "wait"
    /\ phase' = "down"
    /\ req' = [r \in Request |-> NoRequest]
    /\ writer' = NoWriter
    /\ hist' = [hist EXCEPT !.graceful = TRUE]
    /\ UNCHANGED <<stats, dirty, saver, resetter, due, file, nights>>

Crash ==
    /\ phase # "down"
    /\ phase' = "down"
    /\ req' = [r \in Request |-> NoRequest]
    /\ writer' = NoWriter
    /\ hist' = [NoHistory EXCEPT !.todays = hist.todays]
    /\ UNCHANGED <<stats, dirty, saver, resetter, due, file, nights>>

\* NewStatsManager: load, and start both goroutines.
Start ==
    /\ phase = "down"
    /\ phase' = "up"
    /\ stats' = Loaded /\ dirty' = FALSE
    /\ saver' = "run" /\ resetter' = "run" /\ due' = FALSE
    /\ hist' = [NoHistory EXCEPT
                    !.base = Loaded, !.todays = hist.todays,
                    !.inherited = [e \in Endpoint |-> Loaded[e].today]]
    /\ UNCHANGED <<req, writer, file, nights>>

\* The timer of startDailyReset fires if the process is there to see it.
Midnight ==
    /\ nights < MaxNights
    /\ nights' = nights + 1
    /\ due' = (due \/ (phase # "down" /\ resetter = "run"))
    /\ hist' = [hist EXCEPT !.todays = [e \in Endpoint |-> 0],
                            !.inherited = [e \in Endpoint |-> 0]]
    /\ UNCHANGED <<phase, req, stats, dirty, saver, resetter, writer, file>>

-----------------------------------------------------------------------------
ResultStep(r) == IncrementCalls(r) \/ SendResult(r)
WorkerStep(r) == QueryEndpoint(r) \/ FetchURL(r) \/ ResultStep(r)
HandlerStep(r) == Answer(r) \/ Timeout(r)
SaverStep == PeriodicSave \/ EndSave \/ SaverExits
ResetterStep == DailyReset \/ ResetterExits
ShutdownStep ==
    LastSave \/ CloseDatabase \/ ShutdownServer \/ Exit

Next ==
    \/ \E r \in Request :
          \/ \E e \in Endpoint : Arrive(r, e)
          \/ WorkerStep(r) \/ HandlerStep(r) \/ Forget(r)
    \/ SaverStep \/ ResetterStep
    \/ Signal \/ ShutdownStep \/ Crash \/ Start \/ Midnight

Spec == Init /\ [][Next]_vars

\* Goroutines run and timers fire. A worker owes nothing while it asks the
\* upstream, which may take longer than anyone waits.
FairSpec ==
    /\ Spec
    /\ \A r \in Request : WF_vars(HandlerStep(r)) /\ WF_vars(ResultStep(r))
    /\ WF_vars(SaverStep) /\ WF_vars(ResetterStep) /\ WF_vars(ShutdownStep)

-----------------------------------------------------------------------------
(* Properties.                                                             *)

\* A redirect is counted before it is sent, also when the handler and its
\* worker race against the deadline: the calls counted since the start cover
\* the redirects sent and those a waiting handler is about to send.
Counted(e) ==
    {r \in Request : /\ req[r].ep = e /\ req[r].handler = "wait"
                     /\ (req[r].worker = "send" \/ req[r].chan = "url")}
EveryRedirectIsCounted ==
    phase # "down" => \A e \in Endpoint :
        hist.sent[e] + Cardinality(Counted(e))
            <= stats[e].total - hist.base[e].total

\* Counters that are not dirty are what the next start would load, unless the
\* last write failed: no call, and no daily reset, slips in between the write
\* of the file and the clearing of isDirty.
CleanMeansSaved ==
    phase # "down" /\ ~dirty /\ Unlocked /\ ~hist.failed => Loaded = stats

\* A graceful exit keeps every call counted before the signal to stop, on a
\* disk that works.
GracefulKeepsEarlierCalls ==
    phase = "down" /\ hist.graceful /\ ~hist.failed =>
        \A e \in Endpoint : Loaded[e].total >= hist.before[e]

\* The calls of today are those counted since midnight, and those a process
\* found in the file, which it takes for today's until its first midnight.
TodayIsToday ==
    phase = "up" /\ ~due =>
        \A e \in Endpoint :
            stats[e].today <= hist.todays[e] + hist.inherited[e]

\* A request, any one of those there are, is answered, also when its upstream
\* never answers, and a worker that has its result ends, whether or not its
\* handler still waits.
Owed(r) == \/ req[r].handler = "wait"
           \/ req[r].worker \in {"count", "send", "sendError"}
RequestsEnd == LET r == CHOOSE q \in Request : TRUE IN Owed(r) ~> ~Owed(r)

\* A process that has something to settle settles it. Dirty counters get into
\* the file: a write of them ends with the file holding what memory holds, or
\* with an error of the disk, after which the ticker takes them for saved all the
\* same (stats.go:65) until the next call. A process that was told to stop stops.
SettlesInTheEnd ==
    (phase # "down" /\ (phase = "up" => dirty)) ~>
        \/ phase = "down"
        \/ phase = "up" /\ ~dirty /\ Unlocked /\ (Loaded = stats \/ hist.failed)
=============================================================================
