---------------------------- MODULE CallStatsProofs ----------------------------
(* Theorems about CallStats, for any requests and endpoints, any bounds, and *)
(* a disk that may fail.                                                     *)
EXTENDS CallStats, FiniteSetTheorems, TLAPS

Counters == [Endpoint -> [total : Nat, today : Nat]]
Counts == [Endpoint -> Nat]

Requests ==
    [handler : {"none", "wait", "done"},
     worker : {"none", "query", "fetch", "count", "send", "sendError", "done"},
     chan : {"empty", "url", "error"}, ep : Endpoint \cup {NoRequest.ep}]
Histories ==
    [base : Counters, sent : Counts, before : Counts, todays : Counts,
     inherited : Counts, failed : BOOLEAN, graceful : BOOLEAN]

Types ==
    /\ phase \in {"up", "closing", "saved", "noDB", "drain", "down"}
    /\ req \in [Request -> Requests]
    /\ stats \in Counters /\ dirty \in BOOLEAN
    /\ saver \in {"run", "exited"} /\ resetter \in {"run", "exited"}
    /\ writer \in [by : {"none", "tick", "exit", "final"}, open : BOOLEAN]
    /\ file \in [data : Counters, cut : BOOLEAN]
    /\ hist \in Histories

\* The mutex is held by a save only, of counters that are dirty, and by the
\* last one only when the goroutines are gone.
SavesAreDirty ==
    ~Unlocked =>
        /\ dirty /\ phase # "down" /\ writer.by # "none"
        /\ writer.by = "exit" => phase = "closing"
        /\ writer.by = "final" => phase = "closing" /\ saver = "exited"

\* After the last save nobody writes the file any more.
NoSaveAfterLast ==
    phase \in {"saved", "noDB", "drain"} => saver = "exited" /\ Unlocked

\* Calls counted before the signal are never lost, neither in memory nor, once
\* the last save is done, in the file.
EarlierCallsStay ==
    /\ phase \in {"closing", "saved", "noDB", "drain"} =>
           \A e \in Endpoint : stats[e].total >= hist.before[e]
    /\ phase \in {"saved", "noDB", "drain"} /\ ~hist.failed =>
           \A e \in Endpoint : Loaded[e].total >= hist.before[e]

\* What is in a channel was put there by a worker that is done since.
ChannelsAreFilledOnce == \A r \in Request : req[r].chan # "empty" => req[r].worker = "done"
NobodyAsksWhenDown == phase = "down" => \A r \in Request : req[r] = NoRequest

IInv ==
    /\ Types /\ SavesAreDirty /\ NoSaveAfterLast
    /\ EarlierCallsStay /\ ChannelsAreFilledOnce /\ NobodyAsksWhenDown
    /\ CleanMeansSaved /\ GracefulKeepsEarlierCalls /\ EveryRedirectIsCounted

-----------------------------------------------------------------------------
LEMMA ZeroIsCounters == Zero \in Counters /\ \A e \in Endpoint : Zero[e].total = 0
  BY DEF Zero, Counters

LEMMA NoRequestIsRequest ==
    /\ NoRequest \in Requests
    /\ NoRequest.handler = "none" /\ NoRequest.worker = "none"
    /\ NoRequest.chan = "empty"
  BY DEF NoRequest, Requests

LEMMA NoHistoryIsHistory ==
    /\ NoHistory \in Histories
    /\ NoHistory.base = Zero /\ NoHistory.sent = [e \in Endpoint |-> 0]
    /\ NoHistory.failed = FALSE /\ NoHistory.graceful = FALSE
  BY ZeroIsCounters DEF NoHistory, Histories, Counts

LEMMA CappedIsNat == \A n \in Nat : Capped(n) \in Nat
  BY MaxCallsAssumption DEF Capped

LEMMA LoadedIsCounters == Types => Loaded \in Counters
  BY ZeroIsCounters DEF Types, Loaded

\* Counted(e) is finite, and never more than it was if no request enters it.
LEMMA CountedIsFinite ==
    /\ \A e \in Endpoint : /\ IsFiniteSet(Counted(e))
                           /\ Cardinality(Counted(e)) \in Nat
    /\ \A e \in Endpoint : /\ IsFiniteSet(Counted(e)')
                           /\ Cardinality(Counted(e)') \in Nat
  <1>1. ASSUME NEW e \in Endpoint
        PROVE  Counted(e) \subseteq Request /\ Counted(e)' \subseteq Request
    BY DEF Counted
  <1> QED BY <1>1, RequestAssumption, FS_Subset, FS_CardinalityType

LEMMA FewerCounted ==
    ASSUME NEW e \in Endpoint, Counted(e)' \subseteq Counted(e)
    PROVE  Cardinality(Counted(e)') <= Cardinality(Counted(e))
  BY CountedIsFinite, FS_Subset

LEMMA InitInv == Init => IInv
  <1> SUFFICES ASSUME Init PROVE IInv
    OBVIOUS
  <1> USE DEF Init
  <1>1. Types
    BY ZeroIsCounters, NoRequestIsRequest, NoHistoryIsHistory DEF Types, NoWriter
  <1>2. \A e \in Endpoint : Counted(e) = {}
    BY NoRequestIsRequest DEF Counted
  <1>3. EveryRedirectIsCounted
    <2>1. \A e \in Endpoint :
              /\ hist.sent[e] = 0 /\ stats[e].total = 0
              /\ hist.base[e].total = 0 /\ Cardinality(Counted(e)) = 0
      BY <1>2, NoHistoryIsHistory, ZeroIsCounters, FS_EmptySet
    <2> QED BY <2>1 DEF EveryRedirectIsCounted
  <1>4. CleanMeansSaved
    BY DEF CleanMeansSaved, Loaded
  <1> QED BY <1>1, <1>3, <1>4, NoRequestIsRequest
          DEF IInv, SavesAreDirty, NoSaveAfterLast, EarlierCallsStay,
              ChannelsAreFilledOnce, NobodyAsksWhenDown,
              GracefulKeepsEarlierCalls, Unlocked

-----------------------------------------------------------------------------
(* A request's own steps change req, and the history of what was sent.       *)

\* The parts of IInv that speak of the counters and of the file.
Saving == SavesAreDirty /\ NoSaveAfterLast /\ EarlierCallsStay /\ CleanMeansSaved
          /\ GracefulKeepsEarlierCalls

LEMMA SavingStays ==
    ASSUME IInv, UNCHANGED <<phase, manager>>,
           UNCHANGED <<hist.before, hist.failed, hist.graceful>>
    PROVE  Saving'
  BY DEF IInv, manager, Saving, SavesAreDirty, NoSaveAfterLast, EarlierCallsStay,
         CleanMeansSaved, GracefulKeepsEarlierCalls, Unlocked, Loaded

LEMMA RequestInv ==
    ASSUME IInv, NEW r \in Request,
           \/ \E e \in Endpoint : Arrive(r, e)
           \/ QueryEndpoint(r) \/ FetchURL(r) \/ SendResult(r)
           \/ Timeout(r) \/ Forget(r)
    PROVE  IInv'
  <1> USE DEF IInv
  <1>1. UNCHANGED <<phase, manager, nights, hist>>
    BY DEF Arrive, QueryEndpoint, FetchURL, SendResult, Timeout, Forget
  <1>2. /\ \A q \in Request \ {r} : req'[q] = req[q]
        /\ req' \in [Request -> Requests]
        /\ req'[r].chan # "empty" => req'[r].worker = "done"
    <2>1. CASE \E e \in Endpoint : Arrive(r, e)
      BY <2>1 DEF Arrive, Types, Requests, ChannelsAreFilledOnce
    <2>2. CASE QueryEndpoint(r)
      BY <2>2 DEF QueryEndpoint, Types, Requests, ChannelsAreFilledOnce
    <2>3. CASE FetchURL(r)
      BY <2>3 DEF FetchURL, Types, Requests, ChannelsAreFilledOnce
    <2>4. CASE SendResult(r)
      BY <2>4 DEF SendResult, Types, Requests, ChannelsAreFilledOnce
    <2>5. CASE Timeout(r)
      BY <2>5 DEF Timeout, Types, Requests, ChannelsAreFilledOnce
    <2>6. CASE Forget(r)
      BY <2>6, NoRequestIsRequest DEF Forget, Types
    <2> QED BY <2>1, <2>2, <2>3, <2>4, <2>5, <2>6
  <1>3. ASSUME NEW e \in Endpoint, r \in Counted(e)' PROVE r \in Counted(e)
    <2> USE <1>3 DEF Counted, Types, Requests, ChannelsAreFilledOnce
    <2>1. CASE \E d \in Endpoint : Arrive(r, d)
      BY <2>1 DEF Arrive
    <2>2. CASE QueryEndpoint(r)
      BY <2>2 DEF QueryEndpoint
    <2>3. CASE FetchURL(r)
      BY <2>3 DEF FetchURL
    <2>4. CASE SendResult(r)
      BY <2>4 DEF SendResult
    <2>5. CASE Timeout(r)
      BY <2>5 DEF Timeout
    <2>6. CASE Forget(r)
      BY <2>6, NoRequestIsRequest DEF Forget
    <2> QED BY <2>1, <2>2, <2>3, <2>4, <2>5, <2>6
  <1>4. phase # "down"
    <2>1. phase = "down" => req[r] = NoRequest
      BY DEF NobodyAsksWhenDown
    <2> QED BY <2>1, NoRequestIsRequest
            DEF Arrive, QueryEndpoint, FetchURL, SendResult, Timeout, Forget
  <1>5. EveryRedirectIsCounted'
    <2> SUFFICES ASSUME NEW e \in Endpoint
                 PROVE  hist.sent[e] + Cardinality(Counted(e)')
                            <= stats[e].total - hist.base[e].total
      BY <1>1 DEF EveryRedirectIsCounted, manager
    <2>1. Counted(e)' \subseteq Counted(e)
      BY <1>2, <1>3 DEF Counted
    <2>2. Cardinality(Counted(e)') <= Cardinality(Counted(e))
      BY <2>1, FewerCounted
    <2>3. hist.sent[e] + Cardinality(Counted(e)) <= stats[e].total - hist.base[e].total
      BY <1>4 DEF EveryRedirectIsCounted
    <2>4. /\ hist.sent[e] \in Nat /\ stats[e].total \in Nat
          /\ hist.base[e].total \in Nat
      BY DEF Types, Histories, Counts, Counters
    <2> QED BY <2>2, <2>3, <2>4, CountedIsFinite
  <1>6. Types'
    BY <1>1, <1>2 DEF Types, manager
  <1>7. ChannelsAreFilledOnce' /\ NobodyAsksWhenDown'
    BY <1>1, <1>2, <1>4 DEF ChannelsAreFilledOnce, NobodyAsksWhenDown
  <1>8. Saving'
    BY <1>1, SavingStays
  <1> QED BY <1>5, <1>6, <1>7, <1>8 DEF Saving

LEMMA AnswerInv == ASSUME IInv, NEW r \in Request, Answer(r) PROVE IInv'
  <1> USE DEF IInv, Answer
  <1>1. /\ req[r] \in Requests /\ phase # "down"
        /\ req'[r] = [req[r] EXCEPT !.handler = "done", !.chan = "empty"]
        /\ \A q \in Request \ {r} : req'[q] = req[q]
    BY NoRequestIsRequest DEF Types, NobodyAsksWhenDown
  <1>2. /\ hist' \in Histories
        /\ hist'.base = hist.base /\ hist'.before = hist.before
        /\ hist'.failed = hist.failed /\ hist'.graceful = hist.graceful
    BY DEF Types, Histories, Counts
  <1>3. Types'
    BY <1>1, <1>2 DEF Types, Requests, manager
  <1>4. Saving'
    BY <1>2, SavingStays
  <1>5. ChannelsAreFilledOnce' /\ NobodyAsksWhenDown'
    <2>1. req'[r].chan = "empty"
      BY <1>1 DEF Requests
    <2> QED BY <1>1, <2>1 DEF ChannelsAreFilledOnce, NobodyAsksWhenDown
  <1>6. EveryRedirectIsCounted'
    <2> SUFFICES ASSUME NEW e \in Endpoint
                 PROVE  hist'.sent[e] + Cardinality(Counted(e)')
                            <= stats[e].total - hist.base[e].total
      BY <1>2 DEF EveryRedirectIsCounted, manager
    <2>1. hist.sent[e] + Cardinality(Counted(e)) <= stats[e].total - hist.base[e].total
      BY <1>1 DEF EveryRedirectIsCounted
    <2>2. /\ hist.sent[e] \in Nat /\ stats[e].total \in Nat
          /\ hist.base[e].total \in Nat
      BY DEF Types, Histories, Counts, Counters
    <2>3. r \notin Counted(e)' /\ Counted(e)' \subseteq Counted(e)
      <3>1. req'[r].handler = "done"
        BY <1>1 DEF Requests
      <3> QED BY <1>1, <3>1 DEF Counted
    <2>4. Cardinality(Counted(e)') <= Cardinality(Counted(e))
      BY <2>3, FewerCounted
    <2>5. CASE req[r].chan = "url" /\ req[r].ep = e
      <3>1. r \in Counted(e)
        BY <2>5 DEF Counted
      <3>2. Counted(e)' = Counted(e) \ {r}
        BY <1>1, <2>3, <2>5 DEF Counted, Requests
      <3>3. Cardinality(Counted(e)') = Cardinality(Counted(e)) - 1
        BY <3>1, <3>2, CountedIsFinite, FS_RemoveElement
      <3>4. hist'.sent[e] = hist.sent[e] + 1
        BY <2>5 DEF Types, Histories, Counts
      <3> QED BY <2>1, <2>2, <3>3, <3>4, CountedIsFinite
    <2>6. CASE ~(req[r].chan = "url" /\ req[r].ep = e)
      <3>1. hist'.sent[e] = hist.sent[e]
        BY <2>6 DEF Types, Histories, Counts
      <3> QED BY <2>1, <2>2, <2>4, <3>1, CountedIsFinite
    <2> QED BY <2>5, <2>6
  <1> QED BY <1>3, <1>4, <1>5, <1>6 DEF Saving

LEMMA IncrementInv == ASSUME IInv, NEW r \in Request, IncrementCalls(r) PROVE IInv'
  <1> USE DEF IInv, IncrementCalls
  <1>1. /\ req[r] \in Requests /\ phase # "down"
        /\ req'[r] = [req[r] EXCEPT !.worker = "send"]
        /\ \A q \in Request \ {r} : req'[q] = req[q]
    BY NoRequestIsRequest DEF Types, NobodyAsksWhenDown
  <1>2. /\ hist' \in Histories
        /\ hist'.base = hist.base /\ hist'.before = hist.before
        /\ hist'.sent = hist.sent
        /\ hist'.failed = hist.failed /\ hist'.graceful = hist.graceful
    BY CappedIsNat DEF Types, Histories, Counts
  <1>3. stats' \in Counters /\ \A e \in Endpoint :
            stats'[e].total = stats[e].total + IF req[r].ep = e THEN 1 ELSE 0
    <2>1. stats \in Counters
      BY DEF Types
    <2>2. CASE req[r].ep \in Endpoint
      <3>1. stats' = [stats EXCEPT ![req[r].ep] =
                          [total |-> stats[req[r].ep].total + 1,
                           today |-> stats[req[r].ep].today + 1]]
        OBVIOUS
      <3> QED BY <2>1, <2>2, <3>1 DEF Counters
    <2>3. CASE req[r].ep \notin Endpoint
      <3>1. stats' = stats
        BY <2>1, <2>3 DEF Counters
      <3>2. \A e \in Endpoint : stats[e].total \in Nat /\ req[r].ep # e
        BY <2>1, <2>3 DEF Counters
      <3> QED BY <2>1, <3>1, <3>2
    <2> QED BY <2>2, <2>3
  <1>4. Types'
    BY <1>1, <1>2, <1>3 DEF Types, Requests
  <1>5. Saving'
    <2>1. EarlierCallsStay'
      BY <1>2, <1>3 DEF EarlierCallsStay, Types, Histories, Counts, Counters, Loaded
    <2> QED BY <1>1, <1>2, <2>1
            DEF Saving, SavesAreDirty, NoSaveAfterLast, CleanMeansSaved,
                GracefulKeepsEarlierCalls, Unlocked
  <1>6. ChannelsAreFilledOnce' /\ NobodyAsksWhenDown'
    <2>1. req[r].chan = "empty"
      BY <1>1 DEF ChannelsAreFilledOnce, Requests
    <2>2. req'[r].chan = "empty"
      BY <1>1, <2>1 DEF Requests
    <2> QED BY <1>1, <2>2 DEF ChannelsAreFilledOnce, NobodyAsksWhenDown
  <1>7. EveryRedirectIsCounted'
    <2> SUFFICES ASSUME NEW e \in Endpoint
                 PROVE  hist.sent[e] + Cardinality(Counted(e)')
                            <= stats'[e].total - hist.base[e].total
      BY <1>2 DEF EveryRedirectIsCounted
    <2>1. hist.sent[e] + Cardinality(Counted(e)) <= stats[e].total - hist.base[e].total
      BY <1>1 DEF EveryRedirectIsCounted
    <2>2. /\ hist.sent[e] \in Nat /\ stats[e].total \in Nat
          /\ hist.base[e].total \in Nat
      BY DEF Types, Histories, Counts, Counters
    <2>3. CASE req[r].ep = e
      <3>1. r \notin Counted(e)
        BY DEF Counted, ChannelsAreFilledOnce, Types, Requests
      <3>2. Counted(e)' \subseteq Counted(e) \cup {r}
        BY <1>1 DEF Counted
      <3>3. /\ IsFiniteSet(Counted(e) \cup {r})
            /\ Cardinality(Counted(e) \cup {r}) = Cardinality(Counted(e)) + 1
        BY <3>1, CountedIsFinite, FS_AddElement
      <3>4. Cardinality(Counted(e)') <= Cardinality(Counted(e)) + 1
        BY <3>2, <3>3, FS_Subset
      <3> QED BY <1>3, <2>1, <2>2, <2>3, <3>4, CountedIsFinite
    <2>4. CASE req[r].ep # e
      <3>1. Counted(e)' \subseteq Counted(e)
        <4>1. req'[r].ep # e
          BY <1>1, <2>4 DEF Requests
        <4> QED BY <1>1, <4>1 DEF Counted
      <3> QED BY <1>3, <2>1, <2>2, <2>4, <3>1, FewerCounted, CountedIsFinite
    <2> QED BY <2>3, <2>4
  <1> QED BY <1>4, <1>5, <1>6, <1>7 DEF Saving

-----------------------------------------------------------------------------
(* The goroutines of the manager, and main.                                  *)

\* What a step that no request takes leaves as it is.
LEMMA RequestsStay ==
    ASSUME IInv, req' = req, phase # "down",
           hist'.sent = hist.sent, hist'.base = hist.base,
           \A e \in Endpoint : stats'[e].total = stats[e].total
    PROVE  EveryRedirectIsCounted' /\ ChannelsAreFilledOnce'
  <1>1. \A e \in Endpoint : Counted(e)' = Counted(e)
    BY DEF Counted
  <1> QED BY <1>1 DEF IInv, EveryRedirectIsCounted, ChannelsAreFilledOnce

LEMMA BeginInv ==
    ASSUME IInv, PeriodicSave \/ (SaverExits /\ dirty) \/ (LastSave /\ dirty)
    PROVE  IInv'
  <1> USE DEF IInv
  <1>1. PICK who \in {"tick", "exit", "final"} :
            /\ BeginSave(who)
            /\ UNCHANGED <<phase, req, stats, dirty, saver, resetter, due, nights, hist>>
            /\ phase # "down" /\ dirty
            /\ who = "tick" => saver = "run"
            /\ who = "exit" => phase = "closing"
            /\ who = "final" => phase = "closing" /\ saver = "exited"
    BY DEF PeriodicSave, SaverExits, LastSave
  <1>2. Types'
    <2>1. writer' \in [by : {"none", "tick", "exit", "final"}, open : BOOLEAN]
      <3>1. PICK open \in BOOLEAN : writer' = [by |-> who, open |-> open]
        BY <1>1, DiskFailsAssumption, Zenon DEF BeginSave
      <3> QED BY <3>1
    <2>2. file' \in [data : Counters, cut : BOOLEAN]
      BY <1>1 DEF BeginSave, Types
    <2> QED BY <1>1, <2>1, <2>2 DEF Types
  <1>3. writer'.by = who /\ ~Unlocked' /\ phase \notin {"saved", "noDB", "drain"}
    BY <1>1 DEF BeginSave, Unlocked, NoWriter, NoSaveAfterLast, Types
  <1>4. Saving'
    BY <1>1, <1>3 DEF Saving, SavesAreDirty, NoSaveAfterLast, EarlierCallsStay,
                      CleanMeansSaved, GracefulKeepsEarlierCalls, Unlocked
  <1> QED BY <1>1, <1>2, <1>4, RequestsStay DEF Saving, NobodyAsksWhenDown

LEMMA EndInv == ASSUME IInv, EndSave PROVE IInv'
  <1> USE DEF IInv, EndSave
  <1>1. /\ hist' \in Histories /\ hist'.failed \in BOOLEAN
        /\ hist'.sent = hist.sent /\ hist'.base = hist.base
        /\ hist'.before = hist.before /\ hist'.graceful = hist.graceful
    BY DEF Types, Histories
  <1>2. ~hist'.failed => Loaded' = stats
    BY DEF Types, Histories, Loaded
  <1>3. Types'
    <2>1. writer' \in [by : {"none", "tick", "exit", "final"}, open : BOOLEAN]
      BY DEF NoWriter
    <2>2. file' \in [data : Counters, cut : BOOLEAN]
      <3>1. file' = [data |-> stats, cut |-> FALSE] \/ file' = file
        BY Zenon
      <3>2. stats \in Counters /\ file \in [data : Counters, cut : BOOLEAN]
        BY DEF Types
      <3>3. [data |-> stats, cut |-> FALSE] \in [data : Counters, cut : BOOLEAN]
        BY <3>2, Zenon
      <3> QED BY <3>1, <3>2, <3>3, Zenon
    <2>3. dirty' \in BOOLEAN
      BY Zenon
    <2>4. /\ saver' \in {saver, "exited"} /\ phase' \in {phase, "saved"}
          /\ UNCHANGED <<req, stats, resetter>>
      BY Zenon
    <2> QED BY <1>1, <2>1, <2>2, <2>3, <2>4 DEF Types
  <1>4. Unlocked' /\ phase # "down" /\ phase' # "down"
        /\ (phase' \in {"saved", "noDB", "drain"} =>
                /\ phase = "closing" /\ writer.by = "final"
                /\ saver' = "exited")
        /\ (phase' # phase => phase = "closing")
    BY DEF Unlocked, SavesAreDirty, NoSaveAfterLast
  <1>5. EarlierCallsStay'
    BY <1>1, <1>2, <1>4 DEF EarlierCallsStay
  <1>6. Saving'
    BY <1>1, <1>2, <1>4, <1>5
       DEF Saving, SavesAreDirty, NoSaveAfterLast, CleanMeansSaved,
           GracefulKeepsEarlierCalls
  <1> QED BY <1>1, <1>3, <1>4, <1>6, RequestsStay DEF Saving, NobodyAsksWhenDown

LEMMA ExitsInv ==
    ASSUME IInv,
           (SaverExits /\ ~dirty) \/ (LastSave /\ ~dirty) \/ ResetterExits
           \/ CloseDatabase \/ ShutdownServer
    PROVE  IInv'
  <1> USE DEF IInv
  <1>1. /\ UNCHANGED <<req, stats, dirty, writer, file, hist>>
        /\ phase # "down" /\ phase' # "down"
        /\ saver' \in {saver, "exited"}
        /\ Types'
    BY DEF SaverExits, LastSave, ResetterExits, CloseDatabase, ShutdownServer,
           NoSave, manager, Types
  <1>2. /\ phase' = "closing" => phase = "closing"
        /\ phase' \in {"closing", "saved", "noDB", "drain"} =>
               phase \in {"closing", "saved", "noDB", "drain"}
        /\ phase' = "saved" /\ phase = "closing" => Unlocked /\ ~dirty /\ saver = "exited"
        /\ phase' \in {"saved", "noDB", "drain"} =>
               \/ phase' = "saved" /\ phase = "closing"
               \/ phase \in {"saved", "noDB", "drain"}
        /\ phase' # phase => \/ phase = "closing" /\ Unlocked
                             \/ phase \in {"saved", "noDB"}
    BY DEF SaverExits, LastSave, ResetterExits, CloseDatabase, ShutdownServer, manager
  <1>3. SavesAreDirty' /\ NoSaveAfterLast'
    BY <1>1, <1>2 DEF SavesAreDirty, NoSaveAfterLast, Unlocked
  <1>4. EarlierCallsStay'
    <2>1. phase' = "saved" /\ phase = "closing" /\ ~hist.failed => Loaded = stats
      BY <1>1, <1>2 DEF CleanMeansSaved
    <2> QED BY <1>1, <1>2, <2>1 DEF EarlierCallsStay, Loaded
  <1>5. Saving'
    BY <1>1, <1>3, <1>4 DEF Saving, CleanMeansSaved, GracefulKeepsEarlierCalls,
                            Unlocked, Loaded
  <1> QED BY <1>1, <1>5, RequestsStay DEF Saving, NobodyAsksWhenDown

LEMMA ResetInv == ASSUME IInv, DailyReset PROVE IInv'
  <1> USE DEF IInv, DailyReset
  <1>1. stats' \in Counters /\ \A e \in Endpoint : stats'[e].total = stats[e].total
    BY DEF Types, Counters
  <1>2. Types'
    BY <1>1 DEF Types
  <1>3. Saving'
    BY <1>1 DEF Saving, SavesAreDirty, NoSaveAfterLast, EarlierCallsStay,
                CleanMeansSaved, GracefulKeepsEarlierCalls, Unlocked, Loaded
  <1> QED BY <1>1, <1>2, <1>3, RequestsStay DEF Saving, NobodyAsksWhenDown

LEMMA SignalInv == ASSUME IInv, Signal PROVE IInv'
  <1> USE DEF IInv, Signal, manager
  <1>1. /\ hist' \in Histories
        /\ hist'.before = [e \in Endpoint |-> stats[e].total]
        /\ hist'.sent = hist.sent /\ hist'.base = hist.base
        /\ hist'.failed = hist.failed /\ hist'.graceful = hist.graceful
    BY DEF Types, Histories, Counts, Counters
  <1>2. Types'
    BY <1>1 DEF Types
  <1>3. EarlierCallsStay'
    BY <1>1 DEF EarlierCallsStay, Types, Counters
  <1>4. Saving'
    BY <1>1, <1>3 DEF Saving, SavesAreDirty, NoSaveAfterLast, CleanMeansSaved,
                      GracefulKeepsEarlierCalls, Unlocked, Loaded
  <1> QED BY <1>1, <1>2, <1>4, RequestsStay DEF Saving, NobodyAsksWhenDown

LEMMA MidnightInv == ASSUME IInv, Midnight PROVE IInv'
  <1> USE DEF IInv, Midnight
  <1>1. /\ hist' \in Histories
        /\ hist'.sent = hist.sent /\ hist'.base = hist.base
        /\ hist'.before = hist.before
        /\ hist'.failed = hist.failed /\ hist'.graceful = hist.graceful
    BY DEF Types, Histories, Counts
  <1>2. Types'
    BY <1>1 DEF Types
  <1>3. Saving'
    BY <1>1 DEF Saving, SavesAreDirty, NoSaveAfterLast, EarlierCallsStay,
                CleanMeansSaved, GracefulKeepsEarlierCalls, Unlocked, Loaded
  <1>4. EveryRedirectIsCounted'
    <2>1. CASE phase = "down"
      BY <2>1 DEF EveryRedirectIsCounted
    <2>2. CASE phase # "down"
      BY <1>1, <2>2, RequestsStay
    <2> QED BY <2>1, <2>2
  <1> QED BY <1>2, <1>3, <1>4
          DEF Saving, NobodyAsksWhenDown, ChannelsAreFilledOnce

LEMMA DownInv == ASSUME IInv, Exit \/ Crash PROVE IInv'
  <1> USE DEF IInv
  <1>1. /\ phase' = "down" /\ req' = [r \in Request |-> NoRequest]
        /\ writer' = NoWriter
        /\ UNCHANGED <<stats, dirty, saver, resetter, due, file, nights>>
    BY DEF Exit, Crash
  <1>2. hist' \in Histories
    BY NoHistoryIsHistory DEF Exit, Crash, Types, Histories
  <1>3. Types'
    BY <1>1, <1>2, NoRequestIsRequest DEF Types, NoWriter
  <1>4. GracefulKeepsEarlierCalls'
    <2>1. CASE Exit
      <3>1. hist'.failed = hist.failed /\ hist'.before = hist.before
        BY <2>1 DEF Exit, Types, Histories
      <3> QED BY <1>1, <2>1, <3>1 DEF Exit, EarlierCallsStay, GracefulKeepsEarlierCalls, Loaded
    <2>2. CASE Crash
      <3>1. hist'.graceful = FALSE
        BY <2>2, NoHistoryIsHistory DEF Crash, Histories
      <3> QED BY <3>1 DEF GracefulKeepsEarlierCalls
    <2> QED BY <2>1, <2>2
  <1>5. Saving'
    BY <1>1, <1>4 DEF Saving, SavesAreDirty, NoSaveAfterLast, EarlierCallsStay,
                      CleanMeansSaved, Unlocked
  <1>6. ChannelsAreFilledOnce' /\ NobodyAsksWhenDown'
    BY <1>1, NoRequestIsRequest DEF ChannelsAreFilledOnce, NobodyAsksWhenDown
  <1> QED BY <1>1, <1>3, <1>5, <1>6 DEF Saving, EveryRedirectIsCounted

LEMMA StartInv == ASSUME IInv, Start PROVE IInv'
  <1> USE DEF IInv, Start
  <1>1. /\ hist' \in Histories /\ hist'.base = Loaded
        /\ hist'.sent = [e \in Endpoint |-> 0]
        /\ hist'.failed = FALSE /\ hist'.graceful = FALSE
    BY NoHistoryIsHistory, LoadedIsCounters DEF Types, Histories, Counts, Counters
  <1>2. Types'
    BY <1>1, LoadedIsCounters DEF Types
  <1>3. Unlocked
    BY DEF SavesAreDirty
  <1>4. Saving'
    BY <1>1, <1>3 DEF Saving, SavesAreDirty, NoSaveAfterLast, EarlierCallsStay,
                      CleanMeansSaved, GracefulKeepsEarlierCalls, Unlocked, Loaded
  <1>5. EveryRedirectIsCounted'
    <2>1. ASSUME NEW e \in Endpoint PROVE Cardinality(Counted(e)') = 0
      <3>1. Counted(e)' = {}
        BY NoRequestIsRequest DEF NobodyAsksWhenDown, Counted
      <3> QED BY <3>1, FS_EmptySet
    <2>2. \A e \in Endpoint : stats'[e].total \in Nat /\ hist'.base[e] = stats'[e]
                              /\ hist'.sent[e] = 0
      BY <1>1, LoadedIsCounters DEF Counters
    <2> QED BY <2>1, <2>2 DEF EveryRedirectIsCounted
  <1>6. ChannelsAreFilledOnce' /\ NobodyAsksWhenDown'
    BY DEF ChannelsAreFilledOnce, NobodyAsksWhenDown
  <1> QED BY <1>2, <1>4, <1>5, <1>6 DEF Saving

-----------------------------------------------------------------------------
LEMMA NextInv == IInv /\ [Next]_vars => IInv'
  <1> SUFFICES ASSUME IInv, [Next]_vars PROVE IInv'
    OBVIOUS
  <1>1. CASE UNCHANGED vars
    <2>1. \A e \in Endpoint : Counted(e)' = Counted(e)
      BY <1>1 DEF vars, Counted
    <2> QED BY <1>1, <2>1
            DEF vars, manager, IInv, Types, SavesAreDirty, NoSaveAfterLast,
                EarlierCallsStay, ChannelsAreFilledOnce, NobodyAsksWhenDown,
                CleanMeansSaved, GracefulKeepsEarlierCalls,
                EveryRedirectIsCounted, Unlocked, Loaded
  <1>2. ASSUME NEW r \in Request,
               (\E e \in Endpoint : Arrive(r, e)) \/ WorkerStep(r)
               \/ HandlerStep(r) \/ Forget(r)
        PROVE  IInv'
    BY <1>2, RequestInv, IncrementInv, AnswerInv
       DEF WorkerStep, ResultStep, HandlerStep
  <1>3. CASE SaverStep
    BY <1>3, BeginInv, EndInv, ExitsInv DEF SaverStep
  <1>4. CASE ResetterStep
    BY <1>4, ResetInv, ExitsInv DEF ResetterStep
  <1>5. CASE ShutdownStep
    BY <1>5, BeginInv, ExitsInv, DownInv DEF ShutdownStep
  <1>6. CASE Signal \/ Crash \/ Start \/ Midnight
    BY <1>6, SignalInv, DownInv, StartInv, MidnightInv
  <1> QED BY <1>1, <1>2, <1>3, <1>4, <1>5, <1>6 DEF Next

LEMMA Invariant == Spec => []IInv
  BY InitInv, NextInv, PTL DEF Spec

-----------------------------------------------------------------------------
(* The calls of today. A count is never above its bound, for which the       *)
(* requests whose call is still to be counted are counted in.                *)

Pending(e) ==
    {r \in Request : /\ req[r].worker \in {"query", "fetch", "count"}
                     /\ req[r].ep = e}

Below(counters) ==
    \A e \in Endpoint : /\ counters[e].today <= counters[e].total
                        /\ counters[e].total <= MaxCalls

CallsAreBounded ==
    /\ Below(stats) /\ Below(file.data)
    /\ \A e \in Endpoint : stats[e].total + Cardinality(Pending(e)) <= MaxCalls

\* As long as the goroutine that serves the timer runs, which it does until
\* the signal to stop.
TodayFollows ==
    /\ phase = "up" => resetter = "run"
    /\ phase # "down" /\ resetter = "run" /\ ~due =>
           \A e \in Endpoint :
               stats[e].today <= hist.todays[e] + hist.inherited[e]

LEMMA PendingIsFinite ==
    /\ \A e \in Endpoint : /\ IsFiniteSet(Pending(e))
                           /\ Cardinality(Pending(e)) \in Nat
    /\ \A e \in Endpoint : /\ IsFiniteSet(Pending(e)')
                           /\ Cardinality(Pending(e)') \in Nat
  <1>1. ASSUME NEW e \in Endpoint
        PROVE  Pending(e) \subseteq Request /\ Pending(e)' \subseteq Request
    BY DEF Pending
  <1> QED BY <1>1, RequestAssumption, FS_Subset, FS_CardinalityType

LEMMA FewerPending ==
    ASSUME NEW e \in Endpoint, Pending(e)' \subseteq Pending(e)
    PROVE  Cardinality(Pending(e)') <= Cardinality(Pending(e))
  BY PendingIsFinite, FS_Subset

LEMMA TodayInit == Init => CallsAreBounded /\ TodayFollows
  <1> SUFFICES ASSUME Init PROVE CallsAreBounded /\ TodayFollows
    OBVIOUS
  <1>1. Below(Zero)
    BY MaxCallsAssumption DEF Below, Zero
  <1>2. ASSUME NEW e \in Endpoint PROVE Cardinality(Pending(e)) = 0
    <2>1. Pending(e) = {}
      BY NoRequestIsRequest DEF Pending, Init
    <2> QED BY <2>1, FS_EmptySet
  <1>3. CallsAreBounded
    BY <1>1, <1>2, MaxCallsAssumption, ZeroIsCounters DEF Init, CallsAreBounded
  <1>4. TodayFollows
    BY DEF Init, TodayFollows, Zero, NoHistory
  <1> QED BY <1>3, <1>4

\* The steps of requests that count nothing.
LEMMA RequestToday ==
    ASSUME IInv, CallsAreBounded, TodayFollows, NEW r \in Request,
           \/ \E e \in Endpoint : Arrive(r, e)
           \/ QueryEndpoint(r) \/ FetchURL(r) \/ SendResult(r)
           \/ Answer(r) \/ Timeout(r) \/ Forget(r)
    PROVE  CallsAreBounded' /\ TodayFollows'
  <1>1. /\ UNCHANGED <<phase, stats, resetter, due, file>>
        /\ UNCHANGED <<hist.todays, hist.inherited>>
    BY DEF Arrive, QueryEndpoint, FetchURL, SendResult, Answer, Timeout, Forget,
           manager, IInv, Types, Histories
  <1>2. \A q \in Request \ {r} : req'[q] = req[q]
    BY DEF Arrive, QueryEndpoint, FetchURL, SendResult, Answer, Timeout, Forget,
           IInv, Types
  <1>3. ASSUME NEW e \in Endpoint
        PROVE  stats[e].total + Cardinality(Pending(e)') <= MaxCalls
    <2>1. stats[e].total \in Nat /\ stats[e].total + Cardinality(Pending(e)) <= MaxCalls
      BY DEF CallsAreBounded, IInv, Types, Counters
    <2>2. CASE Arrive(r, e)
      <3>1. /\ IsFiniteSet(InFlight(e)) /\ Cardinality(InFlight(e)) \in Nat
            /\ Pending(e) \subseteq InFlight(e) /\ r \notin InFlight(e)
        <4>1. InFlight(e) \subseteq Request
          BY DEF InFlight
        <4> QED BY <2>2, <4>1, RequestAssumption, FS_Subset, FS_CardinalityType,
                   NoRequestIsRequest DEF Arrive, InFlight, Pending
      <3>2. Pending(e)' \subseteq InFlight(e) \cup {r}
        BY <1>2, <3>1 DEF Pending, InFlight
      <3>3. /\ IsFiniteSet(InFlight(e) \cup {r})
            /\ Cardinality(InFlight(e) \cup {r}) = Cardinality(InFlight(e)) + 1
        BY <3>1, FS_AddElement
      <3>4. Cardinality(Pending(e)') <= Cardinality(InFlight(e)) + 1
        BY <3>2, <3>3, FS_Subset
      <3> QED BY <2>1, <2>2, <3>1, <3>4, PendingIsFinite, MaxCallsAssumption DEF Arrive
    <2>3. CASE ~Arrive(r, e)
      <3>1. r \in Pending(e)' => r \in Pending(e)
        <4> USE DEF Pending, IInv, Types, Requests
        <4>1. ASSUME NEW d \in Endpoint, Arrive(r, d) PROVE r \notin Pending(e)'
          BY <2>3, <4>1 DEF Arrive
        <4>2. CASE QueryEndpoint(r)
          BY <4>2 DEF QueryEndpoint
        <4>3. CASE FetchURL(r)
          BY <4>3 DEF FetchURL
        <4>4. CASE SendResult(r)
          BY <4>4 DEF SendResult
        <4>5. CASE Answer(r)
          BY <4>5 DEF Answer
        <4>6. CASE Timeout(r)
          BY <4>6 DEF Timeout
        <4>7. CASE Forget(r)
          BY <4>7, NoRequestIsRequest DEF Forget
        <4> QED BY <4>1, <4>2, <4>3, <4>4, <4>5, <4>6, <4>7
      <3>2. Pending(e)' \subseteq Pending(e)
        BY <1>2, <3>1 DEF Pending
      <3> QED BY <2>1, <3>2, FewerPending, PendingIsFinite, MaxCallsAssumption
    <2> QED BY <2>2, <2>3
  <1> QED BY <1>1, <1>3 DEF CallsAreBounded, Below, TodayFollows

LEMMA IncrementToday ==
    ASSUME IInv, CallsAreBounded, TodayFollows, NEW r \in Request, IncrementCalls(r)
    PROVE  CallsAreBounded' /\ TodayFollows'
  <1> USE DEF IncrementCalls
  <1>1. /\ \A q \in Request \ {r} : req'[q] = req[q]
        /\ req'[r].worker = "send" /\ req'[r].ep = req[r].ep
        /\ stats \in Counters /\ hist.todays \in Counts /\ hist.inherited \in Counts
        /\ hist'.inherited = hist.inherited
    BY DEF IInv, Types, Requests, Histories
  <1>2. ASSUME NEW e \in Endpoint
        PROVE  /\ stats'[e].today <= stats'[e].total
               /\ stats'[e].total + Cardinality(Pending(e)') <= MaxCalls
               /\ TodayFollows /\ phase # "down" /\ resetter = "run" /\ ~due =>
                      stats'[e].today <= hist'.todays[e] + hist.inherited[e]
    <2>1. /\ stats[e].total \in Nat /\ stats[e].today \in Nat
          /\ hist.todays[e] \in Nat /\ hist.inherited[e] \in Nat
          /\ stats[e].today <= stats[e].total
          /\ stats[e].total + Cardinality(Pending(e)) <= MaxCalls
      BY <1>1 DEF CallsAreBounded, Below, Counters, Counts
    <2>2. Pending(e)' = Pending(e) \ {r}
      BY <1>1 DEF Pending
    <2>3. CASE req[r].ep = e
      <3>1. stats'[e] = [total |-> stats[e].total + 1, today |-> stats[e].today + 1]
        BY <1>1, <2>3 DEF Counters
      <3>2. hist'.todays[e] = Capped(hist.todays[e] + 1)
        BY <1>1, <2>3 DEF IInv, Types, Histories, Counts
      <3>3. Cardinality(Pending(e)') = Cardinality(Pending(e)) - 1
        BY <2>2, <2>3, PendingIsFinite, FS_RemoveElement DEF Pending
      <3> QED BY <2>1, <3>1, <3>2, <3>3, PendingIsFinite, MaxCallsAssumption
              DEF Capped, TodayFollows
    <2>4. CASE req[r].ep # e
      <3>1. stats'[e] = stats[e] /\ hist'.todays[e] = hist.todays[e]
        BY <1>1, <2>4 DEF Counters, IInv, Types, Histories, Counts
      <3>2. Cardinality(Pending(e)') <= Cardinality(Pending(e))
        BY <2>2, FewerPending
      <3> QED BY <2>1, <3>1, <3>2, PendingIsFinite, MaxCallsAssumption DEF TodayFollows
    <2> QED BY <2>3, <2>4
  <1>3. stats' \in Counters
    BY IncrementInv DEF IInv, Types
  <1>4. CallsAreBounded'
    BY <1>2, <1>3, PendingIsFinite, MaxCallsAssumption
       DEF CallsAreBounded, Below, Counters
  <1> QED BY <1>1, <1>2, <1>4 DEF TodayFollows

\* All steps that no request takes: the requests stay, or are gone.
LEMMA ManagerToday ==
    ASSUME IInv, CallsAreBounded, TodayFollows,
           \/ SaverStep \/ ResetterStep \/ Signal \/ ShutdownStep
           \/ Crash \/ Start \/ Midnight
    PROVE  CallsAreBounded' /\ TodayFollows'
  <1>1. req' = req \/ req' = [r \in Request |-> NoRequest]
    BY DEF SaverStep, PeriodicSave, EndSave, SaverExits, ResetterStep, DailyReset,
           ResetterExits, Signal, ShutdownStep, LastSave, CloseDatabase,
           ShutdownServer, Exit, Crash, Start, Midnight, NoSave, manager
  <1>2. ASSUME NEW e \in Endpoint
        PROVE  Cardinality(Pending(e)') <= Cardinality(Pending(e))
    BY <1>1, FewerPending, NoRequestIsRequest DEF Pending
  <1>3. Below(stats') /\ Below(file.data)'
        /\ \A e \in Endpoint : stats'[e].total + Cardinality(Pending(e)') <= MaxCalls
    <2>1. Below(Zero)
      BY MaxCallsAssumption DEF Below, Zero
    <2>2. file'.data = file.data \/ file'.data = stats
      BY DEF SaverStep, PeriodicSave, EndSave, SaverExits, ResetterStep, DailyReset,
             ResetterExits, Signal, ShutdownStep, LastSave, CloseDatabase,
             ShutdownServer, Exit, Crash, Start, Midnight, NoSave, BeginSave,
             manager, IInv, Types
    <2>3. CASE Start
      <3>1. Below(stats')
        BY <2>1, <2>3 DEF Start, Loaded, CallsAreBounded
      <3>2. ASSUME NEW e \in Endpoint PROVE Cardinality(Pending(e)') = 0
        <4>1. Pending(e)' = {}
          BY <2>3, NoRequestIsRequest DEF Start, Pending, IInv, NobodyAsksWhenDown
        <4> QED BY <4>1, FS_EmptySet
      <3>3. stats' \in Counters
        BY <2>3, LoadedIsCounters DEF Start, IInv
      <3> QED BY <2>2, <3>1, <3>2, <3>3 DEF CallsAreBounded, Below, Counters
    <2>4. CASE ~Start
      <3>1. \A e \in Endpoint : /\ stats'[e].total = stats[e].total
                                /\ stats'[e].today \in {0, stats[e].today}
        BY <2>4
           DEF SaverStep, PeriodicSave, EndSave, SaverExits, ResetterStep,
               DailyReset, ResetterExits, Signal, ShutdownStep, LastSave,
               CloseDatabase, ShutdownServer, Exit, Crash, Midnight, NoSave,
               manager, IInv, Types, Counters
      <3>2. \A e \in Endpoint : stats[e].total \in Nat
        BY DEF IInv, Types, Counters
      <3> QED BY <1>2, <2>2, <3>1, <3>2, PendingIsFinite, MaxCallsAssumption
              DEF CallsAreBounded, Below
    <2> QED BY <2>3, <2>4
  <1>4. TodayFollows'
    <2>1. CASE SaverStep \/ Signal \/ ShutdownStep \/ ResetterExits
      <3>1. /\ UNCHANGED <<stats, due>>
            /\ phase' # "down" => phase # "down"
            /\ phase' = "up" => phase = "up" /\ resetter' = resetter
            /\ resetter' = "run" => resetter = "run"
        BY <2>1 DEF SaverStep, PeriodicSave, EndSave, SaverExits, ResetterExits,
                    Signal, ShutdownStep, LastSave, CloseDatabase, ShutdownServer,
                    Exit, NoSave, manager, IInv, SavesAreDirty
      <3>2. UNCHANGED <<hist.todays, hist.inherited>>
        BY <2>1 DEF SaverStep, PeriodicSave, EndSave, SaverExits, ResetterExits,
                    Signal, ShutdownStep, LastSave, CloseDatabase, ShutdownServer,
                    Exit, IInv, Types, Histories
      <3> QED BY <3>1, <3>2 DEF TodayFollows
    <2>2. CASE DailyReset
      <3>1. \A e \in Endpoint : /\ stats'[e].today = 0
                                /\ hist.todays[e] \in Nat /\ hist.inherited[e] \in Nat
        BY <2>2 DEF DailyReset, IInv, Types, Counters, Histories, Counts
      <3> QED BY <2>2, <3>1 DEF DailyReset, TodayFollows
    <2>3. CASE Crash
      BY <2>3 DEF Crash, TodayFollows
    <2>4. CASE Start
      <3>1. \A e \in Endpoint : /\ stats'[e].today = hist'.inherited[e]
                                /\ stats'[e].today \in Nat
                                /\ hist'.todays[e] = hist.todays[e]
                                /\ hist.todays[e] \in Nat
        BY <2>4, LoadedIsCounters
           DEF Start, NoHistory, IInv, Types, Counters, Histories, Counts
      <3> QED BY <2>4, <3>1 DEF Start, TodayFollows
    <2>5. CASE Midnight
      BY <2>5 DEF Midnight, TodayFollows
    <2> QED BY <2>1, <2>2, <2>3, <2>4, <2>5 DEF ResetterStep
  <1> QED BY <1>3, <1>4 DEF CallsAreBounded

LEMMA TodayNext ==
    IInv /\ CallsAreBounded /\ TodayFollows /\ [Next]_vars
        => CallsAreBounded' /\ TodayFollows'
  <1> SUFFICES ASSUME IInv, CallsAreBounded, TodayFollows, [Next]_vars
               PROVE  CallsAreBounded' /\ TodayFollows'
    OBVIOUS
  <1>1. CASE UNCHANGED vars
    <2>1. \A e \in Endpoint : Pending(e)' = Pending(e)
      BY <1>1 DEF vars, Pending
    <2> QED BY <1>1, <2>1 DEF vars, CallsAreBounded, Below, TodayFollows
  <1>2. ASSUME NEW r \in Request,
               (\E e \in Endpoint : Arrive(r, e)) \/ WorkerStep(r)
               \/ HandlerStep(r) \/ Forget(r)
        PROVE  CallsAreBounded' /\ TodayFollows'
    BY <1>2, RequestToday, IncrementToday DEF WorkerStep, ResultStep, HandlerStep
  <1> QED BY <1>1, <1>2, ManagerToday DEF Next

\* No redirect leaves the server uncounted, for any number of requests that
\* race against their deadlines.
THEOREM RedirectsAreCounted == Spec => []EveryRedirectIsCounted
  <1>1. IInv => EveryRedirectIsCounted
    BY DEF IInv
  <1> QED BY <1>1, Invariant, PTL

\* Counters that are not dirty are what the next start would load.
THEOREM CleanIsSaved == Spec => []CleanMeansSaved
  <1>1. IInv => CleanMeansSaved
    BY DEF IInv
  <1> QED BY <1>1, Invariant, PTL

\* A graceful exit keeps every call that was counted before the signal.
THEOREM EarlierCallsAreKept == Spec => []GracefulKeepsEarlierCalls
  <1>1. IInv => GracefulKeepsEarlierCalls
    BY DEF IInv
  <1> QED BY <1>1, Invariant, PTL

\* The calls of today are those counted since midnight and those that the
\* process found in its file, whenever saves, crashes and the timer come.
THEOREM TodayIsCounted == Spec => []TodayIsToday
  <1>1. IInv /\ TodayFollows => TodayIsToday
    BY DEF TodayFollows, TodayIsToday
  <1> QED BY <1>1, Invariant, InitInv, TodayInit, NextInv, TodayNext, PTL DEF Spec
=============================================================================
