---------------------------- MODULE TablePagesProofs ----------------------------
(* Invariants of the pages of the frontend that show tables of the server,   *)
(* and of the blocklist below one of them. They hold for any texts, names,   *)
(* domains and sizes, and any number of requests, calls and commands.        *)
EXTENDS TablePages, Induction, Naturals, Sequences, TLAPS

-----------------------------------------------------------------------------
(* The requests of a page: net' has the request new in place of r.           *)

Turned(r, new) ==
    /\ new \in DOMAIN net' /\ DOMAIN net' \subseteq DOMAIN net \cup {new}
    /\ DOMAIN net \ {r} \subseteq DOMAIN net'

LEMMA TurnIsTurned ==
    ASSUME NEW r, NEW new,
           \/ net' = Endpoints!Turn(r, new) \/ net' = Sources!Turn(r, new)
           \/ net' = Rules!Turn(r, new) \/ net' = Stats!Turn(r, new)
    PROVE  Turned(r, new)
  BY DEF Endpoints!Turn, Endpoints!Done, Endpoints!BagAdd, Endpoints!BagRemove,
         Sources!Turn, Sources!Done, Sources!BagAdd, Sources!BagRemove,
         Rules!Turn, Rules!Done, Rules!BagAdd, Rules!BagRemove,
         Stats!Turn, Stats!Done, Stats!BagAdd, Stats!BagRemove, Turned

LEMMA SendAdds ==
    ASSUME NEW r,
           \/ net' = Endpoints!Send(r) \/ net' = Sources!Send(r)
           \/ net' = Rules!Send(r) \/ net' = Stats!Send(r)
    PROVE  DOMAIN net' = DOMAIN net \cup {r}
  BY DEF Endpoints!Send, Endpoints!BagAdd, Sources!Send,
         Sources!BagAdd, Rules!Send, Rules!BagAdd, Stats!Send, Stats!BagAdd

LEMMA DoneRemoves ==
    ASSUME NEW r,
           \/ net' = Endpoints!Done(r) \/ net' = Sources!Done(r)
           \/ net' = Rules!Done(r) \/ net' = Stats!Done(r)
    PROVE  DOMAIN net' \subseteq DOMAIN net /\ DOMAIN net \ {r} \subseteq DOMAIN net'
  BY DEF Endpoints!Done, Endpoints!BagRemove, Sources!Done,
         Sources!BagRemove, Rules!Done, Rules!BagRemove, Stats!Done, Stats!BagRemove

\* How many there are of each request, in the bag that net becomes.
LEMMA TurnCounts ==
    ASSUME NEW r \in DOMAIN net, NEW new,
           \/ net' = Endpoints!Turn(r, new) \/ net' = Sources!Turn(r, new)
           \/ net' = Rules!Turn(r, new) \/ net' = Stats!Turn(r, new)
    PROVE  /\ \A q : q \notin {r, new} =>
                  /\ q \in DOMAIN net' <=> q \in DOMAIN net
                  /\ q \in DOMAIN net => net'[q] = net[q]
           /\ new \in DOMAIN net'
           /\ net[r] = 1 /\ new # r =>
                  r \notin DOMAIN net' /\ (new \notin DOMAIN net => net'[new] = 1)
  <1>1. CASE net' = Stats!Turn(r, new)
    BY <1>1 DEF Stats!Turn, Stats!Done, Stats!BagAdd, Stats!BagRemove
  <1>2. CASE net' = Endpoints!Turn(r, new)
    BY <1>2 DEF Endpoints!Turn, Endpoints!Done, Endpoints!BagAdd, Endpoints!BagRemove
  <1>3. CASE net' = Sources!Turn(r, new)
    BY <1>3 DEF Sources!Turn, Sources!Done, Sources!BagAdd, Sources!BagRemove
  <1>4. CASE net' = Rules!Turn(r, new)
    BY <1>4 DEF Rules!Turn, Rules!Done, Rules!BagAdd, Rules!BagRemove
  <1> QED BY <1>1, <1>2, <1>3, <1>4

LEMMA DoneCounts ==
    ASSUME NEW r \in DOMAIN net,
           \/ net' = Endpoints!Done(r) \/ net' = Sources!Done(r)
           \/ net' = Rules!Done(r) \/ net' = Stats!Done(r)
    PROVE  /\ \A q : q # r => /\ q \in DOMAIN net' <=> q \in DOMAIN net
                              /\ q \in DOMAIN net => net'[q] = net[q]
           /\ net[r] = 1 => r \notin DOMAIN net'
           /\ DOMAIN net' \subseteq DOMAIN net
  BY DEF Stats!Done, Stats!BagRemove, Endpoints!Done, Endpoints!BagRemove,
         Sources!Done, Sources!BagRemove, Rules!Done, Rules!BagRemove

LEMMA SendCounts ==
    ASSUME NEW new, \/ net' = Endpoints!Send(new) \/ net' = Sources!Send(new)
                    \/ net' = Rules!Send(new) \/ net' = Stats!Send(new)
    PROVE  /\ \A q : q # new => /\ q \in DOMAIN net' <=> q \in DOMAIN net
                                /\ q \in DOMAIN net => net'[q] = net[q]
           /\ new \in DOMAIN net' /\ (new \notin DOMAIN net => net'[new] = 1)
  BY DEF Stats!Send, Stats!BagAdd, Endpoints!Send, Endpoints!BagAdd,
         Sources!Send, Sources!BagAdd, Rules!Send, Rules!BagAdd

-----------------------------------------------------------------------------
(* The page of rules.                                                        *)

RuleText == OneText \cup {Blank}
RuleOwner == Name \cup {Everyone}
RuleForms == [text : RuleText, owner : RuleOwner, active : BOOLEAN]
RuleRows == [id : Rules!Id, text : RuleText, owner : RuleOwner, active : BOOLEAN,
             created : BOOLEAN]
RuleRecords == [status : {"none", "live", "deleted"}, text : RuleText, owner : RuleOwner,
                active : BOOLEAN, created : BOOLEAN]
RuleRequests ==
    [kind : {"list"}, stage : {"sent"}, n : Nat]
    \cup [kind : {"list"}, stage : {"ok"}, n : Nat, rows : SUBSET RuleRows]
    \cup [kind : {"names"}, stage : {"sent", "ok"}]
    \cup [kind : {"create"}, stage : {"sent", "ok"}, form : RuleForms]
    \cup [kind : {"update"}, stage : {"sent", "found", "ok"}, id : Rules!Id, form : RuleForms,
          fresh : BOOLEAN, touched : SUBSET Rules!Fields]
    \cup [kind : {"toggle"}, stage : {"sent", "ok"}, id : Rules!Id,
          form : [text : {Blank}, owner : RuleOwner, active : BOOLEAN]]
    \cup [kind : {"delete"}, stage : {"sent", "ok"}, id : Rules!Id]
    \cup [kind : Rules!Changes \cup {"list", "names"}, stage : {"failed"}]

RulesTypes ==
    /\ server \in [Rules!Id -> RuleRecords]
    /\ view \in [list : SUBSET RuleRows, names : BOOLEAN, open : BOOLEAN,
                 editing : RuleRows \cup {Rules!NoRow}, form : RuleForms]
    /\ view.editing # Rules!NoRow => view.open
    /\ hist \in [loads : Nat, shown : Nat, fresh : BOOLEAN, touched : SUBSET Rules!Fields,
                 raced : SUBSET Rules!Id, commands : Nat]
    /\ DOMAIN net \subseteq RuleRequests

\* A list that was asked for after all changes were answered is what is stored,
\* on its way and on the page; a change that nothing was heard of counts as a
\* list that was not fetched.
RulesListed ==
    /\ hist.shown <= hist.loads
    /\ \A r \in DOMAIN net : r.kind = "list" /\ r.stage # "failed" => r.n <= hist.loads
    /\ (\A r \in DOMAIN net : r.kind \notin Rules!Changes) =>
           /\ hist.shown = hist.loads => view.list = Rules!Rows
           /\ \A r \in DOMAIN net :
                  r.kind = "list" /\ r.stage = "ok" /\ r.n = hist.loads => r.rows = Rules!Rows

\* The rows that a page knows have been stored, so that none of them is created.
RulesKnown ==
    /\ \A row \in view.list \cup {view.editing} :
           row # Rules!NoRow => server[row.id].status # "none"
    /\ \A r \in DOMAIN net : r.stage # "failed" =>
           /\ r.kind = "list" /\ r.stage = "ok" =>
                  \A row \in r.rows : server[row.id].status # "none"
           /\ r.kind = "update" => server[r.id].status # "none"

RuleKeeps(form, i, touched) ==
    i \in Rules!Live => \A f \in Rules!Fields \ touched : form[f] = server[i][f]
RuleWrites == {r \in DOMAIN net : r.kind \in {"update", "delete"}
                                  /\ r.stage \in {"sent", "found"}}
RuleIsAlone(r) == net[r] = 1 /\ \A q \in RuleWrites : q.id = r.id => q = r

\* What was opened as stored is sent as stored but for what was typed. A write
\* that had no other beside it is the only one of its row, so that a row that
\* it has found is there until it is saved.
RulesFresh ==
    /\ hist.fresh =>
           /\ view.editing # Rules!NoRow
           /\ RuleKeeps(view.form, view.editing.id, hist.touched)
           /\ \A r \in RuleWrites : r.id = view.editing.id => r.kind = "delete"
    /\ \A r \in RuleWrites :
           r.id \notin hist.raced =>
               /\ RuleIsAlone(r)
               /\ r.stage = "found" => r.id \in Rules!Live
               /\ r.kind = "update" /\ r.fresh => RuleKeeps(r.form, r.id, r.touched)

RulesInv == RulesTypes /\ RulesListed /\ RulesKnown /\ RulesFresh

LEMMA RuleShapes ==
    ASSUME NEW r \in RuleRequests
    PROVE  /\ r.stage \in {"sent", "found", "ok", "failed"}
           /\ r.stage = "found" => r.kind = "update"
           /\ r.kind \in Rules!Changes \cup {"list", "names"}
           /\ r.kind = "list" /\ r.stage # "failed" => r.n \in Nat
           /\ r.kind = "list" /\ r.stage = "ok" => r.rows \in SUBSET RuleRows
           /\ r.kind = "create" /\ r.stage # "failed" =>
                  r \in [kind : {"create"}, stage : {"sent", "ok"}, form : RuleForms]
           /\ r.kind = "update" /\ r.stage # "failed" =>
                  r \in [kind : {"update"}, stage : {"sent", "found", "ok"}, id : Rules!Id,
                         form : RuleForms, fresh : BOOLEAN, touched : SUBSET Rules!Fields]
           /\ r.kind = "toggle" /\ r.stage # "failed" =>
                  r \in [kind : {"toggle"}, stage : {"sent", "ok"}, id : Rules!Id,
                         form : [text : {Blank}, owner : RuleOwner, active : BOOLEAN]]
           /\ r.kind = "delete" /\ r.stage # "failed" =>
                  r \in [kind : {"delete"}, stage : {"sent", "ok"}, id : Rules!Id]
           /\ r.kind = "names" /\ r.stage # "failed" =>
                  r \in [kind : {"names"}, stage : {"sent", "ok"}]
  BY DEF RuleRequests, Rules!Changes

\* A request that succeeds, fails or has found its row stays a request.
LEMMA RuleTurns ==
    ASSUME NEW r \in RuleRequests, r.stage # "failed"
    PROVE  /\ [kind |-> r.kind, stage |-> "failed"] \in RuleRequests
           /\ r.kind # "list" =>
                  /\ [r EXCEPT !.stage = "ok"] \in RuleRequests
                  /\ [r EXCEPT !.stage = "ok"].kind = r.kind
                  /\ [r EXCEPT !.stage = "ok"].stage = "ok"
                  /\ r.kind = "update" => [r EXCEPT !.stage = "ok"].id = r.id
           /\ r.kind = "update" =>
                  [r EXCEPT !.stage = "found"] =
                      [kind |-> "update", stage |-> "found", id |-> r.id, form |-> r.form,
                       fresh |-> r.fresh, touched |-> r.touched]
  <1>1. [kind |-> r.kind, stage |-> "failed"] \in RuleRequests
    BY RuleShapes DEF RuleRequests
  <1>2. ASSUME r.kind = "names" PROVE [r EXCEPT !.stage = "ok"] = [kind |-> "names", stage |-> "ok"]
    BY <1>2, RuleShapes
  <1>3. ASSUME r.kind = "create"
        PROVE  [r EXCEPT !.stage = "ok"] = [kind |-> "create", stage |-> "ok", form |-> r.form]
    BY <1>3, RuleShapes
  <1>4. ASSUME r.kind = "update"
        PROVE  [r EXCEPT !.stage = "ok"] = [kind |-> "update", stage |-> "ok", id |-> r.id,
                    form |-> r.form, fresh |-> r.fresh, touched |-> r.touched]
    BY <1>4, RuleShapes
  <1>5. ASSUME r.kind = "toggle"
        PROVE  [r EXCEPT !.stage = "ok"] = [kind |-> "toggle", stage |-> "ok", id |-> r.id,
                    form |-> r.form]
    BY <1>5, RuleShapes
  <1>6. ASSUME r.kind = "delete"
        PROVE  [r EXCEPT !.stage = "ok"] = [kind |-> "delete", stage |-> "ok", id |-> r.id]
    BY <1>6, RuleShapes
  <1> DEFINE new == [r EXCEPT !.stage = "ok"]
  <1>7. r.kind # "list" => new \in RuleRequests /\ new.kind = r.kind /\ new.stage = "ok"
                           /\ (r.kind = "update" => new.id = r.id)
    <2>1. r.kind \in {"names", "create", "update", "toggle", "delete", "list"}
      BY RuleShapes DEF Rules!Changes
    <2> HIDE DEF new
    <2>2. r.kind = "names" => new = [kind |-> "names", stage |-> "ok"]
      BY <1>2 DEF new
    <2>3. r.kind = "create" => new = [kind |-> "create", stage |-> "ok", form |-> r.form]
      BY <1>3 DEF new
    <2>4. r.kind = "update" => new = [kind |-> "update", stage |-> "ok", id |-> r.id,
                    form |-> r.form, fresh |-> r.fresh, touched |-> r.touched]
      BY <1>4 DEF new
    <2>5. r.kind = "toggle" => new = [kind |-> "toggle", stage |-> "ok", id |-> r.id,
                    form |-> r.form]
      BY <1>5 DEF new
    <2>6. r.kind = "delete" => new = [kind |-> "delete", stage |-> "ok", id |-> r.id]
      BY <1>6 DEF new
    <2> QED BY <2>1, <2>2, <2>3, <2>4, <2>5, <2>6, RuleShapes DEF RuleRequests
  <1>8. r.kind = "update" =>
            [r EXCEPT !.stage = "found"] =
                [kind |-> "update", stage |-> "found", id |-> r.id, form |-> r.form,
                 fresh |-> r.fresh, touched |-> r.touched]
    BY RuleShapes
  <1> QED BY <1>1, <1>7, <1>8

\* Answers, and requests of other kinds, leave the writes that are alone alone.
LEMMA RuleWritesTurn ==
    ASSUME RulesFresh, NEW r \in DOMAIN net, NEW new, new # r,
           new.stage \in {"ok", "failed"} \/ new.kind \notin {"update", "delete"},
           net' = Rules!Turn(r, new) \/ net' = Rules!Done(r)
    PROVE  /\ RuleWrites' \subseteq RuleWrites
           /\ \A q \in RuleWrites' : q.id \notin hist.raced => q # r /\ net'[q] = net[q]
  <1>1. \A q \in DOMAIN net' : q # new =>
            q \in DOMAIN net /\ (q # r => net'[q] = net[q]) /\ (q = r => net[r] # 1)
    <2>1. CASE net' = Rules!Turn(r, new)
      BY <2>1, TurnCounts
    <2>2. CASE net' = Rules!Done(r)
      BY <2>2, DoneCounts
    <2> QED BY <2>1, <2>2
  <1>2. new \notin RuleWrites'
    BY DEF RuleWrites
  <1>3. RuleWrites' \subseteq RuleWrites
    BY <1>1, <1>2 DEF RuleWrites
  <1>4. \A q \in RuleWrites' : q \in DOMAIN net' /\ q # new
    BY <1>2 DEF RuleWrites
  <1> QED BY <1>1, <1>3, <1>4 DEF RulesFresh, RuleIsAlone

LEMMA RuleWritesDone ==
    ASSUME RulesFresh, NEW r \in DOMAIN net, net' = Rules!Done(r)
    PROVE  /\ RuleWrites' \subseteq RuleWrites
           /\ \A q \in RuleWrites' : q.id \notin hist.raced => net'[q] = net[q]
  <1>1. \A q \in DOMAIN net' :
            q \in DOMAIN net /\ (q # r => net'[q] = net[q]) /\ (q = r => net[r] # 1)
    BY DoneCounts
  <1>2. RuleWrites' \subseteq RuleWrites /\ \A q \in RuleWrites' : q \in DOMAIN net'
    BY <1>1 DEF RuleWrites
  <1> QED BY <1>1, <1>2 DEF RulesFresh, RuleIsAlone

LEMMA RuleWritesStay ==
    ASSUME RulesFresh, server' = server, RuleWrites' \subseteq RuleWrites,
           \A q \in RuleWrites' : q.id \notin hist.raced => net'[q] = net[q],
           hist'.fresh = hist.fresh, hist'.touched = hist.touched, hist'.raced = hist.raced,
           view'.editing = view.editing, view'.form = view.form
    PROVE  RulesFresh'
  BY DEF RulesFresh, RuleIsAlone, RuleKeeps, Rules!Live

LEMMA RulesInit == Rules!Init => RulesInv
  <1> SUFFICES ASSUME Rules!Init PROVE RulesInv
    OBVIOUS
  <1> DEFINE list == [kind |-> "list", stage |-> "sent", n |-> 1]
             names == [kind |-> "names", stage |-> "sent"]
  <1>1. DOMAIN net = {list, names}
    BY DEF Rules!Init, Rules!SetToBag
  <1>2. list \in RuleRequests /\ names \in RuleRequests
    BY DEF RuleRequests
  <1>3. /\ hist = [loads |-> 1, shown |-> 0, fresh |-> FALSE, touched |-> {}, raced |-> {},
                   commands |-> 0]
        /\ view = [list |-> {}, names |-> FALSE, open |-> FALSE,
                   editing |-> Rules!NoRow, form |-> Rules!EmptyForm]
    BY DEF Rules!Init
  <1>4. server \in [Rules!Id -> RuleRecords]
    BY TextAssumption DEF Rules!Init, RuleRecords, RuleText, RuleOwner
  <1>5. RulesTypes
    BY <1>1, <1>2, <1>3, <1>4 DEF RulesTypes, Rules!EmptyForm, RuleForms, RuleText, RuleOwner
  <1>6. list.kind = "list" /\ list.n = 1 /\ list.stage = "sent" /\ names.kind = "names"
        /\ names.stage = "sent"
    OBVIOUS
  <1> HIDE DEF list, names
  <1>7. RulesListed
    BY <1>1, <1>3, <1>6 DEF RulesListed
  <1>8. RulesKnown
    BY <1>1, <1>3, <1>6 DEF RulesKnown
  <1>9. RulesFresh
    BY <1>1, <1>3, <1>6 DEF RulesFresh, RuleWrites
  <1> QED BY <1>5, <1>7, <1>8, <1>9 DEF RulesInv

LEMMA RulesServe ==
    ASSUME RulesInv, NEW r \in DOMAIN net, Rules!Serve(r)
    PROVE  RulesInv'
  <1> USE DEF RulesInv
  <1>0. r \in RuleRequests /\ r.stage \in {"sent", "found"} /\ view' = view /\ hist' = hist
    BY DEF Rules!Serve, RulesTypes
  <1>1. CASE Rules!ListURLReplaceRules(r)
    <2> DEFINE new == [kind |-> "list", stage |-> "ok", n |-> r.n, rows |-> Rules!Rows]
    <2>1. Turned(r, new) /\ server' = server /\ r.kind = "list"
      BY <1>1, TurnIsTurned DEF Rules!ListURLReplaceRules
    <2>2. Rules!Rows \in SUBSET RuleRows
      BY DEF Rules!Rows, Rules!Row, Rules!Live, RulesTypes, RuleRows, RuleRecords
    <2>3. \A row \in Rules!Rows : server[row.id].status # "none"
      BY DEF Rules!Rows, Rules!Row, Rules!Live
    <2>4. new \in RuleRequests
      BY <1>0, <2>1, <2>2, RuleShapes DEF RuleRequests
    <2>5. new.kind = "list" /\ new.stage = "ok" /\ new.n = r.n /\ new.rows = Rules!Rows
      OBVIOUS
    <2>6. Rules!Rows' = Rules!Rows /\ Rules!Live' = Rules!Live
      BY <2>1 DEF Rules!Rows, Rules!Row, Rules!Live
    <2> HIDE DEF new
    <2>7. RulesTypes'
      BY <1>0, <2>1, <2>4 DEF RulesTypes, Turned
    <2>8. RulesListed'
      BY <1>0, <2>1, <2>5, <2>6 DEF RulesListed, Turned, Rules!Changes
    <2>9. RulesKnown'
      BY <1>0, <2>1, <2>3, <2>5 DEF RulesKnown, Turned
    <2>10. net' = Rules!Turn(r, new)
      BY <1>1 DEF Rules!ListURLReplaceRules, new
    <2>11. RulesFresh'
      BY <1>0, <2>1, <2>5, <2>10, RuleWritesTurn, RuleWritesStay
    <2> QED BY <2>7, <2>8, <2>9, <2>11
  \* A change, which stays on its way until the page knows of it.
  <1>2. ASSUME NEW new \in RuleRequests, net' = Rules!Turn(r, new), new.kind = r.kind,
               r.kind # "list", new.stage \in {"ok", "failed"},
               new.stage = "ok" /\ r.kind = "update" => new.id = r.id,
               server' \in [Rules!Id -> RuleRecords],
               r.kind \in Rules!Changes \/ server' = server,
               \A i \in Rules!Id :
                   \/ server'[i] = server[i]
                   \/ server[i].status = "none"
                   \/ r.kind = "delete" /\ r.id = i /\ server'[i].status = "deleted"
                   \/ r.kind = "update" /\ r.id = i /\ server'[i].status = "live"
        PROVE  RulesInv'
    <2>0. Turned(r, new) /\ new # r
          /\ \A i \in Rules!Id : server[i].status # "none" => server'[i].status # "none"
      BY <1>0, <1>2, TurnIsTurned
    <2>1. RulesTypes'
      BY <1>0, <1>2, <2>0 DEF RulesTypes, Turned
    <2>2. RulesListed'
      <3>1. CASE r.kind \in Rules!Changes
        BY <1>0, <1>2, <2>0, <3>1 DEF RulesListed, Turned
      <3>2. CASE r.kind \notin Rules!Changes
        <4>1. Rules!Rows' = Rules!Rows
          BY <1>2, <3>2 DEF Rules!Rows, Rules!Row, Rules!Live
        <4> QED BY <1>0, <1>2, <2>0, <3>2, <4>1 DEF RulesListed, Turned
      <3> QED BY <3>1, <3>2
    <2>3. RulesKnown'
      <3>1. \A row \in RuleRows : row.id \in Rules!Id
        BY DEF RuleRows
      <3>2. /\ \A row \in view.list : row \in RuleRows
            /\ view.editing # Rules!NoRow => view.editing \in RuleRows
        BY DEF RulesTypes
      <3>3. \A row \in view'.list \cup {view'.editing} :
                row # Rules!NoRow => server'[row.id].status # "none"
        BY <1>0, <2>0, <3>1, <3>2 DEF RulesKnown
      <3>4. ASSUME NEW q \in DOMAIN net', q.stage # "failed"
            PROVE  /\ q.kind = "list" /\ q.stage = "ok" =>
                          \A row \in q.rows : server'[row.id].status # "none"
                   /\ q.kind = "update" => server'[q.id].status # "none"
        <4>1. CASE q = new
          <5>1. r.kind = "update" => r.id \in Rules!Id
            BY <1>0, RuleShapes
          <5> QED BY <1>0, <1>2, <2>0, <3>4, <4>1, <5>1 DEF RulesKnown
        <4>2. CASE q \in DOMAIN net
          <5>1. /\ q.kind = "update" => q.id \in Rules!Id
                /\ q.kind = "list" /\ q.stage = "ok" => \A row \in q.rows : row \in RuleRows
            BY <3>4, <4>2, RuleShapes DEF RulesTypes
          <5> QED BY <2>0, <3>1, <3>4, <4>2, <5>1 DEF RulesKnown
        <4> QED BY <2>0, <4>1, <4>2 DEF Turned
      <3> QED BY <3>3, <3>4 DEF RulesKnown
    <2>4. /\ RuleWrites' \subseteq RuleWrites
          /\ \A q \in RuleWrites' : q.id \notin hist.raced => q # r /\ net'[q] = net[q]
      BY <1>2, <2>0, RuleWritesTurn
    <2>5. \A q \in RuleWrites : q.kind = "update" => q.id \in Rules!Id /\ server[q.id].status # "none"
      BY RuleShapes DEF RulesTypes, RulesKnown, RuleWrites
    <2>6. r.kind \in {"update", "delete"} => r \in RuleWrites
      BY <1>0 DEF RuleWrites
    <2>7. RulesFresh'
      <3>1. ASSUME hist.fresh PROVE RuleKeeps(view.form, view.editing.id, hist.touched)'
        <4>1. view.editing.id \in Rules!Id /\ server[view.editing.id].status # "none"
          BY <3>1 DEF RulesFresh, RulesTypes, RulesKnown, RuleRows
        <4>2. r.kind = "update" => r.id # view.editing.id
          BY <2>6, <3>1 DEF RulesFresh
        <4>3. \/ server'[view.editing.id] = server[view.editing.id]
              \/ server'[view.editing.id].status = "deleted"
          BY <1>2, <4>1, <4>2
        <4> QED BY <1>0, <3>1, <4>3 DEF RulesFresh, RuleKeeps, Rules!Live
      <3>2. ASSUME NEW q \in RuleWrites', q.id \notin hist.raced
            PROVE  /\ RuleIsAlone(q)'
                   /\ q.stage = "found" => q.id \in Rules!Live'
                   /\ q.kind = "update" /\ q.fresh => RuleKeeps(q.form, q.id, q.touched)'
        <4>1. q \in RuleWrites /\ q # r /\ net'[q] = net[q]
          BY <2>4, <3>2
        <4>2. RuleIsAlone(q)'
          BY <2>4, <3>2, <4>1 DEF RulesFresh, RuleIsAlone
        <4>3. r.kind \in {"update", "delete"} => r.id # q.id
          BY <2>6, <3>2, <4>1 DEF RulesFresh, RuleIsAlone
        <4>4. q.stage = "found" => q.kind = "update"
          BY <4>1, RuleShapes DEF RuleWrites, RulesTypes
        <4>5. q.kind = "update" => server'[q.id] = server[q.id] /\ q.id \in Rules!Id
          BY <1>2, <2>5, <4>1, <4>3
        <4>6. q.kind = "update" => (q.id \in Rules!Live' <=> q.id \in Rules!Live)
          BY <4>5 DEF Rules!Live
        <4> QED BY <3>2, <4>1, <4>2, <4>4, <4>5, <4>6 DEF RulesFresh, RuleKeeps
      <3>3. hist.fresh => /\ view.editing # Rules!NoRow
                          /\ \A q \in RuleWrites' : q.id = view.editing.id => q.kind = "delete"
        BY <2>4 DEF RulesFresh
      <3> QED BY <1>0, <3>1, <3>2, <3>3 DEF RulesFresh
    <2> QED BY <2>1, <2>2, <2>3, <2>7
  <1>3. ASSUME Rules!ListNames(r) \/ Rules!CreateURLReplaceRule(r)
               \/ Rules!FindURLReplaceRule(r) \/ Rules!DeleteURLReplaceRule(r)
        PROVE  r.kind # "list"
    BY <1>3 DEF Rules!ListNames, Rules!CreateURLReplaceRule, Rules!FindURLReplaceRule,
                Rules!DeleteURLReplaceRule
  <1>4. ASSUME net' = Rules!Succeeded(r), r.kind # "list"
        PROVE  \E new \in RuleRequests :
                   /\ net' = Rules!Turn(r, new) /\ new.kind = r.kind
                   /\ new.stage \in {"ok", "failed"}
                   /\ r.kind = "update" => new.id = r.id
    BY <1>0, <1>4, RuleTurns DEF Rules!Succeeded
  <1>5. ASSUME net' = Rules!Failed(r)
        PROVE  \E new \in RuleRequests :
                   net' = Rules!Turn(r, new) /\ new.kind = r.kind /\ new.stage = "failed"
    BY <1>0, <1>5, RuleTurns DEF Rules!Failed
  <1>6. CASE Rules!ListNames(r)
    BY <1>2, <1>3, <1>4, <1>6 DEF Rules!ListNames, RulesTypes
  <1>7. CASE Rules!CreateURLReplaceRule(r)
    <2>1. PICK i \in Rules!Id :
              /\ server[i].status = "none"
              /\ server' = [server EXCEPT ![i] = [status |-> "live", text |-> r.form.text,
                                                 owner |-> r.form.owner, active |-> TRUE,
                                                 created |-> TRUE]]
      BY <1>7 DEF Rules!CreateURLReplaceRule
    <2>2. r.kind = "create" /\ r.form \in RuleForms
      BY <1>0, <1>7, RuleShapes DEF Rules!CreateURLReplaceRule
    <2>3. server' \in [Rules!Id -> RuleRecords]
      BY <2>1, <2>2 DEF RulesTypes, RuleRecords, RuleForms
    <2>4. \A j \in Rules!Id : j # i => server'[j] = server[j]
      BY <2>1 DEF RulesTypes
    <2>5. server'[i].status = "live"
      BY <2>1 DEF RulesTypes
    <2> QED BY <1>2, <1>4, <1>7, <2>1, <2>2, <2>3, <2>4, <2>5
            DEF Rules!CreateURLReplaceRule, Rules!Changes
  <1>8. CASE Rules!FindURLReplaceRule(r) /\ r.stage = "sent"
    <2> DEFINE new == [kind |-> "update", stage |-> "found", id |-> r.id, form |-> r.form,
                       fresh |-> r.fresh, touched |-> r.touched]
    <2>1. server' = server /\ r.kind \in {"update", "toggle"}
      BY <1>8 DEF Rules!FindURLReplaceRule
    <2>2. CASE ~(r.form.text # Blank /\ r.id \in Rules!Live)
      BY <1>2, <1>3, <1>5, <1>8, <2>2 DEF Rules!FindURLReplaceRule, RulesTypes
    <2>3. CASE r.form.text # Blank /\ r.id \in Rules!Live /\ r.stage = "sent"
      <3>1. r.kind = "update"
        BY <1>0, <2>1, <2>3, RuleShapes
      <3>2. net' = Rules!Turn(r, new)
        BY <1>0, <1>8, <2>3, <3>1, RuleTurns DEF Rules!FindURLReplaceRule, Rules!Found
      <3>3. new \in RuleRequests
        BY <1>0, <2>3, <3>1, RuleShapes DEF RuleRequests
      <3>4. /\ new.kind = "update" /\ new.stage = "found" /\ new.id = r.id /\ new.form = r.form
            /\ new.fresh = r.fresh /\ new.touched = r.touched
        OBVIOUS
      <3> HIDE DEF new
      <3>5. Turned(r, new) /\ new # r
        BY <2>3, <3>2, <3>4, TurnIsTurned
      <3>6. Rules!Rows' = Rules!Rows /\ Rules!Live' = Rules!Live
        BY <2>1 DEF Rules!Rows, Rules!Row, Rules!Live
      <3>7. RulesTypes'
        BY <1>0, <2>1, <3>3, <3>5 DEF RulesTypes, Turned
      <3>8. RulesListed'
        BY <1>0, <2>1, <3>4, <3>5, <3>6 DEF RulesListed, Turned, Rules!Changes
      <3>9. RulesKnown'
        BY <1>0, <2>1, <2>3, <3>1, <3>4, <3>5 DEF RulesKnown, Turned
      <3>10. r \in RuleWrites
        BY <2>3, <3>1 DEF RuleWrites
      <3>11. RuleWrites' \subseteq RuleWrites \cup {new}
        BY <3>5 DEF RuleWrites, Turned
      <3>12. new \in DOMAIN net => new \in RuleWrites
        BY <3>4 DEF RuleWrites
      <3>13. ASSUME r.id \notin hist.raced
             PROVE  r \notin DOMAIN net' /\ net'[new] = 1
        <4>1. net[r] = 1 /\ new \notin RuleWrites
          BY <3>4, <3>5, <3>10, <3>13 DEF RulesFresh, RuleIsAlone
        <4> QED BY <3>2, <3>5, <3>12, <4>1, TurnCounts
      <3>14. ASSUME NEW q \in RuleWrites', q.id \notin hist.raced
             PROVE  /\ RuleIsAlone(q)'
                    /\ q.stage = "found" => q.id \in Rules!Live
                    /\ q.kind = "update" /\ q.fresh => RuleKeeps(q.form, q.id, q.touched)
        <4>0. q \in DOMAIN net' /\ \A w \in RuleWrites' : w \in DOMAIN net'
          BY <3>14 DEF RuleWrites
        <4>1. CASE q = new
          <5>1. \A w \in RuleWrites' : w.id = q.id => w = new
            BY <3>4, <3>10, <3>11, <3>13, <3>14, <4>0, <4>1 DEF RulesFresh, RuleIsAlone
          <5> QED BY <2>3, <3>1, <3>4, <3>10, <3>13, <3>14, <4>1, <5>1
                  DEF RulesFresh, RuleIsAlone
        <4>2. CASE q # new
          <5>1. q \in RuleWrites
            BY <3>11, <3>14, <4>2
          <5>2. q # r
            BY <3>13, <3>14, <4>0
          <5>3. q.id # r.id
            BY <3>10, <3>14, <5>1, <5>2 DEF RulesFresh, RuleIsAlone
          <5>4. net'[q] = net[q]
            BY <3>2, <4>0, <4>2, <5>2, TurnCounts
          <5> QED BY <3>4, <3>11, <3>14, <5>1, <5>3, <5>4 DEF RulesFresh, RuleIsAlone
        <4> QED BY <4>1, <4>2
      <3>15. hist.fresh => \A q \in RuleWrites' : q.id = view.editing.id => q.kind = "delete"
        BY <3>1, <3>4, <3>10, <3>11 DEF RulesFresh
      <3>16. RulesFresh'
        BY <1>0, <2>1, <3>6, <3>14, <3>15 DEF RulesFresh, RuleKeeps
      <3> QED BY <3>7, <3>8, <3>9, <3>16
    <2> QED BY <1>8, <2>2, <2>3
  <1>9. CASE Rules!UpdateURLReplaceRule(r) /\ r.stage = "found"
    <2> DEFINE new == [status |-> "live", text |-> r.form.text, owner |-> r.form.owner,
                       active |-> r.form.active \/ r.id \notin Rules!Live,
                       created |-> FALSE]
    <2>1. server' = [server EXCEPT ![r.id] = new] /\ net' = Rules!Succeeded(r)
      BY <1>9 DEF Rules!UpdateURLReplaceRule
    <2>2. r.kind = "update" /\ r.form \in RuleForms /\ r.id \in Rules!Id
      BY <1>0, <1>9, RuleShapes
    <2>3. new \in RuleRecords /\ new.status = "live"
      BY <2>2 DEF RuleRecords, RuleForms
    <2> HIDE DEF new
    <2>4. /\ server' \in [Rules!Id -> RuleRecords] /\ server'[r.id] = new
          /\ \A j \in Rules!Id : j # r.id => server'[j] = server[j]
      BY <2>1, <2>2, <2>3 DEF RulesTypes
    <2> QED BY <1>2, <1>4, <2>1, <2>2, <2>3, <2>4 DEF Rules!Changes
  <1>10. CASE Rules!DeleteURLReplaceRule(r)
    <2>1. CASE r.id \in Rules!Live
      <3>1. server' = [server EXCEPT ![r.id].status = "deleted"] /\ net' = Rules!Succeeded(r)
            /\ r.kind = "delete"
        BY <1>10, <2>1 DEF Rules!DeleteURLReplaceRule
      <3>2. r.id \in Rules!Id
        BY <2>1 DEF Rules!Live
      <3>3. /\ server' \in [Rules!Id -> RuleRecords] /\ server'[r.id].status = "deleted"
            /\ \A j \in Rules!Id : j # r.id => server'[j] = server[j]
        BY <3>1, <3>2 DEF RulesTypes, RuleRecords
      <3> QED BY <1>2, <1>4, <3>1, <3>2, <3>3 DEF Rules!Changes
    <2>2. CASE r.id \notin Rules!Live
      BY <1>2, <1>3, <1>5, <1>10, <2>2 DEF Rules!DeleteURLReplaceRule, RulesTypes
    <2> QED BY <2>1, <2>2
  <1> QED BY <1>1, <1>6, <1>7, <1>8, <1>9, <1>10 DEF Rules!Serve

LEMMA RulesReceive ==
    ASSUME RulesInv, NEW r \in DOMAIN net, Rules!Receive(r) \/ Rules!Fails(r)
    PROVE  RulesInv'
  <1> USE DEF RulesInv
  <1>0. r \in RuleRequests /\ server' = server
    BY DEF Rules!Receive, Rules!Fails, RulesTypes
  <1>1. Rules!Rows' = Rules!Rows /\ Rules!Live' = Rules!Live
    BY <1>0 DEF Rules!Rows, Rules!Row, Rules!Live
  <1>2. CASE Rules!Fails(r)
    <2> DEFINE new == [kind |-> r.kind, stage |-> "failed"]
    <2>1. Turned(r, new) /\ UNCHANGED <<view, hist>> /\ r.stage # "failed"
      BY <1>2, TurnIsTurned DEF Rules!Fails, Rules!Failed
    <2>2. new \in RuleRequests /\ new.kind = r.kind /\ new.stage = "failed"
      BY <1>0, <2>1, RuleTurns
    <2> HIDE DEF new
    <2>3. net' = Rules!Turn(r, new)
      BY <1>2 DEF Rules!Fails, Rules!Failed, new
    <2>4. RulesTypes'
      BY <1>0, <2>1, <2>2 DEF RulesTypes, Turned
    <2>5. RulesListed'
      BY <1>1, <2>1, <2>2 DEF RulesListed, Turned
    <2>6. RulesKnown'
      BY <1>0, <2>1, <2>2 DEF RulesKnown, Turned
    <2>7. RulesFresh'
      BY <1>0, <2>1, <2>2, <2>3, RuleWritesTurn, RuleWritesStay
    <2> QED BY <2>4, <2>5, <2>6, <2>7
  <1>3. CASE Rules!LoadURLRules(r) /\ Rules!Receive(r)
    <2>1. net' = Rules!Done(r) /\ r.kind = "list" /\ r.stage \in {"ok", "failed"}
      BY <1>3 DEF Rules!LoadURLRules, Rules!Receive
    <2>2. DOMAIN net' \subseteq DOMAIN net /\ DOMAIN net \ {r} \subseteq DOMAIN net'
      BY <2>1, DoneRemoves
    <2>5. /\ RuleWrites' \subseteq RuleWrites
          /\ \A q \in RuleWrites' : q.id \notin hist.raced => net'[q] = net[q]
      BY <2>1, RuleWritesDone
    <2>3. CASE r.stage = "failed"
      <3>1. UNCHANGED <<view, hist>>
        BY <1>3, <2>3 DEF Rules!LoadURLRules
      <3>2. RulesTypes' /\ RulesKnown'
        BY <1>0, <2>2, <3>1 DEF RulesTypes, RulesKnown
      <3>3. RulesListed'
        BY <1>1, <2>1, <2>2, <3>1 DEF RulesListed, Rules!Changes
      <3>4. RulesFresh'
        BY <1>0, <2>5, <3>1, RuleWritesStay
      <3> QED BY <3>2, <3>3, <3>4
    <2>4. CASE r.stage = "ok"
      <3>1. r.n \in Nat /\ r.rows \in SUBSET RuleRows
        BY <1>0, <2>1, <2>4, RuleShapes
      <3>2. /\ view' = [list |-> r.rows, names |-> view.names, open |-> view.open,
                        editing |-> view.editing, form |-> view.form]
            /\ hist' = [loads |-> hist.loads, shown |-> r.n, fresh |-> hist.fresh,
                        touched |-> hist.touched, raced |-> hist.raced,
                        commands |-> hist.commands]
        BY <1>3, <2>4 DEF Rules!LoadURLRules, RulesTypes
      <3>3. RulesTypes'
        BY <1>0, <2>2, <3>1, <3>2 DEF RulesTypes
      <3>4. RulesListed'
        BY <1>1, <2>1, <2>2, <2>4, <3>2 DEF RulesListed, Rules!Changes
      <3>5. RulesKnown'
        BY <1>0, <2>1, <2>2, <2>4, <3>2 DEF RulesKnown
      <3>6. RulesFresh'
        BY <1>0, <2>5, <3>2, RuleWritesStay
      <3> QED BY <3>3, <3>4, <3>5, <3>6
    <2> QED BY <2>1, <2>3, <2>4
  <1>4. CASE Rules!LoadEndpoints(r)
    <2>1. net' = Rules!Done(r) /\ r.kind = "names" /\ hist' = hist
      BY <1>4 DEF Rules!LoadEndpoints
    <2>2. DOMAIN net' \subseteq DOMAIN net /\ DOMAIN net \ {r} \subseteq DOMAIN net'
      BY <2>1, DoneRemoves
    <2>5. /\ RuleWrites' \subseteq RuleWrites
          /\ \A q \in RuleWrites' : q.id \notin hist.raced => net'[q] = net[q]
      BY <2>1, RuleWritesDone
    <2>3. PICK names \in BOOLEAN :
              view' = [list |-> view.list, names |-> names, open |-> view.open,
                       editing |-> view.editing, form |-> view.form]
      BY <1>4 DEF Rules!LoadEndpoints, RulesTypes
    <2>4. RulesTypes' /\ RulesKnown'
      BY <1>0, <2>1, <2>2, <2>3 DEF RulesTypes, RulesKnown
    <2>6. RulesListed'
      BY <1>1, <2>1, <2>2, <2>3 DEF RulesListed, Rules!Changes
    <2>7. RulesFresh'
      BY <1>0, <2>1, <2>3, <2>5, RuleWritesStay
    <2> QED BY <2>4, <2>6, <2>7
  <1>5. CASE Rules!Changed(r)
    <2>1. /\ r.kind \in Rules!Changes /\ view' = view
          /\ hist' = [loads |-> hist.loads + 1, shown |-> hist.shown, fresh |-> hist.fresh,
                      touched |-> hist.touched, raced |-> hist.raced,
                      commands |-> hist.commands]
      BY <1>5 DEF Rules!Changed, Rules!Fresh, RulesTypes
    <2> DEFINE new == [kind |-> "list", stage |-> "sent", n |-> hist.loads + 1]
    <2>2. DOMAIN net' \subseteq DOMAIN net \cup {new}
      <3>1. CASE net' = Rules!Turn(r, Rules!Load(hist))
        BY <3>1, TurnIsTurned DEF Turned, Rules!Load
      <3>2. CASE net' = Rules!Done(r)
        BY <3>2, DoneRemoves
      <3> QED BY <1>5, <3>1, <3>2 DEF Rules!Changed
    <2>3. new \in RuleRequests /\ new.kind = "list" /\ new.stage = "sent"
          /\ new.n = hist.loads + 1
      BY DEF RuleRequests, RulesTypes
    <2>4. \A q \in DOMAIN net : q.kind = "list" /\ q.stage # "failed" => q.n \in Nat
      BY RuleShapes DEF RulesTypes
    <2> HIDE DEF new
    <2>5. RulesTypes' /\ RulesKnown'
      BY <1>0, <2>1, <2>2, <2>3 DEF RulesTypes, RulesKnown
    <2>6. RulesListed'
      <3>1. hist'.shown < hist'.loads /\ hist'.loads = hist.loads + 1
        BY <2>1 DEF RulesListed, RulesTypes
      <3>2. \A q \in DOMAIN net' : q.kind = "list" /\ q.stage # "failed" => q.n <= hist'.loads
        BY <2>2, <2>3, <2>4, <3>1 DEF RulesListed, RulesTypes
      <3>3. \A q \in DOMAIN net' : q.kind = "list" /\ q.stage = "ok" => q.n # hist'.loads
        BY <2>2, <2>3, <2>4, <3>1 DEF RulesListed, RulesTypes
      <3>4. hist.shown \in Nat /\ hist.loads \in Nat /\ hist'.shown = hist.shown
        BY <2>1 DEF RulesTypes
      <3> QED BY <3>1, <3>2, <3>3, <3>4 DEF RulesListed
    <2>7. /\ RuleWrites' \subseteq RuleWrites
          /\ \A q \in RuleWrites' : q.id \notin hist.raced => net'[q] = net[q]
      <3>1. new # r
        BY <2>1, <2>3 DEF Rules!Changes
      <3>2. net' = Rules!Turn(r, new) \/ net' = Rules!Done(r)
        BY <1>5 DEF Rules!Changed, Rules!Load, new
      <3> QED BY <2>3, <3>1, <3>2, RuleWritesTurn
    <2>8. RulesFresh'
      BY <1>0, <2>1, <2>7, RuleWritesStay
    <2> QED BY <2>5, <2>6, <2>8
  <1> QED BY <1>2, <1>3, <1>4, <1>5 DEF Rules!Receive

LEMMA RuleWritesOf ==
    ASSUME NEW i, Rules!Writes(i) = {}
    PROVE  \A r \in RuleWrites : r.id # i
  BY DEF Rules!Writes, RuleWrites, Rules!Unsaved, Rules!In, Rules!InFlight, Rules!BagToSet

LEMMA RulesEdit == RulesInv /\ Rules!Administrator => RulesInv'
  <1> SUFFICES ASSUME RulesInv, Rules!Administrator PROVE RulesInv'
    OBVIOUS
  <1> USE DEF RulesInv
  <1>0. server' = server
    BY DEF Rules!Administrator, Rules!OpenForm, Rules!HandleCancelEdit, Rules!HandleSubmit,
           Rules!Type, Rules!HandleEdit, Rules!ToggleRuleStatus, Rules!HandleDelete
  <1>1. Rules!Rows' = Rules!Rows /\ Rules!Live' = Rules!Live
    BY <1>0 DEF Rules!Rows, Rules!Row, Rules!Live
  \* The form changes, the list stays.
  <1>2. ASSUME UNCHANGED net,
               view' \in [list : {view.list}, names : {view.names}, open : BOOLEAN,
                          editing : RuleRows \cup {Rules!NoRow}, form : RuleForms],
               view'.editing # Rules!NoRow => view'.open,
               hist' \in [loads : {hist.loads}, shown : {hist.shown}, fresh : BOOLEAN,
                          touched : SUBSET Rules!Fields, raced : {hist.raced},
                          commands : Nat],
               view'.editing \in view.list \cup {view.editing, Rules!NoRow},
               hist'.fresh =>
                   /\ view'.editing # Rules!NoRow
                   /\ RuleKeeps(view'.form, view'.editing.id, hist'.touched)
                   /\ \A r \in RuleWrites : r.id = view'.editing.id => r.kind = "delete"
        PROVE  RulesInv'
    <2>1. RulesTypes'
      BY <1>0, <1>2 DEF RulesTypes
    <2>2. RulesListed' /\ RulesKnown'
      BY <1>0, <1>1, <1>2 DEF RulesListed, RulesKnown
    <2>3. RulesFresh'
      <3>1. RuleWrites' = RuleWrites
        BY <1>2 DEF RuleWrites
      <3> QED BY <1>0, <1>1, <1>2, <3>1 DEF RulesFresh, RuleKeeps, RuleIsAlone
    <2> QED BY <2>1, <2>2, <2>3
  <1>3. CASE Rules!OpenForm
    <2>1. view' \in [list : {view.list}, names : {view.names}, open : {TRUE},
                     editing : {view.editing}, form : {view.form}]
      BY <1>3 DEF Rules!OpenForm, RulesTypes
    <2> QED BY <1>2, <1>3, <2>1 DEF Rules!OpenForm, RulesTypes, RulesFresh
  <1>4. CASE Rules!HandleCancelEdit
    <2>1. view' \in [list : {view.list}, names : {view.names}, open : {FALSE},
                     editing : {Rules!NoRow}, form : {Rules!EmptyForm}]
      BY <1>4 DEF Rules!HandleCancelEdit, Rules!Closed, RulesTypes
    <2>2. hist' \in [loads : {hist.loads}, shown : {hist.shown}, fresh : {FALSE},
                     touched : {{}}, raced : {hist.raced}, commands : {hist.commands}]
      BY <1>4 DEF Rules!HandleCancelEdit, RulesTypes
    <2>3. Rules!EmptyForm \in RuleForms /\ net' = net
      BY <1>4 DEF Rules!HandleCancelEdit, RuleForms, Rules!EmptyForm, RuleText, RuleOwner
    <2> QED BY <1>2, <2>1, <2>2, <2>3 DEF RulesTypes
  <1>5. ASSUME NEW row \in view.list, Rules!HandleEdit(row) PROVE RulesInv'
    <2>1. view' \in [list : {view.list}, names : {view.names}, open : {TRUE},
                     editing : {row}, form : {Rules!FormOf(row)}]
      BY <1>5 DEF Rules!HandleEdit, RulesTypes
    <2>2. /\ hist' \in [loads : {hist.loads}, shown : {hist.shown}, fresh : BOOLEAN,
                        touched : {{}}, raced : {hist.raced}, commands : {hist.commands}]
          /\ hist'.fresh => row.id \in Rules!Live /\ row = Rules!Row(row.id)
                            /\ Rules!Writes(row.id) = {}
      BY <1>5 DEF Rules!HandleEdit, RulesTypes
    <2>3. row \in RuleRows /\ row # Rules!NoRow
      BY DEF RulesTypes, RuleRows, Rules!NoRow, Rules!Id
    <2>4. Rules!FormOf(row) \in RuleForms
      BY <2>3 DEF RuleRows, RuleForms, Rules!FormOf
    <2>5. ASSUME row = Rules!Row(row.id) PROVE RuleKeeps(Rules!FormOf(row), row.id, {})
      BY <2>5 DEF RuleKeeps, Rules!FormOf, Rules!Row, Rules!Fields
    <2>6. Rules!Writes(row.id) = {} => \A r \in RuleWrites : r.id # row.id
      BY RuleWritesOf
    <2>7. net' = net
      BY <1>5 DEF Rules!HandleEdit
    <2> QED BY <1>2, <2>1, <2>2, <2>3, <2>4, <2>5, <2>6, <2>7 DEF RulesTypes
  <1>6. ASSUME NEW form \in [text : OneText, owner : Name \cup {Everyone}, active : BOOLEAN],
               Rules!Type(form)
        PROVE  RulesInv'
    <2> DEFINE changed == {f \in Rules!Fields : form[f] # view.form[f]}
    <2>1. /\ view' \in [list : {view.list}, names : {view.names}, open : {view.open},
                        editing : {view.editing}, form : {form}]
          /\ hist' \in [loads : {hist.loads}, shown : {hist.shown}, fresh : {hist.fresh},
                        touched : {hist.touched \cup changed}, raced : {hist.raced},
                        commands : {hist.commands}]
          /\ net' = net
      BY <1>6 DEF Rules!Type, RulesTypes
    <2>2. form \in RuleForms
      BY DEF RuleForms, RuleText, RuleOwner
    <2>3. hist.fresh => RuleKeeps(form, view.editing.id, hist.touched \cup changed)
      BY DEF RulesFresh, RuleKeeps
    <2>4. changed \in SUBSET Rules!Fields
      OBVIOUS
    <2> HIDE DEF changed
    <2> QED BY <1>2, <2>1, <2>2, <2>3, <2>4 DEF RulesTypes, RulesFresh
  \* A new request, the form closed or as it was.
  <1>7. ASSUME NEW new \in RuleRequests, net' = Rules!Send(new),
               new.stage = "sent", new.kind \in Rules!Changes,
               \/ view' = view
               \/ view' \in [list : {view.list}, names : {view.names}, open : {FALSE},
                             editing : {Rules!NoRow}, form : {Rules!EmptyForm}],
               NEW raced \in SUBSET Rules!Id, hist.raced \subseteq raced,
               hist' \in [loads : {hist.loads}, shown : {hist.shown}, fresh : BOOLEAN,
                          touched : SUBSET Rules!Fields, raced : {raced}, commands : Nat],
               hist'.fresh => hist.fresh /\ hist'.touched = hist.touched /\ view' = view
                              /\ new.kind # "update",
               new.kind = "update" =>
                   /\ server[new.id].status # "none"
                   /\ new.fresh => RuleKeeps(new.form, new.id, new.touched),
               new.kind \in {"update", "delete"} /\ new.id \notin raced =>
                   \A q \in RuleWrites : q.id # new.id
        PROVE  RulesInv'
    <2>1. Rules!EmptyForm \in RuleForms
      BY DEF RuleForms, Rules!EmptyForm, RuleText, RuleOwner
    <2>0. DOMAIN net' = DOMAIN net \cup {new}
      BY <1>7, SendAdds
    <2>2. RulesTypes'
      BY <1>0, <1>7, <2>0, <2>1 DEF RulesTypes
    <2>3. RulesListed'
      BY <1>0, <1>1, <1>7, <2>0 DEF RulesListed, Rules!Changes
    <2>4. RulesKnown'
      BY <1>0, <1>7, <2>0 DEF RulesKnown, Rules!Changes
    <2>5. /\ RuleWrites' \subseteq RuleWrites \cup {new}
          /\ \A q \in RuleWrites' : q # new => net'[q] = net[q]
          /\ new \in RuleWrites' => new.kind \in {"update", "delete"}
          /\ new \in DOMAIN net /\ new.kind \in {"update", "delete"} => new \in RuleWrites
          /\ new \notin DOMAIN net => net'[new] = 1
      BY <1>7, <2>0, SendCounts DEF RuleWrites
    <2>6. ASSUME NEW q \in RuleWrites', q.id \notin raced
          PROVE  /\ RuleIsAlone(q)'
                 /\ q.stage = "found" => q.id \in Rules!Live
                 /\ q.kind = "update" /\ q.fresh => RuleKeeps(q.form, q.id, q.touched)
      <3>1. CASE q = new
        <4>1. \A w \in RuleWrites : w.id # new.id
          BY <1>7, <2>5, <2>6, <3>1
        <4>2. net'[new] = 1
          BY <2>5, <2>6, <3>1, <4>1
        <4>3. RuleIsAlone(q)'
          BY <2>5, <3>1, <4>1, <4>2 DEF RuleIsAlone
        <4> QED BY <1>7, <3>1, <4>3
      <3>2. CASE q # new
        <4>1. q \in RuleWrites /\ net'[q] = net[q] /\ q.id \notin hist.raced
          BY <1>7, <2>5, <2>6, <3>2
        <4>2. new \in RuleWrites' => new.id # q.id
          BY <1>7, <2>5, <2>6, <4>1
        <4>3. RuleIsAlone(q)'
          BY <2>5, <4>1, <4>2 DEF RulesFresh, RuleIsAlone
        <4> QED BY <4>1, <4>3 DEF RulesFresh
      <3> QED BY <3>1, <3>2
    <2>7. ASSUME hist'.fresh
          PROVE  /\ view'.editing # Rules!NoRow
                 /\ RuleKeeps(view'.form, view'.editing.id, hist'.touched)
                 /\ \A q \in RuleWrites' : q.id = view'.editing.id => q.kind = "delete"
      BY <1>7, <2>5, <2>7 DEF RulesFresh
    <2>8. RulesFresh'
      <3>1. hist'.raced = raced
        BY <1>7
      <3> QED BY <1>0, <1>1, <2>6, <2>7, <3>1 DEF RulesFresh, RuleKeeps
    <2> QED BY <2>2, <2>3, <2>4, <2>8
  <1>8. CASE Rules!HandleSubmit
    <2> DEFINE row == view.editing
               new == IF row = Rules!NoRow
                      THEN [kind |-> "create", stage |-> "sent", form |-> view.form]
                      ELSE [kind |-> "update", stage |-> "sent", id |-> row.id,
                            form |-> view.form, fresh |-> hist.fresh,
                            touched |-> hist.touched]
               raced == IF row # Rules!NoRow /\ Rules!Writes(row.id) # {}
                        THEN hist.raced \cup {row.id} ELSE hist.raced
    <2>1. /\ net' = Rules!Send(new)
          /\ view' \in [list : {view.list}, names : {view.names}, open : {FALSE},
                        editing : {Rules!NoRow}, form : {Rules!EmptyForm}]
          /\ hist' \in [loads : {hist.loads}, shown : {hist.shown}, fresh : {FALSE},
                        touched : {{}}, raced : {raced}, commands : {hist.commands + 1}]
      BY <1>8 DEF Rules!HandleSubmit, Rules!Closed, Rules!Counted, RulesTypes
    <2>3. row # Rules!NoRow => row \in RuleRows /\ row.id \in Rules!Id
      BY DEF RulesTypes, RuleRows
    <2>4. new \in RuleRequests /\ new.stage = "sent" /\ new.kind \in Rules!Changes
      <3>1. view.form \in RuleForms /\ hist.fresh \in BOOLEAN
            /\ hist.touched \in SUBSET Rules!Fields
        BY DEF RulesTypes
      <3>2. CASE row = Rules!NoRow
        BY <3>1, <3>2 DEF RuleRequests, Rules!Changes
      <3>3. CASE row # Rules!NoRow
        BY <2>3, <3>1, <3>3 DEF RuleRequests, Rules!Changes
      <3> QED BY <3>2, <3>3
    <2>5. raced \in SUBSET Rules!Id /\ hist.raced \subseteq raced
      BY <2>3 DEF RulesTypes
    <2>6. new.kind = "update" =>
              /\ row # Rules!NoRow /\ new.id = row.id /\ new.form = view.form
              /\ new.fresh = hist.fresh /\ new.touched = hist.touched
      OBVIOUS
    <2>7. row # Rules!NoRow /\ row.id \notin raced => Rules!Writes(row.id) = {}
      OBVIOUS
    <2>8. Rules!Writes(row.id) = {} => \A q \in RuleWrites : q.id # row.id
      BY RuleWritesOf
    <2>9. row # Rules!NoRow => server[row.id].status # "none"
      BY DEF RulesKnown
    <2>10. hist.commands + 1 \in Nat
      BY DEF RulesTypes
    <2>11. hist.fresh => RuleKeeps(view.form, row.id, hist.touched)
      BY DEF RulesFresh
    <2>12. hist.touched \in SUBSET Rules!Fields
      BY DEF RulesTypes
    <2> HIDE DEF new, raced, row
    <2>13. /\ hist' \in [loads : {hist.loads}, shown : {hist.shown}, fresh : BOOLEAN,
                         touched : SUBSET Rules!Fields, raced : {raced}, commands : Nat]
           /\ ~hist'.fresh
      BY <2>1, <2>10
    <2>14. new.kind = "update" =>
               /\ server[new.id].status # "none"
               /\ new.fresh => RuleKeeps(new.form, new.id, new.touched)
               /\ new.id \notin raced => \A q \in RuleWrites : q.id # new.id
      BY <2>6, <2>7, <2>8, <2>9, <2>11
    <2>15. new.kind # "delete"
      BY DEF new
    <2> QED BY <1>7, <2>1, <2>4, <2>5, <2>13, <2>14, <2>15
  <1>9. ASSUME NEW row \in view.list, Rules!ToggleRuleStatus(row) PROVE RulesInv'
    <2>1. row \in RuleRows /\ row.id \in Rules!Id
      BY DEF RulesTypes, RuleRows
    <2> DEFINE new == [kind |-> "toggle", stage |-> "sent", id |-> row.id,
                       form |-> [Rules!EmptyForm EXCEPT !.active = ~row.active]]
    <2>2. [Rules!EmptyForm EXCEPT !.active = ~row.active]
              \in [text : {Blank}, owner : RuleOwner, active : BOOLEAN]
      BY <2>1 DEF RuleOwner, Rules!EmptyForm, RuleRows
    <2>3. new \in RuleRequests /\ new.kind = "toggle" /\ new.stage = "sent"
      BY <2>1, <2>2 DEF RuleRequests
    <2>4. /\ net' = Rules!Send(new) /\ view' = view
          /\ hist' \in [loads : {hist.loads}, shown : {hist.shown}, fresh : {hist.fresh},
                        touched : {hist.touched}, raced : {hist.raced},
                        commands : {hist.commands + 1}]
      BY <1>9 DEF Rules!ToggleRuleStatus, Rules!Counted, RulesTypes
    <2>5. hist.commands + 1 \in Nat /\ hist.raced \in SUBSET Rules!Id /\ hist.fresh \in BOOLEAN
          /\ hist.touched \in SUBSET Rules!Fields
      BY DEF RulesTypes
    <2> HIDE DEF new
    <2> QED BY <1>7, <2>3, <2>4, <2>5 DEF Rules!Changes
  <1>10. ASSUME NEW row \in view.list, Rules!HandleDelete(row) PROVE RulesInv'
    <2>1. row \in RuleRows /\ row.id \in Rules!Id
      BY DEF RulesTypes, RuleRows
    <2> DEFINE new == [kind |-> "delete", stage |-> "sent", id |-> row.id]
               raced == IF Rules!Writes(row.id) # {} THEN hist.raced \cup {row.id}
                        ELSE hist.raced
    <2>2. new \in RuleRequests /\ new.kind = "delete" /\ new.stage = "sent" /\ new.id = row.id
      BY <2>1 DEF RuleRequests
    <2>3. /\ net' = Rules!Send(new) /\ view' = view
          /\ hist' \in [loads : {hist.loads}, shown : {hist.shown}, fresh : {hist.fresh},
                        touched : {hist.touched}, raced : {raced},
                        commands : {hist.commands + 1}]
      BY <1>10 DEF Rules!HandleDelete, Rules!Counted, RulesTypes
    <2>4. hist.commands + 1 \in Nat /\ hist.fresh \in BOOLEAN
          /\ hist.touched \in SUBSET Rules!Fields
      BY DEF RulesTypes
    <2>5. raced \in SUBSET Rules!Id /\ hist.raced \subseteq raced
      BY <2>1 DEF RulesTypes
    <2>6. row.id \notin raced => \A q \in RuleWrites : q.id # row.id
      BY RuleWritesOf
    <2> HIDE DEF new, raced
    <2>7. hist' \in [loads : {hist.loads}, shown : {hist.shown}, fresh : BOOLEAN,
                     touched : SUBSET Rules!Fields, raced : {raced}, commands : Nat]
          /\ hist'.fresh = hist.fresh /\ hist'.touched = hist.touched
      BY <2>3, <2>4
    <2> QED BY <1>7, <2>2, <2>3, <2>5, <2>6, <2>7 DEF Rules!Changes
  <1> QED BY <1>3, <1>4, <1>5, <1>6, <1>8, <1>9, <1>10 DEF Rules!Administrator

LEMMA RulesNext == RulesInv /\ Rules!Next => RulesInv'
  BY RulesServe, RulesReceive, RulesEdit DEF Rules!Next, Rules!InFlight, Rules!BagToSet

LEMMA RulesShown ==
    RulesInv => /\ Rules!TypeOK /\ Rules!TableIsStored
                /\ Rules!LeavesUntouched
  <1> SUFFICES ASSUME RulesInv
               PROVE  Rules!TypeOK /\ Rules!TableIsStored /\ Rules!LeavesUntouched
    OBVIOUS
  <1> USE DEF RulesInv
  <1>1. Rules!TypeOK
    <2> DEFINE all == [id : 0..MaxRecords, text : OneText \cup {Blank},
                       owner : Name \cup {Everyone}, active : BOOLEAN,
                       created : BOOLEAN]
    <2>1. RuleRows \subseteq all
      BY DEF RuleRows, RuleText, RuleOwner, Rules!Id
    <2>2. Rules!NoRow \in all
      BY RecordsAssumption DEF Rules!NoRow
    <2>3. view.list \subseteq RuleRows /\ view.editing \in RuleRows \cup {Rules!NoRow}
          /\ (view.editing # Rules!NoRow => view.open)
      BY DEF RulesTypes
    <2> QED BY <2>1, <2>2, <2>3 DEF Rules!TypeOK
  <1>2. Rules!TableIsStored
    BY DEF Rules!TableIsStored, RulesListed, Rules!Quiet, Rules!UpToDate, Rules!InFlight,
           Rules!BagToSet
  <1>3. ASSUME NEW r \in Rules!In("found"), Rules!UpdateURLReplaceRule(r),
               r.fresh, r.id \notin hist.raced
        PROVE  /\ r.id \in Rules!Live
               /\ \A f \in Rules!Fields \ r.touched : server'[r.id][f] = server[r.id][f]
    <2>1. r \in RuleWrites /\ r.kind = "update" /\ r.stage = "found"
      BY RuleShapes DEF RuleWrites, Rules!In, Rules!InFlight, Rules!BagToSet, RulesTypes
    <2>2. r.id \in Rules!Live /\ RuleKeeps(r.form, r.id, r.touched)
      BY <1>3, <2>1 DEF RulesFresh
    <2>3. r.id \in DOMAIN server
      BY <2>2 DEF Rules!Live, RulesTypes
    <2>4. r.form.active \in BOOLEAN
      BY <2>1, RuleShapes DEF RuleWrites, RulesTypes, RuleForms
    <2>5. server' = [server EXCEPT ![r.id] = [status |-> "live", text |-> r.form.text,
              owner |-> r.form.owner, active |-> r.form.active \/ r.id \notin Rules!Live,
              created |-> FALSE]]
      BY <1>3 DEF Rules!UpdateURLReplaceRule
    <2>6. (r.form.active \/ r.id \notin Rules!Live) = r.form.active
      BY <2>2, <2>4
    <2>7. \A f \in Rules!Fields : server'[r.id][f] = r.form[f]
      BY <2>3, <2>5, <2>6 DEF Rules!Fields
    <2> QED BY <2>2, <2>7 DEF RuleKeeps
  <1> QED BY <1>1, <1>2, <1>3 DEF Rules!LeavesUntouched

-----------------------------------------------------------------------------
(* The dialog of data sources.                                               *)

SourceForms == [text : OneText \cup {Blank}, body : Body \cup {NoLinks}, active : BOOLEAN]
SourceRows == [id : Sources!Id, text : OneText \cup {Blank}, body : Body \cup {NoLinks},
               active : BOOLEAN]
SourceRecords == [status : {"none", "live", "deleted"}, owner : Owner,
                  text : OneText \cup {Blank}, body : Body \cup {NoLinks}, active : BOOLEAN]
SourceViews ==
    [selected : Owner \cup {Nobody}, rows : SUBSET SourceRows,
     known : [Owner -> SUBSET SourceRows], mount : Nat, creating : BOOLEAN,
     editing : SourceRows \cup {Sources!NoRow}, form : SourceForms]
SourceHists ==
    [loads : Nat, shown : Nat, chosen : Owner \cup {Nobody}, calm : BOOLEAN, fresh : BOOLEAN,
     touched : SUBSET Sources!Fields, raced : SUBSET Sources!Id, commands : Nat]
SourceRequests ==
    [kind : {"list"}, stage : {"sent"}, n : Nat, owner : Owner]
    \cup [kind : {"list"}, stage : {"ok"}, n : Nat, owner : Owner, rows : SUBSET SourceRows]
    \cup [kind : {"create"}, stage : {"sent", "ok"}, owner : Owner, form : SourceForms,
          mount : Nat]
    \cup [kind : {"update", "toggle"}, stage : {"sent", "found", "ok"}, owner : Owner,
          id : Sources!Id, form : SourceForms, mount : Nat, fresh : BOOLEAN,
          touched : SUBSET Sources!Fields]
    \cup [kind : {"delete", "sync"}, stage : {"sent", "ok"}, owner : Owner, id : Sources!Id]
    \cup [kind : Sources!Changes \cup {"list"}, stage : {"failed"}]

SourcesTypes ==
    /\ server \in [Sources!Id -> SourceRecords]
    /\ view \in SourceViews
    /\ view.creating => view.editing = Sources!NoRow
    /\ hist \in SourceHists
    /\ DOMAIN net \subseteq SourceRequests

\* Nothing is on its way that would choose another endpoint.
SourcesCalm ==
    hist.calm => /\ view.selected = hist.chosen
                 /\ \A r \in DOMAIN net : r.stage # "failed" => r.owner = hist.chosen

\* As on the page of rules, for the sources of the endpoint that was asked for.
SourcesListed ==
    /\ hist.shown <= hist.loads
    /\ \A r \in DOMAIN net : r.kind = "list" /\ r.stage # "failed" => r.n <= hist.loads
    /\ (\A r \in DOMAIN net : r.kind \notin Sources!Changes) =>
           /\ hist.shown = hist.loads /\ Sources!Open => view.rows = Sources!Rows(view.selected)
           /\ \A r \in DOMAIN net : r.kind = "list" /\ r.stage = "ok" /\ r.n = hist.loads =>
                  r.rows = Sources!Rows(r.owner)

SourceWrites == {r \in DOMAIN net : r.kind \in Sources!RowWrites
                                    /\ r.stage \in {"sent", "found"}}
SourceSaves == {r \in SourceWrites : r.kind # "delete"}
SourceIsAlone(r) == net[r] = 1 /\ \A q \in SourceWrites : q.id = r.id => q = r
SourceIsStored(i) == server[i].status # "none"

SourcesKnown ==
    /\ \A row \in view.rows : SourceIsStored(row.id)
    /\ \A o \in Owner : \A row \in view.known[o] : SourceIsStored(row.id)
    /\ view.editing # Sources!NoRow => SourceIsStored(view.editing.id)
    /\ \A r \in DOMAIN net : r.kind = "list" /\ r.stage = "ok" =>
           \A row \in r.rows : SourceIsStored(row.id)
    /\ \A r \in SourceSaves : SourceIsStored(r.id)

SourceKeeps(form, i, touched) ==
    i \in Sources!Live => \A f \in Sources!Fields \ touched : form[f] = server[i][f]

\* The form stays open while what it sent is on its way, so that more than one
\* save may be: they agree in what was not typed.
SourceFormIsFresh ==
    hist.fresh /\ view.editing # Sources!NoRow /\ view.editing.id \notin hist.raced =>
        /\ SourceKeeps(view.form, view.editing.id, hist.touched)
        /\ \A r \in DOMAIN net : r.kind = "create" => r.stage = "failed"
        /\ \A r \in SourceSaves : r.id = view.editing.id =>
               \A f \in Sources!Fields \ hist.touched : r.form[f] = view.form[f]

\* As on the page of rules: a write that had no other beside it.
SourceWritesAreFresh ==
    \A r \in SourceWrites :
        r.id \notin hist.raced =>
            /\ SourceIsAlone(r)
            /\ r.stage = "found" => r.id \in Sources!Live
            /\ r.kind # "delete" /\ r.fresh => SourceKeeps(r.form, r.id, r.touched)

SourcesFresh == SourceFormIsFresh /\ SourceWritesAreFresh

SourcesInv == SourcesTypes /\ SourcesCalm /\ SourcesListed /\ SourcesKnown /\ SourcesFresh

LEMMA SourceShapes ==
    ASSUME NEW r \in SourceRequests
    PROVE  /\ r.stage \in {"sent", "found", "ok", "failed"}
           /\ r.stage = "found" => r.kind \in {"update", "toggle"}
           /\ r.kind \in Sources!Changes \cup {"list"}
           /\ r.stage # "failed" => r.owner \in Owner
           /\ r.kind = "list" /\ r.stage # "failed" => r.n \in Nat
           /\ r.kind = "list" /\ r.stage = "ok" => r.rows \in SUBSET SourceRows
           /\ r.kind = "create" /\ r.stage # "failed" =>
                  r \in [kind : {"create"}, stage : {"sent", "ok"}, owner : Owner,
                         form : SourceForms, mount : Nat]
           /\ r.kind \in {"update", "toggle"} /\ r.stage # "failed" =>
                  r \in [kind : {"update", "toggle"}, stage : {"sent", "found", "ok"}, owner : Owner,
                         id : Sources!Id, form : SourceForms, mount : Nat, fresh : BOOLEAN,
                         touched : SUBSET Sources!Fields]
           /\ r.kind \in {"delete", "sync"} /\ r.stage # "failed" =>
                  r \in [kind : {"delete", "sync"}, stage : {"sent", "ok"}, owner : Owner,
                         id : Sources!Id]
  BY DEF SourceRequests, Sources!Changes

\* A request that succeeds, fails or has found its row stays a request.
LEMMA SourceTurns ==
    ASSUME NEW r \in SourceRequests, r.stage # "failed"
    PROVE  /\ [kind |-> r.kind, stage |-> "failed"] \in SourceRequests
           /\ r.kind # "list" =>
                  /\ [r EXCEPT !.stage = "ok"] \in SourceRequests
                  /\ [r EXCEPT !.stage = "ok"].kind = r.kind
                  /\ [r EXCEPT !.stage = "ok"].stage = "ok"
                  /\ [r EXCEPT !.stage = "ok"].owner = r.owner
           /\ r.kind \in {"update", "toggle"} =>
                  [r EXCEPT !.stage = "found"] =
                      [kind |-> r.kind, stage |-> "found", owner |-> r.owner, id |-> r.id,
                       form |-> r.form, mount |-> r.mount, fresh |-> r.fresh,
                       touched |-> r.touched]
  <1>1. [kind |-> r.kind, stage |-> "failed"] \in SourceRequests
    BY SourceShapes DEF SourceRequests
  <1>2. ASSUME r.kind = "create"
        PROVE  [r EXCEPT !.stage = "ok"] = [kind |-> "create", stage |-> "ok",
                    owner |-> r.owner, form |-> r.form, mount |-> r.mount]
    BY <1>2, SourceShapes
  <1>3. ASSUME r.kind \in {"update", "toggle"}
        PROVE  [r EXCEPT !.stage = "ok"] = [kind |-> r.kind, stage |-> "ok",
                    owner |-> r.owner, id |-> r.id, form |-> r.form, mount |-> r.mount,
                    fresh |-> r.fresh, touched |-> r.touched]
    BY <1>3, SourceShapes
  <1>4. ASSUME r.kind \in {"delete", "sync"}
        PROVE  [r EXCEPT !.stage = "ok"] = [kind |-> r.kind, stage |-> "ok",
                    owner |-> r.owner, id |-> r.id]
    BY <1>4, SourceShapes
  <1> DEFINE new == [r EXCEPT !.stage = "ok"]
  <1>5. r.kind # "list" => new \in SourceRequests /\ new.kind = r.kind /\ new.stage = "ok"
                           /\ new.owner = r.owner
    <2>1. r.kind \in {"create", "update", "toggle", "delete", "sync", "list"}
      BY SourceShapes DEF Sources!Changes
    <2> HIDE DEF new
    <2>2. r.kind = "create" => new = [kind |-> "create", stage |-> "ok",
                    owner |-> r.owner, form |-> r.form, mount |-> r.mount]
      BY <1>2 DEF new
    <2>3. r.kind \in {"update", "toggle"} => new = [kind |-> r.kind, stage |-> "ok",
                    owner |-> r.owner, id |-> r.id, form |-> r.form, mount |-> r.mount,
                    fresh |-> r.fresh, touched |-> r.touched]
      BY <1>3 DEF new
    <2>4. r.kind \in {"delete", "sync"} => new = [kind |-> r.kind, stage |-> "ok",
                    owner |-> r.owner, id |-> r.id]
      BY <1>4 DEF new
    <2>5. CASE r.kind = "create"
      BY <2>2, <2>5, SourceShapes DEF SourceRequests
    <2>6. CASE r.kind \in {"update", "toggle"}
      BY <2>3, <2>6, SourceShapes DEF SourceRequests
    <2>7. CASE r.kind \in {"delete", "sync"}
      BY <2>4, <2>7, SourceShapes DEF SourceRequests
    <2> QED BY <2>1, <2>5, <2>6, <2>7
  <1>6. r.kind \in {"update", "toggle"} =>
            [r EXCEPT !.stage = "found"] =
                [kind |-> r.kind, stage |-> "found", owner |-> r.owner, id |-> r.id,
                 form |-> r.form, mount |-> r.mount, fresh |-> r.fresh,
                 touched |-> r.touched]
    BY SourceShapes
  <1> QED BY <1>1, <1>5, <1>6

\* Answers, and requests of other kinds, leave the writes that are alone alone.
LEMMA SourceWritesTurn ==
    ASSUME SourceWritesAreFresh, NEW r \in DOMAIN net, NEW new, new # r,
           new.stage \in {"ok", "failed"} \/ new.kind \notin Sources!RowWrites,
           net' = Sources!Turn(r, new)
    PROVE  /\ SourceWrites' \subseteq SourceWrites /\ SourceSaves' \subseteq SourceSaves
           /\ \A q \in SourceWrites' : q.id \notin hist.raced => q # r /\ net'[q] = net[q]
  <1>1. \A q \in DOMAIN net' : q # new =>
            q \in DOMAIN net /\ (q # r => net'[q] = net[q]) /\ (q = r => net[r] # 1)
    BY TurnCounts
  <1>2. new \notin SourceWrites'
    BY DEF SourceWrites
  <1>3. SourceWrites' \subseteq SourceWrites /\ SourceSaves' \subseteq SourceSaves
    BY <1>1, <1>2 DEF SourceWrites, SourceSaves
  <1>4. \A q \in SourceWrites' : q \in DOMAIN net' /\ q # new
    BY <1>2 DEF SourceWrites
  <1> QED BY <1>1, <1>3, <1>4 DEF SourceWritesAreFresh, SourceIsAlone

LEMMA SourceWritesDone ==
    ASSUME SourceWritesAreFresh, NEW r \in DOMAIN net, net' = Sources!Done(r)
    PROVE  /\ SourceWrites' \subseteq SourceWrites /\ SourceSaves' \subseteq SourceSaves
           /\ \A q \in SourceWrites' : q.id \notin hist.raced => net'[q] = net[q]
  <1>1. \A q \in DOMAIN net' :
            q \in DOMAIN net /\ (q # r => net'[q] = net[q]) /\ (q = r => net[r] # 1)
    BY DoneCounts
  <1>2. /\ SourceWrites' \subseteq SourceWrites /\ SourceSaves' \subseteq SourceSaves
        /\ \A q \in SourceWrites' : q \in DOMAIN net'
    BY <1>1 DEF SourceWrites, SourceSaves
  <1> QED BY <1>1, <1>2 DEF SourceWritesAreFresh, SourceIsAlone

LEMMA SourceWritesStay ==
    ASSUME SourceWritesAreFresh, server' = server, SourceWrites' \subseteq SourceWrites,
           \A q \in SourceWrites' : q.id \notin hist.raced => net'[q] = net[q],
           hist'.raced = hist.raced
    PROVE  SourceWritesAreFresh'
  BY DEF SourceWritesAreFresh, SourceIsAlone, SourceKeeps, Sources!Live

LEMMA SourceWritesOf ==
    ASSUME NEW i, Sources!Writes(i) = {}
    PROVE  \A r \in SourceWrites : r.id # i
  BY DEF Sources!Writes, SourceWrites, Sources!Unsaved, Sources!In, Sources!InFlight,
         Sources!BagToSet

LEMMA SourcesInit == Sources!Init => SourcesInv
  <1> SUFFICES ASSUME Sources!Init PROVE SourcesInv
    OBVIOUS
  <1>1. DOMAIN net = {}
    BY DEF Sources!Init, Sources!EmptyBag, Sources!SetToBag
  <1>2. /\ hist = [loads |-> 0, shown |-> 0, chosen |-> Nobody, calm |-> TRUE,
                   fresh |-> FALSE, touched |-> {}, raced |-> {}, commands |-> 0]
        /\ view = [selected |-> Nobody, rows |-> {}, known |-> [o \in Owner |-> Sources!Rows(o)],
                   mount |-> 0, creating |-> FALSE, editing |-> Sources!NoRow,
                   form |-> Sources!EmptyForm]
    BY DEF Sources!Init
  <1>3. server \in [Sources!Id -> SourceRecords]
    BY TextAssumption DEF Sources!Init, SourceRecords
  <1>4. \A o \in Owner : /\ Sources!Rows(o) \subseteq SourceRows
                         /\ \A row \in Sources!Rows(o) : SourceIsStored(row.id)
    BY <1>3 DEF Sources!Rows, Sources!Row, Sources!Live, SourceRows, SourceRecords,
                SourceIsStored
  <1>5. Sources!EmptyForm \in SourceForms
    BY DEF Sources!EmptyForm, SourceForms
  <1>6. SourcesTypes
    <2>1. [o \in Owner |-> Sources!Rows(o)] \in [Owner -> SUBSET SourceRows]
      BY <1>4
    <2>2. view \in SourceViews /\ hist \in SourceHists
      BY <1>2, <1>5, <2>1 DEF SourceViews, SourceHists
    <2> QED BY <1>1, <1>2, <1>3, <2>2 DEF SourcesTypes
  <1>7. SourcesCalm /\ SourcesListed
    BY <1>1, <1>2 DEF SourcesCalm, SourcesListed, Sources!Open
  <1>8. SourcesKnown /\ SourcesFresh
    BY <1>1, <1>2, <1>4 DEF SourcesKnown, SourcesFresh, SourceFormIsFresh, SourceWritesAreFresh,
                               SourceWrites, SourceSaves
  <1> QED BY <1>6, <1>7, <1>8 DEF SourcesInv

LEMMA SourcesServe ==
    ASSUME SourcesInv, NEW r \in DOMAIN net, Sources!Serve(r)
    PROVE  SourcesInv'
  <1> USE DEF SourcesInv
  <1>0. r \in SourceRequests /\ r.stage \in {"sent", "found"} /\ view' = view /\ hist' = hist
    BY DEF Sources!Serve, SourcesTypes
  <1>1. CASE Sources!ListEndpointDataSources(r)
    <2> DEFINE new == [kind |-> "list", stage |-> "ok", n |-> r.n, owner |-> r.owner,
                       rows |-> Sources!Rows(r.owner)]
    <2>1. Turned(r, new) /\ server' = server /\ r.kind = "list"
      BY <1>1, TurnIsTurned DEF Sources!ListEndpointDataSources
    <2>2. Sources!Rows(r.owner) \in SUBSET SourceRows
      BY DEF Sources!Rows, Sources!Row, Sources!Live, SourcesTypes, SourceRows, SourceRecords
    <2>3. \A row \in Sources!Rows(r.owner) : SourceIsStored(row.id)
      BY DEF Sources!Rows, Sources!Row, Sources!Live, SourceIsStored
    <2>4. new \in SourceRequests
      BY <1>0, <2>1, <2>2, SourceShapes DEF SourceRequests
    <2>5. new.kind = "list" /\ new.stage = "ok" /\ new.n = r.n /\ new.owner = r.owner
          /\ new.rows = Sources!Rows(r.owner)
      OBVIOUS
    <2>6. /\ \A o : Sources!Rows(o)' = Sources!Rows(o)
          /\ Sources!Live' = Sources!Live
      BY <2>1 DEF Sources!Rows, Sources!Row, Sources!Live
    <2> HIDE DEF new
    <2>7. SourcesTypes'
      BY <1>0, <2>1, <2>4 DEF SourcesTypes, Turned
    <2>8. SourcesCalm'
      BY <1>0, <2>1, <2>5 DEF SourcesCalm, Turned
    <2>9. SourcesListed'
      BY <1>0, <2>1, <2>5, <2>6 DEF SourcesListed, Turned, Sources!Changes, Sources!Open
    <2>10. net' = Sources!Turn(r, new)
      BY <1>1 DEF Sources!ListEndpointDataSources, new
    <2>13. /\ SourceWrites' \subseteq SourceWrites /\ SourceSaves' \subseteq SourceSaves
           /\ \A q \in SourceWrites' : q.id \notin hist.raced => net'[q] = net[q]
      BY <1>0, <2>5, <2>10, SourceWritesTurn DEF SourcesFresh
    <2>11. SourcesKnown'
      BY <1>0, <2>1, <2>3, <2>5, <2>13 DEF SourcesKnown, SourceIsStored, Turned
    <2>12. SourcesFresh'
      <3>1. SourceFormIsFresh'
        BY <1>0, <2>1, <2>5, <2>6, <2>13 DEF SourcesFresh, SourceFormIsFresh, SourceKeeps, Turned
      <3>2. SourceWritesAreFresh'
        BY <1>0, <2>1, <2>13, SourceWritesStay DEF SourcesFresh
      <3> QED BY <3>1, <3>2 DEF SourcesFresh
    <2> QED BY <2>7, <2>8, <2>9, <2>11, <2>12
  \* A change, which stays on its way until the dialog knows of it.
  <1>2. ASSUME NEW new \in SourceRequests, net' = Sources!Turn(r, new), new.kind = r.kind,
               r.kind # "list", new.stage \in {"ok", "failed"},
               new.stage = "ok" => new.owner = r.owner,
               server' \in [Sources!Id -> SourceRecords],
               \A i \in Sources!Id :
                   \/ server'[i] = server[i]
                   \/ server[i].status = "none"
                   \/ r.kind = "delete" /\ r.id = i /\ server'[i].status = "deleted"
                   \/ /\ r.kind \in {"update", "toggle"} /\ r.id = i
                      /\ server'[i].status = "live"
                      /\ i \in Sources!Live =>
                             \A f \in Sources!Fields : server'[i][f] = r.form[f],
               r.kind \in {"update", "toggle"} =>
                   r.stage = "found" \/ server' = server
        PROVE  SourcesInv'
    <2>0. /\ Turned(r, new) /\ new # r
          /\ \A i \in Sources!Id : SourceIsStored(i) => server'[i].status # "none"
      BY <1>0, <1>2, TurnIsTurned DEF SourceIsStored
    <2>1. SourcesTypes'
      BY <1>0, <1>2, <2>0 DEF SourcesTypes, Turned
    <2>2. SourcesCalm'
      BY <1>0, <1>2, <2>0 DEF SourcesCalm, Turned
    <2>3. r.kind \in Sources!Changes
      BY <1>0, <1>2, SourceShapes
    <2>4. SourcesListed'
      BY <1>0, <1>2, <2>0, <2>3 DEF SourcesListed, Turned
    <2>5. /\ SourceWrites' \subseteq SourceWrites /\ SourceSaves' \subseteq SourceSaves
          /\ \A q \in SourceWrites' : q.id \notin hist.raced => q # r /\ net'[q] = net[q]
      BY <1>2, <2>0, SourceWritesTurn DEF SourcesFresh
    <2>6. SourcesKnown'
      <3>1. \A row \in SourceRows : row.id \in Sources!Id
        BY DEF SourceRows
      <3>2. /\ view.rows \subseteq SourceRows
            /\ \A o \in Owner : view.known[o] \subseteq SourceRows
            /\ view.editing # Sources!NoRow => view.editing \in SourceRows
        BY DEF SourcesTypes, SourceViews
      <3>3. \A q \in SourceSaves : q.id \in Sources!Id
        BY SourceShapes DEF SourceSaves, SourceWrites, SourcesTypes, Sources!RowWrites
      <3>4. \A q \in DOMAIN net : q.kind = "list" /\ q.stage = "ok" => q.rows \subseteq SourceRows
        BY SourceShapes DEF SourcesTypes
      <3>5. \A i \in Sources!Id : SourceIsStored(i) => SourceIsStored(i)'
        BY <2>0 DEF SourceIsStored
      <3>6. \A q \in DOMAIN net' : q.kind = "list" => q \in DOMAIN net
        BY <1>2, <2>0 DEF Turned
      <3> QED BY <1>0, <2>5, <3>1, <3>2, <3>3, <3>4, <3>5, <3>6 DEF SourcesKnown
    <2>7. r.kind \in Sources!RowWrites => r \in SourceWrites
      BY <1>0 DEF SourceWrites
    <2>8. r.kind \in {"update", "toggle"} => r \in SourceSaves
      BY <2>7 DEF SourceSaves, Sources!RowWrites
    <2>9. SourceFormIsFresh'
      <3>1. ASSUME hist.fresh, view.editing # Sources!NoRow, view.editing.id \notin hist.raced
            PROVE  /\ SourceKeeps(view.form, view.editing.id, hist.touched)'
                   /\ \A q \in DOMAIN net' : q.kind = "create" => q.stage = "failed"
                   /\ \A q \in SourceSaves' : q.id = view.editing.id =>
                          \A f \in Sources!Fields \ hist.touched : q.form[f] = view.form[f]
        <4>1. view.editing.id \in Sources!Id /\ SourceIsStored(view.editing.id)
          BY <3>1 DEF SourcesTypes, SourceViews, SourcesKnown, SourceRows
        <4>2. r.kind \in {"update", "toggle"} /\ r.id = view.editing.id =>
                  \A f \in Sources!Fields \ hist.touched : r.form[f] = view.form[f]
          BY <2>8, <3>1 DEF SourcesFresh, SourceFormIsFresh
        <4>3. r.kind \in {"update", "toggle"} /\ r.id = view.editing.id =>
                  r.id \in Sources!Live \/ server' = server
          BY <1>2, <2>7, <3>1 DEF SourcesFresh, SourceWritesAreFresh, Sources!RowWrites
        <4>4. \/ server'[view.editing.id] = server[view.editing.id]
              \/ server'[view.editing.id].status = "deleted"
              \/ \A f \in Sources!Fields \ hist.touched :
                     server'[view.editing.id][f] = view.form[f]
          BY <1>2, <4>1, <4>2, <4>3 DEF SourceIsStored
        <4>5. SourceKeeps(view.form, view.editing.id, hist.touched)'
          BY <1>0, <3>1, <4>1, <4>4
             DEF SourcesFresh, SourceFormIsFresh, SourceKeeps, Sources!Live
        <4>6. r.kind # "create"
          BY <1>0, <3>1 DEF SourcesFresh, SourceFormIsFresh
        <4> QED BY <1>2, <2>0, <2>5, <3>1, <4>5, <4>6
                DEF SourcesFresh, SourceFormIsFresh, Turned
      <3> QED BY <1>0, <3>1 DEF SourceFormIsFresh
    <2>10. ASSUME NEW q \in SourceWrites', q.id \notin hist.raced
           PROVE  /\ SourceIsAlone(q)'
                  /\ q.stage = "found" => q.id \in Sources!Live'
                  /\ q.kind # "delete" /\ q.fresh => SourceKeeps(q.form, q.id, q.touched)'
      <3>1. q \in SourceWrites /\ q # r /\ net'[q] = net[q]
        BY <2>5, <2>10
      <3>2. SourceIsAlone(q)'
        BY <2>5, <2>10, <3>1 DEF SourcesFresh, SourceWritesAreFresh, SourceIsAlone
      <3>3. r.kind \in Sources!RowWrites => r.id # q.id
        BY <2>7, <2>10, <3>1 DEF SourcesFresh, SourceWritesAreFresh, SourceIsAlone
      <3>4. q.kind \in Sources!RowWrites /\ q.kind # "list"
            /\ (q.stage = "found" => q.kind # "delete")
        BY <3>1, SourceShapes DEF SourceWrites, SourcesTypes, Sources!RowWrites
      <3>5. q.kind # "delete" => q.id \in Sources!Id /\ SourceIsStored(q.id)
        <4>1. q.kind # "delete" => q \in SourceSaves
          BY <3>1 DEF SourceSaves
        <4>2. q.kind # "delete" => q.id \in Sources!Id
          BY <3>1, <3>4, SourceShapes DEF SourceWrites, SourcesTypes, Sources!RowWrites
        <4> QED BY <4>1, <4>2 DEF SourcesKnown
      <3>6. q.kind # "delete" => server'[q.id] = server[q.id]
        BY <1>2, <3>3, <3>5 DEF SourceIsStored, Sources!RowWrites
      <3>7. q.kind # "delete" => (q.id \in Sources!Live' <=> q.id \in Sources!Live)
        BY <3>6 DEF Sources!Live
      <3> QED BY <2>10, <3>1, <3>2, <3>4, <3>6, <3>7
              DEF SourcesFresh, SourceWritesAreFresh, SourceKeeps
    <2>11. SourcesFresh'
      BY <1>0, <2>9, <2>10 DEF SourcesFresh, SourceWritesAreFresh
    <2> QED BY <2>1, <2>2, <2>4, <2>6, <2>11
  <1>3. ASSUME Sources!CreateEndpointDataSource(r) \/ Sources!RemoveSource(r)
               \/ Sources!SyncSource(r) \/ Sources!NotFound(r)
        PROVE  r.kind # "list"
    BY <1>3 DEF Sources!CreateEndpointDataSource, Sources!RemoveSource, Sources!SyncSource, Sources!NotFound, Sources!RowWrites
  <1>4. ASSUME net' = Sources!Succeeded(r), r.kind # "list"
        PROVE  \E new \in SourceRequests :
                   /\ net' = Sources!Turn(r, new) /\ new.kind = r.kind /\ new.stage = "ok"
                   /\ new.owner = r.owner
    BY <1>0, <1>4, SourceTurns DEF Sources!Succeeded
  <1>5. ASSUME net' = Sources!Failed(r)
        PROVE  \E new \in SourceRequests :
                   net' = Sources!Turn(r, new) /\ new.kind = r.kind /\ new.stage = "failed"
    BY <1>0, <1>5, SourceTurns DEF Sources!Failed
  <1>6. CASE Sources!SyncSource(r)
    BY <1>2, <1>3, <1>4, <1>6 DEF Sources!SyncSource, SourcesTypes, SourceIsStored
  <1>7. CASE Sources!NotFound(r)
    BY <1>2, <1>3, <1>5, <1>7 DEF Sources!NotFound, SourcesTypes, SourceIsStored
  <1>8. CASE Sources!CreateEndpointDataSource(r)
    <2>1. PICK i \in Sources!Id :
              /\ server[i].status = "none"
              /\ server' = [server EXCEPT ![i] =
                     [status |-> "live", owner |-> r.owner, text |-> r.form.text,
                      body |-> r.form.body, active |-> TRUE]]
      BY <1>8 DEF Sources!CreateEndpointDataSource
    <2>2. r.kind = "create" /\ r.form \in SourceForms /\ r.owner \in Owner
      BY <1>0, <1>8, SourceShapes DEF Sources!CreateEndpointDataSource
    <2>3. server' \in [Sources!Id -> SourceRecords]
      BY <2>1, <2>2 DEF SourcesTypes, SourceRecords, SourceForms
    <2>4. \A j \in Sources!Id : j # i => server'[j] = server[j]
      BY <2>1 DEF SourcesTypes
    <2> QED BY <1>2, <1>4, <1>8, <2>1, <2>2, <2>3, <2>4
            DEF Sources!CreateEndpointDataSource, SourceIsStored
  <1>9. CASE Sources!SaveSource(r) /\ r.stage = "found"
    <2> DEFINE new == [status |-> "live", owner |-> server[r.id].owner, text |-> r.form.text,
                       body |-> r.form.body,
                       active |-> r.form.active \/ r.id \notin Sources!Live]
    <2>1. server' = [server EXCEPT ![r.id] = new] /\ net' = Sources!Succeeded(r)
      BY <1>9 DEF Sources!SaveSource
    <2>2. r.kind \in {"update", "toggle"} /\ r.id \in Sources!Id /\ r.form \in SourceForms
      BY <1>0, <1>9, SourceShapes
    <2>3. /\ new \in SourceRecords /\ new.status = "live"
          /\ r.id \in Sources!Live => \A f \in Sources!Fields : new[f] = r.form[f]
      BY <2>2 DEF SourcesTypes, SourceRecords, SourceForms, Sources!Fields
    <2> HIDE DEF new
    <2>4. /\ server' \in [Sources!Id -> SourceRecords] /\ server'[r.id] = new
          /\ \A j \in Sources!Id : j # r.id => server'[j] = server[j]
      BY <2>1, <2>2, <2>3 DEF SourcesTypes
    <2> QED BY <1>2, <1>4, <1>9, <2>1, <2>2, <2>3, <2>4
  <1>10. CASE Sources!RemoveSource(r)
    <2>1. server' = [server EXCEPT ![r.id].status = "deleted"] /\ net' = Sources!Succeeded(r)
          /\ r.kind = "delete" /\ r.id \in Sources!Id
      BY <1>10 DEF Sources!RemoveSource, Sources!Live
    <2>2. /\ server' \in [Sources!Id -> SourceRecords] /\ server'[r.id].status = "deleted"
          /\ \A j \in Sources!Id : j # r.id => server'[j] = server[j]
      BY <2>1 DEF SourcesTypes, SourceRecords
    <2> QED BY <1>2, <1>4, <2>1, <2>2 DEF SourceIsStored
  <1>11. CASE Sources!FindSource(r) /\ r.stage = "sent"
    <2> DEFINE new == [kind |-> r.kind, stage |-> "found", owner |-> r.owner, id |-> r.id,
                       form |-> r.form, mount |-> r.mount, fresh |-> r.fresh,
                       touched |-> r.touched]
    <2>1. server' = server /\ r.kind \in {"update", "toggle"} /\ r.id \in Sources!Live
      BY <1>11 DEF Sources!FindSource
    <2>2. net' = Sources!Turn(r, new)
      BY <1>0, <1>11, <2>1, SourceTurns DEF Sources!FindSource, Sources!Found
    <2>3. new \in SourceRequests
      BY <1>0, <1>11, <2>1, SourceShapes DEF SourceRequests
    <2>4. /\ new.kind = r.kind /\ new.stage = "found" /\ new.owner = r.owner /\ new.id = r.id
          /\ new.form = r.form /\ new.fresh = r.fresh /\ new.touched = r.touched
      OBVIOUS
    <2> HIDE DEF new
    <2>5. Turned(r, new) /\ new # r
      BY <1>11, <2>2, <2>4, TurnIsTurned
    <2>6. /\ \A o : Sources!Rows(o)' = Sources!Rows(o)
          /\ Sources!Live' = Sources!Live /\ \A i : SourceIsStored(i)' = SourceIsStored(i)
      BY <2>1 DEF Sources!Rows, Sources!Row, Sources!Live, SourceIsStored
    <2>7. SourcesTypes'
      BY <1>0, <2>1, <2>3, <2>5 DEF SourcesTypes, Turned
    <2>8. SourcesCalm'
      BY <1>0, <1>11, <2>4, <2>5 DEF SourcesCalm, Turned
    <2>9. SourcesListed'
      BY <1>0, <2>1, <2>4, <2>5, <2>6 DEF SourcesListed, Turned, Sources!Changes, Sources!Open
    <2>10. r \in SourceWrites /\ r \in SourceSaves
      BY <1>11, <2>1 DEF SourceWrites, SourceSaves, Sources!RowWrites
    <2>11. SourceWrites' \subseteq SourceWrites \cup {new}
           /\ SourceSaves' \subseteq SourceSaves \cup {new}
      BY <2>5 DEF SourceWrites, SourceSaves, Turned
    <2>12. new \in DOMAIN net => new \in SourceWrites
      BY <2>1, <2>4 DEF SourceWrites, Sources!RowWrites
    <2>13. SourcesKnown'
      BY <1>0, <2>1, <2>4, <2>5, <2>6, <2>10, <2>11 DEF SourcesKnown, Turned
    <2>14. ASSUME r.id \notin hist.raced
           PROVE  r \notin DOMAIN net' /\ net'[new] = 1
      <3>1. net[r] = 1 /\ new \notin SourceWrites
        BY <2>4, <2>5, <2>10, <2>14 DEF SourcesFresh, SourceWritesAreFresh, SourceIsAlone
      <3> QED BY <2>2, <2>5, <2>12, <3>1, TurnCounts
    <2>15. ASSUME NEW q \in SourceWrites', q.id \notin hist.raced
           PROVE  /\ SourceIsAlone(q)'
                  /\ q.stage = "found" => q.id \in Sources!Live
                  /\ q.kind # "delete" /\ q.fresh => SourceKeeps(q.form, q.id, q.touched)
      <3>0. q \in DOMAIN net' /\ \A w \in SourceWrites' : w \in DOMAIN net'
        BY <2>15 DEF SourceWrites
      <3>1. CASE q = new
        <4>1. \A w \in SourceWrites' : w.id = q.id => w = new
          BY <2>4, <2>10, <2>11, <2>14, <2>15, <3>0, <3>1
             DEF SourcesFresh, SourceWritesAreFresh, SourceIsAlone
        <4>2. SourceIsAlone(q)'
          BY <2>4, <2>14, <2>15, <3>1, <4>1 DEF SourceIsAlone
        <4> QED BY <2>1, <2>4, <2>10, <2>15, <3>1, <4>2 DEF SourcesFresh, SourceWritesAreFresh
      <3>2. CASE q # new
        <4>1. q \in SourceWrites
          BY <2>11, <2>15, <3>2
        <4>2. q # r
          BY <2>14, <2>15, <3>0
        <4>3. q.id # r.id
          BY <2>10, <2>15, <4>1, <4>2 DEF SourcesFresh, SourceWritesAreFresh, SourceIsAlone
        <4>4. net'[q] = net[q]
          BY <2>2, <3>0, <3>2, <4>2, TurnCounts
        <4> QED BY <2>4, <2>11, <2>15, <4>1, <4>3, <4>4
                DEF SourcesFresh, SourceWritesAreFresh, SourceIsAlone
      <3> QED BY <3>1, <3>2
    <2>16. SourceWritesAreFresh'
      BY <1>0, <2>1, <2>6, <2>15 DEF SourceWritesAreFresh, SourceKeeps
    <2>17. SourceFormIsFresh'
      BY <1>0, <2>1, <2>4, <2>5, <2>6, <2>10, <2>11
         DEF SourcesFresh, SourceFormIsFresh, SourceKeeps, Turned
    <2> QED BY <2>7, <2>8, <2>9, <2>13, <2>16, <2>17 DEF SourcesFresh
  <1> QED BY <1>1, <1>6, <1>7, <1>8, <1>9, <1>10, <1>11 DEF Sources!Serve

LEMMA SourcesShows ==
    ASSUME view \in SourceViews, NEW owner \in Owner, NEW list \in SUBSET SourceRows
    PROVE  /\ Sources!Shows(view, owner, list) \in SourceViews
           /\ Sources!Shows(view, owner, list).selected = owner
           /\ Sources!Shows(view, owner, list).rows = list
           /\ Sources!Shows(view, owner, list).known = view.known
           /\ \/ /\ Sources!Shows(view, owner, list).editing = view.editing
                 /\ Sources!Shows(view, owner, list).form = view.form
                 /\ Sources!Shows(view, owner, list).creating = view.creating
              \/ /\ Sources!Shows(view, owner, list).editing = Sources!NoRow
                 /\ ~Sources!Shows(view, owner, list).creating
  <1>1. Sources!EmptyForm \in SourceForms
    BY DEF Sources!EmptyForm, SourceForms
  <1>2. CASE view.selected # Nobody
    <2>1. Sources!Shows(view, owner, list) =
              [selected |-> owner, rows |-> list, known |-> view.known, mount |-> view.mount,
               creating |-> view.creating, editing |-> view.editing, form |-> view.form]
      BY <1>2 DEF Sources!Shows, SourceViews
    <2> QED BY <2>1 DEF SourceViews
  <1>3. CASE view.selected = Nobody
    <2>1. Sources!Shows(view, owner, list) =
              [selected |-> owner, rows |-> list, known |-> view.known,
               mount |-> view.mount + 1, creating |-> FALSE, editing |-> Sources!NoRow,
               form |-> Sources!EmptyForm]
      BY <1>3 DEF Sources!Shows, SourceViews
    <2> QED BY <1>1, <2>1 DEF SourceViews
  <1> QED BY <1>2, <1>3

LEMMA SourcesReceive ==
    ASSUME SourcesInv, NEW r \in DOMAIN net, Sources!Receive(r) \/ Sources!Fails(r)
    PROVE  SourcesInv'
  <1> USE DEF SourcesInv
  <1>0. r \in SourceRequests /\ server' = server
    BY DEF Sources!Receive, Sources!Fails, SourcesTypes
  <1>1. /\ \A o : Sources!Rows(o)' = Sources!Rows(o)
        /\ Sources!Live' = Sources!Live
        /\ \A i : SourceIsStored(i)' = SourceIsStored(i)
    BY <1>0 DEF Sources!Rows, Sources!Row, Sources!Live, SourceIsStored
  <1>2. CASE Sources!Fails(r)
    <2> DEFINE new == [kind |-> r.kind, stage |-> "failed"]
    <2>1. Turned(r, new) /\ UNCHANGED <<view, hist>> /\ r.stage # "failed"
      BY <1>2, TurnIsTurned DEF Sources!Fails, Sources!Failed
    <2>2. new \in SourceRequests /\ new.kind = r.kind /\ new.stage = "failed"
      BY <1>0, <2>1, SourceTurns
    <2> HIDE DEF new
    <2>3. /\ SourceWrites' \subseteq SourceWrites /\ SourceSaves' \subseteq SourceSaves
          /\ \A q \in SourceWrites' : q.id \notin hist.raced => net'[q] = net[q]
      <3>1. net' = Sources!Turn(r, new)
        BY <1>2 DEF Sources!Fails, Sources!Failed, new
      <3> QED BY <2>1, <2>2, <3>1, SourceWritesTurn DEF SourcesFresh
    <2>4. SourcesTypes'
      BY <1>0, <2>1, <2>2 DEF SourcesTypes, Turned
    <2>5. SourcesCalm'
      BY <2>1, <2>2 DEF SourcesCalm, Turned
    <2>6. SourcesListed'
      BY <1>1, <2>1, <2>2 DEF SourcesListed, Turned, Sources!Open
    <2>7. SourcesKnown'
      BY <1>1, <2>1, <2>2, <2>3 DEF SourcesKnown, Turned
    <2>8. SourcesFresh'
      <3>1. SourceFormIsFresh'
        BY <1>0, <1>1, <2>1, <2>2, <2>3 DEF SourcesFresh, SourceFormIsFresh, SourceKeeps, Turned
      <3> QED BY <1>0, <2>1, <2>3, <3>1, SourceWritesStay DEF SourcesFresh
    <2> QED BY <2>4, <2>5, <2>6, <2>7, <2>8
  <1>3. CASE Sources!LoadEndpointDataSources(r) /\ Sources!Receive(r)
    <2>1. net' = Sources!Done(r) /\ r.kind = "list" /\ r.stage \in {"ok", "failed"}
      BY <1>3 DEF Sources!LoadEndpointDataSources, Sources!Receive
    <2>2. DOMAIN net' \subseteq DOMAIN net /\ DOMAIN net \ {r} \subseteq DOMAIN net'
      BY <2>1, DoneRemoves
    <2>5. /\ SourceWrites' \subseteq SourceWrites /\ SourceSaves' \subseteq SourceSaves
          /\ \A q \in SourceWrites' : q.id \notin hist.raced => net'[q] = net[q]
      BY <2>1, SourceWritesDone DEF SourcesFresh
    <2>3. CASE r.stage = "failed"
      <3>1. UNCHANGED <<view, hist>>
        BY <1>3, <2>3 DEF Sources!LoadEndpointDataSources
      <3>2. SourceWritesAreFresh'
        BY <1>0, <2>5, <3>1, SourceWritesStay DEF SourcesFresh
      <3>3. SourcesTypes' /\ SourcesCalm'
        BY <1>0, <2>2, <3>1 DEF SourcesTypes, SourcesCalm
      <3>4. SourcesListed'
        BY <1>1, <2>1, <2>2, <3>1 DEF SourcesListed, Sources!Changes, Sources!Open
      <3>5. SourcesKnown' /\ SourcesFresh'
        BY <1>0, <1>1, <2>2, <2>5, <3>1, <3>2
           DEF SourcesKnown, SourcesFresh, SourceFormIsFresh, SourceKeeps
      <3> QED BY <3>3, <3>4, <3>5
    <2>4. CASE r.stage = "ok"
      <3>1. r.n \in Nat /\ r.rows \in SUBSET SourceRows /\ r.owner \in Owner
        BY <1>0, <2>1, <2>4, SourceShapes
      <3> DEFINE v == Sources!Shows(view, r.owner, r.rows)
      <3>2. /\ v \in SourceViews /\ v.selected = r.owner /\ v.rows = r.rows
            /\ v.known = view.known
            /\ \/ v.editing = view.editing /\ v.form = view.form /\ v.creating = view.creating
               \/ v.editing = Sources!NoRow /\ ~v.creating
        BY <3>1, SourcesShows DEF SourcesTypes
      <3>3. /\ view' = [v EXCEPT !.known[r.owner] = r.rows]
            /\ hist' = [hist EXCEPT !.shown = r.n]
        BY <1>3, <2>4 DEF Sources!LoadEndpointDataSources
      <3> HIDE DEF v
      <3>4. /\ view' \in SourceViews /\ view'.selected = r.owner /\ view'.rows = r.rows
            /\ view'.known = [view.known EXCEPT ![r.owner] = r.rows]
            /\ view'.editing = v.editing /\ view'.form = v.form /\ view'.creating = v.creating
        BY <3>1, <3>2, <3>3 DEF SourceViews
      <3>5. /\ hist' \in SourceHists /\ hist'.loads = hist.loads /\ hist'.shown = r.n
            /\ hist'.calm = hist.calm /\ hist'.chosen = hist.chosen
            /\ hist'.fresh = hist.fresh /\ hist'.touched = hist.touched
            /\ hist'.raced = hist.raced
        BY <3>1, <3>3 DEF SourcesTypes, SourceHists
      <3>6. SourceWritesAreFresh'
        BY <1>0, <2>5, <3>5, SourceWritesStay DEF SourcesFresh
      <3>7. SourcesTypes'
        BY <1>0, <2>2, <3>2, <3>4, <3>5 DEF SourcesTypes
      <3>8. SourcesCalm'
        BY <2>2, <2>4, <3>4, <3>5 DEF SourcesCalm
      <3>9. SourcesListed'
        BY <1>1, <2>1, <2>2, <2>4, <3>4, <3>5 DEF SourcesListed, Sources!Changes, Sources!Open
      <3>10. SourcesKnown'
        <4>1. \A o \in Owner : view'.known[o] \in {view.known[o], r.rows}
          BY <3>4 DEF SourcesTypes, SourceViews
        <4>2. \A row \in r.rows : SourceIsStored(row.id)
          BY <2>1, <2>4 DEF SourcesKnown
        <4> QED BY <1>1, <2>2, <2>5, <3>2, <3>4, <4>1, <4>2 DEF SourcesKnown
      <3>11. SourcesFresh'
        BY <1>0, <1>1, <2>2, <2>5, <3>2, <3>4, <3>5, <3>6
           DEF SourcesFresh, SourceFormIsFresh, SourceKeeps
      <3> QED BY <3>7, <3>8, <3>9, <3>10, <3>11
    <2> QED BY <2>1, <2>3, <2>4
  <1>4. CASE Sources!Changed(r)
    <2>1. /\ r.kind \in Sources!Changes
          /\ hist' = [loads |-> hist.loads + 1, shown |-> hist.shown, chosen |-> hist.chosen,
                      calm |-> hist.calm, fresh |-> hist.fresh, touched |-> hist.touched,
                      raced |-> hist.raced, commands |-> hist.commands]
      BY <1>4 DEF Sources!Changed, Sources!Fresh, SourcesTypes, SourceHists
    <2>2. \/ view' = view
          \/ /\ view' \in SourceViews /\ view'.selected = view.selected
             /\ view'.rows = view.rows /\ view'.known = view.known
             /\ \/ r.kind = "create" /\ r.stage = "ok" /\ view'.editing = view.editing
                   /\ ~view'.creating
                \/ view'.editing = Sources!NoRow
      <3>1. Sources!EmptyForm \in SourceForms
        BY DEF Sources!EmptyForm, SourceForms
      <3>2. CASE r.kind = "create" /\ r.stage = "ok"
                 /\ view' = [view EXCEPT !.form = Sources!EmptyForm, !.creating = FALSE]
        BY <3>1, <3>2 DEF SourcesTypes, SourceViews
      <3>3. CASE view' = [view EXCEPT !.form = Sources!EmptyForm, !.editing = Sources!NoRow]
        BY <3>1, <3>3 DEF SourcesTypes, SourceViews
      <3> QED BY <1>4, <3>2, <3>3 DEF Sources!Changed
    <2> DEFINE new == [kind |-> "list", stage |-> "sent", n |-> hist.loads + 1,
                       owner |-> r.owner]
    <2>3. \/ DOMAIN net' \subseteq DOMAIN net /\ DOMAIN net \ {r} \subseteq DOMAIN net'
          \/ Turned(r, new) /\ r.stage = "ok"
      <3>1. CASE net' = Sources!Turn(r, Sources!LoadOf(r.owner)) /\ r.stage = "ok"
        BY <3>1, TurnIsTurned DEF Sources!LoadOf
      <3>2. CASE net' = Sources!Done(r)
        BY <3>2, DoneRemoves
      <3> QED BY <1>4, <3>1, <3>2 DEF Sources!Changed
    <2>4. /\ r.stage = "ok" => new \in SourceRequests /\ new.owner = r.owner
          /\ new.kind = "list" /\ new.stage = "sent" /\ new.n = hist.loads + 1
      BY <1>0, SourceShapes DEF SourceRequests, SourcesTypes, SourceHists
    <2>5. \A q \in DOMAIN net : q.kind = "list" /\ q.stage # "failed" => q.n \in Nat
      BY SourceShapes DEF SourcesTypes
    <2> HIDE DEF new
    <2>6. hist.loads \in Nat /\ hist.shown \in Nat /\ hist.commands \in Nat
      BY DEF SourcesTypes, SourceHists
    <2>7. SourcesTypes'
      <3>1. hist' \in SourceHists
        BY <2>1, <2>6 DEF SourcesTypes, SourceHists
      <3>2. view' \in SourceViews /\ (view'.creating => view'.editing = Sources!NoRow)
        BY <2>2 DEF SourcesTypes
      <3> QED BY <1>0, <2>3, <2>4, <3>1, <3>2 DEF SourcesTypes, Turned
    <2>8. SourcesCalm'
      BY <2>1, <2>2, <2>3, <2>4 DEF SourcesCalm, Turned
    <2>9. SourcesListed'
      <3>1. hist'.shown < hist'.loads /\ hist'.loads = hist.loads + 1
        BY <2>1, <2>6 DEF SourcesListed
      <3>2. \A q \in DOMAIN net' : q.kind = "list" /\ q.stage # "failed" => q.n <= hist'.loads
        BY <2>3, <2>4, <2>5, <2>6, <3>1 DEF SourcesListed, Turned
      <3>3. \A q \in DOMAIN net' : q.kind = "list" /\ q.stage = "ok" => q.n # hist'.loads
        BY <2>3, <2>4, <2>5, <2>6, <3>1 DEF SourcesListed, Turned
      <3>4. hist'.shown # hist'.loads /\ hist'.shown <= hist'.loads
        BY <2>1, <2>6, <3>1
      <3> QED BY <3>2, <3>3, <3>4 DEF SourcesListed
    <2>10. /\ SourceWrites' \subseteq SourceWrites /\ SourceSaves' \subseteq SourceSaves
           /\ \A q \in SourceWrites' : q.id \notin hist.raced => net'[q] = net[q]
      <3>1. CASE net' = Sources!Turn(r, new)
        <4>1. new # r
          BY <2>1, <2>4 DEF Sources!Changes
        <4>2. new.kind \notin Sources!RowWrites
          BY <2>4 DEF Sources!RowWrites
        <4> QED BY <3>1, <4>1, <4>2, SourceWritesTurn DEF SourcesFresh
      <3>2. CASE net' = Sources!Done(r)
        BY <3>2, SourceWritesDone DEF SourcesFresh
      <3> QED BY <1>4, <3>1, <3>2 DEF Sources!Changed, Sources!LoadOf, new
    <2>11. SourcesKnown'
      BY <1>1, <2>2, <2>3, <2>4, <2>10 DEF SourcesKnown, Turned
    <2>12. SourcesFresh'
      <3>1. ASSUME hist'.fresh, view'.editing # Sources!NoRow,
                   view'.editing.id \notin hist'.raced
            PROVE  view' = view /\ hist.fresh
        BY <2>1, <2>2, <3>1 DEF SourcesFresh, SourceFormIsFresh
      <3>2. hist'.touched = hist.touched /\ hist'.raced = hist.raced
        BY <2>1
      <3>3. SourceFormIsFresh'
        BY <1>0, <1>1, <2>3, <2>4, <2>10, <3>1, <3>2
           DEF SourcesFresh, SourceFormIsFresh, SourceKeeps, Turned
      <3> QED BY <1>0, <2>10, <3>2, <3>3, SourceWritesStay DEF SourcesFresh
    <2> QED BY <2>7, <2>8, <2>9, <2>11, <2>12
  <1> QED BY <1>2, <1>3, <1>4 DEF Sources!Receive

LEMMA SourcesEdit == SourcesInv /\ Sources!Administrator => SourcesInv'
  <1> SUFFICES ASSUME SourcesInv, Sources!Administrator PROVE SourcesInv'
    OBVIOUS
  <1> USE DEF SourcesInv
  <1>0. server' = server
    BY DEF Sources!Administrator, Sources!HandleManageDataSources, Sources!OnClose,
           Sources!AddSource, Sources!CancelForm, Sources!CreateDataSource,
           Sources!UpdateDataSource, Sources!Type, Sources!StartEditDataSource,
           Sources!ToggleDataSourceActive, Sources!SyncDataSource, Sources!DeleteDataSource,
           Sources!Put
  <1>1. /\ \A o : Sources!Rows(o)' = Sources!Rows(o)
        /\ Sources!Live' = Sources!Live
        /\ \A i : SourceIsStored(i)' = SourceIsStored(i)
    BY <1>0 DEF Sources!Rows, Sources!Row, Sources!Live, SourceIsStored
  <1>2. Sources!EmptyForm \in SourceForms
    BY DEF Sources!EmptyForm, SourceForms
  \* The form changes, the dialog stays.
  <1>3. ASSUME UNCHANGED net,
               view' \in [selected : {view.selected}, rows : {view.rows}, known : {view.known},
                          mount : {view.mount}, creating : BOOLEAN,
                          editing : SourceRows \cup {Sources!NoRow}, form : SourceForms],
               view'.creating => view'.editing = Sources!NoRow,
               view'.editing \in view.rows \cup {view.editing, Sources!NoRow},
               hist' \in [loads : {hist.loads}, shown : {hist.shown}, chosen : {hist.chosen},
                          calm : {hist.calm}, fresh : BOOLEAN,
                          touched : SUBSET Sources!Fields, raced : {hist.raced},
                          commands : {hist.commands}],
               hist'.fresh /\ view'.editing # Sources!NoRow
                           /\ view'.editing.id \notin hist.raced =>
                   /\ SourceKeeps(view'.form, view'.editing.id, hist'.touched)
                   /\ \A r \in DOMAIN net : r.kind = "create" => r.stage = "failed"
                   /\ \A r \in SourceSaves : r.id = view'.editing.id =>
                          \A f \in Sources!Fields \ hist'.touched : r.form[f] = view'.form[f]
        PROVE  SourcesInv'
    <2>1. view' \in SourceViews /\ hist' \in SourceHists
      BY <1>3 DEF SourcesTypes, SourceViews, SourceHists
    <2>2. SourceWrites' = SourceWrites /\ SourceSaves' = SourceSaves /\ net' = net
          /\ hist'.raced = hist.raced
      BY <1>3 DEF SourceWrites, SourceSaves
    <2>3. SourcesTypes' /\ SourcesCalm'
      BY <1>0, <1>3, <2>1 DEF SourcesTypes, SourcesCalm
    <2>4. SourcesListed'
      BY <1>1, <1>3 DEF SourcesListed, Sources!Open
    <2>5. SourcesKnown'
      BY <1>1, <1>3, <2>2 DEF SourcesKnown
    <2>6. SourcesFresh'
      <3>1. SourceFormIsFresh'
        BY <1>0, <1>1, <1>3, <2>2 DEF SourceFormIsFresh, SourceKeeps
      <3> QED BY <1>0, <2>2, <3>1, SourceWritesStay DEF SourcesFresh
    <2> QED BY <2>3, <2>4, <2>5, <2>6
  <1>4. ASSUME NEW owner \in Owner, Sources!HandleManageDataSources(owner) PROVE SourcesInv'
    <2> DEFINE new == [kind |-> "list", stage |-> "sent", n |-> hist.loads + 1, owner |-> owner]
    <2>1. /\ view' = Sources!Shows(view, owner, view.known[owner])
          /\ net' = Sources!Send(new)
          /\ hist' = [loads |-> hist.loads + 1, shown |-> hist.shown, chosen |-> owner,
                      calm |-> \A r \in DOMAIN net : r.stage # "failed" => r.owner = owner,
                      fresh |-> FALSE, touched |-> {}, raced |-> hist.raced,
                      commands |-> hist.commands + 1]
      BY <1>4 DEF Sources!HandleManageDataSources, Sources!LoadOf, Sources!Chooses,
                  Sources!Fresh, Sources!Counted, Sources!InFlight, Sources!BagToSet,
                  SourcesTypes, SourceHists
    <2>2. DOMAIN net' = DOMAIN net \cup {new}
      BY <2>1, SendAdds
    <2>3. view.known[owner] \in SUBSET SourceRows
      BY DEF SourcesTypes, SourceViews
    <2>4. /\ view' \in SourceViews /\ view'.selected = owner /\ view'.rows = view.known[owner]
          /\ view'.known = view.known
          /\ \/ view'.editing = view.editing /\ view'.creating = view.creating
             \/ view'.editing = Sources!NoRow /\ ~view'.creating
      BY <2>1, <2>3, SourcesShows DEF SourcesTypes
    <2>5. hist.loads \in Nat /\ hist.shown \in Nat /\ hist.commands \in Nat
          /\ hist.raced \in SUBSET Sources!Id
      BY DEF SourcesTypes, SourceHists
    <2>6. new \in SourceRequests
      BY <2>5 DEF SourceRequests
    <2>7. new.kind = "list" /\ new.stage = "sent" /\ new.n = hist.loads + 1 /\ new.owner = owner
      OBVIOUS
    <2> HIDE DEF new
    <2>8. SourcesTypes'
      <3>1. hist' \in SourceHists
        BY <2>1, <2>5 DEF SourceHists
      <3> QED BY <1>0, <2>2, <2>4, <2>6, <3>1 DEF SourcesTypes
    <2>9. SourcesCalm'
      <3>1. hist'.chosen = owner
            /\ (hist'.calm => \A r \in DOMAIN net : r.stage # "failed" => r.owner = owner)
        BY <2>1
      <3> QED BY <2>2, <2>4, <2>7, <3>1 DEF SourcesCalm
    <2>10. SourcesListed'
      <3>1. hist'.shown # hist'.loads /\ hist'.shown <= hist'.loads
            /\ hist'.loads = hist.loads + 1
        BY <2>1, <2>5 DEF SourcesListed
      <3>2. \A q \in DOMAIN net : q.kind = "list" /\ q.stage # "failed" =>
                q.n \in Nat /\ q.n <= hist.loads
        BY SourceShapes DEF SourcesTypes, SourcesListed
      <3>3. \A q \in DOMAIN net' : q.kind = "list" /\ q.stage # "failed" =>
                q.n <= hist'.loads /\ (q.stage = "ok" => q.n # hist'.loads)
        BY <2>2, <2>5, <2>7, <3>1, <3>2
      <3> QED BY <3>1, <3>3 DEF SourcesListed
    <2>11. /\ SourceWrites' = SourceWrites /\ SourceSaves' = SourceSaves
           /\ \A q \in SourceWrites : net'[q] = net[q]
      BY <2>1, <2>2, <2>7, SendCounts DEF SourceWrites, SourceSaves, Sources!RowWrites
    <2>12. SourcesKnown'
      BY <1>1, <2>2, <2>4, <2>7, <2>11 DEF SourcesKnown
    <2>13. SourcesFresh'
      <3>1. ~hist'.fresh /\ hist'.raced = hist.raced
        BY <2>1
      <3>2. SourceFormIsFresh'
        BY <3>1 DEF SourceFormIsFresh
      <3> QED BY <1>0, <2>11, <3>1, <3>2, SourceWritesStay DEF SourcesFresh
    <2> QED BY <2>8, <2>9, <2>10, <2>12, <2>13
  <1>5. CASE Sources!OnClose
    <2>1. /\ view' = [selected |-> Nobody, rows |-> view.rows, known |-> view.known,
                      mount |-> view.mount, creating |-> FALSE, editing |-> Sources!NoRow,
                      form |-> Sources!EmptyForm]
          /\ hist' = [loads |-> hist.loads, shown |-> hist.shown, chosen |-> Nobody,
                      calm |-> \A r \in DOMAIN net : r.stage # "failed" => r.owner = Nobody,
                      fresh |-> FALSE, touched |-> {}, raced |-> hist.raced,
                      commands |-> hist.commands]
          /\ net' = net
      BY <1>5 DEF Sources!OnClose, Sources!Chooses, Sources!InFlight, Sources!BagToSet,
                  SourcesTypes, SourceHists, SourceViews
    <2>2. view' \in SourceViews /\ hist' \in SourceHists
      BY <1>2, <2>1 DEF SourceViews, SourceHists, SourcesTypes
    <2>3. SourceWrites' = SourceWrites /\ SourceSaves' = SourceSaves
      BY <2>1 DEF SourceWrites, SourceSaves
    <2>4. SourcesTypes' /\ SourcesCalm'
      BY <1>0, <2>1, <2>2 DEF SourcesTypes, SourcesCalm
    <2>5. SourcesListed'
      BY <1>1, <2>1 DEF SourcesListed, Sources!Open
    <2>6. SourcesKnown' /\ SourcesFresh'
      <3>1. SourcesKnown' /\ SourceFormIsFresh'
        BY <1>1, <2>1, <2>3 DEF SourcesKnown, SourceFormIsFresh
      <3> QED BY <1>0, <2>1, <2>3, <3>1, SourceWritesStay DEF SourcesFresh
    <2> QED BY <2>4, <2>5, <2>6
  <1>6. CASE Sources!AddSource
    <2>1. /\ view' \in [selected : {view.selected}, rows : {view.rows}, known : {view.known},
                        mount : {view.mount}, creating : {TRUE}, editing : {Sources!NoRow},
                        form : {Sources!EmptyForm}]
          /\ hist' \in [loads : {hist.loads}, shown : {hist.shown}, chosen : {hist.chosen},
                        calm : {hist.calm}, fresh : {FALSE}, touched : {{}},
                        raced : {hist.raced}, commands : {hist.commands}]
          /\ net' = net
      BY <1>6 DEF Sources!AddSource, SourcesTypes, SourceViews, SourceHists
    <2> QED BY <1>2, <1>3, <2>1
  <1>7. CASE Sources!CancelForm
    <2>1. /\ view' \in [selected : {view.selected}, rows : {view.rows}, known : {view.known},
                        mount : {view.mount}, creating : BOOLEAN, editing : {Sources!NoRow},
                        form : SourceForms]
          /\ hist' \in [loads : {hist.loads}, shown : {hist.shown}, chosen : {hist.chosen},
                        calm : {hist.calm}, fresh : {FALSE}, touched : {{}},
                        raced : {hist.raced}, commands : {hist.commands}]
          /\ net' = net
      BY <1>2, <1>7 DEF Sources!CancelForm, SourcesTypes, SourceViews, SourceHists
    <2> QED BY <1>3, <2>1
  <1>8. ASSUME NEW row \in view.rows, Sources!StartEditDataSource(row) PROVE SourcesInv'
    <2>1. row \in SourceRows
      BY DEF SourcesTypes, SourceViews
    <2>2. Sources!FormOf(row) \in SourceForms
      BY <2>1 DEF SourceRows, SourceForms, Sources!FormOf
    <2>3. /\ view' \in [selected : {view.selected}, rows : {view.rows}, known : {view.known},
                        mount : {view.mount}, creating : {FALSE}, editing : {row},
                        form : {Sources!FormOf(row)}]
          /\ hist' \in [loads : {hist.loads}, shown : {hist.shown}, chosen : {hist.chosen},
                        calm : {hist.calm}, fresh : {Sources!FreshRow(row)}, touched : {{}},
                        raced : {hist.raced}, commands : {hist.commands}]
          /\ net' = net
      BY <1>8 DEF Sources!StartEditDataSource, SourcesTypes, SourceViews, SourceHists
    <2>4. ASSUME Sources!FreshRow(row)
          PROVE  /\ SourceKeeps(Sources!FormOf(row), row.id, {})
                 /\ \A r \in DOMAIN net : r.kind # "create"
                 /\ \A r \in SourceSaves : r.id # row.id
      <3>1. SourceKeeps(Sources!FormOf(row), row.id, {})
            /\ \A r \in DOMAIN net : r.kind # "create"
        BY <2>4 DEF Sources!FreshRow, SourceKeeps, Sources!FormOf, Sources!Row, Sources!Fields,
                    Sources!InFlight, Sources!BagToSet, Sources!Saves
      <3>2. Sources!Writes(row.id) = {}
        BY <2>4 DEF Sources!FreshRow
      <3> QED BY <3>1, <3>2, SourceWritesOf DEF SourceSaves
    <2>5. Sources!FreshRow(row) \in BOOLEAN
      BY DEF Sources!FreshRow
    <2> QED BY <1>3, <2>1, <2>2, <2>3, <2>4, <2>5
  <1>9. ASSUME NEW form \in [text : OneText, body : Body \cup {NoLinks}, active : BOOLEAN],
               Sources!Type(form)
        PROVE  SourcesInv'
    <2> DEFINE changed == {f \in Sources!Fields : form[f] # view.form[f]}
    <2>1. /\ view' \in [selected : {view.selected}, rows : {view.rows}, known : {view.known},
                        mount : {view.mount}, creating : {view.creating},
                        editing : {view.editing}, form : {form}]
          /\ hist' \in [loads : {hist.loads}, shown : {hist.shown}, chosen : {hist.chosen},
                        calm : {hist.calm}, fresh : {hist.fresh},
                        touched : {hist.touched \cup changed},
                        raced : {hist.raced}, commands : {hist.commands}]
          /\ net' = net
      BY <1>9 DEF Sources!Type, SourcesTypes, SourceViews, SourceHists
    <2>2. form \in SourceForms
      BY DEF SourceForms
    <2>3. /\ hist.fresh \in BOOLEAN /\ hist.touched \cup changed \in SUBSET Sources!Fields
          /\ view.creating \in BOOLEAN /\ (view.creating => view.editing = Sources!NoRow)
          /\ view.editing \in SourceRows \cup {Sources!NoRow}
      BY DEF SourcesTypes, SourceHists, SourceViews
    <2>4. \A f \in Sources!Fields \ (hist.touched \cup changed) :
              f \in Sources!Fields \ hist.touched /\ form[f] = view.form[f]
      OBVIOUS
    <2> HIDE DEF changed
    <2>5. hist.fresh /\ view.editing # Sources!NoRow /\ view.editing.id \notin hist.raced =>
              /\ SourceKeeps(form, view.editing.id, hist.touched \cup changed)
              /\ \A r \in DOMAIN net : r.kind = "create" => r.stage = "failed"
              /\ \A r \in SourceSaves : r.id = view.editing.id =>
                    \A f \in Sources!Fields \ (hist.touched \cup changed) : r.form[f] = form[f]
      BY <2>4 DEF SourcesFresh, SourceFormIsFresh, SourceKeeps
    <2>6. /\ view' \in [selected : {view.selected}, rows : {view.rows}, known : {view.known},
                         mount : {view.mount}, creating : BOOLEAN,
                         editing : SourceRows \cup {Sources!NoRow}, form : SourceForms]
          /\ view'.creating = view.creating /\ view'.editing = view.editing
          /\ view'.form = form
      BY <2>1, <2>2, <2>3
    <2>7. /\ hist' \in [loads : {hist.loads}, shown : {hist.shown}, chosen : {hist.chosen},
                         calm : {hist.calm}, fresh : BOOLEAN,
                         touched : SUBSET Sources!Fields, raced : {hist.raced},
                         commands : {hist.commands}]
          /\ hist'.fresh = hist.fresh /\ hist'.touched = hist.touched \cup changed
      BY <2>1, <2>3
    <2>8. hist'.fresh /\ view'.editing # Sources!NoRow /\ view'.editing.id \notin hist.raced =>
              /\ SourceKeeps(view'.form, view'.editing.id, hist'.touched)
              /\ \A r \in DOMAIN net : r.kind = "create" => r.stage = "failed"
              /\ \A r \in SourceSaves : r.id = view'.editing.id =>
                    \A f \in Sources!Fields \ hist'.touched : r.form[f] = view'.form[f]
      BY <2>5, <2>6, <2>7
    <2> QED BY <1>3, <2>1, <2>3, <2>6, <2>7, <2>8
  \* A new request for the endpoint of the dialog.
  <1>10. ASSUME NEW new \in SourceRequests, net' = Sources!Send(new), view' = view,
               new.stage = "sent", new.kind \in Sources!Changes, new.owner = view.selected,
               NEW raced \in SUBSET Sources!Id, hist.raced \subseteq raced,
               hist' \in [loads : {hist.loads}, shown : {hist.shown}, chosen : {hist.chosen},
                          calm : {hist.calm}, fresh : BOOLEAN, touched : {hist.touched},
                          raced : {raced}, commands : {hist.commands + 1}],
               hist'.fresh => hist.fresh,
               hist'.fresh /\ view.editing # Sources!NoRow /\ view.editing.id \notin raced =>
                   /\ new.kind # "create"
                   /\ new.kind \in {"update", "toggle"} /\ new.id = view.editing.id =>
                          \A f \in Sources!Fields \ hist.touched : new.form[f] = view.form[f],
               new.kind \in {"update", "toggle"} =>
                   /\ SourceIsStored(new.id)
                   /\ new.fresh /\ new.id \notin raced =>
                          SourceKeeps(new.form, new.id, new.touched),
               new.kind \in Sources!RowWrites /\ new.id \notin raced =>
                   \A q \in SourceWrites : q.id # new.id
        PROVE  SourcesInv'
    <2>0. DOMAIN net' = DOMAIN net \cup {new}
      BY <1>10, SendAdds
    <2>1. hist' \in SourceHists
      BY <1>10 DEF SourcesTypes, SourceHists
    <2>2. SourcesTypes'
      BY <1>0, <1>10, <2>0, <2>1 DEF SourcesTypes
    <2>3. SourcesCalm'
      BY <1>10, <2>0 DEF SourcesCalm
    <2>4. SourcesListed'
      BY <1>10, <2>0 DEF SourcesListed, Sources!Changes
    <2>5. /\ SourceWrites' \subseteq SourceWrites \cup {new}
          /\ SourceSaves' \subseteq SourceSaves \cup {new}
          /\ new \in SourceWrites' => new.kind \in Sources!RowWrites
          /\ new \in SourceSaves' => new.kind \in {"update", "toggle"}
      BY <1>10, <2>0 DEF SourceWrites, SourceSaves, Sources!RowWrites
    <2>6. /\ \A q \in SourceWrites' : q # new => net'[q] = net[q]
          /\ new \in DOMAIN net /\ new.kind \in Sources!RowWrites => new \in SourceWrites
          /\ new \notin DOMAIN net => net'[new] = 1
      BY <1>10, <2>0, SendCounts DEF SourceWrites
    <2>7. SourcesKnown'
      <3>1. new.kind # "list"
        BY <1>10 DEF Sources!Changes
      <3> QED BY <1>1, <1>10, <2>0, <2>5, <3>1 DEF SourcesKnown
    <2>8. hist'.touched = hist.touched /\ hist'.raced = raced
      BY <1>10
    <2>9. SourceFormIsFresh'
      <3>1. ASSUME hist'.fresh, view.editing # Sources!NoRow, view.editing.id \notin raced
            PROVE  /\ SourceKeeps(view.form, view.editing.id, hist.touched)'
                   /\ \A r \in DOMAIN net' : r.kind = "create" => r.stage = "failed"
                   /\ \A r \in SourceSaves' : r.id = view.editing.id =>
                          \A f \in Sources!Fields \ hist.touched : r.form[f] = view.form[f]
        BY <1>0, <1>1, <1>10, <2>0, <2>5, <2>8, <3>1
           DEF SourcesFresh, SourceFormIsFresh, SourceKeeps
      <3> QED BY <1>10, <2>8, <3>1 DEF SourceFormIsFresh, SourceKeeps
    <2>10. ASSUME NEW q \in SourceWrites', q.id \notin raced
           PROVE  /\ SourceIsAlone(q)'
                  /\ q.stage = "found" => q.id \in Sources!Live
                  /\ q.kind # "delete" /\ q.fresh => SourceKeeps(q.form, q.id, q.touched)
      <3>1. CASE q = new
        <4>1. new.kind \in Sources!RowWrites /\ \A w \in SourceWrites : w.id # new.id
          BY <1>10, <2>5, <2>10, <3>1
        <4>2. net'[new] = 1
          BY <2>6, <4>1
        <4>3. SourceIsAlone(q)'
          BY <2>5, <3>1, <4>1, <4>2 DEF SourceIsAlone
        <4>4. new.stage # "found" /\ new.id \notin raced
              /\ (new.kind # "delete" => new.kind \in {"update", "toggle"})
          BY <1>10, <2>10, <3>1, <4>1 DEF Sources!RowWrites
        <4>5. new.kind # "delete" /\ new.fresh => SourceKeeps(new.form, new.id, new.touched)
          BY <1>10, <4>4
        <4> QED BY <3>1, <4>3, <4>4, <4>5
      <3>2. CASE q # new
        <4>1. q \in SourceWrites /\ net'[q] = net[q] /\ q.id \notin hist.raced
          BY <1>10, <2>5, <2>6, <2>10, <3>2
        <4>2. new \in SourceWrites' => new.id # q.id
          BY <1>10, <2>5, <2>10, <4>1
        <4>3. SourceIsAlone(q)'
          BY <2>5, <4>1, <4>2 DEF SourcesFresh, SourceWritesAreFresh, SourceIsAlone
        <4> QED BY <4>1, <4>3 DEF SourcesFresh, SourceWritesAreFresh
      <3> QED BY <3>1, <3>2
    <2>11. SourceWritesAreFresh'
      BY <1>0, <1>1, <2>8, <2>10 DEF SourceWritesAreFresh, SourceKeeps
    <2> QED BY <2>2, <2>3, <2>4, <2>7, <2>9, <2>11 DEF SourcesFresh
  <1> DEFINE Owns == Sources!Open => view.selected \in Owner
  <1>11. Owns
    BY DEF Sources!Open, SourcesTypes, SourceViews
  <1> HIDE DEF Owns
  <1>12. CASE Sources!CreateDataSource
    <2> DEFINE new == [kind |-> "create", stage |-> "sent", owner |-> view.selected,
                       form |-> view.form, mount |-> view.mount]
    <2>1. /\ net' = Sources!Send(new) /\ view' = view
          /\ hist' \in [loads : {hist.loads}, shown : {hist.shown}, chosen : {hist.chosen},
                        calm : {hist.calm}, fresh : {hist.fresh}, touched : {hist.touched},
                        raced : {hist.raced}, commands : {hist.commands + 1}]
      BY <1>12 DEF Sources!CreateDataSource, Sources!Counted, SourcesTypes, SourceHists
    <2>2. view.selected \in Owner /\ view.editing = Sources!NoRow
      BY <1>11, <1>12 DEF Owns, Sources!CreateDataSource, Sources!FormShown
    <2>3. new \in SourceRequests
      BY <2>2 DEF SourceRequests, SourcesTypes, SourceViews
    <2>4. new.kind = "create" /\ new.stage = "sent" /\ new.owner = view.selected
      OBVIOUS
    <2>5. hist.raced \in SUBSET Sources!Id /\ hist.fresh \in BOOLEAN
      BY DEF SourcesTypes, SourceHists
    <2> HIDE DEF new
    <2> QED BY <1>10, <2>1, <2>2, <2>3, <2>4, <2>5 DEF Sources!Changes, Sources!RowWrites
  <1>13. ASSUME NEW row \in view.rows, Sources!SyncDataSource(row) \/ Sources!DeleteDataSource(row)
         PROVE  SourcesInv'
    <2>1. PICK kind \in {"sync", "delete"} :
              /\ net' = Sources!Send([kind |-> kind, stage |-> "sent", owner |-> view.selected,
                                      id |-> row.id])
              /\ kind = "delete" => Sources!DeleteDataSource(row)
              /\ kind = "sync" => Sources!SyncDataSource(row)
      BY <1>13 DEF Sources!SyncDataSource, Sources!DeleteDataSource
    <2> DEFINE new == [kind |-> kind, stage |-> "sent", owner |-> view.selected, id |-> row.id]
               raced == IF kind = "delete" THEN Sources!Raced(row.id) ELSE hist.raced
    <2>2. /\ view' = view
          /\ hist' \in [loads : {hist.loads}, shown : {hist.shown}, chosen : {hist.chosen},
                        calm : {hist.calm}, fresh : {hist.fresh}, touched : {hist.touched},
                        raced : {raced}, commands : {hist.commands + 1}]
      <3>1. CASE kind = "sync"
        BY <2>1, <3>1 DEF Sources!SyncDataSource, Sources!Counted, SourcesTypes, SourceHists
      <3>2. CASE kind = "delete"
        BY <2>1, <3>2 DEF Sources!DeleteDataSource, Sources!Counted, SourcesTypes, SourceHists
      <3> QED BY <3>1, <3>2
    <2>3. view.selected \in Owner /\ row.id \in Sources!Id
      BY <1>11, <1>13 DEF Owns, Sources!SyncDataSource, Sources!DeleteDataSource,
                          SourcesTypes, SourceViews, SourceRows
    <2>4. new \in SourceRequests
      BY <2>3 DEF SourceRequests
    <2>5. new.kind = kind /\ new.stage = "sent" /\ new.owner = view.selected
          /\ new.id = row.id /\ net' = Sources!Send(new)
      BY <2>1
    <2>6. hist.raced \in SUBSET Sources!Id /\ hist.fresh \in BOOLEAN
      BY DEF SourcesTypes, SourceHists
    <2>7. /\ raced \in SUBSET Sources!Id /\ hist.raced \subseteq raced
          /\ kind = "delete" /\ row.id \notin raced => Sources!Writes(row.id) = {}
      BY <2>3, <2>6 DEF Sources!Raced
    <2>8. kind = "delete" /\ row.id \notin raced => \A q \in SourceWrites : q.id # row.id
      BY <2>7, SourceWritesOf
    <2> HIDE DEF new, raced
    <2> QED BY <1>10, <2>2, <2>4, <2>5, <2>6, <2>7, <2>8 DEF Sources!Changes, Sources!RowWrites
  <1>14. ASSUME NEW kind \in {"update", "toggle"},
                NEW row \in SourceRows, NEW form \in SourceForms, NEW fresh \in BOOLEAN,
                NEW touched \in SUBSET Sources!Fields, view.selected \in Owner,
                Sources!Put(kind, row, form, fresh, touched),
                SourceIsStored(row.id),
                fresh /\ row.id \notin hist.raced => SourceKeeps(form, row.id, touched),
                kind = "update" => form = view.form
         PROVE  SourcesInv'
    <2> DEFINE new == [kind |-> kind, stage |-> "sent", owner |-> view.selected,
                       id |-> row.id, form |-> form, mount |-> view.mount, fresh |-> fresh,
                       touched |-> touched]
               raced == Sources!Raced(row.id)
               still == hist.fresh /\ (kind = "toggle" => view.editing.id # row.id)
    <2>1. /\ net' = Sources!Send(new) /\ view' = view
          /\ hist' = [loads |-> hist.loads, shown |-> hist.shown, chosen |-> hist.chosen,
                      calm |-> hist.calm, fresh |-> still, touched |-> hist.touched,
                      raced |-> raced, commands |-> hist.commands + 1]
      BY <1>14 DEF Sources!Put, Sources!Counted, SourcesTypes, SourceHists
    <2>2. row.id \in Sources!Id
      BY DEF SourceRows
    <2>3. new \in SourceRequests
      BY <1>14, <2>2 DEF SourceRequests, SourcesTypes, SourceViews
    <2>4. new.kind = kind /\ new.stage = "sent" /\ new.owner = view.selected
          /\ new.id = row.id /\ new.form = form /\ new.fresh = fresh /\ new.touched = touched
      OBVIOUS
    <2>5. raced \in SUBSET Sources!Id /\ hist.raced \subseteq raced
      BY <2>2 DEF SourcesTypes, SourceHists, Sources!Raced
    <2>6. row.id \notin raced => \A q \in SourceWrites : q.id # row.id
      BY SourceWritesOf DEF Sources!Raced
    <2>7. still \in BOOLEAN /\ (still => hist.fresh)
          /\ (still /\ view.editing.id = row.id => kind = "update")
      OBVIOUS
    <2> HIDE DEF new, raced, still
    <2>9. /\ hist' \in [loads : {hist.loads}, shown : {hist.shown}, chosen : {hist.chosen},
                        calm : {hist.calm}, fresh : BOOLEAN, touched : {hist.touched},
                        raced : {raced}, commands : {hist.commands + 1}]
          /\ hist'.fresh = still
      BY <2>1, <2>7
    <2>10. hist'.fresh /\ view.editing # Sources!NoRow =>
               /\ new.kind # "create"
               /\ new.kind \in {"update", "toggle"} /\ new.id = view.editing.id =>
                      \A f \in Sources!Fields \ hist.touched : new.form[f] = view.form[f]
      BY <1>14, <2>4, <2>7, <2>9
    <2>11. /\ SourceIsStored(new.id)
           /\ new.fresh /\ new.id \notin raced => SourceKeeps(new.form, new.id, new.touched)
           /\ new.id \notin raced => \A q \in SourceWrites : q.id # new.id
      BY <1>14, <2>4, <2>5, <2>6
    <2>12. hist'.fresh => hist.fresh
      BY <2>7, <2>9
    <2>13. new.kind \in Sources!Changes
      BY <2>4 DEF Sources!Changes
    <2> QED BY <1>10, <2>1, <2>3, <2>4, <2>5, <2>9, <2>10, <2>11, <2>12, <2>13
  <1>15. CASE Sources!UpdateDataSource
    <2>1. /\ view.editing \in SourceRows /\ view.editing # Sources!NoRow
          /\ view.form \in SourceForms /\ hist.fresh \in BOOLEAN
          /\ hist.touched \in SUBSET Sources!Fields /\ view.selected \in Owner
      BY <1>11, <1>15 DEF Owns, Sources!UpdateDataSource, Sources!FormShown, SourcesTypes,
                          SourceViews, SourceHists
    <2>2. SourceIsStored(view.editing.id)
          /\ (hist.fresh /\ view.editing.id \notin hist.raced =>
                  SourceKeeps(view.form, view.editing.id, hist.touched))
      BY <2>1 DEF SourcesKnown, SourcesFresh, SourceFormIsFresh
    <2> QED BY <1>14, <1>15, <2>1, <2>2 DEF Sources!UpdateDataSource
  <1>16. ASSUME NEW row \in view.rows, Sources!ToggleDataSourceActive(row) PROVE SourcesInv'
    <2> DEFINE form == [Sources!FormOf(row) EXCEPT !.active = ~@]
               fresh == Sources!FreshRow(row)
    <2>1. row \in SourceRows /\ SourceIsStored(row.id) /\ view.selected \in Owner
      BY <1>11, <1>16 DEF Owns, Sources!ToggleDataSourceActive, SourcesTypes, SourceViews,
                          SourcesKnown
    <2>2. form = [text |-> row.text, body |-> row.body, active |-> ~row.active]
      BY DEF Sources!FormOf
    <2>3. form \in SourceForms
      BY <2>1, <2>2 DEF SourceForms, SourceRows
    <2>4. fresh \in BOOLEAN
      BY DEF Sources!FreshRow
    <2>5. fresh => SourceKeeps(form, row.id, {"active"})
      BY <2>2 DEF Sources!FreshRow, SourceKeeps, Sources!Row, Sources!Fields
    <2>6. {"active"} \in SUBSET Sources!Fields
      BY DEF Sources!Fields
    <2>7. Sources!Put("toggle", row, form, fresh, {"active"})
      BY <1>16 DEF Sources!ToggleDataSourceActive
    <2> HIDE DEF form, fresh
    <2> QED BY <1>14, <2>1, <2>3, <2>4, <2>5, <2>6, <2>7
  <1> QED BY <1>4, <1>5, <1>6, <1>7, <1>8, <1>9, <1>12, <1>13, <1>15, <1>16
          DEF Sources!Administrator

LEMMA SourcesNext == SourcesInv /\ Sources!Next => SourcesInv'
  BY SourcesServe, SourcesReceive, SourcesEdit DEF Sources!Next, Sources!InFlight,
     Sources!BagToSet

LEMMA SourcesShown ==
    SourcesInv => /\ Sources!TypeOK /\ Sources!DialogIsStored /\ Sources!DialogIsChosen
                  /\ Sources!LeavesUntouched
  <1> SUFFICES ASSUME SourcesInv
               PROVE  /\ Sources!TypeOK /\ Sources!DialogIsStored /\ Sources!DialogIsChosen
                      /\ Sources!LeavesUntouched
    OBVIOUS
  <1> USE DEF SourcesInv
  <1>1. Sources!TypeOK
    <2> DEFINE all == [id : 0..MaxSources, text : OneText \cup {Blank},
                       body : Body \cup {NoLinks}, active : BOOLEAN]
    <2>1. SourceRows \subseteq all
      BY DEF SourceRows, Sources!Id
    <2>2. Sources!NoRow \in all
      BY RecordsAssumption DEF Sources!NoRow
    <2>3. view.rows \subseteq SourceRows /\ view.editing \in SourceRows \cup {Sources!NoRow}
          /\ (view.creating => view.editing = Sources!NoRow)
          /\ view.selected \in Owner \cup {Nobody}
      BY DEF SourcesTypes, SourceViews
    <2> QED BY <2>1, <2>2, <2>3 DEF Sources!TypeOK
  <1>2. Sources!DialogIsStored
    BY DEF Sources!DialogIsStored, SourcesListed, Sources!Quiet, Sources!UpToDate,
           Sources!InFlight, Sources!BagToSet
  <1>3. Sources!DialogIsChosen
    BY DEF Sources!DialogIsChosen, SourcesCalm
  <1>4. ASSUME NEW r \in Sources!In("found"), Sources!SaveSource(r), r.fresh,
               r.id \notin hist.raced
        PROVE  /\ r.id \in Sources!Live
               /\ \A f \in Sources!Fields \ r.touched : server'[r.id][f] = server[r.id][f]
    <2>1. r.kind \in {"update", "toggle"} /\ r.stage = "found" /\ r \in DOMAIN net
          /\ r.form \in SourceForms
      BY SourceShapes DEF Sources!In, Sources!InFlight, Sources!BagToSet, SourcesTypes
    <2>2. r \in SourceWrites
      BY <2>1 DEF SourceWrites, Sources!RowWrites
    <2>3. r.id \in Sources!Live /\ SourceKeeps(r.form, r.id, r.touched)
      BY <1>4, <2>1, <2>2 DEF SourcesFresh, SourceWritesAreFresh
    <2>4. r.id \in DOMAIN server
      BY <2>3 DEF Sources!Live, SourcesTypes
    <2>5. server' = [server EXCEPT ![r.id] = [status |-> "live",
                         owner |-> server[r.id].owner, text |-> r.form.text,
                         body |-> r.form.body,
                         active |-> r.form.active \/ r.id \notin Sources!Live]]
      BY <1>4 DEF Sources!SaveSource
    <2>6. (r.form.active \/ r.id \notin Sources!Live) = r.form.active
      BY <2>1, <2>3 DEF SourceForms
    <2>7. \A f \in Sources!Fields : server'[r.id][f] = r.form[f]
      BY <2>4, <2>5, <2>6 DEF Sources!Fields
    <2> QED BY <2>3, <2>7 DEF SourceKeeps
  <1> QED BY <1>1, <1>2, <1>3, <1>4 DEF Sources!LeavesUntouched

-----------------------------------------------------------------------------
(* The page of endpoints.                                                    *)

EndText == Text \cup {Blank}
EndForms == [text : EndText, active : BOOLEAN]
EndRows == [id : Endpoints!Id, text : EndText, active : BOOLEAN]
EndRecords == [status : {"none", "live", "deleted"}, text : EndText, active : BOOLEAN,
               order : 0..MaxRecords - 1]
Distinct(s) == \A i, j \in DOMAIN s : s[i] = s[j] => i = j
EndOrders == {s \in Seq(Endpoints!Id) : Distinct(s)}
EndLists == {s \in Seq(EndRows) : Endpoints!Ids(s) \in EndOrders}

EndRequests ==
    [kind : {"list"}, stage : {"sent"}, n : Nat]
    \cup [kind : {"list"}, stage : {"ok"}, n : Nat, rows : EndLists]
    \cup [kind : {"create"}, stage : {"sent", "ok"}, form : EndForms]
    \cup [kind : {"update"}, stage : {"sent", "ok"}, id : Endpoints!Id, form : EndForms,
          fresh : BOOLEAN, touched : SUBSET Endpoints!Fields]
    \cup [kind : {"delete"}, stage : {"sent", "ok"}, id : Endpoints!Id]
    \cup {r \in [kind : {"order"}, stage : {"sent", "ok"}, ids : EndOrders, next : Nat \ {0}] :
              r.next <= Len(r.ids)}
    \cup [kind : Endpoints!Changes \cup {"list"}, stage : {"failed"}]

EndsTypes ==
    /\ server \in [Endpoints!Id -> EndRecords]
    /\ view \in [list : EndLists, dialog : {"none", "create", "edit", "delete"},
                 target : EndRows \cup {Endpoints!NoRow}, form : EndForms]
    /\ view.dialog \in {"edit", "delete"} => view.target # Endpoints!NoRow
    /\ hist \in [loads : Nat, shown : Nat, fresh : BOOLEAN,
                 touched : SUBSET Endpoints!Fields, raced : SUBSET Endpoints!Id,
                 dropped : EndOrders, commands : Nat]
    /\ DOMAIN net \subseteq EndRequests

NoChanges == \A r \in DOMAIN net : r.kind \notin Endpoints!Changes

\* A list that was asked for after all changes were answered is what is stored,
\* in its order, on its way and on the page.
EndsListed ==
    /\ hist.shown <= hist.loads
    /\ \A r \in DOMAIN net : r.kind = "list" /\ r.stage # "failed" => r.n <= hist.loads
    /\ NoChanges =>
           /\ hist.shown = hist.loads => view.list = Endpoints!Table
           /\ \A r \in DOMAIN net :
                  r.kind = "list" /\ r.stage = "ok" /\ r.n = hist.loads =>
                      r.rows = Endpoints!Table

Known(list) == \A i \in DOMAIN list : server[list[i].id].status # "none"

\* The rows that the page knows have been stored, so that none of them is created.
EndsKnown ==
    /\ Known(view.list)
    /\ view.target # Endpoints!NoRow => server[view.target.id].status # "none"
    /\ \A r \in DOMAIN net : r.stage # "failed" =>
           /\ r.kind = "list" /\ r.stage = "ok" => Known(r.rows)
           /\ r.kind = "update" => server[r.id].status # "none"

EndKeeps(form, e, touched) ==
    e \in Endpoints!Live => \A f \in Endpoints!Fields \ touched : form[f] = server[e][f]
EndUpdates == {r \in DOMAIN net : r.kind = "update" /\ r.stage = "sent"}

\* What was opened as stored is sent as stored but for what was typed, by the
\* only update of its row that is on its way.
EndsFresh ==
    /\ hist.fresh => /\ view.dialog = "edit" /\ NoChanges
                     /\ EndKeeps(view.form, view.target.id, hist.touched)
    /\ \A r \in EndUpdates :
           r.id \notin hist.raced =>
               /\ r.fresh => EndKeeps(r.form, r.id, r.touched)
               /\ \A q \in EndUpdates : q.id = r.id => q = r

Drags == {r \in DOMAIN net : r.kind = "order"}
Written(ids, n) == \A i \in 1..n : server[ids[i]].order = i - 1

\* While the last drag counts, it is the only change of the rows and of their
\* order that is on its way, and it has written the rows before the next.
EndsDropped ==
    hist.dropped # <<>> =>
        /\ Endpoints!Range(hist.dropped) = Endpoints!Live
        /\ \A r \in DOMAIN net : r.kind \notin {"create", "delete"}
        /\ \A r \in Drags : net[r] = 1 /\ \A q \in Drags : q = r
        /\ \A r \in Drags :
               /\ r.stage # "failed" => r.ids = hist.dropped
               /\ r.stage = "sent" => Written(hist.dropped, r.next - 1)
               /\ r.stage = "ok" => Written(hist.dropped, Len(hist.dropped))
        /\ Drags = {} => Written(hist.dropped, Len(hist.dropped))

EndsInv == EndsTypes /\ EndsListed /\ EndsKnown /\ EndsFresh /\ EndsDropped

Rank(e, S, R) == Cardinality({d \in S : <<d, e>> \in R})

\* In an order of a finite set, as many elements come before the i-th as there
\* are places before it.
LEMMA Ranks ==
    ASSUME NEW S, IsFiniteSet(S), NEW R, \A a \in S : <<a, a>> \notin R,
           \A a, b \in S : a # b => <<a, b>> \in R \/ <<b, a>> \in R,
           \A a, b, c \in S : <<a, b>> \in R /\ <<b, c>> \in R => <<a, c>> \in R
    PROVE  /\ \A e \in S : Rank(e, S, R) \in 0..Cardinality(S) - 1
           /\ \A a, b \in S : Rank(a, S, R) = Rank(b, S, R) => a = b
           /\ \A i \in 1..Cardinality(S) : \E e \in S : Rank(e, S, R) = i - 1
  <1> DEFINE Less(e) == {d \in S : <<d, e>> \in R}
             n == Cardinality(S)
             place == [e \in S |-> Cardinality(Less(e)) + 1]
  <1>0. n \in Nat
    BY FS_CardinalityType
  <1>1. \A e \in S : /\ IsFiniteSet(Less(e)) /\ Cardinality(Less(e)) \in Nat
                     /\ Less(e) \subseteq S /\ e \notin Less(e)
    BY FS_Subset, FS_CardinalityType
  <1>2. \A e \in S : Cardinality(Less(e)) < n
    <2> SUFFICES ASSUME NEW e \in S PROVE Cardinality(Less(e)) < n
      OBVIOUS
    <2>1. Cardinality(Less(e)) <= n /\ Cardinality(Less(e)) # n
      BY <1>1, FS_Subset
    <2> HIDE DEF Less, n
    <2> QED BY <1>0, <1>1, <2>1
  <1>3. \A a, b \in S : <<a, b>> \in R => Cardinality(Less(a)) < Cardinality(Less(b))
    <2> SUFFICES ASSUME NEW a \in S, NEW b \in S, <<a, b>> \in R
                 PROVE  Cardinality(Less(a)) < Cardinality(Less(b))
      OBVIOUS
    <2>1. Less(a) \in SUBSET Less(b) /\ a \in Less(b) /\ a \notin Less(a)
      OBVIOUS
    <2> HIDE DEF Less
    <2>2. /\ Cardinality(Less(a)) <= Cardinality(Less(b))
          /\ Cardinality(Less(a)) # Cardinality(Less(b))
      BY <1>1, <2>1, FS_Subset
    <2> QED BY <1>1, <2>2
  <1>4. \A a, b \in S : Cardinality(Less(a)) = Cardinality(Less(b)) => a = b
    <2> SUFFICES ASSUME NEW a \in S, NEW b \in S, a # b
                 PROVE  Cardinality(Less(a)) # Cardinality(Less(b))
      OBVIOUS
    <2>1. <<a, b>> \in R \/ <<b, a>> \in R
      OBVIOUS
    <2>2. \/ Cardinality(Less(a)) < Cardinality(Less(b))
          \/ Cardinality(Less(b)) < Cardinality(Less(a))
      BY <1>3, <2>1
    <2> HIDE DEF Less
    <2> QED BY <1>1, <2>2
  <1>5. place \in Injection(S, 1..n)
    <2> HIDE DEF Less, n
    <2>1. place \in [S -> 1..n]
      BY <1>0, <1>1, <1>2
    <2>2. \A a, b \in S : place[a] = place[b] => a = b
      BY <1>1, <1>4
    <2> HIDE DEF place
    <2> QED BY <2>1, <2>2 DEF Injection, IsInjective
  <1>6. IsFiniteSet(1..n) /\ Cardinality(1..n) = n
    BY <1>0, FS_Interval
  <1>7. place \in Surjection(S, 1..n)
    <2> HIDE DEF place
    <2> QED BY <1>5, <1>6, FS_Injection
  <1>8. \A i \in 1..n : \E e \in S : Cardinality(Less(e)) = i - 1
    <2> SUFFICES ASSUME NEW i \in 1..n PROVE \E e \in S : Cardinality(Less(e)) = i - 1
      OBVIOUS
    <2> HIDE DEF n
    <2>1. PICK e \in S : place[e] = i
      <3> HIDE DEF place
      <3> QED BY <1>7 DEF Surjection
    <2> HIDE DEF Less
    <2> QED BY <1>1, <2>1
  <1>9. \A e \in S : Cardinality(Less(e)) \in 0..n - 1
    <2> HIDE DEF Less, n
    <2> QED BY <1>0, <1>1, <1>2
  <1> HIDE DEF n
  <1>10. \A e \in S : Rank(e, S, R) = Cardinality(Less(e))
    BY DEF Rank
  <1> HIDE DEF Less
  <1> QED BY <1>4, <1>8, <1>9, <1>10 DEF n

LEMMA AheadRanks ==
    ASSUME server \in [Endpoints!Id -> EndRecords]
    PROVE  /\ IsFiniteSet(Endpoints!Live)
           /\ \A e \in Endpoints!Live :
                  Cardinality(Endpoints!Ahead(e)) \in 0..Cardinality(Endpoints!Live) - 1
           /\ \A a, b \in Endpoints!Live :
                  Cardinality(Endpoints!Ahead(a)) = Cardinality(Endpoints!Ahead(b)) => a = b
           /\ \A i \in 1..Cardinality(Endpoints!Live) :
                  \E e \in Endpoints!Live : Cardinality(Endpoints!Ahead(e)) = i - 1
  <1> DEFINE S == Endpoints!Live
             R == {p \in S \X S : Endpoints!Before(p[1], p[2])}
  <1>1. S \subseteq Endpoints!Id /\ Endpoints!Id = 1..MaxRecords /\ MaxRecords \in Nat
    BY RecordsAssumption DEF Endpoints!Live, Endpoints!Id
  <1>2. IsFiniteSet(S)
    <2> HIDE DEF S
    <2>1. IsFiniteSet(1..MaxRecords)
      BY <1>1, FS_Interval
    <2> QED BY <1>1, <2>1, FS_Subset
  <1>3. \A a \in S : a \in Int /\ server[a].order \in Int
    BY <1>1 DEF EndRecords
  <1> HIDE DEF S
  <1>4. \A a, b \in S : <<a, b>> \in R <=>
            \/ server[a].order < server[b].order
            \/ server[a].order = server[b].order /\ a > b
    BY DEF Endpoints!Before
  <1>5. \A e \in S : Cardinality(Endpoints!Ahead(e)) = Rank(e, S, R)
    BY DEF Endpoints!Ahead, S, Rank
  <1> HIDE DEF R
  <1>6. \A a \in S : <<a, a>> \notin R
    BY <1>3, <1>4
  <1>7. \A a, b \in S : a # b => <<a, b>> \in R \/ <<b, a>> \in R
    BY <1>3, <1>4
  <1>8. \A a, b, c \in S : <<a, b>> \in R /\ <<b, c>> \in R => <<a, c>> \in R
    BY <1>3, <1>4
  <1>9. /\ \A e \in S : Rank(e, S, R) \in 0..Cardinality(S) - 1
        /\ \A a, b \in S : Rank(a, S, R) = Rank(b, S, R) => a = b
        /\ \A i \in 1..Cardinality(S) : \E e \in S : Rank(e, S, R) = i - 1
    BY <1>2, <1>6, <1>7, <1>8, Ranks
  <1> QED BY <1>2, <1>5, <1>9 DEF S

LEMMA SameCardinality == ASSUME NEW T PROVE Endpoints!Cardinality(T) = Cardinality(T)
  BY DEF Endpoints!Cardinality, Cardinality

\* The list has every live endpoint once.
LEMMA ListingRanks ==
    ASSUME server \in [Endpoints!Id -> EndRecords]
    PROVE  /\ Endpoints!Listing \in EndOrders
           /\ Endpoints!Range(Endpoints!Listing) = Endpoints!Live
           /\ DOMAIN Endpoints!Listing = 1..Cardinality(Endpoints!Live)
           /\ \A i \in 1..Cardinality(Endpoints!Live) :
                  /\ Endpoints!Listing[i] \in Endpoints!Live
                  /\ Cardinality(Endpoints!Ahead(Endpoints!Listing[i])) = i - 1
  <1> DEFINE S == Endpoints!Live
             n == Cardinality(S)
             s == Endpoints!Listing
             rank(e) == Cardinality(Endpoints!Ahead(e))
  <1>0. n \in Nat
    BY AheadRanks, FS_CardinalityType
  <1>1. s = [i \in 1..n |-> CHOOSE e \in S : rank(e) = i - 1]
    <2>1. Endpoints!Cardinality(S) = n
      BY SameCardinality
    <2>2. \A e \in S : Endpoints!Cardinality(Endpoints!Ahead(e)) = rank(e)
      BY SameCardinality
    <2>3. s = [i \in 1..Endpoints!Cardinality(S) |->
                  CHOOSE e \in S : Endpoints!Cardinality(Endpoints!Ahead(e)) = i - 1]
      BY DEF Endpoints!Listing
    <2>4. \A i : (CHOOSE e \in S : Endpoints!Cardinality(Endpoints!Ahead(e)) = i - 1)
                    = CHOOSE e \in S : rank(e) = i - 1
      BY <2>2
    <2> QED BY <2>1, <2>3, <2>4
  <1>2. /\ \A e \in S : rank(e) \in 0..n - 1
        /\ \A a, b \in S : rank(a) = rank(b) => a = b
        /\ \A i \in 1..n : \E e \in S : rank(e) = i - 1
    BY AheadRanks
  <1> HIDE DEF S, n, s, rank
  <1>3. \A i \in 1..n : s[i] \in S /\ rank(s[i]) = i - 1
    BY <1>1, <1>2
  <1>4. S \subseteq Endpoints!Id
    BY DEF S, Endpoints!Live
  <1>5. s \in Seq(Endpoints!Id) /\ DOMAIN s = 1..n
    BY <1>0, <1>1, <1>3, <1>4
  <1>6. \A i, j \in 1..n : s[i] = s[j] => i = j
    BY <1>0, <1>3
  <1>7. \A e \in S : \E i \in 1..n : s[i] = e
    <2> SUFFICES ASSUME NEW e \in S PROVE \E i \in 1..n : s[i] = e
      OBVIOUS
    <2>1. rank(e) + 1 \in 1..n /\ rank(e) = (rank(e) + 1) - 1
      BY <1>0, <1>2
    <2> QED BY <1>2, <1>3, <2>1
  <1>8. s \in EndOrders
    BY <1>5, <1>6 DEF EndOrders, Distinct
  <1>9. Endpoints!Range(s) = S
    BY <1>3, <1>5, <1>7 DEF Endpoints!Range
  <1> QED BY <1>3, <1>5, <1>8, <1>9 DEF s, S, n, rank

\* An order that has been written as a whole is the one that is listed.
LEMMA WrittenIsListed ==
    ASSUME server \in [Endpoints!Id -> EndRecords], NEW s \in EndOrders,
           Endpoints!Range(s) = Endpoints!Live, Written(s, Len(s))
    PROVE  Endpoints!Listing = s
  <1> DEFINE S == Endpoints!Live
             n == Len(s)
             rank(e) == Cardinality(Endpoints!Ahead(e))
  <1>1. n \in Nat /\ DOMAIN s = 1..n /\ \A i, j \in 1..n : s[i] = s[j] => i = j
    BY DEF EndOrders, Distinct
  <1>2. s \in [1..n -> S] /\ \A e \in S : \E i \in 1..n : s[i] = e
    BY <1>1 DEF Endpoints!Range, EndOrders
  <1>3. \A i, j \in 1..n : Endpoints!Before(s[j], s[i]) <=> j < i
    <2> SUFFICES ASSUME NEW i \in 1..n, NEW j \in 1..n
                 PROVE  Endpoints!Before(s[j], s[i]) <=> j < i
      OBVIOUS
    <2>1. server[s[i]].order = i - 1 /\ server[s[j]].order = j - 1
      BY DEF Written
    <2>2. s[i] \in Int /\ (i = j => s[i] = s[j])
      BY <1>2 DEF Endpoints!Live, Endpoints!Id
    <2> HIDE DEF n
    <2> QED BY <1>1, <2>1, <2>2 DEF Endpoints!Before
  <1> HIDE DEF n, S
  <1>4. \A i \in 1..n : IsFiniteSet(1..i) /\ Cardinality(1..i) = i
    <2> SUFFICES ASSUME NEW i \in 1..n PROVE IsFiniteSet(1..i) /\ Cardinality(1..i) = i
      OBVIOUS
    <2>1. i \in Nat /\ i > 0
      BY <1>1
    <2> QED BY <2>1, FS_Interval
  <1>5. \A i \in 1..n : rank(s[i]) = i - 1
    <2> SUFFICES ASSUME NEW i \in 1..n PROVE rank(s[i]) = i - 1
      OBVIOUS
    <2> DEFINE f == [j \in 1..i - 1 |-> s[j]]
               A == Endpoints!Ahead(s[i])
    <2>1. i - 1 \in Nat /\ 1..i - 1 \subseteq 1..n
      BY <1>1
    <2>2. \A d \in A : \E j \in 1..i - 1 : d = s[j]
      <3> SUFFICES ASSUME NEW d \in A PROVE \E j \in 1..i - 1 : d = s[j]
        OBVIOUS
      <3>1. d \in S /\ Endpoints!Before(d, s[i])
        BY DEF Endpoints!Ahead, S
      <3>2. PICK j \in 1..n : s[j] = d
        BY <1>2, <3>1
      <3>3. j < i
        BY <1>3, <3>1, <3>2
      <3> QED BY <1>1, <3>2, <3>3
    <2>3. \A j \in 1..i - 1 : s[j] \in A
      <3> SUFFICES ASSUME NEW j \in 1..i - 1 PROVE s[j] \in A
        OBVIOUS
      <3>1. j \in 1..n /\ j < i
        BY <1>1, <2>1
      <3> QED BY <1>2, <1>3, <3>1 DEF Endpoints!Ahead, S
    <2> HIDE DEF A
    <2>4. f \in Bijection(1..i - 1, A)
      BY <1>1, <2>1, <2>2, <2>3 DEF Bijection, Injection, IsInjective, Surjection
    <2>5. IsFiniteSet(1..i - 1) /\ Cardinality(1..i - 1) = i - 1
      BY <2>1, FS_Interval
    <2> HIDE DEF f
    <2>6. Cardinality(A) = i - 1
      BY <2>4, <2>5, FS_Bijection DEF ExistsBijection
    <2> QED BY <2>6 DEF A
  <1>6. Cardinality(S) = n
    <2>1. s \in Bijection(1..n, S)
      BY <1>1, <1>2 DEF Bijection, Injection, IsInjective, Surjection
    <2>2. IsFiniteSet(1..n) /\ Cardinality(1..n) = n
      BY <1>1, FS_Interval
    <2> QED BY <2>1, <2>2, FS_Bijection DEF ExistsBijection
  <1>7. /\ Endpoints!Listing \in EndOrders /\ DOMAIN Endpoints!Listing = 1..n
        /\ \A i \in 1..n : Endpoints!Listing[i] \in S /\ rank(Endpoints!Listing[i]) = i - 1
    BY <1>6, ListingRanks DEF S
  <1> HIDE DEF rank
  <1>8. \A i \in 1..n : Endpoints!Listing[i] = s[i]
    <2> SUFFICES ASSUME NEW i \in 1..n PROVE Endpoints!Listing[i] = s[i]
      OBVIOUS
    <2>1. PICK j \in 1..n : s[j] = Endpoints!Listing[i]
      BY <1>2, <1>7
    <2>2. j - 1 = i - 1
      BY <1>5, <1>7, <2>1
    <2> QED BY <1>1, <2>1, <2>2
  <1>9. s \in Seq(Endpoints!Id) /\ Endpoints!Listing \in Seq(Endpoints!Id)
    BY <1>7 DEF EndOrders
  <1> QED BY <1>1, <1>7, <1>8, <1>9

LEMMA OrdersAreShort ==
    ASSUME NEW s \in EndOrders PROVE Len(s) <= MaxRecords
  <1> DEFINE n == Len(s)
             f == [i \in 1..n |-> s[i]]
  <1>1. s \in Seq(Endpoints!Id)
    BY DEF EndOrders
  <1>2. n \in Nat /\ DOMAIN s = 1..n /\ \A i, j \in 1..n : s[i] = s[j] => i = j
    BY <1>1 DEF EndOrders, Distinct
  <1>3. \A i \in 1..n : s[i] \in 1..MaxRecords
    <2>1. \A i \in 1..n : s[i] \in Endpoints!Id
      BY <1>1, <1>2
    <2> QED BY <2>1 DEF Endpoints!Id
  <1>4. MaxRecords \in Nat
    BY RecordsAssumption
  <1> HIDE DEF n
  <1>5. f \in Injection(1..n, 1..MaxRecords)
    BY <1>2, <1>3 DEF Injection, IsInjective
  <1> HIDE DEF f
  <1>6. IsFiniteSet(1..MaxRecords) /\ Cardinality(1..MaxRecords) = MaxRecords
    BY <1>4, FS_Interval
  <1>7. Cardinality(1..n) = n
    BY <1>2, FS_Interval
  <1>8. Cardinality(1..n) <= Cardinality(1..MaxRecords)
    BY <1>5, <1>6, FS_Injection
  <1> QED BY <1>6, <1>7, <1>8 DEF n

\* A drag changes the order of what is shown, and nothing else of it.
LEMMA MovesKeep ==
    ASSUME NEW s \in EndOrders, NEW i \in DOMAIN s, NEW j \in DOMAIN s
    PROVE  /\ Endpoints!ArrayMove(s, i, j) \in EndOrders
           /\ Len(Endpoints!ArrayMove(s, i, j)) = Len(s)
  <1> DEFINE n == Len(s)
             from(k) == IF k = j THEN i
                        ELSE IF i <= k /\ k < j THEN k + 1
                        ELSE IF j < k /\ k <= i THEN k - 1
                        ELSE k
             moved == [k \in 1..n |-> s[from(k)]]
  <1>1. /\ n \in Nat /\ DOMAIN s = 1..n /\ i \in 1..n /\ j \in 1..n
        /\ \A k, m \in 1..n : s[k] = s[m] => k = m
        /\ \A k \in 1..n : s[k] \in Endpoints!Id
    BY DEF EndOrders, Distinct
  <1> HIDE DEF n
  <1>2. Endpoints!ArrayMove(s, i, j) = moved
    BY <1>1 DEF Endpoints!ArrayMove
  <1>3. \A k \in 1..n : from(k) \in 1..n
    BY <1>1
  <1>4. \A k, m \in 1..n : from(k) = from(m) => k = m
    BY <1>1
  <1> HIDE DEF from
  <1>5. moved \in Seq(Endpoints!Id) /\ DOMAIN moved = 1..n /\ Len(moved) = n
    BY <1>1, <1>3
  <1>6. \A k, m \in 1..n : moved[k] = moved[m] => k = m
    BY <1>1, <1>3, <1>4
  <1> HIDE DEF moved
  <1> QED BY <1>2, <1>5, <1>6 DEF EndOrders, Distinct, n

\* What is listed are rows as stored, of endpoints that have been stored.
LEMMA TableRows ==
    ASSUME server \in [Endpoints!Id -> EndRecords]
    PROVE  Endpoints!Table \in EndLists /\ Known(Endpoints!Table)
  <1> DEFINE s == Endpoints!Listing
             t == Endpoints!Table
             n == Cardinality(Endpoints!Live)
  <1>1. /\ s \in EndOrders /\ DOMAIN s = 1..n
        /\ \A i \in 1..n : s[i] \in Endpoints!Live
    BY ListingRanks
  <1>2. n \in Nat
    BY AheadRanks, FS_CardinalityType
  <1>3. t = [i \in 1..n |-> Endpoints!Row(s[i])]
    BY <1>1 DEF Endpoints!Table
  <1>4. \A e \in Endpoints!Live : /\ Endpoints!Row(e) \in EndRows
                                  /\ Endpoints!Row(e).id = e /\ server[e].status = "live"
    BY DEF Endpoints!Row, Endpoints!Live, EndRows, EndRecords
  <1> HIDE DEF s, t, n
  <1>5. \A i \in 1..n : t[i] \in EndRows /\ t[i].id = s[i] /\ server[s[i]].status = "live"
    BY <1>1, <1>3, <1>4
  <1>6. t \in Seq(EndRows) /\ DOMAIN t = 1..n
    BY <1>2, <1>3, <1>5
  <1>7. Endpoints!Ids(t) = [i \in 1..n |-> s[i]]
    BY <1>5, <1>6 DEF Endpoints!Ids
  <1>8. s = [i \in 1..n |-> s[i]]
    BY <1>1 DEF EndOrders
  <1>9. Endpoints!Ids(t) \in EndOrders
    BY <1>1, <1>7, <1>8
  <1>10. Known(t)
    BY <1>5, <1>6 DEF Known
  <1> QED BY <1>6, <1>9, <1>10 DEF EndLists, t

LEMMA MovedRows ==
    ASSUME NEW list \in EndLists, NEW i \in DOMAIN list, NEW j \in DOMAIN list
    PROVE  LET moved == Endpoints!ArrayMove(Endpoints!Ids(list), i, j)
           IN  moved \in EndOrders /\ 1 <= Len(moved)
  <1> DEFINE s == Endpoints!Ids(list)
  <1>1. s \in EndOrders /\ DOMAIN s = DOMAIN list
    BY DEF EndLists, Endpoints!Ids
  <1> HIDE DEF s
  <1>2. Endpoints!ArrayMove(s, i, j) \in EndOrders /\ Len(Endpoints!ArrayMove(s, i, j)) = Len(s)
    BY <1>1, MovesKeep
  <1>3. 1 <= Len(s)
    BY <1>1 DEF EndOrders
  <1> QED BY <1>2, <1>3 DEF s

LEMMA EndShapes ==
    ASSUME NEW r \in EndRequests
    PROVE  /\ r.stage \in {"sent", "ok", "failed"}
           /\ r.kind \in Endpoints!Changes \cup {"list"}
           /\ r.kind = "list" /\ r.stage # "failed" => r.n \in Nat
           /\ r.kind = "list" /\ r.stage = "ok" => r.rows \in EndLists
           /\ r.kind = "create" /\ r.stage # "failed" =>
                  r \in [kind : {"create"}, stage : {"sent", "ok"}, form : EndForms]
           /\ r.kind = "update" /\ r.stage # "failed" =>
                  r \in [kind : {"update"}, stage : {"sent", "ok"}, id : Endpoints!Id,
                         form : EndForms, fresh : BOOLEAN,
                         touched : SUBSET Endpoints!Fields]
           /\ r.kind = "delete" /\ r.stage # "failed" =>
                  r \in [kind : {"delete"}, stage : {"sent", "ok"}, id : Endpoints!Id]
           /\ r.kind = "order" /\ r.stage # "failed" =>
                  /\ r \in [kind : {"order"}, stage : {"sent", "ok"}, ids : EndOrders,
                            next : Nat \ {0}]
                  /\ r.next <= Len(r.ids)
           /\ r.stage = "failed" => r = [kind |-> r.kind, stage |-> "failed"]
  BY DEF EndRequests, Endpoints!Changes

LEMMA DragShapes ==
    ASSUME NEW ids \in EndOrders, NEW next \in Nat \ {0}, next <= Len(ids), NEW stage \in {"sent", "ok"}
    PROVE  [kind |-> "order", stage |-> stage, ids |-> ids, next |-> next] \in EndRequests
  BY DEF EndRequests

\* A request that succeeds or fails stays a request.
LEMMA EndTurns ==
    ASSUME NEW r \in EndRequests, r.stage # "failed"
    PROVE  /\ [kind |-> r.kind, stage |-> "failed"] \in EndRequests
           /\ r.kind # "list" =>
                  /\ [r EXCEPT !.stage = "ok"] \in EndRequests
                  /\ [r EXCEPT !.stage = "ok"].kind = r.kind
                  /\ [r EXCEPT !.stage = "ok"].stage = "ok"
                  /\ r.kind = "update" => [r EXCEPT !.stage = "ok"].id = r.id
                  /\ r.kind = "order" => [r EXCEPT !.stage = "ok"].ids = r.ids
  <1>1. [kind |-> r.kind, stage |-> "failed"] \in EndRequests
    BY EndShapes DEF EndRequests
  <1>2. ASSUME r.kind = "create"
        PROVE  [r EXCEPT !.stage = "ok"] = [kind |-> "create", stage |-> "ok", form |-> r.form]
    BY <1>2, EndShapes
  <1>3. ASSUME r.kind = "update"
        PROVE  [r EXCEPT !.stage = "ok"] = [kind |-> "update", stage |-> "ok", id |-> r.id,
                    form |-> r.form, fresh |-> r.fresh, touched |-> r.touched]
    BY <1>3, EndShapes
  <1>4. ASSUME r.kind = "delete"
        PROVE  [r EXCEPT !.stage = "ok"] = [kind |-> "delete", stage |-> "ok", id |-> r.id]
    BY <1>4, EndShapes
  <1>5. ASSUME r.kind = "order"
        PROVE  [r EXCEPT !.stage = "ok"] = [kind |-> "order", stage |-> "ok", ids |-> r.ids,
                    next |-> r.next]
    BY <1>5, EndShapes
  <1> DEFINE new == [r EXCEPT !.stage = "ok"]
  <1>6. r.kind # "list" => new \in EndRequests /\ new.kind = r.kind /\ new.stage = "ok"
                           /\ (r.kind = "update" => new.id = r.id)
                           /\ (r.kind = "order" => new.ids = r.ids)
    <2>1. r.kind \in {"create", "update", "delete", "order", "list"}
      BY EndShapes DEF Endpoints!Changes
    <2> HIDE DEF new
    <2>2. r.kind = "create" => new = [kind |-> "create", stage |-> "ok", form |-> r.form]
      BY <1>2 DEF new
    <2>3. r.kind = "update" => new = [kind |-> "update", stage |-> "ok", id |-> r.id,
                    form |-> r.form, fresh |-> r.fresh, touched |-> r.touched]
      BY <1>3 DEF new
    <2>4. r.kind = "delete" => new = [kind |-> "delete", stage |-> "ok", id |-> r.id]
      BY <1>4 DEF new
    <2>5. r.kind = "order" => new = [kind |-> "order", stage |-> "ok", ids |-> r.ids,
                    next |-> r.next]
      BY <1>5 DEF new
    <2>6. r.kind = "order" => new \in EndRequests
      BY <2>5, EndShapes, DragShapes
    <2> QED BY <2>1, <2>2, <2>3, <2>4, <2>5, <2>6, EndShapes DEF EndRequests
  <1> QED BY <1>1, <1>6

LEMMA EndsInit == Endpoints!Init => EndsInv
  <1> SUFFICES ASSUME Endpoints!Init PROVE EndsInv
    OBVIOUS
  <1> DEFINE list == [kind |-> "list", stage |-> "sent", n |-> 1]
  <1>1. DOMAIN net = {list}
    BY DEF Endpoints!Init, Endpoints!SetToBag
  <1>2. list \in EndRequests /\ list.kind = "list" /\ list.n = 1 /\ list.stage = "sent"
    BY DEF EndRequests
  <1>3. /\ hist = [loads |-> 1, shown |-> 0, fresh |-> FALSE, touched |-> {}, raced |-> {},
                   dropped |-> <<>>, commands |-> 0]
        /\ view = [list |-> <<>>, dialog |-> "none", target |-> Endpoints!NoRow,
                   form |-> Endpoints!EmptyForm]
    BY DEF Endpoints!Init
  <1>4. server \in [Endpoints!Id -> EndRecords]
    <2>1. \A e \in Endpoints!Id : 0 \in 0..MaxRecords - 1
      BY RecordsAssumption DEF Endpoints!Id
    <2> QED BY <2>1, TextAssumption DEF Endpoints!Init, EndRecords, EndText
  <1>5. <<>> \in EndOrders /\ <<>> \in EndLists
    BY DEF EndOrders, EndLists, Distinct, Endpoints!Ids
  <1> HIDE DEF list
  <1>6. EndsTypes
    BY <1>1, <1>2, <1>3, <1>4, <1>5 DEF EndsTypes, Endpoints!EmptyForm, EndForms, EndText
  <1>7. EndsListed
    BY <1>1, <1>2, <1>3 DEF EndsListed
  <1>8. EndsKnown
    BY <1>1, <1>2, <1>3 DEF EndsKnown, Known
  <1>9. EndsFresh
    BY <1>1, <1>2, <1>3 DEF EndsFresh, EndUpdates
  <1>10. EndsDropped
    BY <1>3 DEF EndsDropped
  <1> QED BY <1>6, <1>7, <1>8, <1>9, <1>10 DEF EndsInv

\* A drag that has written a row is at the next, or done.
LEMMA DragTurns ==
    ASSUME NEW r \in EndRequests, r.kind = "order", r.stage = "sent",
           NEW new, new = IF r.next = Len(r.ids) THEN [r EXCEPT !.stage = "ok"]
                          ELSE [r EXCEPT !.next = r.next + 1]
    PROVE  /\ new \in EndRequests /\ new.kind = "order" /\ new.ids = r.ids
           /\ r.next = Len(r.ids) => new.stage = "ok"
           /\ r.next # Len(r.ids) => new.stage = "sent" /\ new.next = r.next + 1
  <1>1. /\ r \in [kind : {"order"}, stage : {"sent", "ok"}, ids : EndOrders, next : Nat \ {0}]
        /\ r.next <= Len(r.ids) /\ Len(r.ids) \in Nat
    BY EndShapes DEF EndOrders
  <1>2. CASE r.next = Len(r.ids)
    BY <1>2, EndTurns
  <1>3. CASE r.next # Len(r.ids)
    <2>1. new = [kind |-> "order", stage |-> "sent", ids |-> r.ids, next |-> r.next + 1]
      BY <1>1, <1>3
    <2>2. r.next + 1 \in Nat \ {0} /\ r.next + 1 <= Len(r.ids)
      BY <1>1, <1>3
    <2> QED BY <1>1, <1>3, <2>1, <2>2, DragShapes
  <1> QED BY <1>2, <1>3

-----------------------------------------------------------------------------
(* The server takes a request of the page of endpoints.                      *)

LEMMA EndsServe ==
    ASSUME EndsInv, NEW r \in DOMAIN net, Endpoints!Serve(r)
    PROVE  EndsTypes' /\ EndsListed' /\ EndsKnown' /\ EndsFresh'
  <1> USE DEF EndsInv
  <1>0. r \in EndRequests /\ r.stage = "sent" /\ view' = view /\ hist' = hist
    BY DEF Endpoints!Serve, EndsTypes
  <1>1. CASE Endpoints!ListEndpoints(r)
    <2> DEFINE new == [kind |-> "list", stage |-> "ok", n |-> r.n, rows |-> Endpoints!Table]
    <2>1. Turned(r, new) /\ server' = server /\ r.kind = "list"
      BY <1>1, TurnIsTurned DEF Endpoints!ListEndpoints
    <2>2. Endpoints!Table \in EndLists /\ Known(Endpoints!Table)
      BY TableRows DEF EndsTypes
    <2>3. new \in EndRequests
      BY <1>0, <2>1, <2>2, EndShapes DEF EndRequests
    <2>4. new.kind = "list" /\ new.stage = "ok" /\ new.n = r.n /\ new.rows = Endpoints!Table
      OBVIOUS
    <2>5. Endpoints!Table' = Endpoints!Table /\ Endpoints!Live' = Endpoints!Live
      BY <2>1 DEF Endpoints!Table, Endpoints!Listing, Endpoints!Row, Endpoints!Live,
                  Endpoints!Ahead, Endpoints!Before
    <2> HIDE DEF new
    <2>6. EndsTypes'
      BY <1>0, <2>1, <2>3 DEF EndsTypes, Turned
    <2>7. EndsListed'
      BY <1>0, <2>1, <2>4, <2>5 DEF EndsListed, Turned, NoChanges, Endpoints!Changes
    <2>8. EndsKnown'
      BY <1>0, <2>1, <2>2, <2>4 DEF EndsKnown, Turned, Known
    <2>9. EndUpdates' \subseteq EndUpdates /\ (NoChanges => NoChanges')
      BY <2>1, <2>4 DEF EndUpdates, Turned, NoChanges, Endpoints!Changes
    <2>10. EndsFresh'
      BY <1>0, <2>1, <2>5, <2>9 DEF EndsFresh, EndKeeps
    <2> QED BY <2>6, <2>7, <2>8, <2>10
  \* A change, which stays on its way until the page knows of it.
  <1>2. ASSUME NEW new \in EndRequests, Turned(r, new), new.kind = r.kind, r.kind # "list",
               new.stage = "sent" => r.kind # "update",
               new.stage # "failed" /\ r.kind = "update" => new.id = r.id,
               server' \in [Endpoints!Id -> EndRecords],
               \A i \in Endpoints!Id : server[i].status # "none" => server'[i].status # "none",
               \A i \in Endpoints!Id :
                   \/ server[i].status = "none"
                   \/ server'[i].status # "live"
                   \/ /\ server[i].status = "live"
                      /\ \/ \A f \in Endpoints!Fields : server'[i][f] = server[i][f]
                         \/ /\ r.kind = "update" /\ r.id = i
                            /\ \A f \in Endpoints!Fields : server'[i][f] = r.form[f]
        PROVE  EndsTypes' /\ EndsListed' /\ EndsKnown' /\ EndsFresh'
    <2>0. r.kind \in Endpoints!Changes /\ ~NoChanges
      BY <1>0, <1>2, EndShapes DEF NoChanges
    <2>00. ~NoChanges'
      BY <1>2, <2>0 DEF NoChanges, Turned
    <2>1. EndsTypes'
      BY <1>0, <1>2 DEF EndsTypes, Turned
    <2>2. EndsListed'
      BY <1>0, <1>2, <2>00 DEF EndsListed, Turned
    <2>3. EndsKnown'
      <3>1. \A list \in EndLists : Known(list) => Known(list)'
        <4> SUFFICES ASSUME NEW list \in EndLists, Known(list), NEW i \in DOMAIN list
                     PROVE  server'[list[i].id].status # "none"
          BY DEF Known
        <4>1. list[i] \in EndRows
          BY DEF EndLists
        <4>2. list[i].id \in Endpoints!Id /\ server[list[i].id].status # "none"
          BY <4>1 DEF EndRows, Known
        <4> QED BY <1>2, <4>2
      <3>2. Known(view.list)' /\ (view'.target # Endpoints!NoRow =>
                                      server'[view'.target.id].status # "none")
        <4>1. view.target # Endpoints!NoRow => view.target.id \in Endpoints!Id
          BY DEF EndsTypes, EndRows
        <4>2. view.list \in EndLists
          BY DEF EndsTypes
        <4>3. Known(view.list)'
          BY <1>0, <3>1, <4>2 DEF EndsKnown, Known
        <4> QED BY <1>0, <1>2, <4>1, <4>3 DEF EndsKnown
      <3>3. ASSUME NEW q \in DOMAIN net', q.stage # "failed"
            PROVE  /\ q.kind = "list" /\ q.stage = "ok" => Known(q.rows)'
                   /\ q.kind = "update" => server'[q.id].status # "none"
        <4>1. CASE q = new
          <5>1. r.kind = "update" => r.id \in Endpoints!Id
            BY <1>0, EndShapes
          <5> QED BY <1>0, <1>2, <3>3, <4>1, <5>1 DEF EndsKnown
        <4>2. CASE q \in DOMAIN net
          <5>1. /\ q.kind = "update" => q.id \in Endpoints!Id
                /\ q.kind = "list" /\ q.stage = "ok" => q.rows \in EndLists
            BY <3>3, <4>2, EndShapes DEF EndsTypes
          <5>2. q.kind = "list" /\ q.stage = "ok" => Known(q.rows)'
            BY <3>1, <4>2, <5>1 DEF EndsKnown, Known
          <5> QED BY <1>2, <3>3, <4>2, <5>1, <5>2 DEF EndsKnown
        <4> QED BY <1>2, <4>1, <4>2 DEF Turned
      <3> QED BY <3>2, <3>3 DEF EndsKnown, Known
    <2>4. EndUpdates' \subseteq EndUpdates
      BY <1>2 DEF EndUpdates, Turned
    <2>5. \A q \in EndUpdates : q.id \in Endpoints!Id /\ server[q.id].status # "none"
      BY EndShapes DEF EndsTypes, EndsKnown, EndUpdates
    <2>6. EndsFresh'
      <3>1. ~hist.fresh
        BY <2>0 DEF EndsFresh
      <3>2. ASSUME NEW q \in EndUpdates, q.id \notin hist.raced, q.fresh
            PROVE  EndKeeps(q.form, q.id, q.touched)'
        <4>1. r.kind = "update" /\ r.id = q.id => q = r
          BY <1>0, <3>2 DEF EndsFresh, EndUpdates
        <4> QED BY <1>2, <2>5, <3>2, <4>1 DEF EndsFresh, EndKeeps, Endpoints!Live
      <3> QED BY <1>0, <2>4, <3>1, <3>2 DEF EndsFresh
    <2> QED BY <2>1, <2>2, <2>3, <2>6
  <1>3. ASSUME net' = Endpoints!Succeeded(r), r.kind # "list"
        PROVE  \E new \in EndRequests :
                   /\ Turned(r, new) /\ new.kind = r.kind /\ new.stage = "ok"
                   /\ r.kind = "update" => new.id = r.id
    <2>1. Turned(r, [r EXCEPT !.stage = "ok"])
      BY <1>3, TurnIsTurned DEF Endpoints!Succeeded
    <2> QED BY <1>0, <1>3, <2>1, EndTurns
  <1>4. ASSUME net' = Endpoints!Failed(r)
        PROVE  \E new \in EndRequests :
                   Turned(r, new) /\ new.kind = r.kind /\ new.stage = "failed"
    <2>1. Turned(r, [kind |-> r.kind, stage |-> "failed"])
      BY <1>4, TurnIsTurned DEF Endpoints!Failed
    <2> QED BY <1>0, <2>1, EndTurns
  <1>5. \A i \in Endpoints!Id : server[i].status \in {"none", "live", "deleted"}
    BY DEF EndsTypes, EndRecords
  <1>6. CASE Endpoints!CreateEndpoint(r)
    <2>1. PICK i \in Endpoints!Id :
              /\ server[i].status = "none"
              /\ server' = [server EXCEPT ![i] = [status |-> "live", text |-> r.form.text,
                                                 active |-> TRUE, order |-> 0]]
      BY <1>6 DEF Endpoints!CreateEndpoint
    <2>2. r.kind = "create" /\ r.form \in EndForms
      BY <1>0, <1>6, EndShapes DEF Endpoints!CreateEndpoint
    <2>3. server' \in [Endpoints!Id -> EndRecords]
      <3>1. 0 \in 0..MaxRecords - 1
        BY <2>1, RecordsAssumption DEF Endpoints!Id
      <3> QED BY <2>1, <2>2, <3>1 DEF EndsTypes, EndRecords, EndForms
    <2>4. \A j \in Endpoints!Id : j # i => server'[j] = server[j]
      BY <2>1 DEF EndsTypes
    <2>5. server'[i].status = "live"
      BY <2>1 DEF EndsTypes
    <2> QED BY <1>2, <1>3, <1>5, <1>6, <2>1, <2>2, <2>3, <2>4, <2>5
            DEF Endpoints!CreateEndpoint
  <1>7. CASE Endpoints!UpdateEndpoint(r)
    <2>1. r.kind = "update" /\ net' = Endpoints!Succeeded(r) /\ r.form \in EndForms
      BY <1>0, <1>7, EndShapes DEF Endpoints!UpdateEndpoint
    <2>2. CASE r.id \in Endpoints!Live
      <3> DEFINE new == [status |-> "live", text |-> r.form.text, active |-> r.form.active,
                         order |-> server[r.id].order]
      <3>1. server' = [server EXCEPT ![r.id] = new]
        BY <1>7, <2>2 DEF Endpoints!UpdateEndpoint
      <3>2. r.id \in Endpoints!Id /\ server[r.id].status = "live"
        BY <2>2 DEF Endpoints!Live
      <3>3. new \in EndRecords /\ new.status = "live"
            /\ \A f \in Endpoints!Fields : new[f] = r.form[f]
        BY <2>1, <3>2 DEF EndsTypes, EndRecords, EndForms, Endpoints!Fields
      <3> HIDE DEF new
      <3>4. /\ server' \in [Endpoints!Id -> EndRecords] /\ server'[r.id] = new
            /\ \A j \in Endpoints!Id : j # r.id => server'[j] = server[j]
        BY <3>1, <3>2, <3>3 DEF EndsTypes
      <3> QED BY <1>2, <1>3, <1>5, <2>1, <3>2, <3>3, <3>4
    <2>3. CASE r.id \notin Endpoints!Live
      <3>1. server' = server
        BY <1>7, <2>3 DEF Endpoints!UpdateEndpoint
      <3> QED BY <1>2, <1>3, <1>5, <2>1, <3>1 DEF EndsTypes
    <2> QED BY <2>2, <2>3
  <1>8. CASE Endpoints!DeleteEndpoint(r)
    <2>1. CASE r.id \in Endpoints!Live
      <3>1. server' = [server EXCEPT ![r.id].status = "deleted"]
            /\ net' = Endpoints!Succeeded(r) /\ r.kind = "delete"
        BY <1>8, <2>1 DEF Endpoints!DeleteEndpoint
      <3>2. r.id \in Endpoints!Id
        BY <2>1 DEF Endpoints!Live
      <3>3. /\ server' \in [Endpoints!Id -> EndRecords] /\ server'[r.id].status = "deleted"
            /\ \A j \in Endpoints!Id : j # r.id => server'[j] = server[j]
        BY <3>1, <3>2 DEF EndsTypes, EndRecords
      <3> QED BY <1>2, <1>3, <1>5, <3>1, <3>2, <3>3
    <2>2. CASE r.id \notin Endpoints!Live
      <3>1. server' = server /\ net' = Endpoints!Failed(r) /\ r.kind = "delete"
        BY <1>8, <2>2 DEF Endpoints!DeleteEndpoint
      <3> QED BY <1>2, <1>4, <1>5, <3>1 DEF EndsTypes
    <2> QED BY <2>1, <2>2
  <1>9. CASE Endpoints!UpdateEndpointSortOrder(r)
    <2> DEFINE e == r.ids[r.next]
    <2>1. /\ r.kind = "order" /\ r.ids \in EndOrders /\ r.next \in 1..Len(r.ids)
          /\ r.next <= MaxRecords /\ r.next \in Nat \ {0}
      BY <1>0, <1>9, EndShapes, OrdersAreShort, RecordsAssumption
         DEF Endpoints!UpdateEndpointSortOrder, EndOrders
    <2>2. \E new \in EndRequests :
              Turned(r, new) /\ new.kind = "order"
      BY <1>0, <1>9, <2>1, DragTurns, TurnIsTurned DEF Endpoints!UpdateEndpointSortOrder
    <2>3. CASE e \in Endpoints!Live
      <3>1. server' = [server EXCEPT ![e].order = r.next - 1]
        BY <1>9, <2>3 DEF Endpoints!UpdateEndpointSortOrder
      <3>2. e \in Endpoints!Id
        BY <2>3 DEF Endpoints!Live
      <3>3. r.next - 1 \in 0..MaxRecords - 1
        BY <2>1, RecordsAssumption
      <3> HIDE DEF e
      <3>4. /\ server' \in [Endpoints!Id -> EndRecords]
            /\ server'[e].status = server[e].status
            /\ \A f \in Endpoints!Fields : server'[e][f] = server[e][f]
            /\ \A j \in Endpoints!Id : j # e => server'[j] = server[j]
        BY <3>1, <3>2, <3>3 DEF EndsTypes, EndRecords, Endpoints!Fields
      <3> QED BY <1>2, <1>5, <2>1, <2>2, <3>2, <3>4
    <2>4. CASE e \notin Endpoints!Live
      <3>1. server' = server
        BY <1>9, <2>4 DEF Endpoints!UpdateEndpointSortOrder
      <3> QED BY <1>2, <1>5, <2>1, <2>2, <3>1 DEF EndsTypes
    <2> QED BY <2>3, <2>4
  <1> QED BY <1>1, <1>6, <1>7, <1>8, <1>9 DEF Endpoints!Serve

LEMMA EndsReceive ==
    ASSUME EndsInv, NEW r \in DOMAIN net, Endpoints!Receive(r) \/ Endpoints!Fails(r)
    PROVE  EndsTypes' /\ EndsListed' /\ EndsKnown' /\ EndsFresh'
  <1> USE DEF EndsInv
  <1>0. r \in EndRequests /\ server' = server
    BY DEF Endpoints!Receive, Endpoints!Fails, EndsTypes
  <1>1. Endpoints!Table' = Endpoints!Table /\ Endpoints!Live' = Endpoints!Live
    BY <1>0 DEF Endpoints!Table, Endpoints!Listing, Endpoints!Row, Endpoints!Live,
                Endpoints!Ahead, Endpoints!Before
  <1>2. CASE Endpoints!Fails(r)
    <2> DEFINE new == [kind |-> r.kind, stage |-> "failed"]
    <2>1. Turned(r, new) /\ UNCHANGED <<view, hist>> /\ r.stage # "failed"
      BY <1>2, TurnIsTurned DEF Endpoints!Fails, Endpoints!Failed
    <2>2. new \in EndRequests /\ new.kind = r.kind /\ new.stage = "failed"
      BY <1>0, <2>1, EndTurns
    <2> HIDE DEF new
    <2>3. EndUpdates' \subseteq EndUpdates /\ (NoChanges' <=> NoChanges)
      BY <2>1, <2>2 DEF EndUpdates, Turned, NoChanges
    <2>4. EndsTypes'
      BY <1>0, <2>1, <2>2 DEF EndsTypes, Turned
    <2>5. EndsListed'
      BY <1>1, <2>1, <2>2, <2>3 DEF EndsListed, Turned
    <2>6. EndsKnown'
      BY <1>0, <2>1, <2>2 DEF EndsKnown, Turned, Known
    <2>7. EndsFresh'
      BY <1>0, <1>1, <2>1, <2>3 DEF EndsFresh, EndKeeps
    <2> QED BY <2>4, <2>5, <2>6, <2>7
  <1>3. CASE Endpoints!LoadEndpoints(r) /\ Endpoints!Receive(r)
    <2>1. net' = Endpoints!Done(r) /\ r.kind = "list" /\ r.stage \in {"ok", "failed"}
      BY <1>3 DEF Endpoints!LoadEndpoints, Endpoints!Receive
    <2>2. DOMAIN net' \subseteq DOMAIN net /\ DOMAIN net \ {r} \subseteq DOMAIN net'
      BY <2>1, DoneRemoves
    <2>3. EndUpdates' \subseteq EndUpdates /\ (NoChanges' <=> NoChanges)
      BY <2>1, <2>2 DEF EndUpdates, NoChanges, Endpoints!Changes
    <2>4. CASE r.stage = "failed"
      <3>1. UNCHANGED <<view, hist>>
        BY <1>3, <2>4 DEF Endpoints!LoadEndpoints
      <3>2. EndsTypes' /\ EndsKnown'
        BY <1>0, <2>2, <3>1 DEF EndsTypes, EndsKnown, Known
      <3>3. EndsListed'
        BY <1>1, <2>1, <2>2, <2>3, <3>1 DEF EndsListed
      <3>4. EndsFresh'
        BY <1>0, <1>1, <2>2, <2>3, <3>1 DEF EndsFresh, EndKeeps
      <3> QED BY <3>2, <3>3, <3>4
    <2>5. CASE r.stage = "ok"
      <3>1. r.n \in Nat /\ r.rows \in EndLists
        BY <1>0, <2>1, <2>5, EndShapes
      <3>2. /\ view' = [list |-> r.rows, dialog |-> view.dialog, target |-> view.target,
                        form |-> view.form]
            /\ hist' = [loads |-> hist.loads, shown |-> r.n, fresh |-> hist.fresh,
                        touched |-> hist.touched, raced |-> hist.raced,
                        dropped |-> hist.dropped, commands |-> hist.commands]
        BY <1>3, <2>5 DEF Endpoints!LoadEndpoints, EndsTypes
      <3>3. EndsTypes'
        BY <1>0, <2>2, <3>1, <3>2 DEF EndsTypes
      <3>4. EndsListed'
        BY <1>1, <2>1, <2>2, <2>3, <2>5, <3>2 DEF EndsListed
      <3>5. EndsKnown'
        BY <1>0, <2>1, <2>2, <2>5, <3>2 DEF EndsKnown, Known
      <3>6. EndsFresh'
        BY <1>0, <1>1, <2>2, <2>3, <3>2 DEF EndsFresh, EndKeeps
      <3> QED BY <3>3, <3>4, <3>5, <3>6
    <2> QED BY <2>1, <2>4, <2>5
  <1>4. CASE Endpoints!Changed(r)
    <2>1. /\ r.kind \in Endpoints!Changes /\ view' = view /\ ~NoChanges
          /\ \E dropped \in {hist.dropped, <<>>} :
                 hist' = [loads |-> hist.loads + 1, shown |-> hist.shown, fresh |-> hist.fresh,
                          touched |-> hist.touched, raced |-> hist.raced,
                          dropped |-> dropped, commands |-> hist.commands]
      BY <1>4 DEF Endpoints!Changed, Endpoints!Fresh, EndsTypes, NoChanges
    <2> DEFINE new == [kind |-> "list", stage |-> "sent", n |-> hist.loads + 1]
    <2>2. DOMAIN net' \subseteq DOMAIN net \cup {new}
      <3>1. CASE net' = Endpoints!Turn(r, Endpoints!Load(hist))
        BY <3>1, TurnIsTurned DEF Turned, Endpoints!Load
      <3>2. CASE net' = Endpoints!Done(r)
        BY <3>2, DoneRemoves
      <3> QED BY <1>4, <3>1, <3>2 DEF Endpoints!Changed
    <2>3. new \in EndRequests /\ new.kind = "list" /\ new.stage = "sent"
          /\ new.n = hist.loads + 1
      BY DEF EndRequests, EndsTypes
    <2>4. \A q \in DOMAIN net : q.kind = "list" /\ q.stage # "failed" => q.n \in Nat
      BY EndShapes DEF EndsTypes
    <2> HIDE DEF new
    <2>5. <<>> \in EndOrders
      BY DEF EndOrders, Distinct
    <2>6. EndsTypes'
      BY <1>0, <2>1, <2>2, <2>3, <2>5 DEF EndsTypes
    <2>7. EndsKnown'
      BY <1>0, <2>1, <2>2, <2>3 DEF EndsKnown, Known
    <2>8. EndsListed'
      <3>1. hist'.shown < hist'.loads /\ hist'.loads = hist.loads + 1
        BY <2>1 DEF EndsListed, EndsTypes
      <3>2. \A q \in DOMAIN net' : q.kind = "list" /\ q.stage # "failed" => q.n <= hist'.loads
        BY <2>2, <2>3, <2>4, <3>1 DEF EndsListed, EndsTypes
      <3>3. \A q \in DOMAIN net' : q.kind = "list" /\ q.stage = "ok" => q.n # hist'.loads
        BY <2>2, <2>3, <2>4, <3>1 DEF EndsListed, EndsTypes
      <3>4. hist.shown \in Nat /\ hist.loads \in Nat /\ hist'.shown = hist.shown
        BY <2>1 DEF EndsTypes
      <3> QED BY <3>1, <3>2, <3>3, <3>4 DEF EndsListed
    <2>9. EndUpdates' \subseteq EndUpdates
      BY <2>2, <2>3 DEF EndUpdates
    <2>10. EndsFresh'
      BY <1>0, <1>1, <2>1, <2>9 DEF EndsFresh, EndKeeps
    <2> QED BY <2>6, <2>7, <2>8, <2>10
  <1> QED BY <1>2, <1>3, <1>4 DEF Endpoints!Receive

LEMMA EndsEdit ==
    ASSUME EndsInv, Endpoints!Administrator
    PROVE  EndsTypes' /\ EndsListed' /\ EndsKnown' /\ EndsFresh'
  <1> USE DEF EndsInv
  <1>0. server' = server
    BY DEF Endpoints!Administrator, Endpoints!OpenCreate, Endpoints!CloseDialog,
           Endpoints!HandleSubmit, Endpoints!HandleEditSubmit,
           Endpoints!ConfirmDeleteEndpoint, Endpoints!Type, Endpoints!HandleEditEndpoint,
           Endpoints!HandleDeleteEndpoint, Endpoints!HandleDragEnd
  <1>1. Endpoints!Table' = Endpoints!Table /\ Endpoints!Live' = Endpoints!Live
    BY <1>0 DEF Endpoints!Table, Endpoints!Listing, Endpoints!Row, Endpoints!Live,
                Endpoints!Ahead, Endpoints!Before
  <1>2. Endpoints!EmptyForm \in EndForms /\ <<>> \in EndOrders
    BY DEF Endpoints!EmptyForm, EndForms, EndText, EndOrders, Distinct
  \* A dialog opens, closes or is typed in; the list stays.
  <1>3. ASSUME UNCHANGED net,
               view' \in [list : {view.list}, dialog : {"none", "create", "edit", "delete"},
                          target : EndRows \cup {Endpoints!NoRow}, form : EndForms],
               view'.dialog \in {"edit", "delete"} => view'.target # Endpoints!NoRow,
               view'.target # Endpoints!NoRow =>
                   \/ view'.target = view.target
                   \/ \E i \in DOMAIN view.list : view'.target = view.list[i],
               hist' \in [loads : {hist.loads}, shown : {hist.shown}, fresh : BOOLEAN,
                          touched : SUBSET Endpoints!Fields, raced : {hist.raced},
                          dropped : {hist.dropped}, commands : {hist.commands}],
               hist'.fresh => /\ view'.dialog = "edit" /\ NoChanges
                              /\ EndKeeps(view'.form, view'.target.id, hist'.touched)
        PROVE  EndsTypes' /\ EndsListed' /\ EndsKnown' /\ EndsFresh'
    <2>1. EndsTypes'
      BY <1>0, <1>3 DEF EndsTypes
    <2>2. NoChanges' <=> NoChanges
      BY <1>3 DEF NoChanges
    <2>3. EndsListed'
      BY <1>0, <1>1, <1>3, <2>2 DEF EndsListed
    <2>4. EndsKnown'
      BY <1>0, <1>3 DEF EndsKnown, Known
    <2>5. EndsFresh'
      BY <1>0, <1>1, <1>3, <2>2 DEF EndsFresh, EndKeeps, EndUpdates
    <2> QED BY <2>1, <2>3, <2>4, <2>5
  <1>4. CASE Endpoints!OpenCreate
    <2>1. /\ view' \in [list : {view.list}, dialog : {"create"}, target : {view.target},
                        form : {view.form}]
          /\ UNCHANGED <<net, hist>> /\ view.dialog = "none"
      BY <1>4 DEF Endpoints!OpenCreate, Endpoints!Idle, EndsTypes
    <2> QED BY <1>3, <2>1 DEF EndsTypes, EndsFresh
  <1>5. CASE Endpoints!CloseDialog
    <2>1. /\ view' \in [list : {view.list}, dialog : {"none"}, target : {Endpoints!NoRow},
                        form : {view.form, Endpoints!EmptyForm}]
          /\ UNCHANGED net
      BY <1>5 DEF Endpoints!CloseDialog, Endpoints!Closed, EndsTypes
    <2>2. hist' \in [loads : {hist.loads}, shown : {hist.shown}, fresh : {FALSE},
                     touched : {{}}, raced : {hist.raced}, dropped : {hist.dropped},
                     commands : {hist.commands}]
      BY <1>5 DEF Endpoints!CloseDialog, EndsTypes
    <2> QED BY <1>2, <1>3, <2>1, <2>2 DEF EndsTypes
  <1>6. ASSUME NEW i \in DOMAIN view.list, Endpoints!HandleEditEndpoint(i)
        PROVE  EndsTypes' /\ EndsListed' /\ EndsKnown' /\ EndsFresh'
    <2> DEFINE row == view.list[i]
               form == [text |-> row.text, active |-> row.active]
    <2>1. /\ view' \in [list : {view.list}, dialog : {"edit"}, target : {row},
                        form : {form}]
          /\ UNCHANGED net
      BY <1>6 DEF Endpoints!HandleEditEndpoint, EndsTypes
    <2>2. /\ hist' \in [loads : {hist.loads}, shown : {hist.shown}, fresh : BOOLEAN,
                        touched : {{}}, raced : {hist.raced}, dropped : {hist.dropped},
                        commands : {hist.commands}]
          /\ hist'.fresh => row = Endpoints!Row(row.id)
                            /\ ~Endpoints!Awaited(Endpoints!Changes)
      BY <1>6 DEF Endpoints!HandleEditEndpoint, EndsTypes
    <2>3. row \in EndRows
      BY DEF EndsTypes, EndLists
    <2>4. row # Endpoints!NoRow /\ form \in EndForms
      BY <2>3 DEF EndRows, Endpoints!NoRow, Endpoints!Id, EndForms
    <2>5. row = Endpoints!Row(row.id) => EndKeeps(form, row.id, {})
      BY DEF EndKeeps, Endpoints!Row, Endpoints!Fields
    <2>6. ~Endpoints!Awaited(Endpoints!Changes) => NoChanges
      BY DEF Endpoints!Awaited, NoChanges, Endpoints!InFlight, Endpoints!BagToSet
    <2> HIDE DEF form
    <2> QED BY <1>3, <2>1, <2>2, <2>3, <2>4, <2>5, <2>6
  <1>7. ASSUME NEW i \in DOMAIN view.list, Endpoints!HandleDeleteEndpoint(i)
        PROVE  EndsTypes' /\ EndsListed' /\ EndsKnown' /\ EndsFresh'
    <2> DEFINE row == view.list[i]
    <2>1. /\ view' \in [list : {view.list}, dialog : {"delete"}, target : {row},
                        form : {view.form}]
          /\ UNCHANGED <<net, hist>> /\ view.dialog = "none"
      BY <1>7 DEF Endpoints!HandleDeleteEndpoint, Endpoints!Idle, EndsTypes
    <2>2. row \in EndRows
      BY DEF EndsTypes, EndLists
    <2>3. row # Endpoints!NoRow
      BY <2>2 DEF EndRows, Endpoints!NoRow, Endpoints!Id
    <2> QED BY <1>3, <2>1, <2>2, <2>3 DEF EndsTypes, EndsFresh
  <1>8. ASSUME NEW form \in [text : Text, active : BOOLEAN], Endpoints!Type(form)
        PROVE  EndsTypes' /\ EndsListed' /\ EndsKnown' /\ EndsFresh'
    <2> DEFINE changed == {f \in Endpoints!Fields : form[f] # view.form[f]}
    <2>1. /\ view' \in [list : {view.list}, dialog : {view.dialog}, target : {view.target},
                        form : {form}]
          /\ hist' \in [loads : {hist.loads}, shown : {hist.shown}, fresh : {hist.fresh},
                        touched : {hist.touched \cup changed}, raced : {hist.raced},
                        dropped : {hist.dropped}, commands : {hist.commands}]
          /\ UNCHANGED net
      BY <1>8 DEF Endpoints!Type, EndsTypes
    <2>2. form \in EndForms
      BY DEF EndForms, EndText
    <2>3. hist.fresh => EndKeeps(form, view.target.id, hist.touched \cup changed)
      BY DEF EndsFresh, EndKeeps
    <2>4. changed \in SUBSET Endpoints!Fields
      OBVIOUS
    <2> HIDE DEF changed
    <2> QED BY <1>3, <2>1, <2>2, <2>3, <2>4 DEF EndsTypes, EndsFresh
  \* A new request, with the dialogs closed.
  <1>9. ASSUME NEW new \in EndRequests, DOMAIN net' = DOMAIN net \cup {new},
               new.stage = "sent", new.kind \in Endpoints!Changes,
               view' \in [list : {view.list}, dialog : {"none"},
                          target : {view.target, Endpoints!NoRow}, form : EndForms],
               NEW raced \in SUBSET Endpoints!Id, hist.raced \subseteq raced,
               hist' \in [loads : {hist.loads}, shown : {hist.shown}, fresh : BOOLEAN,
                          touched : SUBSET Endpoints!Fields, raced : {raced},
                          dropped : EndOrders, commands : Nat],
               ~hist'.fresh,
               new.kind = "update" =>
                   /\ server[new.id].status # "none"
                   /\ new.fresh => EndKeeps(new.form, new.id, new.touched)
                   /\ new.id \notin raced => \A q \in EndUpdates : q.id # new.id
        PROVE  EndsTypes' /\ EndsListed' /\ EndsKnown' /\ EndsFresh'
    <2>1. EndsTypes'
      BY <1>0, <1>9 DEF EndsTypes
    <2>2. ~NoChanges'
      BY <1>9 DEF NoChanges
    <2>3. EndsListed'
      BY <1>0, <1>1, <1>9, <2>2 DEF EndsListed, Endpoints!Changes
    <2>4. EndsKnown'
      BY <1>0, <1>9 DEF EndsKnown, Known, Endpoints!Changes
    <2>5. EndUpdates' \subseteq EndUpdates \cup {new}
          /\ (new \in EndUpdates' => new.kind = "update" \/ new \in EndUpdates)
      BY <1>9 DEF EndUpdates
    <2>6. EndsFresh'
      BY <1>0, <1>1, <1>9, <2>5 DEF EndsFresh, EndKeeps
    <2> QED BY <2>1, <2>3, <2>4, <2>6
  <1>10. CASE Endpoints!HandleSubmit
    <2> DEFINE new == [kind |-> "create", stage |-> "sent", form |-> view.form]
    <2>1. /\ net' = Endpoints!Send(new)
          /\ view' \in [list : {view.list}, dialog : {"none"}, target : {Endpoints!NoRow},
                        form : {Endpoints!EmptyForm}]
          /\ hist' \in [loads : {hist.loads}, shown : {hist.shown}, fresh : {FALSE},
                        touched : {{}}, raced : {hist.raced}, dropped : {<<>>},
                        commands : {hist.commands + 1}]
      BY <1>10 DEF Endpoints!HandleSubmit, Endpoints!Closed, Endpoints!Counted, EndsTypes
    <2>2. DOMAIN net' = DOMAIN net \cup {new}
      BY <2>1, SendAdds
    <2>3. new \in EndRequests /\ new.stage = "sent" /\ new.kind = "create"
          /\ new.kind \in Endpoints!Changes
      BY DEF EndsTypes, EndRequests, Endpoints!Changes
    <2>4. hist.commands + 1 \in Nat /\ hist.raced \in SUBSET Endpoints!Id
      BY DEF EndsTypes
    <2> HIDE DEF new
    <2> QED BY <1>2, <1>9, <2>1, <2>2, <2>3, <2>4
  <1>11. CASE Endpoints!HandleEditSubmit
    <2> DEFINE e == view.target.id
               new == [kind |-> "update", stage |-> "sent", id |-> e, form |-> view.form,
                       fresh |-> hist.fresh, touched |-> hist.touched]
               raced == IF \E r \in Endpoints!In("sent") : r.kind = "update" /\ r.id = e
                        THEN hist.raced \cup {e} ELSE hist.raced
    <2>1. /\ net' = Endpoints!Send(new) /\ view.dialog = "edit"
          /\ view' \in [list : {view.list}, dialog : {"none"}, target : {Endpoints!NoRow},
                        form : {Endpoints!EmptyForm}]
          /\ hist' \in [loads : {hist.loads}, shown : {hist.shown}, fresh : {FALSE},
                        touched : {{}}, raced : {raced}, dropped : {hist.dropped},
                        commands : {hist.commands + 1}]
      BY <1>11 DEF Endpoints!HandleEditSubmit, Endpoints!Closed, Endpoints!Counted, EndsTypes
    <2>2. DOMAIN net' = DOMAIN net \cup {new}
      BY <2>1, SendAdds
    <2>3. view.target # Endpoints!NoRow /\ e \in Endpoints!Id /\ server[e].status # "none"
      BY <2>1 DEF EndsTypes, EndRows, EndsKnown
    <2>4. /\ new \in EndRequests /\ new.stage = "sent" /\ new.kind \in Endpoints!Changes
          /\ new.id = e /\ new.form = view.form /\ new.fresh = hist.fresh
          /\ new.touched = hist.touched
      BY <2>3 DEF EndsTypes, EndRequests, Endpoints!Changes
    <2>5. raced \in SUBSET Endpoints!Id /\ hist.raced \subseteq raced
      BY <2>3 DEF EndsTypes
    <2>6. e \notin raced => \A q \in EndUpdates : q.id # e
      BY DEF EndUpdates, Endpoints!In, Endpoints!InFlight, Endpoints!BagToSet
    <2>7. hist.commands + 1 \in Nat /\ hist.dropped \in EndOrders
      BY DEF EndsTypes
    <2>8. hist.fresh => EndKeeps(view.form, e, hist.touched)
      BY DEF EndsFresh
    <2> HIDE DEF new, raced, e
    <2> QED BY <1>2, <1>9, <2>1, <2>2, <2>3, <2>4, <2>5, <2>6, <2>7, <2>8
  <1>12. CASE Endpoints!ConfirmDeleteEndpoint
    <2> DEFINE new == [kind |-> "delete", stage |-> "sent", id |-> view.target.id]
    <2>1. /\ net' = Endpoints!Send(new) /\ view.dialog = "delete"
          /\ view' \in [list : {view.list}, dialog : {"none"}, target : {Endpoints!NoRow},
                        form : {view.form}]
          /\ hist' \in [loads : {hist.loads}, shown : {hist.shown}, fresh : {hist.fresh},
                        touched : {hist.touched}, raced : {hist.raced}, dropped : {<<>>},
                        commands : {hist.commands + 1}]
      BY <1>12 DEF Endpoints!ConfirmDeleteEndpoint, Endpoints!Counted, EndsTypes
    <2>2. DOMAIN net' = DOMAIN net \cup {new}
      BY <2>1, SendAdds
    <2>3. view.target.id \in Endpoints!Id
      BY <2>1 DEF EndsTypes, EndRows
    <2>4. new \in EndRequests /\ new.stage = "sent" /\ new.kind = "delete"
          /\ new.kind \in Endpoints!Changes
      BY <2>3 DEF EndRequests, Endpoints!Changes
    <2>5. /\ hist.commands + 1 \in Nat /\ hist.raced \in SUBSET Endpoints!Id
          /\ hist.touched \in SUBSET Endpoints!Fields /\ hist.fresh \in BOOLEAN
          /\ view.form \in EndForms
      BY DEF EndsTypes
    <2>6. ~hist.fresh
      BY <2>1 DEF EndsFresh
    <2> HIDE DEF new
    <2> QED BY <1>2, <1>9, <2>1, <2>2, <2>4, <2>5, <2>6
  <1>13. ASSUME NEW i \in DOMAIN view.list, NEW j \in DOMAIN view.list,
                Endpoints!HandleDragEnd(i, j)
         PROVE  EndsTypes' /\ EndsListed' /\ EndsKnown' /\ EndsFresh'
    <2> DEFINE moved == Endpoints!ArrayMove(Endpoints!Ids(view.list), i, j)
               new == [kind |-> "order", stage |-> "sent", ids |-> moved, next |-> 1]
    <2>1. /\ net' = Endpoints!Send(new) /\ view' = view /\ view.dialog = "none"
          /\ hist' \in [loads : {hist.loads}, shown : {hist.shown}, fresh : {hist.fresh},
                        touched : {hist.touched}, raced : {hist.raced},
                        dropped : {moved, <<>>}, commands : {hist.commands + 1}]
      BY <1>13 DEF Endpoints!HandleDragEnd, Endpoints!Idle, Endpoints!Counted, EndsTypes
    <2>2. DOMAIN net' = DOMAIN net \cup {new}
      BY <2>1, SendAdds
    <2>3. moved \in EndOrders /\ 1 <= Len(moved)
      BY MovedRows DEF EndsTypes
    <2>4. new \in EndRequests /\ new.stage = "sent" /\ new.kind = "order"
          /\ new.kind \in Endpoints!Changes
      <3> HIDE DEF moved
      <3>1. 1 \in Nat \ {0}
        OBVIOUS
      <3>2. new \in EndRequests
        BY <2>3, <3>1, DragShapes
      <3> QED BY <3>2 DEF Endpoints!Changes
    <2>5. /\ hist.commands + 1 \in Nat /\ hist.raced \in SUBSET Endpoints!Id
          /\ hist.touched \in SUBSET Endpoints!Fields /\ hist.fresh \in BOOLEAN
          /\ view \in [list : {view.list}, dialog : {"none"}, target : {view.target},
                       form : EndForms]
      BY <2>1 DEF EndsTypes
    <2>6. ~hist.fresh
      BY <2>1 DEF EndsFresh
    <2> HIDE DEF new, moved
    <2> QED BY <1>2, <1>9, <2>1, <2>2, <2>3, <2>4, <2>5, <2>6
  <1> QED BY <1>4, <1>5, <1>6, <1>7, <1>8, <1>10, <1>11, <1>12, <1>13
          DEF Endpoints!Administrator

-----------------------------------------------------------------------------
(* The last drag of the endpoints.                                           *)

\* It counts on while no other changes rows or their order.
LEMMA DropStays ==
    ASSUME EndsTypes, EndsDropped, hist'.dropped \in {hist.dropped, <<>>},
           hist'.dropped # <<>> =>
               /\ Endpoints!Live' = Endpoints!Live
               /\ \A e \in Endpoints!Live : server'[e].order = server[e].order
               /\ \A r \in DOMAIN net' : r.kind \in {"create", "delete", "order"} =>
                      r \in DOMAIN net /\ net'[r] = net[r]
               /\ Drags \subseteq DOMAIN net'
    PROVE  EndsDropped'
  <1> SUFFICES ASSUME hist'.dropped # <<>> PROVE EndsDropped'
    BY DEF EndsDropped
  <1> DEFINE s == hist.dropped
  <1>1. hist'.dropped = s /\ s # <<>>
    OBVIOUS
  <1>2. Drags' = Drags /\ \A r \in Drags : net'[r] = net[r]
    BY DEF Drags
  <1>3. Endpoints!Range(s)' = Endpoints!Live'
    BY <1>1 DEF EndsDropped, Endpoints!Range
  <1>4. \A i \in 1..Len(s) : s[i] \in Endpoints!Live
    BY <1>1 DEF EndsDropped, EndsTypes, EndOrders, Endpoints!Range
  <1>5. \A r \in Drags : r.stage # "failed" => r.next \in 1..Len(r.ids)
    BY EndShapes DEF EndsTypes, Drags, EndOrders
  <1>6. ASSUME NEW n \in 0..Len(s), Written(s, n) PROVE Written(s, n)'
    <2>1. \A i \in 1..n : i \in 1..Len(s)
      BY DEF EndsTypes, EndOrders
    <2> QED BY <1>1, <1>4, <1>6, <2>1 DEF Written
  <1>7. Len(s) \in 0..Len(s)
    BY DEF EndsTypes, EndOrders
  <1>8. ASSUME NEW r \in Drags
        PROVE  /\ r.stage # "failed" => r.ids = s
               /\ r.stage = "sent" => Written(s, r.next - 1)'
               /\ r.stage = "ok" => Written(s, Len(s))'
    <2>1. r.stage # "failed" => r.ids = s
      BY <1>1 DEF EndsDropped
    <2>2. r.stage = "sent" => r.next - 1 \in 0..Len(s)
      BY <1>5, <2>1 DEF EndsTypes, EndOrders
    <2> QED BY <1>1, <1>6, <1>7, <2>1, <2>2 DEF EndsDropped
  <1>9. Drags = {} => Written(s, Len(s))'
    BY <1>1, <1>6, <1>7 DEF EndsDropped
  <1> QED BY <1>1, <1>2, <1>3, <1>8, <1>9 DEF EndsDropped

LEMMA DropServe ==
    ASSUME EndsInv, NEW r \in DOMAIN net, Endpoints!Serve(r)
    PROVE  EndsDropped'
  <1> USE DEF EndsInv
  <1>0. r \in EndRequests /\ r.stage = "sent" /\ view' = view /\ hist' = hist
    BY DEF Endpoints!Serve, EndsTypes
  <1> SUFFICES ASSUME hist.dropped # <<>> PROVE EndsDropped'
    BY <1>0 DEF EndsDropped
  <1>1. CASE Endpoints!ListEndpoints(r)
    <2> DEFINE new == [kind |-> "list", stage |-> "ok", n |-> r.n, rows |-> Endpoints!Table]
    <2>1. net' = Endpoints!Turn(r, new) /\ server' = server /\ r.kind = "list"
      BY <1>1 DEF Endpoints!ListEndpoints
    <2>2. new.kind = "list"
      OBVIOUS
    <2> HIDE DEF new
    <2>3. \A q \in DOMAIN net' : q.kind # "list" => q \in DOMAIN net /\ net'[q] = net[q]
      BY <2>1, <2>2, TurnCounts
    <2>4. Drags \subseteq DOMAIN net'
      BY <2>1, <2>2, TurnCounts DEF Drags
    <2> QED BY <1>0, <2>1, <2>3, <2>4, DropStays DEF Endpoints!Live
  <1>2. CASE Endpoints!CreateEndpoint(r) \/ Endpoints!DeleteEndpoint(r)
    BY <1>2 DEF EndsDropped, Endpoints!CreateEndpoint, Endpoints!DeleteEndpoint
  <1>3. CASE Endpoints!UpdateEndpoint(r)
    <2> DEFINE new == [r EXCEPT !.stage = "ok"]
    <2>1. net' = Endpoints!Turn(r, new) /\ r.kind = "update"
      BY <1>3 DEF Endpoints!UpdateEndpoint, Endpoints!Succeeded
    <2>2. new.kind = "update"
      BY <1>0, <2>1, EndTurns
    <2> HIDE DEF new
    <2>3. \A q \in DOMAIN net' : q.kind # "update" => q \in DOMAIN net /\ net'[q] = net[q]
      BY <2>1, <2>2, TurnCounts
    <2>4. Drags \subseteq DOMAIN net'
      BY <2>1, <2>2, TurnCounts DEF Drags
    <2>5. /\ Endpoints!Live' = Endpoints!Live
          /\ \A e \in Endpoints!Live : server'[e].order = server[e].order
      <3>1. CASE server' = server
        BY <3>1 DEF Endpoints!Live
      <3>2. CASE r.id \in Endpoints!Live /\
                 server' = [server EXCEPT ![r.id] =
                     [status |-> "live", text |-> r.form.text, active |-> r.form.active,
                      order |-> server[r.id].order]]
        BY <3>2 DEF Endpoints!Live, EndsTypes
      <3> QED BY <1>3, <3>1, <3>2 DEF Endpoints!UpdateEndpoint
    <2> QED BY <1>0, <2>3, <2>4, <2>5, DropStays
  <1>4. CASE Endpoints!UpdateEndpointSortOrder(r)
    <2> DEFINE s == hist.dropped
               k == r.next
               new == IF r.next = Len(r.ids) THEN [r EXCEPT !.stage = "ok"]
                      ELSE [r EXCEPT !.next = r.next + 1]
    <2>1. r.kind = "order" /\ net' = Endpoints!Turn(r, new)
      BY <1>4 DEF Endpoints!UpdateEndpointSortOrder
    <2>2. /\ r \in Drags /\ net[r] = 1 /\ r.ids = s /\ Written(s, k - 1)
          /\ \A q \in Drags : q = r
      BY <1>0, <2>1 DEF EndsDropped, Drags
    <2>3. /\ k \in 1..Len(s) /\ s \in EndOrders /\ Len(s) \in Nat /\ DOMAIN s = 1..Len(s)
          /\ \A i, j \in 1..Len(s) : s[i] = s[j] => i = j
      BY <1>0, <2>1, <2>2, EndShapes DEF EndsTypes, EndOrders, Distinct
    <2>4. /\ new \in EndRequests /\ new.kind = "order" /\ new.ids = s
          /\ k = Len(s) => new.stage = "ok"
          /\ k # Len(s) => new.stage = "sent" /\ new.next = k + 1
      BY <1>0, <2>1, <2>2, DragTurns
    <2>5. Endpoints!Range(s) = Endpoints!Live /\ \A i \in 1..Len(s) : s[i] \in Endpoints!Live
      BY <2>3 DEF EndsDropped, Endpoints!Range
    <2>6. server' = [server EXCEPT ![s[k]].order = k - 1]
      BY <1>4, <2>2, <2>3, <2>5 DEF Endpoints!UpdateEndpointSortOrder
    <2>7. /\ s[k] \in Endpoints!Id /\ server'[s[k]].order = k - 1
          /\ server'[s[k]].status = server[s[k]].status
          /\ \A e \in Endpoints!Id : e # s[k] => server'[e] = server[e]
      <3>1. s[k] \in Endpoints!Id
        BY <2>3, <2>5 DEF Endpoints!Live
      <3> HIDE DEF s, k
      <3> QED BY <2>6, <3>1 DEF EndsTypes, EndRecords
    <2>8. Endpoints!Live' = Endpoints!Live
      BY <2>7 DEF Endpoints!Live
    <2>9. Written(s, k)'
      <3> SUFFICES ASSUME NEW i \in 1..k PROVE server'[s[i]].order = i - 1
        BY <1>0 DEF Written
      <3>1. i \in 1..Len(s) /\ s[i] \in Endpoints!Id
        BY <2>3, <2>5 DEF Endpoints!Live
      <3>2. CASE i = k
        BY <2>7, <3>2
      <3>3. CASE i # k
        <4>1. i \in 1..k - 1 /\ s[i] # s[k]
          BY <2>3, <3>1, <3>3
        <4> QED BY <2>2, <2>7, <3>1, <4>1 DEF Written
      <3> QED BY <3>2, <3>3
    <2> HIDE DEF new
    <2>10. new # r /\ (k # Len(s) => new.next - 1 = k)
      <3>1. k # k + 1 /\ (k + 1) - 1 = k
        BY <2>3
      <3> QED BY <1>0, <2>4, <3>1
    <2>11. new \notin DOMAIN net
      BY <2>2, <2>4, <2>10 DEF Drags
    <2>12. /\ r \notin DOMAIN net' /\ new \in DOMAIN net' /\ net'[new] = 1
           /\ \A q \in DOMAIN net' : q # new => q \in DOMAIN net
      BY <2>1, <2>2, <2>10, <2>11, TurnCounts
    <2>13. Drags' = {new}
      BY <2>2, <2>4, <2>12 DEF Drags
    <2>14. \A q \in DOMAIN net' : q.kind \notin {"create", "delete"}
      BY <2>4, <2>12 DEF EndsDropped
    <2>15. /\ new.stage = "sent" => Written(s, new.next - 1)'
           /\ new.stage = "ok" => Written(s, Len(s))'
      <3>1. CASE k = Len(s)
        BY <1>0, <2>4, <2>9, <3>1 DEF Written
      <3>2. CASE k # Len(s)
        BY <1>0, <2>4, <2>9, <2>10, <3>2 DEF Written
      <3> QED BY <3>1, <3>2
    <2>16. hist'.dropped = s /\ Endpoints!Range(s)' = Endpoints!Live'
      BY <1>0, <2>5, <2>8 DEF Endpoints!Range
    <2> QED BY <2>4, <2>12, <2>13, <2>14, <2>15, <2>16 DEF EndsDropped
  <1> QED BY <1>1, <1>2, <1>3, <1>4 DEF Endpoints!Serve

LEMMA DropReceive ==
    ASSUME EndsInv, NEW r \in DOMAIN net, Endpoints!Receive(r) \/ Endpoints!Fails(r)
    PROVE  EndsDropped'
  <1> USE DEF EndsInv
  <1>0. r \in EndRequests /\ server' = server
    BY DEF Endpoints!Receive, Endpoints!Fails, EndsTypes
  <1>1. Endpoints!Live' = Endpoints!Live
    BY <1>0 DEF Endpoints!Live
  <1>2. hist'.dropped \in {hist.dropped, <<>>}
    BY DEF Endpoints!Receive, Endpoints!Fails, Endpoints!LoadEndpoints, Endpoints!Changed,
           Endpoints!Fresh, EndsTypes
  <1> SUFFICES ASSUME hist'.dropped # <<>> PROVE EndsDropped'
    BY DEF EndsDropped
  <1>3. hist'.dropped = hist.dropped /\ hist.dropped # <<>>
    BY <1>2
  \* No drag is answered, and none fails.
  <1>4. CASE r.kind # "order"
    <2>1. ASSUME NEW new, net' = Endpoints!Turn(r, new), new.kind \notin {"create", "delete", "order"}
          PROVE  EndsDropped'
      <3>1. \A q \in DOMAIN net' : q.kind \in {"create", "delete", "order"} =>
                q \in DOMAIN net /\ net'[q] = net[q]
        BY <1>3, <1>4, <2>1, TurnCounts DEF EndsDropped
      <3>2. Drags \subseteq DOMAIN net'
        BY <1>4, <2>1, TurnCounts DEF Drags
      <3> QED BY <1>0, <1>1, <1>2, <3>1, <3>2, DropStays
    <2>2. ASSUME net' = Endpoints!Done(r) PROVE EndsDropped'
      <3>1. \A q \in DOMAIN net' : q.kind \in {"create", "delete", "order"} =>
                q \in DOMAIN net /\ net'[q] = net[q]
        BY <1>3, <1>4, <2>2, DoneCounts DEF EndsDropped
      <3>2. Drags \subseteq DOMAIN net'
        BY <1>4, <2>2, DoneRemoves DEF Drags
      <3> QED BY <1>0, <1>1, <1>2, <3>1, <3>2, DropStays
    <2>3. r.kind \notin {"create", "delete", "order"}
      BY <1>3, <1>4 DEF EndsDropped
    <2>4. CASE net' = Endpoints!Failed(r)
      <3> DEFINE new == [kind |-> r.kind, stage |-> "failed"]
      <3>1. new.kind = r.kind
        OBVIOUS
      <3> HIDE DEF new
      <3> QED BY <2>1, <2>3, <2>4, <3>1 DEF Endpoints!Failed, new
    <2>5. CASE net' = Endpoints!Turn(r, Endpoints!Load(hist))
      BY <2>1, <2>5 DEF Endpoints!Load
    <2> QED BY <2>2, <2>4, <2>5
            DEF Endpoints!Receive, Endpoints!Fails, Endpoints!LoadEndpoints, Endpoints!Changed
  <1>5. CASE r.kind = "order"
    <2>1. /\ r \in Drags /\ net[r] = 1 /\ \A q \in Drags : q = r
          /\ Endpoints!Range(hist.dropped)' = Endpoints!Live'
      BY <1>1, <1>3, <1>5 DEF EndsDropped, Drags, Endpoints!Range
    <2>2. CASE Endpoints!Fails(r)
      <3> DEFINE new == [kind |-> r.kind, stage |-> "failed"]
      <3>1. net' = Endpoints!Turn(r, new) /\ r.stage # "failed"
        BY <2>2 DEF Endpoints!Fails, Endpoints!Failed
      <3>2. new.kind = "order" /\ new.stage = "failed" /\ new # r
        BY <1>5, <3>1
      <3> HIDE DEF new
      <3>3. new \notin DOMAIN net
        BY <2>1, <3>2 DEF Drags
      <3>4. /\ r \notin DOMAIN net' /\ new \in DOMAIN net' /\ net'[new] = 1
            /\ \A q \in DOMAIN net' : q # new => q \in DOMAIN net
        BY <2>1, <3>1, <3>2, <3>3, TurnCounts
      <3>5. Drags' = {new}
        BY <2>1, <3>2, <3>4 DEF Drags
      <3>6. \A q \in DOMAIN net' : q.kind \notin {"create", "delete"}
        BY <1>3, <3>2, <3>4 DEF EndsDropped
      <3> QED BY <1>3, <2>1, <3>2, <3>4, <3>5, <3>6 DEF EndsDropped
    <2>3. CASE Endpoints!Receive(r)
      <3> DEFINE new == Endpoints!Load(hist)
      <3>1. Endpoints!Changed(r)
        BY <1>5, <2>3 DEF Endpoints!Receive, Endpoints!LoadEndpoints
      <3>2. r.stage = "ok" /\ net' = Endpoints!Turn(r, new)
        <4>1. r.stage = "failed" => hist'.dropped = <<>>
          BY <1>5, <3>1 DEF Endpoints!Changed, Endpoints!Fresh, EndsTypes
        <4> QED BY <3>1, <4>1 DEF Endpoints!Changed
      <3>3. new.kind = "list"
        BY DEF Endpoints!Load
      <3> HIDE DEF new
      <3>4. /\ r \notin DOMAIN net'
            /\ \A q \in DOMAIN net' : q # new => q \in DOMAIN net
        BY <1>5, <2>1, <3>2, <3>3, TurnCounts
      <3>5. Drags' = {}
        BY <2>1, <3>3, <3>4 DEF Drags
      <3>6. \A q \in DOMAIN net' : q.kind \notin {"create", "delete"}
        BY <1>3, <3>3, <3>4 DEF EndsDropped
      <3>7. Written(hist.dropped, Len(hist.dropped))'
        BY <1>0, <1>3, <2>1, <3>2 DEF EndsDropped, Written
      <3> QED BY <1>3, <2>1, <3>5, <3>6, <3>7 DEF EndsDropped
    <2> QED BY <2>2, <2>3
  <1> QED BY <1>4, <1>5

LEMMA DropEdit ==
    ASSUME EndsInv, Endpoints!Administrator
    PROVE  EndsDropped'
  <1> USE DEF EndsInv
  <1>0. server' = server
    BY DEF Endpoints!Administrator, Endpoints!OpenCreate, Endpoints!CloseDialog,
           Endpoints!HandleSubmit, Endpoints!HandleEditSubmit,
           Endpoints!ConfirmDeleteEndpoint, Endpoints!Type, Endpoints!HandleEditEndpoint,
           Endpoints!HandleDeleteEndpoint, Endpoints!HandleDragEnd
  <1>1. Endpoints!Live' = Endpoints!Live
    BY <1>0 DEF Endpoints!Live
  <1>2. ASSUME net' = net, hist'.dropped = hist.dropped PROVE EndsDropped'
    BY <1>0, <1>1, <1>2, DropStays DEF Drags
  <1>3. ASSUME hist'.dropped = <<>> PROVE EndsDropped'
    BY <1>3 DEF EndsDropped
  <1>4. CASE \/ Endpoints!OpenCreate \/ Endpoints!CloseDialog
             \/ \E form \in [text : Text, active : BOOLEAN] : Endpoints!Type(form)
             \/ \E i \in DOMAIN view.list : \/ Endpoints!HandleEditEndpoint(i)
                                            \/ Endpoints!HandleDeleteEndpoint(i)
    BY <1>2, <1>4 DEF Endpoints!OpenCreate, Endpoints!CloseDialog, Endpoints!Type,
          Endpoints!HandleEditEndpoint, Endpoints!HandleDeleteEndpoint, EndsTypes
  <1>5. CASE Endpoints!HandleSubmit \/ Endpoints!ConfirmDeleteEndpoint
    <2>1. hist'.dropped = <<>>
      BY <1>5 DEF Endpoints!HandleSubmit, Endpoints!ConfirmDeleteEndpoint, Endpoints!Counted,
                  EndsTypes
    <2> QED BY <1>3, <2>1
  <1>6. CASE Endpoints!HandleEditSubmit
    <2> DEFINE new == [kind |-> "update", stage |-> "sent", id |-> view.target.id,
                       form |-> view.form, fresh |-> hist.fresh, touched |-> hist.touched]
    <2>1. net' = Endpoints!Send(new) /\ hist'.dropped = hist.dropped
      BY <1>6 DEF Endpoints!HandleEditSubmit, Endpoints!Counted, EndsTypes
    <2>2. new.kind = "update"
      OBVIOUS
    <2> HIDE DEF new
    <2>3. \A q \in DOMAIN net' : q.kind # "update" => q \in DOMAIN net /\ net'[q] = net[q]
      BY <2>1, <2>2, SendCounts
    <2>4. Drags \subseteq DOMAIN net'
      BY <2>1, <2>2, SendCounts DEF Drags
    <2> QED BY <1>0, <1>1, <2>1, <2>3, <2>4, DropStays
  <1>7. ASSUME NEW i \in DOMAIN view.list, NEW j \in DOMAIN view.list,
               Endpoints!HandleDragEnd(i, j)
        PROVE  EndsDropped'
    <2> DEFINE moved == Endpoints!ArrayMove(Endpoints!Ids(view.list), i, j)
               new == [kind |-> "order", stage |-> "sent", ids |-> moved, next |-> 1]
    <2>1. /\ net' = Endpoints!Send(new)
          /\ \/ hist'.dropped = <<>>
             \/ /\ hist'.dropped = moved /\ Endpoints!Range(moved) = Endpoints!Live
                /\ ~Endpoints!Awaited({"create", "delete", "order"})
      BY <1>7 DEF Endpoints!HandleDragEnd, Endpoints!Counted, EndsTypes
    <2>2. /\ new.kind = "order" /\ new.stage = "sent" /\ new.ids = moved
          /\ new.next = 1
      OBVIOUS
    <2> HIDE DEF new, moved
    <2>3. CASE hist'.dropped = <<>>
      BY <1>3, <2>3
    <2>4. CASE /\ hist'.dropped = moved /\ Endpoints!Range(moved) = Endpoints!Live
               /\ ~Endpoints!Awaited({"create", "delete", "order"})
      <3>1. \A q \in DOMAIN net : q.kind \notin {"create", "delete", "order"}
        BY <2>4 DEF Endpoints!Awaited, Endpoints!InFlight, Endpoints!BagToSet
      <3>2. /\ new \in DOMAIN net' /\ net'[new] = 1
            /\ \A q \in DOMAIN net' : q # new => q \in DOMAIN net
        BY <2>1, <2>2, <3>1, SendCounts
      <3>3. Drags' = {new} /\ \A q \in DOMAIN net' : q.kind \notin {"create", "delete"}
        BY <2>2, <3>1, <3>2 DEF Drags
      <3>4. Endpoints!Range(hist.dropped)' = Endpoints!Live'
        BY <1>1, <2>4 DEF Endpoints!Range
      <3>5. \A n : n \in 1..new.next - 1 => FALSE
        BY <2>2
      <3> QED BY <2>2, <2>4, <3>2, <3>3, <3>4, <3>5 DEF EndsDropped, Written
    <2> QED BY <2>1, <2>3, <2>4
  <1> QED BY <1>4, <1>5, <1>6, <1>7 DEF Endpoints!Administrator

LEMMA EndsNext == EndsInv /\ Endpoints!Next => EndsInv'
  <1> SUFFICES ASSUME EndsInv, Endpoints!Next PROVE EndsInv'
    OBVIOUS
  <1>1. CASE Endpoints!Administrator
    BY <1>1, EndsEdit, DropEdit DEF EndsInv
  <1>2. ASSUME NEW r \in Endpoints!InFlight,
               Endpoints!Serve(r) \/ Endpoints!Receive(r) \/ Endpoints!Fails(r)
        PROVE  EndsInv'
    <2>1. r \in DOMAIN net
      BY DEF Endpoints!InFlight, Endpoints!BagToSet
    <2> QED BY <1>2, <2>1, EndsServe, DropServe, EndsReceive, DropReceive DEF EndsInv
  <1> QED BY <1>1, <1>2 DEF Endpoints!Next

LEMMA EndsStutters == EndsInv /\ UNCHANGED Endpoints!vars => EndsInv'
  <1> SUFFICES ASSUME EndsInv, UNCHANGED Endpoints!vars PROVE EndsInv'
    OBVIOUS
  <1> USE DEF EndsInv, Endpoints!vars
  <1>1. Endpoints!Table' = Endpoints!Table /\ Endpoints!Live' = Endpoints!Live
    BY DEF Endpoints!Table, Endpoints!Listing, Endpoints!Row, Endpoints!Live,
           Endpoints!Ahead, Endpoints!Before
  <1>2. EndsTypes'
    BY DEF EndsTypes
  <1>3. EndsListed' /\ EndsKnown'
    BY <1>1 DEF EndsListed, EndsKnown, NoChanges, Known
  <1>4. EndsFresh'
    BY <1>1 DEF EndsFresh, NoChanges, EndKeeps, EndUpdates
  <1>5. EndsDropped'
    BY <1>1, DropStays DEF Drags
  <1> QED BY <1>2, <1>3, <1>4, <1>5

LEMMA EndsShown == EndsInv => Endpoints!TypeOK /\ Endpoints!TableIsStored /\ Endpoints!DropsStick
  <1> SUFFICES ASSUME EndsInv PROVE Endpoints!TypeOK /\ Endpoints!TableIsStored /\ Endpoints!DropsStick
    OBVIOUS
  <1> USE DEF EndsInv
  <1>1. Endpoints!TypeOK
    <2>1. view.list \in EndLists /\ server \in [Endpoints!Id -> EndRecords]
          /\ view.dialog \in {"none", "create", "edit", "delete"}
      BY DEF EndsTypes
    <2>2. \A i \in DOMAIN view.list : view.list[i].id \in Endpoints!Id
      <3>1. \A i \in DOMAIN view.list : view.list[i] \in EndRows
        BY <2>1 DEF EndLists
      <3> QED BY <3>1 DEF EndRows
    <2>3. Endpoints!Range(Endpoints!Ids(view.list)) \subseteq Endpoints!Id
      BY <2>2 DEF Endpoints!Range, Endpoints!Ids
    <2> QED BY <2>1, <2>3 DEF Endpoints!TypeOK, EndRecords
  <1>2. Endpoints!Quiet => DOMAIN net = {}
    BY DEF Endpoints!Quiet, Endpoints!InFlight, Endpoints!BagToSet
  <1>3. Endpoints!TableIsStored
    BY <1>2 DEF EndsListed, NoChanges, Endpoints!TableIsStored, Endpoints!UpToDate
  <1>4. Endpoints!DropsStick
    <2> SUFFICES ASSUME DOMAIN net = {}, hist.dropped # <<>>
                 PROVE  Endpoints!Listing = hist.dropped
      BY <1>2 DEF Endpoints!DropsStick
    <2>1. Written(hist.dropped, Len(hist.dropped))
          /\ Endpoints!Range(hist.dropped) = Endpoints!Live
      BY DEF EndsDropped, Drags
    <2>2. hist.dropped \in EndOrders /\ server \in [Endpoints!Id -> EndRecords]
      BY DEF EndsTypes
    <2> QED BY <2>1, <2>2, WrittenIsListed
  <1> QED BY <1>1, <1>3, <1>4

LEMMA EndsLeave == EndsInv => Endpoints!LeavesUntouched
  <1> SUFFICES ASSUME EndsInv, NEW r \in Endpoints!In("sent"), r.kind = "update",
                      Endpoints!UpdateEndpoint(r), r.fresh, r.id \notin hist.raced,
                      NEW f \in Endpoints!Fields \ r.touched
               PROVE  server'[r.id][f] = server[r.id][f]
    BY DEF Endpoints!LeavesUntouched
  <1>1. r \in EndUpdates
    BY DEF EndUpdates, Endpoints!In, Endpoints!InFlight, Endpoints!BagToSet
  <1>2. CASE r.id \in Endpoints!Live
    <2>1. r.form[f] = server[r.id][f]
      BY <1>1, <1>2 DEF EndsInv, EndsFresh, EndKeeps
    <2>2. server' = [server EXCEPT ![r.id] =
                        [status |-> "live", text |-> r.form.text, active |-> r.form.active,
                         order |-> server[r.id].order]]
      BY <1>2 DEF Endpoints!UpdateEndpoint
    <2>3. r.id \in DOMAIN server
      BY <1>2 DEF Endpoints!Live, EndsInv, EndsTypes
    <2> QED BY <2>1, <2>2, <2>3 DEF Endpoints!Fields
  <1>3. CASE r.id \notin Endpoints!Live
    BY <1>3 DEF Endpoints!UpdateEndpoint
  <1> QED BY <1>2, <1>3

-----------------------------------------------------------------------------
(* The blocklist of domains, for any domains and any number of admins.       *)

Host == Domain \ Placeholder

\* No placeholder gets anywhere: into a call, a copy of the table, or memory.
HostsOnly ==
    /\ blockedHosts \subseteq Host
    /\ \A a \in Admin : /\ Busy(a) => call[a].domain \in Host
                        /\ call[a].snap \subseteq Host

\* A call that still counts as alone is the only one, and its copy is current.
AloneIsAlone ==
    \A a \in Admin : call[a].alone =>
        /\ Busy(a)
        /\ \A b \in Admin : Busy(b) => b = a
        /\ call[a].pc = "install" => call[a].snap = rows

BlocklistInv == BlocklistOK /\ HostsOnly /\ AloneIsAlone

LEMMA NoCallType == NoCall \in Call
  <1>1. (CHOOSE d \in Domain : TRUE) \in Domain
    BY DomainAssumption
  <1> QED BY <1>1 DEF NoCall, Call

LEMMA BlocklistStarts == BlocklistInit => BlocklistInv
  <1> SUFFICES ASSUME BlocklistInit PROVE BlocklistInv
    OBVIOUS
  <1> USE NoCallType DEF BlocklistInit
  <1>1. BlocklistOK
    BY DEF BlocklistOK
  <1>2. HostsOnly
    BY DEF HostsOnly, Busy, NoCall
  <1>3. AloneIsAlone
    BY DEF AloneIsAlone, NoCall
  <1> QED BY <1>1, <1>2, <1>3 DEF BlocklistInv

\* The end of a call, whatever the memory is set to.
LEMMA CallEnds ==
    ASSUME BlocklistInv, NEW a \in Admin, Ends(a), UNCHANGED rows,
           blockedHosts' \subseteq Host
    PROVE  BlocklistInv'
  <1> USE NoCallType DEF BlocklistInv, BlocklistOK, Ends, Host
  <1>1. BlocklistOK'
    OBVIOUS
  <1>2. HostsOnly'
    BY DEF HostsOnly, Busy, NoCall
  <1>3. AloneIsAlone'
    BY DEF AloneIsAlone, Busy, NoCall
  <1> QED BY <1>1, <1>2, <1>3

LEMMA BlocklistKeeps == BlocklistInv /\ [BlocklistNext]_blocklistVars => BlocklistInv'
  <1> SUFFICES ASSUME BlocklistInv, [BlocklistNext]_blocklistVars PROVE BlocklistInv'
    OBVIOUS
  <1>0. CASE UNCHANGED blocklistVars
    BY <1>0 DEF BlocklistInv, BlocklistOK, HostsOnly, AloneIsAlone, Busy, blocklistVars
  <1>1. ASSUME NEW a \in Admin, NEW d \in Domain, NEW blocked \in BOOLEAN,
               SetBlocked(a, d, blocked)
        PROVE  BlocklistInv'
    <2> DEFINE others == {b \in Admin : b # a /\ Busy(b)}
               new == [pc |-> "write", domain |-> d, blocked |-> blocked,
                       snap |-> {}, alone |-> others = {}]
    <2>1. new \in Call
      BY DEF Call
    <2>2. /\ call' = [b \in Admin |->
                 IF b = a THEN new
                 ELSE IF b \in others THEN [call[b] EXCEPT !.alone = FALSE]
                 ELSE call[b]]
          /\ UNCHANGED <<rows, blockedHosts>> /\ d \in Host /\ ~Busy(a)
      BY <1>1 DEF SetBlocked, Host
    <2>3. \A b \in Admin : b # a => /\ call'[b].pc = call[b].pc
                                    /\ call'[b].domain = call[b].domain
                                    /\ call'[b].snap = call[b].snap
                                    /\ call'[b] \in Call
      BY <2>2 DEF BlocklistInv, BlocklistOK, Call
    <2>4. call'[a] = new
      BY <2>2
    <2>5. BlocklistOK'
      BY <2>1, <2>2, <2>3, <2>4 DEF BlocklistInv, BlocklistOK
    <2>6. HostsOnly'
      BY <2>2, <2>3, <2>4 DEF BlocklistInv, HostsOnly, Busy
    <2>7. \A b \in Admin : b # a => ~call'[b].alone
      <3> SUFFICES ASSUME NEW b \in Admin, b # a PROVE ~call'[b].alone
        OBVIOUS
      <3>1. CASE b \in others
        BY <2>2, <3>1 DEF BlocklistInv, BlocklistOK, Call
      <3>2. CASE b \notin others
        BY <2>2, <3>2 DEF BlocklistInv, AloneIsAlone
      <3> QED BY <3>1, <3>2
    <2>8. call'[a].alone => \A b \in Admin : Busy(b)' => b = a
      <3>1. call'[a].alone = (others = {})
        BY <2>4
      <3>2. \A b \in Admin : b # a /\ ~Busy(b) => ~Busy(b)'
        BY <2>3 DEF Busy
      <3>3. others = {} => \A b \in Admin : b # a => ~Busy(b)
        OBVIOUS
      <3> QED BY <3>1, <3>2, <3>3
    <2>9. AloneIsAlone'
      BY <2>4, <2>7, <2>8 DEF AloneIsAlone, Busy
    <2> QED BY <2>5, <2>6, <2>9 DEF BlocklistInv
  <1>2. ASSUME NEW a \in Admin, WriteRow(a) PROVE BlocklistInv'
    <2> USE <1>2 DEF BlocklistInv, WriteRow
    <2>1. BlocklistOK'
      BY DEF BlocklistOK, Call, HostsOnly, Busy, Host
    <2>2. HostsOnly'
      BY DEF BlocklistOK, Call, HostsOnly, Busy
    <2>3. AloneIsAlone'
      BY DEF BlocklistOK, Call, AloneIsAlone, Busy
    <2> QED BY <2>1, <2>2, <2>3
  <1>3. ASSUME NEW a \in Admin, ReadRows(a) PROVE BlocklistInv'
    <2> USE <1>3 DEF BlocklistInv, ReadRows
    <2>1. BlocklistOK'
      <3>1. /\ call[a] \in Call /\ rows \in SUBSET Domain
            /\ call' = [call EXCEPT ![a] =
                           [call[a] EXCEPT !.pc = "install", !.snap = rows]]
        BY DEF BlocklistOK
      <3>2. [call[a] EXCEPT !.pc = "install", !.snap = rows] \in Call
        BY <3>1 DEF Call
      <3>3. QED
        BY <3>1, <3>2 DEF BlocklistOK
    <2>2. HostsOnly'
      BY DEF BlocklistOK, Call, HostsOnly, Busy, Host
    <2>3. AloneIsAlone'
      BY DEF BlocklistOK, Call, AloneIsAlone, Busy
    <2> QED BY <2>1, <2>2, <2>3
  <1>4. ASSUME NEW a \in Admin, Install(a) PROVE BlocklistInv'
    BY <1>4, CallEnds DEF Install, BlocklistInv, HostsOnly
  <1>5. ASSUME NEW a \in Admin, CallFails(a) PROVE BlocklistInv'
    BY <1>5, CallEnds DEF CallFails, BlocklistInv, HostsOnly
  <1>6. CASE Restart
    <2> USE <1>6, NoCallType DEF BlocklistInv, Restart
    <2>1. BlocklistOK'
      BY DEF BlocklistOK
    <2>2. HostsOnly'
      BY DEF BlocklistOK, HostsOnly, Busy, NoCall, Host
    <2>3. AloneIsAlone'
      BY DEF AloneIsAlone, NoCall
    <2> QED BY <2>1, <2>2, <2>3
  <1> QED BY <1>0, <1>1, <1>2, <1>3, <1>4, <1>5, <1>6 DEF BlocklistNext

-----------------------------------------------------------------------------
(* The page of domain statistics.                                            *)

Questions == {"paths", "trend"}
PathQuestions == {<<d, range>> : d \in Domain, range \in Ranges}
DayQuestions == {<<d>> : d \in Days}
Asked == [paths : PathQuestions \cup {Stats!NoQuestion},
          trend : DayQuestions \cup {Stats!NoQuestion}]
StatsViews ==
    [tab : Stats!Tabs \cup {"none"}, loading : BOOLEAN,
     marks : [Rankings -> (SUBSET Domain) \cup {Stats!Unknown}],
     blocked : (SUBSET Domain) \cup {Stats!Unknown}, mount : Nat, submitting : BOOLEAN,
     asked : Asked, got : Asked, n : [paths : Nat, trend : Nat], range : Ranges]
StatsHists == [loads : Nat, shown : Nat, synced : BOOLEAN, commands : Nat]

\* The rankings that have been read so far, and their marks.
PartOfMarks(marks) ==
    /\ DOMAIN marks \subseteq Rankings
    /\ \A k \in DOMAIN marks : marks[k] \subseteq Domain

RankRequest(r) ==
    /\ r = [kind |-> "rank", stage |-> r.stage, marks |-> r.marks, mount |-> 0]
    /\ PartOfMarks(r.marks)
    /\ \/ r.stage = "sent" /\ DOMAIN r.marks # Rankings
       \/ r.stage = "ok" /\ r.marks \in [Rankings -> SUBSET Domain]

StatsRequests ==
    [kind : {"paths"}, stage : {"sent"}, question : PathQuestions, n : Nat]
    \cup [kind : {"trend"}, stage : {"sent"}, question : DayQuestions, n : Nat]
    \cup [kind : Stats!Lists, stage : {"sent"}, n : Nat, mount : Nat]
    \cup [kind : Stats!Lists, stage : {"ok"}, n : Nat, mount : Nat, rows : SUBSET Domain]
    \cup [kind : Stats!Blocks, stage : {"sent"}, domain : Domain, blocked : BOOLEAN,
          mount : Nat]
    \cup [kind : Stats!Blocks, stage : {"called", "ok"}, domain : Domain, blocked : BOOLEAN,
          mount : Nat, slot : Admin]
    \cup [kind : Stats!Blocks \cup Stats!Lists \cup {"rank"}, stage : {"failed"}, mount : Nat]

StatsTypes ==
    /\ view \in StatsViews /\ hist \in StatsHists
    /\ view.submitting => view.tab = "blocked"
    /\ Stats!DrillOpen => view.tab = "ranking" /\ Stats!Loaded
    /\ view.tab # "overview" => view.asked.trend = Stats!NoQuestion
    /\ \A r \in DOMAIN net : r \in StatsRequests \/ RankRequest(r)
    /\ \A r \in DOMAIN net : r.kind = "toggle" => Stats!Loaded

\* A question is answered by the request that was sent for it, if any.
Fits(kind) ==
    /\ \A r \in DOMAIN net : r.kind = kind =>
           /\ r.n <= view.n[kind]
           /\ r.n = view.n[kind] => r.question = view.asked[kind]
    /\ (\A r \in DOMAIN net : r.kind = kind => r.n # view.n[kind]) =>
           view.asked[kind] = Stats!NoQuestion
           \/ view.got[kind] \in {view.asked[kind], Stats!NoQuestion}
QuestionsFit == Fits("paths") /\ Fits("trend")

\* A call that is under way has a request waiting for it.
CallsAreAsked ==
    \A a \in Admin : Busy(a) =>
        \E r \in DOMAIN net : r.kind \in Stats!Blocks /\ r.stage = "called" /\ r.slot = a

NoBlocks == \A r \in DOMAIN net : r.kind \notin Stats!Blocks

\* The panel lists the table, when no change of it is on its way.
PanelListed ==
    /\ hist.shown <= hist.loads
    /\ \A r \in DOMAIN net : r.kind \in Stats!Lists /\ r.stage # "failed" =>
           /\ r.n <= hist.loads /\ r.mount <= view.mount
           /\ view.tab # "blocked" => r.mount < view.mount
    /\ NoBlocks /\ view.tab = "blocked" =>
           /\ hist.shown = hist.loads => view.blocked = rows
           /\ \A r \in DOMAIN net :
                  r.kind \in Stats!Lists /\ r.stage = "ok" =>
                      (r.n = hist.loads /\ r.mount = view.mount => r.rows = rows)

\* One request asks for the rankings at a time.
RanksAreAlone ==
    \A r \in DOMAIN net : r.kind = "rank" =>
        /\ view.loading /\ net[r] = 1
        /\ \A q \in DOMAIN net : q.kind = "rank" => q = r

Patched(marks, r) == IF r.blocked THEN marks \cup {r.domain} ELSE marks \ {r.domain}

\* The switch r takes the server from what the rankings have to what they will have.
Follows(r) ==
    \A k \in Rankings :
        /\ r.stage = "sent" => rows = view.marks[k] /\ blockedHosts = view.marks[k]
        /\ r.stage = "called" =>
               /\ blockedHosts = view.marks[k]
               /\ call[r.slot].domain = r.domain /\ call[r.slot].blocked = r.blocked
               /\ call[r.slot].pc = "write" => rows = view.marks[k]
               /\ call[r.slot].pc # "write" => rows = Patched(view.marks[k], r)
               /\ call[r.slot].pc = "install" => call[r.slot].snap = rows
        /\ r.stage = "ok" => rows = Patched(view.marks[k], r) /\ blockedHosts = rows

\* One switch is on its way at most, and none while the rankings are. What the
\* server has then, the rankings have, or will have with the switch.
MarksFollow ==
    hist.synced =>
        /\ ~Stats!Loaded => \E r \in DOMAIN net : r.kind = "rank"
        /\ (\E r \in DOMAIN net : r.kind = "rank") => NoBlocks
        /\ \A r \in DOMAIN net : r.kind = "rank" /\ r.stage # "failed" =>
               \A k \in DOMAIN r.marks : r.marks[k] = blockedHosts
        /\ \A r \in DOMAIN net : r.kind \in Stats!Blocks =>
               /\ r.kind = "toggle" /\ net[r] = 1
               /\ \A q \in DOMAIN net : q.kind \in Stats!Blocks => q = r
        /\ NoBlocks => rows = blockedHosts
        /\ NoBlocks /\ (\A r \in DOMAIN net : r.kind # "rank") =>
               \A k \in Rankings : view.marks[k] = blockedHosts
        /\ \A r \in DOMAIN net : r.kind = "toggle" => Follows(r)

StatsInv == StatsTypes /\ QuestionsFit /\ CallsAreAsked /\ PanelListed /\ RanksAreAlone
            /\ MarksFollow

LEMMA StatsShapes ==
    ASSUME NEW r, r \in StatsRequests \/ RankRequest(r)
    PROVE  /\ r.kind \in Questions \cup Stats!Lists \cup Stats!Blocks \cup {"rank"}
           /\ r.stage \in {"sent", "called", "ok", "failed"}
           /\ r.kind = "paths" => r.stage = "sent" /\ r.question \in PathQuestions /\ r.n \in Nat
           /\ r.kind = "trend" => r.stage = "sent" /\ r.question \in DayQuestions /\ r.n \in Nat
           /\ r.kind \notin Questions => r.mount \in Nat
           /\ r.kind \in Stats!Lists /\ r.stage # "failed" => 
                  r.n \in Nat /\ r.mount \in Nat /\ r.stage \in {"sent", "ok"}
           /\ r.kind \in Stats!Lists /\ r.stage = "ok" => r.rows \in SUBSET Domain
           /\ r.kind \in Stats!Blocks /\ r.stage = "sent" =>
                  r \in [kind : Stats!Blocks, stage : {"sent"}, domain : Domain,
                         blocked : BOOLEAN, mount : Nat]
           /\ r.kind \in Stats!Blocks /\ r.stage \in {"called", "ok"} =>
                  r \in [kind : Stats!Blocks, stage : {"called", "ok"}, domain : Domain,
                         blocked : BOOLEAN, mount : Nat, slot : Admin]
           /\ r.stage = "called" => r.kind \in Stats!Blocks
           /\ r.kind = "rank" /\ r.stage # "failed" => RankRequest(r)
  <1>1. CASE RankRequest(r)
    BY <1>1 DEF RankRequest, Questions, Stats!Lists, Stats!Blocks
  <1>2. CASE r \in StatsRequests
    BY <1>2 DEF StatsRequests, Questions, Stats!Lists, Stats!Blocks
  <1> QED BY <1>1, <1>2

\* How many there are of each request, after two have been sent.
LEMMA SendTwoCounts ==
    ASSUME NEW one, NEW two, net' = Stats!BagAdd(Stats!Send(one), two)
    PROVE  /\ \A q : q \notin {one, two} =>
                  /\ q \in DOMAIN net' <=> q \in DOMAIN net
                  /\ q \in DOMAIN net => net'[q] = net[q]
           /\ one \in DOMAIN net' /\ two \in DOMAIN net'
           /\ one \notin DOMAIN net /\ one # two => net'[one] = 1
  BY DEF Stats!Send, Stats!BagAdd

\* What stays as it is when the requests about it do.
CoreKinds == Stats!Blocks \cup {"rank"}
Stays(kinds) ==
    \A r : /\ (r \in DOMAIN net' /\ r.kind \in kinds) <=> (r \in DOMAIN net /\ r.kind \in kinds)
           /\ r \in DOMAIN net /\ r.kind \in kinds => net'[r] = net[r]

LEMMA CoreKeeps ==
    ASSUME CallsAreAsked, RanksAreAlone, MarksFollow, Stays(CoreKinds),
           UNCHANGED <<rows, blockedHosts, call>>,
           view'.marks = view.marks, view'.loading = view.loading,
           hist'.synced => hist.synced
    PROVE  CallsAreAsked' /\ RanksAreAlone' /\ MarksFollow'
  <1>1. CallsAreAsked'
    BY DEF CallsAreAsked, Stays, CoreKinds, Busy
  <1>2. RanksAreAlone'
    BY DEF RanksAreAlone, Stays, CoreKinds
  <1>3. MarksFollow'
    <2>1. NoBlocks' <=> NoBlocks
      BY DEF NoBlocks, Stays, CoreKinds
    <2>2. (\E r \in DOMAIN net' : r.kind = "rank") <=> (\E r \in DOMAIN net : r.kind = "rank")
      BY DEF Stays, CoreKinds
    <2>3. (\A r \in DOMAIN net' : r.kind # "rank") <=> (\A r \in DOMAIN net : r.kind # "rank")
      BY DEF Stays, CoreKinds
    <2>4. Stats!Loaded' <=> Stats!Loaded
      BY DEF Stats!Loaded
    <2>5. \A r : r \in DOMAIN net' /\ r.kind \in CoreKinds => r \in DOMAIN net /\ net'[r] = net[r]
      BY DEF Stays
    <2>6. "toggle" \in CoreKinds /\ "rank" \in CoreKinds /\ Stats!Blocks \subseteq CoreKinds
      BY DEF CoreKinds, Stats!Blocks
    <2> HIDE DEF CoreKinds
    <2> QED BY <2>1, <2>2, <2>3, <2>4, <2>5, <2>6 DEF MarksFollow, Follows, Patched
  <1> QED BY <1>1, <1>2, <1>3

LEMMA PanelKeeps ==
    ASSUME PanelListed, UNCHANGED rows, view'.tab = "blocked" <=> view.tab = "blocked",
           view'.mount = view.mount,
           view'.blocked = view.blocked, hist'.loads = hist.loads, hist'.shown = hist.shown,
           NoBlocks' => NoBlocks,
           \A r \in DOMAIN net' : r.kind \in Stats!Lists /\ r.stage # "failed" => r \in DOMAIN net
    PROVE  PanelListed'
  BY DEF PanelListed

LEMMA FitsKeeps ==
    ASSUME NEW kind \in Questions, Fits(kind), Stays({kind}), view'.asked[kind] = view.asked[kind],
           view'.n[kind] = view.n[kind], view'.got[kind] = view.got[kind]
    PROVE  Fits(kind)'
  BY DEF Fits, Stays

\* A question that cancels the one before it.
LEMMA FitsAsked ==
    ASSUME NEW kind \in Questions, Fits(kind), view.n[kind] \in Nat, view'.n[kind] \in Nat,
           view'.n[kind] > view.n[kind],
           \A r \in DOMAIN net' : r.kind = kind =>
               \/ r \in DOMAIN net /\ r.n \in Nat
               \/ r.n \in Nat /\ r.n < view'.n[kind]
               \/ r.n = view'.n[kind] /\ r.question = view'.asked[kind],
           \/ view'.asked[kind] = Stats!NoQuestion
           \/ \E r \in DOMAIN net' : r.kind = kind /\ r.n = view'.n[kind]
    PROVE  Fits(kind)'
  BY DEF Fits

LEMMA CallsKeep ==
    ASSUME CallsAreAsked, UNCHANGED call,
           \A r \in DOMAIN net : r.stage = "called" => r \in DOMAIN net'
    PROVE  CallsAreAsked'
  BY DEF CallsAreAsked, Busy

LEMMA RanksKeep ==
    ASSUME RanksAreAlone, Stays({"rank"}), view'.loading = view.loading
    PROVE  RanksAreAlone'
  BY DEF RanksAreAlone, Stays

\* A list was asked for again, or would have been.
LEMMA PanelRefreshes ==
    ASSUME PanelListed, StatsTypes, UNCHANGED rows, view'.tab = view.tab, view'.mount = view.mount,
           hist'.loads = hist.loads + 1, hist'.shown = hist.shown,
           \A r \in DOMAIN net' : r.kind \in Stats!Lists /\ r.stage # "failed" =>
               \/ r \in DOMAIN net
               \/ /\ r.stage = "sent" /\ r.n = hist.loads + 1 /\ r.mount = view.mount
                  /\ view.tab = "blocked"
    PROVE  PanelListed'
  <1>1. /\ hist.loads \in Nat /\ hist.shown \in Nat /\ view.mount \in Nat
        /\ \A r \in DOMAIN net : r.kind \in Stats!Lists /\ r.stage # "failed" =>
               r.n \in Nat /\ r.mount \in Nat
    <2>1. hist.loads \in Nat /\ hist.shown \in Nat /\ view.mount \in Nat
      BY DEF StatsTypes, StatsHists, StatsViews
    <2>2. ASSUME NEW r \in DOMAIN net, r.kind \in Stats!Lists, r.stage # "failed"
          PROVE  r.n \in Nat /\ r.mount \in Nat
      <3>1. r \in StatsRequests \/ RankRequest(r)
        BY DEF StatsTypes
      <3> QED BY <2>2, <3>1, StatsShapes
    <2> QED BY <2>1, <2>2
  <1> QED BY <1>1 DEF PanelListed

\* A request that does not concern them leaves the others as they are.
LEMMA TurnStays ==
    ASSUME NEW r \in DOMAIN net, NEW new, net' = Stats!Turn(r, new), NEW kinds,
           r.kind \notin kinds, new.kind \notin kinds
    PROVE  Stays(kinds)
  BY TurnCounts DEF Stays

LEMMA DoneStays ==
    ASSUME NEW r \in DOMAIN net, net' = Stats!Done(r), NEW kinds, r.kind \notin kinds
    PROVE  Stays(kinds)
  BY DoneCounts DEF Stays

LEMMA SendStays ==
    ASSUME NEW new, net' = Stats!Send(new), NEW kinds, new.kind \notin kinds
    PROVE  Stays(kinds)
  BY SendCounts DEF Stays

LEMMA SendTwoStays ==
    ASSUME NEW one, NEW two, net' = Stats!BagAdd(Stats!Send(one), two), NEW kinds,
           one.kind \notin kinds, two.kind \notin kinds
    PROVE  Stays(kinds)
  BY SendTwoCounts DEF Stays

\* A new question, and what leaving a tab changes.
LEMMA AsksFields ==
    ASSUME NEW v \in StatsViews, NEW kind \in Questions, NEW q
    PROVE  Stats!Asks(v, kind, q) =
               [tab |-> v.tab, loading |-> v.loading, marks |-> v.marks, blocked |-> v.blocked,
                mount |-> v.mount, submitting |-> v.submitting,
                asked |-> [paths |-> IF kind = "paths" THEN q ELSE v.asked.paths,
                           trend |-> IF kind = "trend" THEN q ELSE v.asked.trend],
                got |-> v.got,
                n |-> [paths |-> IF kind = "paths" THEN v.n.paths + 1 ELSE v.n.paths,
                       trend |-> IF kind = "trend" THEN v.n.trend + 1 ELSE v.n.trend],
                range |-> v.range]
  <1> DEFINE b == [v EXCEPT !.asked[kind] = q]
  <1>1. v = [tab |-> v.tab, loading |-> v.loading, marks |-> v.marks, blocked |-> v.blocked,
             mount |-> v.mount, submitting |-> v.submitting, asked |-> v.asked,
             got |-> v.got, n |-> v.n, range |-> v.range]
    BY DEF StatsViews
  <1>2. /\ v.asked = [paths |-> v.asked.paths, trend |-> v.asked.trend]
        /\ v.n = [paths |-> v.n.paths, trend |-> v.n.trend]
    BY DEF StatsViews, Asked
  <1>3. b = [tab |-> v.tab, loading |-> v.loading, marks |-> v.marks, blocked |-> v.blocked,
             mount |-> v.mount, submitting |-> v.submitting,
             asked |-> [v.asked EXCEPT ![kind] = q],
             got |-> v.got, n |-> v.n, range |-> v.range]
    BY <1>1
  <1>4. Stats!Asks(v, kind, q) = [b EXCEPT !.n[kind] = v.n[kind] + 1]
    BY DEF Stats!Asks
  <1> HIDE DEF b
  <1>5. Stats!Asks(v, kind, q) =
            [tab |-> v.tab, loading |-> v.loading, marks |-> v.marks, blocked |-> v.blocked,
             mount |-> v.mount, submitting |-> v.submitting,
             asked |-> [v.asked EXCEPT ![kind] = q],
             got |-> v.got, n |-> [v.n EXCEPT ![kind] = v.n[kind] + 1], range |-> v.range]
    BY <1>3, <1>4
  <1>6. kind = "paths" \/ kind = "trend"
    BY DEF Questions
  <1>7. [v.asked EXCEPT ![kind] = q] = [paths |-> IF kind = "paths" THEN q ELSE v.asked.paths,
                           trend |-> IF kind = "trend" THEN q ELSE v.asked.trend]
    BY <1>2, <1>6
  <1>8. [v.n EXCEPT ![kind] = v.n[kind] + 1] =
             [paths |-> IF kind = "paths" THEN v.n.paths + 1 ELSE v.n.paths,
              trend |-> IF kind = "trend" THEN v.n.trend + 1 ELSE v.n.trend]
    BY <1>2, <1>6
  <1> QED BY <1>5, <1>7, <1>8

LEMMA ChartFields ==
    ASSUME NEW v \in StatsViews
    PROVE  Stats!ChartMounted(v) =
               [tab |-> "overview", loading |-> v.loading, marks |-> v.marks,
                blocked |-> v.blocked, mount |-> v.mount, submitting |-> v.submitting,
                asked |-> [paths |-> v.asked.paths, trend |-> Stats!DefaultDays],
                got |-> [paths |-> v.got.paths, trend |-> Stats!NoQuestion],
                n |-> [paths |-> v.n.paths, trend |-> v.n.trend + 1],
                range |-> v.range]
  <1> DEFINE w == Stats!Asks(v, "trend", Stats!DefaultDays)
             u == [w EXCEPT !.tab = "overview"]
  <1>1. w = [tab |-> v.tab, loading |-> v.loading, marks |-> v.marks, blocked |-> v.blocked,
             mount |-> v.mount, submitting |-> v.submitting,
             asked |-> [paths |-> v.asked.paths, trend |-> Stats!DefaultDays],
             got |-> v.got, n |-> [paths |-> v.n.paths, trend |-> v.n.trend + 1],
             range |-> v.range]
    BY AsksFields DEF Questions
  <1>2. Stats!ChartMounted(v) = [u EXCEPT !.got.trend = Stats!NoQuestion]
    BY DEF Stats!ChartMounted
  <1>3. v.got = [paths |-> v.got.paths, trend |-> v.got.trend]
    BY DEF StatsViews, Asked
  <1> HIDE DEF w
  <1>4. u = [tab |-> "overview", loading |-> v.loading, marks |-> v.marks,
             blocked |-> v.blocked, mount |-> v.mount, submitting |-> v.submitting,
             asked |-> [paths |-> v.asked.paths, trend |-> Stats!DefaultDays],
             got |-> [paths |-> v.got.paths, trend |-> v.got.trend],
             n |-> [paths |-> v.n.paths, trend |-> v.n.trend + 1],
             range |-> v.range]
    BY <1>1, <1>3
  <1> HIDE DEF u
  <1> QED BY <1>2, <1>4

LEMMA LeftFields ==
    ASSUME NEW v \in StatsViews, NEW tab
    PROVE  Stats!Left(v, tab) =
               [tab |-> tab, loading |-> v.loading, marks |-> v.marks,
                blocked |-> Stats!Unknown,
                mount |-> IF v.tab = "blocked" THEN v.mount + 1 ELSE v.mount,
                submitting |-> FALSE,
                asked |-> [paths |-> v.asked.paths, trend |-> Stats!NoQuestion],
                got |-> v.got,
                n |-> [paths |-> v.n.paths,
                       trend |-> IF v.tab = "overview" THEN v.n.trend + 1 ELSE v.n.trend],
                range |-> v.range]
  <1>0. PICK no : no = FALSE
    OBVIOUS
  <1>1. PICK t, l, m, bl, mo, su, ap, at, g, np, nt, ra :
            v = [tab |-> t, loading |-> l, marks |-> m, blocked |-> bl, mount |-> mo,
             submitting |-> su, asked |-> [paths |-> ap, trend |-> at], got |-> g,
             n |-> [paths |-> np, trend |-> nt], range |-> ra]
    BY DEF StatsViews, Asked
  <1> DEFINE u == [v EXCEPT !.tab = tab]
             w == [u EXCEPT !.blocked = Stats!Unknown]
             a == [w EXCEPT !.submitting = no]
             b == [a EXCEPT !.asked.trend = Stats!NoQuestion]
             c == [b EXCEPT !.n.trend = IF t = "overview" THEN nt + 1 ELSE nt]
             d == [c EXCEPT !.mount = IF t = "blocked" THEN mo + 1 ELSE mo]
  <1>2. Stats!Left(v, tab) = d
    BY <1>0, <1>1 DEF Stats!Left
  <1>8. u = [tab |-> tab, loading |-> l, marks |-> m, blocked |-> bl, mount |-> mo,
             submitting |-> su, asked |-> [paths |-> ap, trend |-> at], got |-> g,
             n |-> [paths |-> np, trend |-> nt], range |-> ra]
    BY <1>1
  <1> HIDE DEF u
  <1>9. w = [tab |-> tab, loading |-> l, marks |-> m, blocked |-> Stats!Unknown, mount |-> mo,
             submitting |-> su, asked |-> [paths |-> ap, trend |-> at], got |-> g,
             n |-> [paths |-> np, trend |-> nt], range |-> ra]
    BY <1>8
  <1> HIDE DEF w
  <1>3. a = [tab |-> tab, loading |-> l, marks |-> m, blocked |-> Stats!Unknown, mount |-> mo,
             submitting |-> no, asked |-> [paths |-> ap, trend |-> at], got |-> g,
             n |-> [paths |-> np, trend |-> nt], range |-> ra]
    BY <1>9
  <1> HIDE DEF a
  <1>4. b = [tab |-> tab, loading |-> l, marks |-> m, blocked |-> Stats!Unknown, mount |-> mo,
             submitting |-> no, asked |-> [paths |-> ap, trend |-> Stats!NoQuestion], got |-> g,
             n |-> [paths |-> np, trend |-> nt], range |-> ra]
    BY <1>3
  <1> HIDE DEF b
  <1>5. c = [tab |-> tab, loading |-> l, marks |-> m, blocked |-> Stats!Unknown, mount |-> mo,
             submitting |-> no, asked |-> [paths |-> ap, trend |-> Stats!NoQuestion], got |-> g,
             n |-> [paths |-> np, trend |-> IF t = "overview" THEN nt + 1 ELSE nt], range |-> ra]
    BY <1>4
  <1> HIDE DEF c
  <1>6. d = [tab |-> tab, loading |-> l, marks |-> m, blocked |-> Stats!Unknown, mount |-> IF t = "blocked" THEN mo + 1 ELSE mo,
             submitting |-> no, asked |-> [paths |-> ap, trend |-> Stats!NoQuestion], got |-> g,
             n |-> [paths |-> np, trend |-> IF t = "overview" THEN nt + 1 ELSE nt], range |-> ra]
    BY <1>5
  <1> HIDE DEF d
  <1> QED BY <1>0, <1>1, <1>2, <1>6

LEMMA HistFields ==
    ASSUME NEW h \in StatsHists
    PROVE  /\ Stats!Counted(h) \in StatsHists /\ Stats!Fresh(h) \in StatsHists
           /\ Stats!Counted(h).loads = h.loads /\ Stats!Counted(h).shown = h.shown
           /\ Stats!Counted(h).synced = h.synced /\ Stats!Fresh(h).synced = h.synced
           /\ Stats!Fresh(h).loads = h.loads + 1 /\ Stats!Fresh(h).shown = h.shown
  <1>1. /\ Stats!Counted(h) = [loads |-> h.loads, shown |-> h.shown, synced |-> h.synced,
                               commands |-> h.commands + 1]
        /\ Stats!Fresh(h) = [loads |-> h.loads + 1, shown |-> h.shown, synced |-> h.synced,
                             commands |-> h.commands]
    BY DEF Stats!Counted, Stats!Fresh, StatsHists
  <1>2. Stats!Counted(h) \in StatsHists /\ Stats!Fresh(h) \in StatsHists
    BY <1>1 DEF StatsHists
  <1> QED BY <1>1, <1>2

LEMMA DefaultDaysAreAsked == Stats!DefaultDays \in DayQuestions
  BY StatsAssumption DEF Stats!DefaultDays, DayQuestions

\* The fields of a view.
LEMMA ViewTypes ==
    ASSUME StatsTypes
    PROVE  /\ view \in StatsViews /\ hist \in StatsHists
           /\ view.n.paths \in Nat /\ view.n.trend \in Nat /\ view.mount \in Nat
           /\ hist.loads \in Nat /\ hist.shown \in Nat
           /\ view.asked.paths \in PathQuestions \cup {Stats!NoQuestion}
           /\ view.asked.trend \in DayQuestions \cup {Stats!NoQuestion}
           /\ view.range \in Ranges
  BY DEF StatsTypes, StatsViews, StatsHists, Asked

LEMMA AskTypes ==
    ASSUME NEW v, v.n.paths \in Nat, v.n.trend \in Nat
    PROVE  /\ v.asked.paths \in PathQuestions => Stats!Ask("paths", v) \in StatsRequests
           /\ v.asked.trend \in DayQuestions => Stats!Ask("trend", v) \in StatsRequests
           /\ \A kind : /\ Stats!Ask(kind, v).kind = kind
                        /\ Stats!Ask(kind, v).stage = "sent"
                        /\ Stats!Ask(kind, v).n = v.n[kind]
                        /\ Stats!Ask(kind, v).question = v.asked[kind]
  BY DEF Stats!Ask, StatsRequests

LEMMA RankingsAsked ==
    /\ RankRequest(Stats!AskRankings) /\ Stats!AskRankings.kind = "rank"
    /\ Stats!AskRankings.stage = "sent" /\ DOMAIN Stats!AskRankings.marks = {}
  <1>1. /\ Stats!AskRankings = [kind |-> "rank", stage |-> "sent", marks |-> <<>>, mount |-> 0]
        /\ Stats!AskRankings.kind = "rank" /\ Stats!AskRankings.stage = "sent"
        /\ Stats!AskRankings.marks = <<>>
    BY DEF Stats!AskRankings
  <1>2. DOMAIN <<>> = {} /\ Rankings # {}
    <2>1. <<>> \in Seq({}) /\ Len(<<>>) = 0
      OBVIOUS
    <2>2. DOMAIN <<>> = 1..Len(<<>>)
      BY <2>1
    <2>3. 1..0 = {}
      OBVIOUS
    <2> QED BY <2>1, <2>2, <2>3, StatsAssumption
  <1>3. PartOfMarks(Stats!AskRankings.marks) /\ DOMAIN Stats!AskRankings.marks # Rankings
    BY <1>1, <1>2 DEF PartOfMarks
  <1> QED BY <1>1, <1>2, <1>3 DEF RankRequest

\* No question is no path, and no days.
LEMMA QuestionsAreSome ==
    Stats!NoQuestion \notin PathQuestions /\ Stats!NoQuestion \notin DayQuestions
  BY DEF Stats!NoQuestion, PathQuestions, DayQuestions

\* The page has the operations of the blocklist under names of its own.
LEMMA SameBlocklist ==
    /\ Stats!BlocklistInit => BlocklistInit
    /\ \A a, d, blocked : Stats!SetBlocked(a, d, blocked) => SetBlocked(a, d, blocked)
    /\ \A a : /\ Stats!WriteRow(a) => WriteRow(a)
              /\ Stats!ReadRows(a) => ReadRows(a)
              /\ Stats!Install(a) => Install(a)
              /\ Stats!CallFails(a) => CallFails(a)
    /\ Stats!Restart => Restart
    /\ \A d : Stats!IsBlocked(d) => IsBlocked(d)
  <1>1. Stats!NoCall = NoCall /\ \A a : Stats!Busy(a) <=> Busy(a)
    BY DEF Stats!NoCall, NoCall, Stats!Busy, Busy
  <1>2. \A a : Stats!Ends(a) => Ends(a)
    BY <1>1 DEF Stats!Ends, Ends
  <1>3. Stats!BlocklistInit => BlocklistInit
    BY <1>1 DEF Stats!BlocklistInit, BlocklistInit
  <1>4. \A a, d, blocked : Stats!SetBlocked(a, d, blocked) => SetBlocked(a, d, blocked)
    BY <1>1 DEF Stats!SetBlocked, SetBlocked
  <1>5. \A a : Stats!WriteRow(a) => WriteRow(a)
    BY DEF Stats!WriteRow, WriteRow
  <1>6. \A a : Stats!ReadRows(a) => ReadRows(a)
    BY DEF Stats!ReadRows, ReadRows
  <1>7. \A a : (Stats!Install(a) => Install(a)) /\ (Stats!CallFails(a) => CallFails(a))
    BY <1>2 DEF Stats!Install, Install, Stats!CallFails, CallFails
  <1>8. Stats!Restart => Restart
    BY <1>1 DEF Stats!Restart, Restart
  <1>9. \A d : Stats!IsBlocked(d) => IsBlocked(d)
    BY DEF Stats!IsBlocked, IsBlocked
  <1> QED BY <1>3, <1>4, <1>5, <1>6, <1>7, <1>8, <1>9

LEMMA StatsInit == Stats!Init => StatsInv
  <1> SUFFICES ASSUME Stats!Init PROVE StatsInv
    OBVIOUS
  <1> DEFINE ask == Stats!Ask("trend", view)
  <1>1. /\ view = [tab |-> "overview", loading |-> TRUE,
                   marks |-> [k \in Rankings |-> Stats!Unknown],
                   blocked |-> Stats!Unknown, mount |-> 0, submitting |-> FALSE,
                   asked |-> [paths |-> Stats!NoQuestion, trend |-> Stats!DefaultDays],
                   got |-> [paths |-> Stats!NoQuestion, trend |-> Stats!NoQuestion],
                   n |-> [paths |-> 0, trend |-> 1], range |-> CHOOSE k \in Ranges : TRUE]
        /\ hist = [loads |-> 0, shown |-> 0, synced |-> TRUE, commands |-> 0]
        /\ rows = {} /\ blockedHosts = {} /\ call = [a \in Admin |-> NoCall]
    <2>1. rows = {} /\ blockedHosts = {} /\ call = [a \in Admin |-> NoCall]
      BY SameBlocklist DEF Stats!Init, BlocklistInit
    <2> QED BY <2>1 DEF Stats!Init
  <1>2. DOMAIN net = {Stats!AskRankings, ask} /\ \A r \in DOMAIN net : net[r] = 1
    BY DEF Stats!Init, Stats!SetToBag
  <1>3. view.n = [paths |-> 0, trend |-> 1] /\ view.asked.trend = Stats!DefaultDays
        /\ view.asked.paths = Stats!NoQuestion /\ view.loading = TRUE
        /\ view.submitting = FALSE /\ view.tab = "overview"
        /\ view.got.paths = Stats!NoQuestion /\ view.got.trend = Stats!NoQuestion
    BY <1>1
  <1>4. /\ ask \in StatsRequests /\ ask.kind = "trend" /\ ask.n = 1 /\ ask.stage = "sent"
        /\ ask.question = view.asked.trend
    BY <1>3, AskTypes, DefaultDaysAreAsked
  <1>5. view \in StatsViews
    <2>1. (CHOOSE k \in Ranges : TRUE) \in Ranges
      BY StatsAssumption
    <2>2. [k \in Rankings |-> Stats!Unknown] \in [Rankings -> (SUBSET Domain) \cup {Stats!Unknown}]
      OBVIOUS
    <2> QED BY <1>1, <2>1, <2>2, DefaultDaysAreAsked DEF StatsViews, Asked, Stats!Tabs
  <1> HIDE DEF ask
  <1>6. StatsTypes
    <2>1. hist \in StatsHists
      BY <1>1 DEF StatsHists
    <2> QED BY <1>2, <1>3, <1>4, <1>5, <2>1, RankingsAsked DEF StatsTypes, Stats!DrillOpen
  <1>7. QuestionsFit
    <2>1. Fits("paths")
      BY <1>2, <1>3, <1>4, RankingsAsked DEF Fits
    <2>2. Fits("trend")
      <3>1. \A r \in DOMAIN net : r.kind = "trend" => r = ask
        BY <1>2, RankingsAsked
      <3>2. view.n["trend"] = 1 /\ ask.n <= 1
        BY <1>3, <1>4
      <3>3. ask \in DOMAIN net
        BY <1>2
      <3> QED BY <1>4, <3>1, <3>2, <3>3 DEF Fits
    <2> QED BY <2>1, <2>2 DEF QuestionsFit
  <1>8. CallsAreAsked
    BY <1>1 DEF CallsAreAsked, Busy, NoCall
  <1>9. PanelListed
    BY <1>1, <1>2, <1>3, <1>4, RankingsAsked DEF PanelListed, Stats!Lists
  <1>10. RanksAreAlone
    BY <1>2, <1>3, <1>4 DEF RanksAreAlone
  <1>11. MarksFollow
    <2>1. NoBlocks
      BY <1>2, <1>4, RankingsAsked DEF NoBlocks, Stats!Blocks
    <2>2. \A r \in DOMAIN net : r.kind \notin Stats!Blocks /\ r.kind # "toggle"
      BY <2>1 DEF NoBlocks, Stats!Blocks
    <2>3. \A r \in DOMAIN net : r.kind = "rank" => r = Stats!AskRankings
      BY <1>2, <1>4
    <2> QED BY <1>1, <1>2, <2>1, <2>2, <2>3, RankingsAsked DEF MarksFollow
  <1> QED BY <1>6, <1>7, <1>8, <1>9, <1>10, <1>11 DEF StatsInv

LEMMA AsksTypes ==
    ASSUME NEW v \in StatsViews, NEW kind, NEW q,
           \/ kind = "paths" /\ q \in PathQuestions \cup {Stats!NoQuestion}
           \/ kind = "trend" /\ q \in DayQuestions \cup {Stats!NoQuestion},
           NEW w, w = Stats!Asks(v, kind, q)
    PROVE  /\ w \in StatsViews /\ w.tab = v.tab /\ w.loading = v.loading /\ w.marks = v.marks
           /\ w.blocked = v.blocked /\ w.mount = v.mount /\ w.submitting = v.submitting
           /\ w.got = v.got /\ w.range = v.range
           /\ w.asked[kind] = q /\ w.n[kind] = v.n[kind] + 1
           /\ kind = "paths" => w.asked.trend = v.asked.trend /\ w.n.trend = v.n.trend
           /\ kind = "trend" => w.asked.paths = v.asked.paths /\ w.n.paths = v.n.paths
  <1>1. w = [tab |-> v.tab, loading |-> v.loading, marks |-> v.marks, blocked |-> v.blocked,
             mount |-> v.mount, submitting |-> v.submitting,
             asked |-> [paths |-> IF kind = "paths" THEN q ELSE v.asked.paths,
                        trend |-> IF kind = "trend" THEN q ELSE v.asked.trend],
             got |-> v.got,
             n |-> [paths |-> IF kind = "paths" THEN v.n.paths + 1 ELSE v.n.paths,
                    trend |-> IF kind = "trend" THEN v.n.trend + 1 ELSE v.n.trend],
             range |-> v.range]
    BY AsksFields DEF Questions
  <1>2. w \in StatsViews
    BY <1>1 DEF StatsViews, Asked
  <1>3. /\ w.asked = [paths |-> IF kind = "paths" THEN q ELSE v.asked.paths,
                      trend |-> IF kind = "trend" THEN q ELSE v.asked.trend]
        /\ w.n = [paths |-> IF kind = "paths" THEN v.n.paths + 1 ELSE v.n.paths,
                  trend |-> IF kind = "trend" THEN v.n.trend + 1 ELSE v.n.trend]
    BY <1>1
  <1>4. /\ w.tab = v.tab /\ w.loading = v.loading /\ w.marks = v.marks
        /\ w.blocked = v.blocked /\ w.mount = v.mount /\ w.submitting = v.submitting
        /\ w.got = v.got /\ w.range = v.range
    BY <1>1
  <1> QED BY <1>2, <1>3, <1>4

LEMMA ChartTypes ==
    ASSUME NEW v \in StatsViews, NEW w, w = Stats!ChartMounted(v)
    PROVE  /\ w \in StatsViews /\ w.tab = "overview" /\ w.loading = v.loading
           /\ w.marks = v.marks
           /\ w.blocked = v.blocked /\ w.mount = v.mount /\ w.submitting = v.submitting
           /\ w.got.paths = v.got.paths /\ w.asked.paths = v.asked.paths
           /\ w.n.paths = v.n.paths /\ w.n.trend = v.n.trend + 1
           /\ w.asked.trend = Stats!DefaultDays
  <1>1. w = [tab |-> "overview", loading |-> v.loading, marks |-> v.marks,
             blocked |-> v.blocked, mount |-> v.mount, submitting |-> v.submitting,
             asked |-> [paths |-> v.asked.paths, trend |-> Stats!DefaultDays],
             got |-> [paths |-> v.got.paths, trend |-> Stats!NoQuestion],
             n |-> [paths |-> v.n.paths, trend |-> v.n.trend + 1],
             range |-> v.range]
    BY ChartFields
  <1>2. w \in StatsViews
    BY <1>1, DefaultDaysAreAsked DEF StatsViews, Asked, Stats!Tabs
  <1>3. /\ w.asked = [paths |-> v.asked.paths, trend |-> Stats!DefaultDays]
        /\ w.got = [paths |-> v.got.paths, trend |-> Stats!NoQuestion]
        /\ w.n = [paths |-> v.n.paths, trend |-> v.n.trend + 1]
    BY <1>1
  <1>4. /\ w.tab = "overview" /\ w.loading = v.loading /\ w.marks = v.marks
        /\ w.blocked = v.blocked /\ w.mount = v.mount /\ w.submitting = v.submitting
    BY <1>1
  <1> QED BY <1>2, <1>3, <1>4

LEMMA LeftTypes ==
    ASSUME NEW v \in StatsViews, NEW tab \in Stats!Tabs \cup {"none"},
           NEW w, w = Stats!Left(v, tab)
    PROVE  /\ w \in StatsViews /\ w.tab = tab /\ w.loading = v.loading /\ w.marks = v.marks
           /\ w.mount = (IF v.tab = "blocked" THEN v.mount + 1 ELSE v.mount)
           /\ ~w.submitting
           /\ w.got.paths = v.got.paths /\ w.got.trend = v.got.trend
           /\ w.asked.paths = v.asked.paths /\ w.asked.trend = Stats!NoQuestion
           /\ w.n.paths = v.n.paths
           /\ v.tab = "overview" => w.n.trend = v.n.trend + 1
           /\ v.tab # "overview" => w.n.trend = v.n.trend
  <1>1. w = [tab |-> tab, loading |-> v.loading, marks |-> v.marks,
             blocked |-> Stats!Unknown,
             mount |-> IF v.tab = "blocked" THEN v.mount + 1 ELSE v.mount,
             submitting |-> FALSE,
             asked |-> [paths |-> v.asked.paths, trend |-> Stats!NoQuestion],
             got |-> v.got,
             n |-> [paths |-> v.n.paths,
                    trend |-> IF v.tab = "overview" THEN v.n.trend + 1 ELSE v.n.trend],
             range |-> v.range]
    BY LeftFields
  <1>2. w \in StatsViews
    BY <1>1 DEF StatsViews, Asked
  <1>3. /\ w.asked = [paths |-> v.asked.paths, trend |-> Stats!NoQuestion]
        /\ w.got = v.got
        /\ w.n = [paths |-> v.n.paths,
                  trend |-> IF v.tab = "overview" THEN v.n.trend + 1 ELSE v.n.trend]
    BY <1>1
  <1>4. /\ w.tab = tab /\ w.loading = v.loading /\ w.marks = v.marks
        /\ w.mount = (IF v.tab = "blocked" THEN v.mount + 1 ELSE v.mount)
        /\ ~w.submitting
    BY <1>1
  <1> QED BY <1>2, <1>3, <1>4

\* Whatever is asked of the dialog or the chart leaves the rest of the page.
LEMMA OthersStay ==
    ASSUME StatsInv, Stays(CoreKinds), UNCHANGED <<rows, blockedHosts, call>>,
           view'.marks = view.marks, view'.loading = view.loading, view'.tab = view.tab,
           view'.mount = view.mount, view'.blocked = view.blocked,
           hist'.loads = hist.loads, hist'.shown = hist.shown, hist'.synced = hist.synced,
           \A r \in DOMAIN net' : r.kind \in Stats!Lists /\ r.stage # "failed" => r \in DOMAIN net
    PROVE  CallsAreAsked' /\ PanelListed' /\ RanksAreAlone' /\ MarksFollow'
  <1>1. NoBlocks' => NoBlocks
    BY DEF NoBlocks, Stays, CoreKinds
  <1> QED BY <1>1, CoreKeeps, PanelKeeps DEF StatsInv

LEMMA Drilldown == StatsInv /\ Stats!CloseDrilldown /\ UNCHANGED blocklistVars => StatsInv'
  <1> SUFFICES ASSUME StatsInv, Stats!CloseDrilldown, UNCHANGED blocklistVars PROVE StatsInv'
    OBVIOUS
  <1>0. StatsTypes
    BY DEF StatsInv
  <1>1. view' = Stats!Asks(view, "paths", Stats!NoQuestion) /\ UNCHANGED <<net, hist>>
    BY DEF Stats!CloseDrilldown
  <1>2. /\ view' \in StatsViews /\ view'.tab = view.tab /\ view'.loading = view.loading
        /\ view'.marks = view.marks /\ view'.got = view.got
        /\ view'.blocked = view.blocked /\ view'.mount = view.mount
        /\ view'.submitting = view.submitting
        /\ view'.asked.paths = Stats!NoQuestion /\ view'.n.paths = view.n.paths + 1
        /\ view'.asked.trend = view.asked.trend /\ view'.n.trend = view.n.trend
    BY <1>0, <1>1, AsksTypes, ViewTypes
  <1>3. StatsTypes'
    BY <1>0, <1>1, <1>2 DEF StatsTypes, Stats!DrillOpen, Stats!Loaded
  <1>4. Stays(CoreKinds) /\ Stays({"trend"})
    BY <1>1 DEF Stays
  <1>5. Fits("paths")'
    <2>1. \A r \in DOMAIN net : r.kind = "paths" => r.n \in Nat
      <3> SUFFICES ASSUME NEW r \in DOMAIN net, r.kind = "paths" PROVE r.n \in Nat
        OBVIOUS
      <3>1. r \in StatsRequests \/ RankRequest(r)
        BY <1>0 DEF StatsTypes
      <3> QED BY <3>1, StatsShapes
    <2> QED BY <1>0, <1>1, <1>2, <2>1, ViewTypes, FitsAsked DEF StatsInv, QuestionsFit, Questions
  <1>6. Fits("trend")'
    BY <1>2, <1>4, FitsKeeps DEF StatsInv, QuestionsFit, Questions
  <1>7. CallsAreAsked' /\ PanelListed' /\ RanksAreAlone' /\ MarksFollow'
    BY <1>1, <1>2, <1>4, OthersStay DEF blocklistVars
  <1> QED BY <1>3, <1>5, <1>6, <1>7 DEF StatsInv, QuestionsFit

LEMMA QuestionNumbers ==
    ASSUME StatsTypes, NEW r \in DOMAIN net, r.kind \in Questions
    PROVE  r.n \in Nat
  <1>1. r \in StatsRequests \/ RankRequest(r)
    BY DEF StatsTypes
  <1> QED BY <1>1, StatsShapes DEF Questions

LEMMA FewerStay ==
    ASSUME NEW kinds, NEW fewer \in SUBSET kinds, Stays(kinds)
    PROVE  Stays(fewer)
  BY DEF Stays

AllKinds == CoreKinds \cup Stats!Lists \cup Questions

LEMMA KindsDiffer ==
    /\ CoreKinds \subseteq AllKinds \ Questions
    /\ {"paths"} \subseteq AllKinds \ {"trend"} /\ {"trend"} \subseteq AllKinds \ {"paths"}
    /\ "paths" \notin Stats!Lists /\ "trend" \notin Stats!Lists
    /\ "paths" \notin AllKinds \ {"paths"} /\ "trend" \notin AllKinds \ {"trend"}
    /\ CoreKinds \subseteq AllKinds \ {"trend"} /\ CoreKinds \subseteq AllKinds \ {"paths"}
    /\ Stats!Lists \subseteq AllKinds \ {"trend"} /\ Stats!Lists \subseteq AllKinds \ {"paths"}
    /\ "toggle" \in CoreKinds /\ "rank" \in CoreKinds
  BY DEF AllKinds, CoreKinds, Stats!Lists, Stats!Blocks, Questions

\* A question, or two of which the last one counts.
LEMMA QuestionSent ==
    ASSUME StatsInv, UNCHANGED blocklistVars, NEW kind \in Questions, NEW new,
           view' \in StatsViews, view'.tab = view.tab, view'.loading = view.loading,
           view'.marks = view.marks, view'.got = view.got, view'.blocked = view.blocked,
           view'.mount = view.mount, view'.submitting = view.submitting,
           hist' = Stats!Counted(hist),
           view'.n[kind] > view.n[kind],
           kind = "paths" => view'.asked.trend = view.asked.trend /\ view'.n.trend = view.n.trend,
           kind = "trend" => view'.asked.paths = view.asked.paths /\ view'.n.paths = view.n.paths,
           kind = "paths" => view.tab = "ranking" /\ Stats!Loaded,
           kind = "trend" => view.tab = "overview",
           new = Stats!Ask(kind, view'), new \in StatsRequests, new \in DOMAIN net',
           Stays(AllKinds \ {kind}),
           \A r \in DOMAIN net' :
               \/ r \in DOMAIN net \/ r = new
               \/ /\ r \in StatsRequests /\ r.kind = kind /\ r.n \in Nat
                  /\ r.n < view'.n[kind]
    PROVE  StatsInv'
  <1>0. StatsTypes
    BY DEF StatsInv
  <1>1. new.kind = kind /\ new.n = view'.n[kind] /\ new.question = view'.asked[kind]
    BY DEF Stats!Ask
  <1>2. kind = "paths" \/ kind = "trend"
    BY DEF Questions
  <1>3. /\ hist' \in StatsHists /\ hist'.loads = hist.loads /\ hist'.shown = hist.shown
        /\ hist'.synced = hist.synced
    <2>1. hist \in StatsHists
      BY <1>0 DEF StatsTypes
    <2> QED BY <2>1, HistFields
  <1>4. StatsTypes'
    <2>1. Stats!Loaded' <=> Stats!Loaded
      BY DEF Stats!Loaded
    <2>2. \A r \in DOMAIN net' : r \in DOMAIN net \/ (r \in StatsRequests /\ r.kind = kind)
      BY <1>1
    <2>3. \A r \in DOMAIN net' : r \in StatsRequests \/ RankRequest(r)
      BY <1>0, <2>2 DEF StatsTypes
    <2>4. \A r \in DOMAIN net' : r.kind = "toggle" => Stats!Loaded
      BY <1>0, <1>2, <2>2 DEF StatsTypes
    <2>5. Stats!DrillOpen' => view.tab = "ranking" /\ Stats!Loaded
      BY <1>0, <1>2 DEF StatsTypes, Stats!DrillOpen
    <2>6. view.tab # "overview" => view'.asked.trend = Stats!NoQuestion
      BY <1>0, <1>2 DEF StatsTypes
    <2>7. view.submitting => view.tab = "blocked"
      BY <1>0 DEF StatsTypes
    <2> QED BY <1>3, <2>1, <2>3, <2>4, <2>5, <2>6, <2>7 DEF StatsTypes
  <1>5. Fits(kind)'
    <2>1. view.n[kind] \in Nat /\ view'.n[kind] \in Nat
      BY <1>0, <1>2, ViewTypes DEF StatsViews
    <2>2. Fits(kind)
      BY <1>2 DEF StatsInv, QuestionsFit
    <2>3. \A r \in DOMAIN net' : r.kind = kind =>
               \/ r \in DOMAIN net /\ r.n \in Nat
               \/ r.n \in Nat /\ r.n < view'.n[kind]
               \/ r.n = view'.n[kind] /\ r.question = view'.asked[kind]
      BY <1>0, <1>1, QuestionNumbers
    <2> QED BY <1>1, <2>1, <2>2, <2>3, FitsAsked
  <1>6. ASSUME NEW other \in Questions, other # kind PROVE Fits(other)'
    <2>1. Stays({other})
      <3>1. {other} \subseteq AllKinds \ {kind}
        BY <1>6 DEF AllKinds
      <3> QED BY <3>1, FewerStay
    <2>2. view'.asked[other] = view.asked[other] /\ view'.n[other] = view.n[other]
          /\ view'.got[other] = view.got[other] /\ Fits(other)
      BY <1>2, <1>6 DEF StatsInv, QuestionsFit, Questions
    <2> QED BY <2>1, <2>2, FitsKeeps
  <1>7. CallsAreAsked' /\ PanelListed' /\ RanksAreAlone' /\ MarksFollow'
    <2>1. Stays(CoreKinds)
      BY <1>2, FewerStay, KindsDiffer
    <2>2. \A r \in DOMAIN net' : r.kind \in Stats!Lists => r \in DOMAIN net
      BY <1>1, <1>2, KindsDiffer
    <2> QED BY <1>3, <2>1, <2>2, OthersStay DEF blocklistVars
  <1>8. QuestionsFit'
    <2>1. "paths" \in Questions /\ "trend" \in Questions
      BY DEF Questions
    <2> QED BY <1>2, <1>5, <1>6, <2>1 DEF QuestionsFit
  <1> QED BY <1>4, <1>7, <1>8 DEF StatsInv

LEMMA DaysSelected ==
    ASSUME StatsInv, NEW d \in Days, Stats!SelectDays(d), UNCHANGED blocklistVars
    PROVE  StatsInv'
  <1>0. StatsTypes
    BY DEF StatsInv
  <1> DEFINE new == Stats!Ask("trend", view')
  <1>1. /\ view' = Stats!Asks(view, "trend", <<d>>) /\ view.tab = "overview"
        /\ net' = Stats!Send(new) /\ hist' = Stats!Counted(hist)
    BY DEF Stats!SelectDays
  <1>2. <<d>> \in DayQuestions
    BY DEF DayQuestions
  <1>3. /\ view' \in StatsViews /\ view'.tab = view.tab /\ view'.loading = view.loading
        /\ view'.marks = view.marks /\ view'.got = view.got
        /\ view'.blocked = view.blocked /\ view'.mount = view.mount
        /\ view'.submitting = view.submitting
        /\ view'.asked.trend = <<d>> /\ view'.n.trend = view.n.trend + 1
        /\ view'.asked.paths = view.asked.paths /\ view'.n.paths = view.n.paths
        /\ view.n.trend \in Nat /\ view'.n.trend > view.n.trend
    BY <1>0, <1>1, <1>2, AsksTypes, ViewTypes
  <1>4. new \in StatsRequests /\ new.kind = "trend"
    BY <1>2, <1>3, AskTypes DEF StatsViews
  <1> HIDE DEF new
  <1>5. DOMAIN net' = DOMAIN net \cup {new}
    BY <1>1, SendAdds
  <1>6. Stays(AllKinds \ {"trend"})
    BY <1>1, <1>4, SendStays
  <1>7. new = Stats!Ask("trend", view')
    BY DEF new
  <1> QED BY <1>1, <1>3, <1>4, <1>5, <1>6, <1>7, QuestionSent DEF Questions

LEMMA RangeSelected ==
    ASSUME StatsInv, NEW range \in Ranges, Stats!SelectRange(range), UNCHANGED blocklistVars
    PROVE  StatsInv'
  <1>0. StatsTypes
    BY DEF StatsInv
  <1> DEFINE new == Stats!Ask("paths", view')
             q == <<view.asked.paths[1], range>>
             v == Stats!Asks(view, "paths", q)
  <1>1. /\ view' = [v EXCEPT !.range = range]
        /\ net' = Stats!Send(new) /\ hist' = Stats!Counted(hist)
        /\ Stats!DrillOpen
    BY DEF Stats!SelectRange
  <1>2. q \in PathQuestions
    <2>1. view.asked.paths \in PathQuestions
      BY <1>0, <1>1, ViewTypes DEF Stats!DrillOpen
    <2> QED BY <2>1 DEF PathQuestions
  <1>3. /\ v \in StatsViews /\ v.tab = view.tab /\ v.loading = view.loading
        /\ v.marks = view.marks /\ v.got = view.got
        /\ v.blocked = view.blocked /\ v.mount = view.mount
        /\ v.submitting = view.submitting
        /\ v.asked.paths = q /\ v.n.paths = view.n.paths + 1
        /\ v.asked.trend = view.asked.trend /\ v.n.trend = view.n.trend
        /\ view.n.paths \in Nat
    BY <1>0, <1>2, AsksTypes, ViewTypes
  <1> HIDE DEF v, q
  <1>4. /\ view' \in StatsViews /\ view'.tab = view.tab /\ view'.loading = view.loading
        /\ view'.marks = view.marks /\ view'.got = view.got
        /\ view'.blocked = view.blocked /\ view'.mount = view.mount
        /\ view'.submitting = view.submitting
        /\ view'.asked.paths = q /\ view'.n.paths = view.n.paths + 1
        /\ view'.asked.trend = view.asked.trend /\ view'.n.trend = view.n.trend
        /\ view'.n.paths > view.n.paths
    BY <1>1, <1>3 DEF StatsViews
  <1>5. new \in StatsRequests /\ new.kind = "paths"
    BY <1>2, <1>4, AskTypes DEF StatsViews
  <1> HIDE DEF new
  <1>6. DOMAIN net' = DOMAIN net \cup {new}
    BY <1>1, SendAdds
  <1>7. Stays(AllKinds \ {"paths"})
    BY <1>1, <1>5, SendStays
  <1>8. new = Stats!Ask("paths", view')
    BY DEF new
  <1>9. view.tab = "ranking" /\ Stats!Loaded
    BY <1>0, <1>1 DEF StatsTypes
  <1> QED BY <1>1, <1>4, <1>5, <1>6, <1>7, <1>8, <1>9, QuestionSent DEF Questions

LEMMA SendTwoAdds ==
    ASSUME NEW one, NEW two, net' = Stats!BagAdd(Stats!Send(one), two)
    PROVE  DOMAIN net' = DOMAIN net \cup {one, two}
  BY DEF Stats!Send, Stats!BagAdd

LEMMA DomainPicked ==
    ASSUME StatsInv, NEW d \in Domain, NEW range \in Ranges, Stats!PickDomain(d, range),
           UNCHANGED blocklistVars
    PROVE  StatsInv'
  <1>0. StatsTypes
    BY DEF StatsInv
  <1> DEFINE first == Stats!Asks(view, "paths", <<d, view.range>>)
             next == Stats!Asks(first, "paths", <<d, range>>)
             last == [next EXCEPT !.range = range]
             one == Stats!Ask("paths", first)
             two == Stats!Ask("paths", last)
  <1>1. /\ view.tab = "ranking" /\ Stats!Loaded /\ hist' = Stats!Counted(hist)
        /\ \/ view' = first /\ net' = Stats!Send(one)
           \/ view' = last /\ net' = Stats!BagAdd(Stats!Send(one), two)
    BY DEF Stats!PickDomain
  <1>2. <<d, view.range>> \in PathQuestions /\ <<d, range>> \in PathQuestions
    BY <1>0, ViewTypes DEF PathQuestions
  <1>3. /\ first \in StatsViews /\ first.tab = view.tab /\ first.loading = view.loading
        /\ first.marks = view.marks /\ first.got = view.got
        /\ first.blocked = view.blocked /\ first.mount = view.mount
        /\ first.submitting = view.submitting
        /\ first.asked.paths \in PathQuestions /\ first.n.paths = view.n.paths + 1
        /\ first.asked.trend = view.asked.trend /\ first.n.trend = view.n.trend
        /\ view.n.paths \in Nat /\ view.n.trend \in Nat
    BY <1>0, <1>2, AsksTypes, ViewTypes
  <1> HIDE DEF first
  <1>4. /\ next \in StatsViews /\ next.tab = view.tab /\ next.loading = view.loading
        /\ next.marks = view.marks /\ next.got = view.got
        /\ next.blocked = view.blocked /\ next.mount = view.mount
        /\ next.submitting = view.submitting
        /\ next.asked.paths \in PathQuestions /\ next.n.paths = view.n.paths + 2
        /\ next.asked.trend = view.asked.trend /\ next.n.trend = view.n.trend
    <2>1. /\ next \in StatsViews /\ next.tab = first.tab /\ next.loading = first.loading
          /\ next.marks = first.marks /\ next.got = first.got
          /\ next.blocked = first.blocked /\ next.mount = first.mount
          /\ next.submitting = first.submitting
          /\ next.asked.paths = <<d, range>> /\ next.n.paths = first.n.paths + 1
          /\ next.asked.trend = first.asked.trend /\ next.n.trend = first.n.trend
      BY <1>2, <1>3, AsksTypes
    <2> HIDE DEF next
    <2> QED BY <1>2, <1>3, <2>1
  <1> HIDE DEF next
  <1>5. /\ last \in StatsViews /\ last.tab = view.tab /\ last.loading = view.loading
        /\ last.marks = view.marks /\ last.got = view.got
        /\ last.blocked = view.blocked /\ last.mount = view.mount
        /\ last.submitting = view.submitting
        /\ last.asked.paths \in PathQuestions /\ last.n.paths = view.n.paths + 2
        /\ last.asked.trend = view.asked.trend /\ last.n.trend = view.n.trend
    BY <1>4 DEF StatsViews
  <1> HIDE DEF last
  <1>6. /\ one \in StatsRequests /\ one.kind = "paths" /\ one.n = view.n.paths + 1
        /\ two \in StatsRequests /\ two.kind = "paths" /\ two.n = view.n.paths + 2
    BY <1>3, <1>5, AskTypes
  <1>7. CASE view' = first /\ net' = Stats!Send(one)
    <2>1. one = Stats!Ask("paths", view')
      BY <1>7
    <2> HIDE DEF one
    <2>2. DOMAIN net' = DOMAIN net \cup {one}
      BY <1>7, SendAdds
    <2>3. Stays(AllKinds \ {"paths"})
      BY <1>6, <1>7, SendStays
    <2>4. view'.n["paths"] > view.n["paths"]
      BY <1>3, <1>7
    <2> QED BY <1>1, <1>3, <1>6, <1>7, <2>1, <2>2, <2>3, <2>4, QuestionSent DEF Questions
  <1>8. CASE view' = last /\ net' = Stats!BagAdd(Stats!Send(one), two)
    <2>1. two = Stats!Ask("paths", view')
      BY <1>8
    <2> HIDE DEF one, two
    <2>2. DOMAIN net' = DOMAIN net \cup {one, two}
      BY <1>8, SendTwoAdds
    <2>3. Stays(AllKinds \ {"paths"})
      BY <1>6, <1>8, SendTwoStays
    <2>4. view'.n["paths"] > view.n["paths"] /\ one.n \in Nat /\ one.n < view'.n["paths"]
      BY <1>3, <1>5, <1>6, <1>8
    <2> QED BY <1>1, <1>5, <1>6, <1>8, <2>1, <2>2, <2>3, <2>4, QuestionSent DEF Questions
  <1> QED BY <1>1, <1>7, <1>8

\* A change of the blocklist is sent, by a switch or from the panel.
LEMMA ChangeSent ==
    ASSUME StatsInv, UNCHANGED blocklistVars, NEW kind \in Stats!Blocks, NEW d \in Domain,
           NEW blocked \in BOOLEAN, Stats!Block(kind, d, blocked),
           view' \in StatsViews, view'.tab = view.tab, view'.loading = view.loading,
           view'.marks = view.marks, view'.got = view.got, view'.blocked = view.blocked,
           view'.mount = view.mount, view'.asked = view.asked, view'.n = view.n,
           view'.submitting => view.tab = "blocked", kind = "toggle" => Stats!Loaded
    PROVE  StatsInv'
  <1>0. StatsTypes
    BY DEF StatsInv
  <1> DEFINE new == [kind |-> kind, stage |-> "sent", domain |-> d, blocked |-> blocked,
                     mount |-> view.mount]
  <1>1. /\ net' = Stats!Send(new)
        /\ hist' = [Stats!Counted(hist) EXCEPT
               !.synced = Stats!Counted(hist).synced /\ kind = "toggle"
                          /\ ~Stats!Awaited(Stats!Blocks \cup {"rank"})]
    BY DEF Stats!Block
  <1>2. new \in StatsRequests /\ new.kind = kind /\ new.stage = "sent"
    BY <1>0, ViewTypes DEF StatsRequests
  <1> HIDE DEF new
  <1>3. /\ hist' \in StatsHists /\ hist'.loads = hist.loads /\ hist'.shown = hist.shown
        /\ hist'.synced => /\ hist.synced /\ kind = "toggle"
                           /\ \A r \in DOMAIN net : r.kind \notin Stats!Blocks \cup {"rank"}
    <2>1. hist \in StatsHists
      BY <1>0 DEF StatsTypes
    <2> DEFINE h == Stats!Counted(hist)
               s == h.synced /\ kind = "toggle" /\ ~Stats!Awaited(Stats!Blocks \cup {"rank"})
    <2>2. /\ h \in StatsHists /\ h.loads = hist.loads /\ h.shown = hist.shown
          /\ h.synced = hist.synced
      BY <2>1, HistFields
    <2>3. hist' = [h EXCEPT !.synced = s] /\ s \in BOOLEAN
      BY <1>1, <2>2 DEF StatsHists
    <2>4. s => /\ hist.synced /\ kind = "toggle"
               /\ \A r \in DOMAIN net : r.kind \notin Stats!Blocks \cup {"rank"}
      BY <2>2 DEF Stats!Awaited, Stats!InFlight, Stats!BagToSet
    <2> HIDE DEF h, s
    <2>5. /\ hist' \in StatsHists /\ hist'.loads = h.loads /\ hist'.shown = h.shown
          /\ hist'.synced = s
      BY <2>2, <2>3 DEF StatsHists
    <2> QED BY <2>2, <2>4, <2>5
  <1>4. DOMAIN net' = DOMAIN net \cup {new}
    BY <1>1, SendAdds
  <1>5. Stays({"paths"}) /\ Stays({"trend"}) /\ Stays({"rank"})
    <2>1. kind \notin {"paths"} /\ kind \notin {"trend"} /\ kind \notin {"rank"}
      BY DEF Stats!Blocks
    <2> QED BY <1>1, <1>2, <2>1, SendStays
  <1>6. StatsTypes'
    <2>1. Stats!Loaded' <=> Stats!Loaded
      BY DEF Stats!Loaded
    <2>2. \A r \in DOMAIN net' : r \in StatsRequests \/ RankRequest(r)
      BY <1>0, <1>2, <1>4 DEF StatsTypes
    <2>3. \A r \in DOMAIN net' : r.kind = "toggle" => Stats!Loaded
      BY <1>0, <1>2, <1>4 DEF StatsTypes
    <2>4. Stats!DrillOpen' => view.tab = "ranking" /\ Stats!Loaded
      BY <1>0 DEF StatsTypes, Stats!DrillOpen
    <2>5. view.tab # "overview" => view.asked.trend = Stats!NoQuestion
      BY <1>0 DEF StatsTypes
    <2> QED BY <1>3, <2>1, <2>2, <2>3, <2>4, <2>5 DEF StatsTypes
  <1>7. QuestionsFit'
    BY <1>5, FitsKeeps DEF StatsInv, QuestionsFit, Questions
  <1>8. CallsAreAsked'
    BY <1>4, CallsKeep DEF StatsInv, blocklistVars
  <1>9. PanelListed'
    <2>1. ~NoBlocks'
      BY <1>2, <1>4 DEF NoBlocks
    <2>2. \A r \in DOMAIN net' : r.kind \in Stats!Lists => r \in DOMAIN net
      BY <1>2, <1>4 DEF Stats!Lists, Stats!Blocks
    <2>3. UNCHANGED rows
      BY DEF blocklistVars
    <2> QED BY <1>3, <2>1, <2>2, <2>3, PanelKeeps DEF StatsInv
  <1>10. RanksAreAlone'
    BY <1>5, RanksKeep DEF StatsInv
  <1>11. MarksFollow'
    <2> SUFFICES ASSUME hist'.synced PROVE MarksFollow'
      BY DEF MarksFollow
    <2>1. /\ hist.synced /\ kind = "toggle" /\ Stats!Loaded
          /\ \A r \in DOMAIN net : r.kind \notin Stats!Blocks \cup {"rank"}
      BY <1>3
    <2>2. NoBlocks /\ (\A r \in DOMAIN net : r.kind # "rank")
      BY <2>1 DEF NoBlocks
    <2>3. rows = blockedHosts /\ \A k \in Rankings : view.marks[k] = blockedHosts
      BY <2>1, <2>2 DEF StatsInv, MarksFollow
    <2>4. new \notin DOMAIN net /\ net'[new] = 1
      <3>1. new \notin DOMAIN net
        BY <1>2, <2>1
      <3> QED BY <1>1, <3>1, SendCounts
    <2>5. \A r \in DOMAIN net' : r.kind \in Stats!Blocks \cup {"toggle", "rank"} => r = new
      BY <1>4, <2>1 DEF Stats!Blocks
    <2>6. "toggle" \in Stats!Blocks /\ "rank" \notin Stats!Blocks
      BY DEF Stats!Blocks
    <2>7. /\ ~NoBlocks' /\ \A r \in DOMAIN net' : r.kind # "rank"
      BY <1>2, <1>4, <2>1, <2>5, <2>6 DEF NoBlocks
    <2>8. UNCHANGED <<rows, blockedHosts>>
      BY DEF blocklistVars
    <2>9. Stats!Loaded'
      BY <2>1 DEF Stats!Loaded
    <2> QED BY <1>2, <2>1, <2>3, <2>4, <2>5, <2>6, <2>7, <2>8, <2>9 DEF MarksFollow, Follows
  <1> QED BY <1>6, <1>7, <1>8, <1>9, <1>10, <1>11 DEF StatsInv

LEMMA ChangesAsked ==
    ASSUME StatsInv, UNCHANGED blocklistVars, NEW d \in Domain,
           \/ Stats!Add(d) \/ Stats!Remove(d) \/ \E k \in Rankings : Stats!ToggleBlock(k, d)
    PROVE  StatsInv'
  <1>0. StatsTypes /\ view \in StatsViews
    BY DEF StatsInv, StatsTypes
  <1>1. ASSUME NEW k \in Rankings, Stats!ToggleBlock(k, d) PROVE StatsInv'
    <2>1. Stats!Block("toggle", d, d \notin view.marks[k]) /\ view' = view /\ Stats!Loaded
          /\ view.tab = "ranking"
      BY <1>1 DEF Stats!ToggleBlock
    <2>2. "toggle" \in Stats!Blocks /\ (d \notin view.marks[k]) \in BOOLEAN
      BY DEF Stats!Blocks
    <2>3. ~view.submitting
      BY <1>0, <2>1 DEF StatsTypes
    <2> QED BY <1>0, <2>1, <2>2, <2>3, ChangeSent
  <1>2. CASE Stats!Add(d)
    <2>1. Stats!Block("add", d, TRUE) /\ view' = [view EXCEPT !.submitting = TRUE]
          /\ view.tab = "blocked"
      BY <1>2 DEF Stats!Add
    <2>2. "add" \in Stats!Blocks
      BY DEF Stats!Blocks
    <2>3. /\ view' \in StatsViews /\ view'.tab = view.tab /\ view'.loading = view.loading
          /\ view'.marks = view.marks /\ view'.got = view.got /\ view'.blocked = view.blocked
          /\ view'.mount = view.mount /\ view'.asked = view.asked /\ view'.n = view.n
      BY <1>0, <2>1 DEF StatsViews
    <2> QED BY <1>0, <2>1, <2>2, <2>3, ChangeSent
  <1>3. CASE Stats!Remove(d)
    <2>1. Stats!Block("remove", d, FALSE) /\ view' = view /\ view.tab = "blocked"
      BY <1>3 DEF Stats!Remove
    <2>2. "remove" \in Stats!Blocks
      BY DEF Stats!Blocks
    <2> QED BY <1>0, <2>1, <2>2, ChangeSent
  <1> QED BY <1>1, <1>2, <1>3

LEMMA RankingsLoaded ==
    ASSUME StatsInv, UNCHANGED blocklistVars, ~Stats!DrillOpen, Stats!LoadRankings
    PROVE  StatsInv'
  <1>0. StatsTypes /\ view \in StatsViews /\ hist \in StatsHists
    BY DEF StatsInv, StatsTypes
  <1> DEFINE rank == Stats!AskRankings
             ask == Stats!Ask("trend", view')
             v == Stats!ChartMounted(view)
             alone == ~Stats!Awaited(Stats!Blocks) /\ rows = blockedHosts
  <1>1. /\ ~view.loading
        /\ hist' = [Stats!Counted(hist) EXCEPT !.synced = alone]
        /\ \/ /\ view.tab # "none" /\ view' = [view EXCEPT !.loading = TRUE]
              /\ net' = Stats!Send(rank)
           \/ /\ view.tab = "none" /\ view' = [v EXCEPT !.loading = TRUE]
              /\ net' = Stats!BagAdd(Stats!Send(rank), ask)
    BY DEF Stats!LoadRankings
  <1>2. /\ hist' \in StatsHists /\ hist'.loads = hist.loads /\ hist'.shown = hist.shown
        /\ hist'.synced => NoBlocks /\ rows = blockedHosts
    <2> DEFINE h == Stats!Counted(hist)
    <2>1. h \in StatsHists /\ h.loads = hist.loads /\ h.shown = hist.shown
      BY <1>0, HistFields
    <2>2. alone \in BOOLEAN /\ (alone => NoBlocks /\ rows = blockedHosts)
      BY DEF Stats!Awaited, Stats!InFlight, Stats!BagToSet, NoBlocks
    <2> HIDE DEF h, alone
    <2>3. hist' = [h EXCEPT !.synced = alone]
      BY <1>1 DEF h
    <2>4. /\ hist' \in StatsHists /\ hist'.loads = h.loads /\ hist'.shown = h.shown
          /\ hist'.synced = alone
      BY <2>1, <2>2, <2>3 DEF StatsHists
    <2> QED BY <2>1, <2>2, <2>4
  <1> HIDE DEF alone
  <1>3. /\ view' \in StatsViews /\ view'.loading = TRUE /\ view'.marks = view.marks
        /\ view'.blocked = view.blocked /\ view'.mount = view.mount
        /\ view'.submitting = view.submitting
        /\ view'.got.paths = view.got.paths /\ view'.asked.paths = view.asked.paths
        /\ view'.n.paths = view.n.paths
        /\ view.tab # "none" =>
               /\ view'.tab = view.tab /\ view'.asked.trend = view.asked.trend
               /\ view'.n.trend = view.n.trend /\ view'.got.trend = view.got.trend
        /\ view.tab = "none" =>
               /\ view'.tab = "overview" /\ view'.asked.trend = Stats!DefaultDays
               /\ view'.n.trend = view.n.trend + 1
    <2>1. CASE view.tab # "none"
      BY <1>0, <1>1, <2>1 DEF StatsViews
    <2>2. CASE view.tab = "none"
      <3>1. /\ v \in StatsViews /\ v.tab = "overview" /\ v.marks = view.marks
            /\ v.blocked = view.blocked /\ v.mount = view.mount
            /\ v.submitting = view.submitting
            /\ v.got.paths = view.got.paths /\ v.asked.paths = view.asked.paths
            /\ v.n.paths = view.n.paths /\ v.n.trend = view.n.trend + 1
            /\ v.asked.trend = Stats!DefaultDays
        BY <1>0, ChartTypes
      <3> HIDE DEF v
      <3>2. view' = [v EXCEPT !.loading = TRUE]
        BY <1>1, <2>2 DEF v
      <3> QED BY <2>2, <3>1, <3>2 DEF StatsViews
    <2> QED BY <2>1, <2>2
  <1> HIDE DEF v
  <1>4. \A r \in DOMAIN net : r.kind # "rank"
    BY <1>1 DEF StatsInv, RanksAreAlone
  <1>5. /\ ask.kind = "trend" /\ ask.n = view'.n.trend /\ ask.question = view'.asked.trend
        /\ view.tab = "none" => ask \in StatsRequests
    <2>1. view'.n.paths \in Nat /\ view'.n.trend \in Nat
      BY <1>3 DEF StatsViews
    <2> QED BY <1>3, <2>1, AskTypes, DefaultDaysAreAsked
  <1>6. /\ RankRequest(rank) /\ rank.kind = "rank" /\ rank.stage = "sent" /\ DOMAIN rank.marks = {}
        /\ rank \notin DOMAIN net
    BY <1>4, RankingsAsked
  <1> HIDE DEF ask, rank
  <1>7. /\ rank \in DOMAIN net' /\ net'[rank] = 1
        /\ DOMAIN net \subseteq DOMAIN net'
        /\ \A r \in DOMAIN net' :
               r \in DOMAIN net \/ r = rank \/ (view.tab = "none" /\ r = ask)
        /\ view.tab = "none" => ask \in DOMAIN net'
    <2>1. CASE view.tab # "none"
      BY <1>1, <1>6, <2>1, SendAdds, SendCounts
    <2>2. CASE view.tab = "none"
      <3>1. rank # ask
        BY <1>5, <1>6
      <3> QED BY <1>1, <1>6, <2>2, <3>1, SendTwoAdds, SendTwoCounts
    <2> QED BY <2>1, <2>2
  <1>8. Stays({"paths"}) /\ (view.tab # "none" => Stays({"trend"}))
    <2>1. rank.kind \notin {"paths"} /\ rank.kind \notin {"trend"} /\ ask.kind \notin {"paths"}
      BY <1>5, <1>6
    <2> QED BY <1>1, <2>1, SendStays, SendTwoStays
  <1>9. StatsTypes'
    <2>1. Stats!Loaded' <=> Stats!Loaded
      BY <1>3 DEF Stats!Loaded
    <2>2. \A r \in DOMAIN net' : r \in StatsRequests \/ RankRequest(r)
      BY <1>0, <1>5, <1>6, <1>7 DEF StatsTypes
    <2>3. \A r \in DOMAIN net' : r.kind = "toggle" => Stats!Loaded
      BY <1>0, <1>5, <1>6, <1>7 DEF StatsTypes
    <2>4. ~Stats!DrillOpen'
      BY <1>3 DEF Stats!DrillOpen
    <2>5. view'.tab # "overview" => view'.asked.trend = Stats!NoQuestion
      BY <1>0, <1>3 DEF StatsTypes
    <2>6. view'.submitting => view'.tab = "blocked"
      BY <1>0, <1>3 DEF StatsTypes
    <2> QED BY <1>2, <1>3, <2>1, <2>2, <2>3, <2>4, <2>5, <2>6 DEF StatsTypes
  <1>10. QuestionsFit'
    <2>1. Fits("paths")'
      BY <1>3, <1>8, FitsKeeps DEF StatsInv, QuestionsFit, Questions
    <2>2. CASE view.tab # "none"
      BY <1>3, <1>8, <2>1, <2>2, FitsKeeps DEF StatsInv, QuestionsFit, Questions
    <2>3. CASE view.tab = "none"
      <3>1. /\ view.n["trend"] \in Nat /\ view'.n["trend"] \in Nat
            /\ view'.n["trend"] > view.n["trend"]
        BY <1>0, <1>3, <2>3, ViewTypes
      <3>2. \A r \in DOMAIN net' : r.kind = "trend" =>
                \/ r \in DOMAIN net /\ r.n \in Nat
                \/ r.n = view'.n["trend"] /\ r.question = view'.asked["trend"]
        BY <1>0, <1>5, <1>6, <1>7, QuestionNumbers DEF Questions
      <3>3. \E r \in DOMAIN net' : r.kind = "trend" /\ r.n = view'.n["trend"]
        BY <1>5, <1>7, <2>3
      <3>4. Fits("trend")
        BY DEF StatsInv, QuestionsFit
      <3>5. Fits("trend")'
        BY <3>1, <3>2, <3>3, <3>4, FitsAsked DEF Questions
      <3> QED BY <2>1, <3>5 DEF QuestionsFit
    <2> QED BY <2>2, <2>3
  <1>11. CallsAreAsked'
    BY <1>7, CallsKeep DEF StatsInv, blocklistVars
  <1>12. \A r \in DOMAIN net' : r.kind \in Stats!Blocks \cup Stats!Lists => r \in DOMAIN net
    BY <1>5, <1>6, <1>7 DEF Stats!Blocks, Stats!Lists
  <1>13. NoBlocks' <=> NoBlocks
    BY <1>7, <1>12 DEF NoBlocks
  <1>14. PanelListed'
    BY <1>2, <1>3, <1>12, <1>13, PanelKeeps DEF StatsInv, blocklistVars
  <1>15. \A r \in DOMAIN net' : r.kind = "rank" => r = rank
    BY <1>4, <1>5, <1>7
  <1>16. RanksAreAlone'
    BY <1>3, <1>7, <1>15 DEF RanksAreAlone
  <1>17. MarksFollow'
    <2> SUFFICES ASSUME hist'.synced PROVE MarksFollow'
      BY DEF MarksFollow
    <2>1. NoBlocks' /\ rows' = blockedHosts'
      BY <1>2, <1>13 DEF blocklistVars
    <2>2. \A r \in DOMAIN net' : r.kind \notin Stats!Blocks /\ r.kind # "toggle"
      BY <2>1 DEF NoBlocks, Stats!Blocks
    <2> QED BY <1>6, <1>7, <1>15, <2>1, <2>2 DEF MarksFollow
  <1> QED BY <1>9, <1>10, <1>11, <1>14, <1>16, <1>17 DEF StatsInv

\* What leaving a tab does to the chart.
LEMMA ChartLeft ==
    ASSUME StatsInv, Stays({"trend"}), view'.asked.trend = Stats!NoQuestion,
           view'.got.trend = view.got.trend,
           view.tab = "overview" => view'.n.trend = view.n.trend + 1,
           view.tab # "overview" => view'.n.trend = view.n.trend
    PROVE  Fits("trend")'
  <1>0. StatsTypes /\ Fits("trend")
    BY DEF StatsInv, QuestionsFit
  <1>1. CASE view.tab = "overview"
    <2>1. view.n["trend"] \in Nat /\ view'.n["trend"] = view.n["trend"] + 1
      BY <1>0, <1>1, ViewTypes
    <2>2. \A r \in DOMAIN net' : r.kind = "trend" => r \in DOMAIN net /\ r.n \in Nat
      BY <1>0, QuestionNumbers DEF Stays, Questions
    <2> QED BY <1>0, <2>1, <2>2, FitsAsked DEF Questions
  <1>2. CASE view.tab # "overview"
    <2>1. view.asked.trend = Stats!NoQuestion
      BY <1>0, <1>2 DEF StatsTypes
    <2> QED BY <1>0, <1>2, <2>1, FitsKeeps DEF Questions
  <1> QED BY <1>1, <1>2

LEMMA TabSelected ==
    ASSUME StatsInv, UNCHANGED blocklistVars, ~Stats!DrillOpen, NEW tab \in Stats!Tabs,
           Stats!SelectTab(tab)
    PROVE  StatsInv'
  <1>0. StatsTypes /\ view \in StatsViews /\ hist \in StatsHists /\ hist.loads \in Nat
    BY ViewTypes DEF StatsInv
  <1> DEFINE v == Stats!Left(view, tab)
             ask == Stats!Ask("trend", view')
             list == [Stats!LoadBlocked("list") EXCEPT !.mount = view'.mount]
  <1>1. /\ view.tab # tab
        /\ \/ /\ tab = "overview" /\ view' = Stats!ChartMounted(v)
              /\ net' = Stats!Send(ask) /\ hist' = Stats!Counted(hist)
           \/ /\ tab = "ranking" /\ view' = v /\ net' = net /\ hist' = Stats!Counted(hist)
           \/ /\ tab = "blocked" /\ view' = v
              /\ net' = Stats!Send(list) /\ hist' = Stats!Counted(Stats!Fresh(hist))
    BY DEF Stats!SelectTab
  <1>2. /\ v \in StatsViews /\ v.tab = tab /\ v.loading = view.loading
        /\ v.marks = view.marks /\ ~v.submitting
        /\ v.mount = (IF view.tab = "blocked" THEN view.mount + 1 ELSE view.mount)
        /\ v.got.paths = view.got.paths /\ v.got.trend = view.got.trend
        /\ v.asked.paths = view.asked.paths /\ v.asked.trend = Stats!NoQuestion
        /\ v.n.paths = view.n.paths
        /\ view.tab = "overview" => v.n.trend = view.n.trend + 1
        /\ view.tab # "overview" => v.n.trend = view.n.trend
    <2>1. tab \in Stats!Tabs \cup {"none"} /\ v = Stats!Left(view, tab)
      OBVIOUS
    <2> HIDE DEF v
    <2> QED BY <1>0, <2>1, LeftTypes
  <1> HIDE DEF v
  <1>3. /\ view' \in StatsViews /\ view'.tab = tab /\ view'.loading = view.loading
        /\ view'.marks = view.marks /\ ~view'.submitting
        /\ view'.mount = (IF view.tab = "blocked" THEN view.mount + 1 ELSE view.mount)
        /\ view'.got.paths = view.got.paths /\ view'.asked.paths = view.asked.paths
        /\ view'.n.paths = view.n.paths
        /\ tab = "overview" => /\ view'.asked.trend = Stats!DefaultDays
                               /\ view'.n.trend = view.n.trend + 1
        /\ tab # "overview" => view' = v
    <2>1. CASE tab = "overview"
      <3>1. /\ view' \in StatsViews /\ view'.tab = "overview" /\ view'.loading = v.loading
            /\ view'.marks = v.marks
            /\ view'.mount = v.mount /\ view'.submitting = v.submitting
            /\ view'.got.paths = v.got.paths /\ view'.asked.paths = v.asked.paths
            /\ view'.n.paths = v.n.paths /\ view'.n.trend = v.n.trend + 1
            /\ view'.asked.trend = Stats!DefaultDays
        BY <1>1, <1>2, <2>1, ChartTypes
      <3> QED BY <1>1, <1>2, <2>1, <3>1
    <2>2. CASE tab # "overview"
      <3>1. view' = v
        BY <1>1, <2>2
      <3> QED BY <1>2, <2>2, <3>1
    <2> QED BY <2>1, <2>2
  <1>4. /\ ask.kind = "trend" /\ ask.n = view'.n.trend /\ ask.question = view'.asked.trend
        /\ tab = "overview" => ask \in StatsRequests
    <2>1. view'.n.paths \in Nat /\ view'.n.trend \in Nat
      BY <1>3 DEF StatsViews
    <2> QED BY <1>3, <2>1, AskTypes, DefaultDaysAreAsked
  <1>5. list = [kind |-> "list", stage |-> "sent", n |-> hist.loads + 1, mount |-> view'.mount]
    BY DEF Stats!LoadBlocked
  <1>6. list \in StatsRequests /\ list.kind = "list" /\ list.stage = "sent"
        /\ list.n = hist.loads + 1 /\ list.mount = view'.mount
    <2>1. view'.mount \in Nat
      BY <1>3 DEF StatsViews
    <2> HIDE DEF list
    <2> QED BY <1>0, <1>5, <2>1 DEF StatsRequests, Stats!Lists
  <1> HIDE DEF ask, list
  <1>7. /\ hist' \in StatsHists /\ hist'.shown = hist.shown /\ hist'.synced = hist.synced
        /\ hist'.loads = (IF tab = "blocked" THEN hist.loads + 1 ELSE hist.loads)
    <2>1. Stats!Fresh(hist) \in StatsHists
      BY <1>0, HistFields
    <2> QED BY <1>0, <1>1, <2>1, HistFields
  <1>8. /\ DOMAIN net \subseteq DOMAIN net'
        /\ \A r \in DOMAIN net' : r \in DOMAIN net \/ (tab = "overview" /\ r = ask)
                                  \/ (tab = "blocked" /\ r = list)
        /\ tab = "overview" => ask \in DOMAIN net'
    BY <1>1, SendAdds
  <1>9. /\ Stays(CoreKinds) /\ Stays({"paths"})
        /\ tab # "overview" => Stays({"trend"})
    <2>1. /\ ask.kind \notin CoreKinds /\ ask.kind \notin {"paths"}
          /\ list.kind \notin CoreKinds /\ list.kind \notin {"paths"} /\ list.kind \notin {"trend"}
      BY <1>4, <1>6 DEF CoreKinds, Stats!Blocks
    <2>2. net' = net => Stays(CoreKinds) /\ Stays({"paths"}) /\ Stays({"trend"})
      BY DEF Stays
    <2> QED BY <1>1, <2>1, <2>2, SendStays
  <1>10. StatsTypes'
    <2>1. Stats!Loaded' <=> Stats!Loaded
      BY <1>3 DEF Stats!Loaded
    <2>2. \A r \in DOMAIN net' : r \in StatsRequests \/ RankRequest(r)
      BY <1>0, <1>4, <1>6, <1>8 DEF StatsTypes
    <2>3. \A r \in DOMAIN net' : r.kind = "toggle" => Stats!Loaded
      BY <1>0, <1>4, <1>6, <1>8 DEF StatsTypes
    <2>4. ~Stats!DrillOpen'
      BY <1>3 DEF Stats!DrillOpen
    <2>5. view'.tab # "overview" => view'.asked.trend = Stats!NoQuestion
      BY <1>2, <1>3
    <2> QED BY <1>3, <1>7, <2>1, <2>2, <2>3, <2>4, <2>5 DEF StatsTypes
  <1>11. Fits("paths")'
    BY <1>3, <1>9, FitsKeeps DEF StatsInv, QuestionsFit, Questions
  <1>12. Fits("trend")'
    <2>1. CASE tab = "overview"
      <3>1. /\ view.n["trend"] \in Nat /\ view'.n["trend"] \in Nat
            /\ view'.n["trend"] > view.n["trend"]
        BY <1>0, <1>3, <2>1, ViewTypes
      <3>2. \A r \in DOMAIN net' : r.kind = "trend" =>
                \/ r \in DOMAIN net /\ r.n \in Nat
                \/ r.n = view'.n["trend"] /\ r.question = view'.asked["trend"]
        BY <1>0, <1>4, <1>6, <1>8, QuestionNumbers DEF Questions
      <3>3. \E r \in DOMAIN net' : r.kind = "trend" /\ r.n = view'.n["trend"]
        BY <1>4, <1>8, <2>1
      <3>4. Fits("trend")
        BY DEF StatsInv, QuestionsFit
      <3> QED BY <3>1, <3>2, <3>3, <3>4, FitsAsked DEF Questions
    <2>2. CASE tab # "overview"
      BY <1>2, <1>3, <1>9, <2>2, ChartLeft
    <2> QED BY <2>1, <2>2
  <1>13. PanelListed'
    <2>1. PanelListed /\ hist.shown \in Nat /\ view.mount \in Nat
      BY <1>0, ViewTypes DEF StatsInv
    <2>2. \A r \in DOMAIN net : r.kind \in Stats!Lists /\ r.stage # "failed" =>
              r.n \in Nat /\ r.mount \in Nat
      <3> SUFFICES ASSUME NEW r \in DOMAIN net, r.kind \in Stats!Lists, r.stage # "failed"
                   PROVE  r.n \in Nat /\ r.mount \in Nat
        OBVIOUS
      <3>1. r \in StatsRequests \/ RankRequest(r)
        BY <1>0 DEF StatsTypes
      <3> QED BY <3>1, StatsShapes
    <2>3. \A r \in DOMAIN net' : r.kind \in Stats!Lists /\ r.stage # "failed" =>
              r \in DOMAIN net \/ (tab = "blocked" /\ r = list)
      BY <1>4, <1>8 DEF Stats!Lists
    <2>4. \A r \in DOMAIN net : r.kind \in Stats!Lists /\ r.stage # "failed" =>
              /\ r.n <= hist.loads /\ r.mount <= view.mount
              /\ view.tab # "blocked" => r.mount < view.mount
      BY <2>1 DEF PanelListed
    <2>5. hist.shown <= hist.loads
      BY <2>1 DEF PanelListed
    <2>6. hist'.shown <= hist'.loads
      BY <1>0, <1>7, <2>1, <2>5
    <2>7. ASSUME NEW r \in DOMAIN net', r.kind \in Stats!Lists, r.stage # "failed"
          PROVE  /\ r.n <= hist'.loads /\ r.mount <= view'.mount
                 /\ view'.tab # "blocked" => r.mount < view'.mount
      <3>1. CASE r \in DOMAIN net
        BY <1>0, <1>1, <1>3, <1>7, <2>1, <2>2, <2>4, <2>7, <3>1
      <3>2. CASE tab = "blocked" /\ r = list
        <4>1. view'.mount \in Nat
          BY <1>3 DEF StatsViews
        <4> QED BY <1>0, <1>3, <1>6, <1>7, <3>2, <4>1
      <3> QED BY <2>3, <2>7, <3>1, <3>2
    <2>8. ASSUME view'.tab = "blocked" PROVE hist'.shown # hist'.loads
      BY <1>0, <1>3, <1>7, <2>1, <2>5, <2>8
    <2>9. ASSUME view'.tab = "blocked", NEW r \in DOMAIN net', r.kind \in Stats!Lists,
                 r.stage = "ok"
          PROVE  r.mount # view'.mount
      <3>1. r # list
        BY <1>6, <2>9
      <3>2. r \in DOMAIN net
        BY <2>3, <2>9, <3>1
      <3>3. r.mount < view.mount /\ view'.mount = view.mount /\ r.mount \in Nat
        BY <1>1, <1>3, <2>2, <2>4, <2>9, <3>2
      <3> QED BY <2>1, <3>3
    <2> QED BY <2>6, <2>7, <2>8, <2>9 DEF PanelListed
  <1>14. CallsAreAsked' /\ RanksAreAlone' /\ MarksFollow'
    BY <1>3, <1>7, <1>9, CoreKeeps DEF StatsInv, blocklistVars
  <1> QED BY <1>10, <1>11, <1>12, <1>13, <1>14 DEF StatsInv, QuestionsFit

LEMMA StatsEdit == StatsInv /\ Stats!Administrator => StatsInv'
  <1> SUFFICES ASSUME StatsInv, Stats!Administrator PROVE StatsInv'
    OBVIOUS
  <1>1. UNCHANGED blocklistVars
    BY DEF Stats!Administrator, blocklistVars
  <1> QED BY <1>1, Drilldown, RangeSelected, RankingsLoaded, TabSelected, DaysSelected,
             ChangesAsked, DomainPicked
          DEF Stats!Administrator

LEMMA RankingsRead ==
    ASSUME StatsInv, BlocklistOK, NEW r \in DOMAIN net, Stats!GetDomainStats(r)
    PROVE  StatsInv'
  <1>0. StatsTypes
    BY DEF StatsInv
  <1> DEFINE next == CHOOSE k \in Rankings \ DOMAIN r.marks : TRUE
             marks == [k \in DOMAIN r.marks \cup {next} |->
                          IF k = next THEN {d \in Domain : Stats!IsBlocked(d)} ELSE r.marks[k]]
             stage == IF DOMAIN marks = Rankings THEN "ok" ELSE "sent"
             new == [kind |-> "rank", stage |-> stage, marks |-> marks, mount |-> 0]
  <1>1. /\ r.kind = "rank" /\ r.stage = "sent"
        /\ net' = Stats!Turn(r, new)
        /\ UNCHANGED <<rows, blockedHosts, call, view, hist>>
    BY DEF Stats!GetDomainStats
  <1>2. RankRequest(r)
    <2>1. r \in StatsRequests \/ RankRequest(r)
      BY <1>0 DEF StatsTypes
    <2> QED BY <1>1, <2>1, StatsShapes
  <1>3. /\ r = [kind |-> "rank", stage |-> r.stage, marks |-> r.marks, mount |-> 0]
        /\ DOMAIN r.marks \subseteq Rankings /\ DOMAIN r.marks # Rankings
        /\ \A k \in DOMAIN r.marks : r.marks[k] \subseteq Domain
    BY <1>1, <1>2 DEF RankRequest, PartOfMarks
  <1>4. next \in Rankings /\ next \notin DOMAIN r.marks
    BY <1>3
  <1>5. {d \in Domain : Stats!IsBlocked(d)} = blockedHosts /\ blockedHosts \subseteq Domain
    BY DEF Stats!IsBlocked, BlocklistOK
  <1> HIDE DEF next
  <1>6. /\ DOMAIN marks = DOMAIN r.marks \cup {next} /\ marks[next] = blockedHosts
        /\ \A k \in DOMAIN r.marks : marks[k] = r.marks[k]
        /\ marks = [k \in DOMAIN marks |-> marks[k]]
    BY <1>4, <1>5
  <1> HIDE DEF marks, stage
  <1>7. /\ PartOfMarks(marks)
        /\ DOMAIN marks = Rankings => marks \in [Rankings -> SUBSET Domain]
        /\ marks # r.marks
        /\ stage \in {"sent", "ok"} /\ (stage = "ok" <=> DOMAIN marks = Rankings)
    BY <1>3, <1>4, <1>5, <1>6 DEF PartOfMarks, stage
  <1>8. net' = Stats!Turn(r, new)
    BY <1>1
  <1>9. /\ RankRequest(new) /\ new.kind = "rank" /\ new.stage \in {"sent", "ok"}
        /\ new.marks = marks
    BY <1>7 DEF RankRequest
  <1>10. new # r
    BY <1>7, <1>9
  <1> HIDE DEF new
  <1>11. view.loading /\ net[r] = 1 /\ \A q \in DOMAIN net : q.kind = "rank" => q = r
    BY <1>1 DEF StatsInv, RanksAreAlone
  <1>12. new \notin DOMAIN net
    BY <1>9, <1>10, <1>11
  <1>13. /\ r \notin DOMAIN net' /\ new \in DOMAIN net' /\ net'[new] = 1
         /\ \A q : q \notin {r, new} => /\ q \in DOMAIN net' <=> q \in DOMAIN net
                                        /\ q \in DOMAIN net => net'[q] = net[q]
    BY <1>8, <1>10, <1>11, <1>12, TurnCounts
  <1>14. \A q \in DOMAIN net' : q.kind = "rank" => q = new
    BY <1>11, <1>13
  <1>15. Stays({"paths"}) /\ Stays({"trend"}) /\ Stays(Stats!Blocks \cup Stats!Lists)
    <2>1. "rank" \notin {"paths"} /\ "rank" \notin {"trend"}
          /\ "rank" \notin Stats!Blocks \cup Stats!Lists
      BY DEF Stats!Blocks, Stats!Lists
    <2> QED BY <1>1, <1>8, <1>9, <2>1, TurnStays
  <1>16. StatsTypes'
    <2>1. \A q \in DOMAIN net' : q \in DOMAIN net \/ q = new
      BY <1>13
    <2>2. \A q \in DOMAIN net' : q \in StatsRequests \/ RankRequest(q)
      BY <1>0, <1>9, <2>1 DEF StatsTypes
    <2>3. \A q \in DOMAIN net' : q.kind = "toggle" => Stats!Loaded
      BY <1>0, <1>9, <2>1 DEF StatsTypes
    <2>4. (Stats!Loaded' <=> Stats!Loaded) /\ (Stats!DrillOpen' <=> Stats!DrillOpen)
      BY <1>1 DEF Stats!Loaded, Stats!DrillOpen
    <2> QED BY <1>0, <1>1, <2>2, <2>3, <2>4 DEF StatsTypes
  <1>17. QuestionsFit'
    BY <1>1, <1>15, FitsKeeps DEF StatsInv, QuestionsFit, Questions
  <1>18. CallsAreAsked'
    BY <1>1, <1>13, CallsKeep DEF StatsInv
  <1>19. NoBlocks' <=> NoBlocks
    BY <1>15 DEF NoBlocks, Stays
  <1>20. PanelListed'
    <2>1. \A q \in DOMAIN net' : q.kind \in Stats!Lists => q \in DOMAIN net
      BY <1>15 DEF Stays
    <2> QED BY <1>1, <1>19, <2>1, PanelKeeps DEF StatsInv
  <1>21. RanksAreAlone'
    BY <1>1, <1>11, <1>13, <1>14 DEF RanksAreAlone
  <1>22. MarksFollow'
    <2> SUFFICES ASSUME hist'.synced PROVE MarksFollow'
      BY DEF MarksFollow
    <2>1. MarksFollow /\ hist.synced
      BY <1>1 DEF StatsInv
    <2>2. NoBlocks /\ rows = blockedHosts
      BY <1>1, <2>1 DEF MarksFollow
    <2>3. \A k \in DOMAIN marks : marks[k] = blockedHosts
      BY <1>1, <1>6, <2>1 DEF MarksFollow
    <2>4. \A q \in DOMAIN net' : q.kind \notin Stats!Blocks /\ q.kind # "toggle"
      BY <1>19, <2>2 DEF NoBlocks, Stats!Blocks
    <2> QED BY <1>1, <1>9, <1>13, <1>14, <1>19, <2>2, <2>3, <2>4 DEF MarksFollow
  <1> QED BY <1>16, <1>17, <1>18, <1>20, <1>21, <1>22 DEF StatsInv

LEMMA PanelServed ==
    ASSUME StatsInv, BlocklistOK, NEW r \in DOMAIN net,
           \/ Stats!ListBlockedDomains(r)
           \/ r.kind \in Stats!Lists /\ Stats!RequestFails(r)
    PROVE  StatsInv'
  <1>0. StatsTypes
    BY DEF StatsInv
  <1> DEFINE ok == [kind |-> r.kind, stage |-> "ok", n |-> r.n, mount |-> r.mount, rows |-> rows]
             failed == [kind |-> r.kind, stage |-> "failed", mount |-> r.mount]
  <1>1. /\ r.kind \in Stats!Lists /\ r.stage \in {"sent", "ok"}
        /\ UNCHANGED <<rows, blockedHosts, call, view, hist>>
        /\ net' = Stats!Turn(r, ok) \/ net' = Stats!Turn(r, failed)
    BY DEF Stats!ListBlockedDomains, Stats!RequestFails, Stats!Refused
  <1>2. /\ r.n \in Nat /\ r.mount \in Nat
        /\ r.n <= hist.loads /\ r.mount <= view.mount
        /\ view.tab # "blocked" => r.mount < view.mount
    <2>1. r \in StatsRequests \/ RankRequest(r)
      BY <1>0 DEF StatsTypes
    <2>2. r.n \in Nat /\ r.mount \in Nat
      BY <1>1, <2>1, StatsShapes
    <2> QED BY <1>1, <2>2 DEF StatsInv, PanelListed
  <1>3. /\ ok \in StatsRequests /\ ok.kind = r.kind /\ ok.stage = "ok" /\ ok.n = r.n
        /\ ok.mount = r.mount /\ ok.rows = rows
        /\ failed \in StatsRequests /\ failed.kind = r.kind /\ failed.stage = "failed"
    BY <1>1, <1>2 DEF StatsRequests, BlocklistOK
  <1> HIDE DEF ok, failed
  <1>4. PICK new : /\ new \in {ok, failed} /\ net' = Stats!Turn(r, new)
    BY <1>1
  <1>5. Stays(CoreKinds) /\ Stays({"paths"}) /\ Stays({"trend"})
    <2>1. r.kind \notin CoreKinds /\ r.kind \notin {"paths"} /\ r.kind \notin {"trend"}
      BY <1>1 DEF Stats!Lists, CoreKinds, Stats!Blocks
    <2> QED BY <1>3, <1>4, <2>1, TurnStays
  <1>6. \A q \in DOMAIN net' : q \in DOMAIN net \/ q = new
    BY <1>4, TurnIsTurned DEF Turned
  <1>7. StatsTypes'
    <2>1. r.kind # "toggle"
      BY <1>1 DEF Stats!Lists
    <2>2. \A q \in DOMAIN net' : q \in StatsRequests \/ RankRequest(q)
      BY <1>0, <1>3, <1>4, <1>6 DEF StatsTypes
    <2>3. \A q \in DOMAIN net' : q.kind = "toggle" => Stats!Loaded
      BY <1>0, <1>3, <1>4, <1>6, <2>1 DEF StatsTypes
    <2>4. (Stats!Loaded' <=> Stats!Loaded) /\ (Stats!DrillOpen' <=> Stats!DrillOpen)
      BY <1>1 DEF Stats!Loaded, Stats!DrillOpen
    <2> QED BY <1>0, <1>1, <2>2, <2>3, <2>4 DEF StatsTypes
  <1>8. QuestionsFit'
    BY <1>1, <1>5, FitsKeeps DEF StatsInv, QuestionsFit, Questions
  <1>9. CallsAreAsked' /\ RanksAreAlone' /\ MarksFollow'
    BY <1>1, <1>5, CoreKeeps DEF StatsInv
  <1>10. PanelListed'
    <2>1. NoBlocks' => NoBlocks
      BY <1>5 DEF NoBlocks, Stays, CoreKinds
    <2>2. PanelListed
      BY DEF StatsInv
    <2> QED BY <1>1, <1>2, <1>3, <1>4, <1>6, <2>1, <2>2 DEF PanelListed
  <1> QED BY <1>7, <1>8, <1>9, <1>10 DEF StatsInv

\* The rankings are not there, or not in time.
LEMMA RankingsFail ==
    ASSUME StatsInv, NEW r \in DOMAIN net, r.kind = "rank", Stats!RequestFails(r)
    PROVE  StatsInv'
  <1>0. StatsTypes
    BY DEF StatsInv
  <1> DEFINE new == [kind |-> "rank", stage |-> "failed", mount |-> r.mount]
  <1>1. /\ r.stage \in {"sent", "ok"}
        /\ UNCHANGED <<rows, blockedHosts, call, view, hist>>
        /\ net' = Stats!Turn(r, new)
    BY DEF Stats!RequestFails, Stats!Refused
  <1>2. new \in StatsRequests /\ new.kind = "rank" /\ new.stage = "failed"
    <2>1. r \in StatsRequests \/ RankRequest(r)
      BY <1>0 DEF StatsTypes
    <2>2. r.mount \in Nat
      BY <2>1, StatsShapes DEF Questions
    <2> QED BY <2>2 DEF StatsRequests
  <1> HIDE DEF new
  <1>3. view.loading /\ net[r] = 1 /\ \A q \in DOMAIN net : q.kind = "rank" => q = r
    BY <1>1 DEF StatsInv, RanksAreAlone
  <1>4. new # r /\ new \notin DOMAIN net
    BY <1>1, <1>2, <1>3
  <1>5. /\ r \notin DOMAIN net' /\ new \in DOMAIN net' /\ net'[new] = 1
        /\ \A q : q \notin {r, new} => /\ q \in DOMAIN net' <=> q \in DOMAIN net
                                       /\ q \in DOMAIN net => net'[q] = net[q]
    BY <1>1, <1>3, <1>4, TurnCounts
  <1>6. \A q \in DOMAIN net' : q.kind = "rank" => q = new
    BY <1>3, <1>5
  <1>7. Stays({"paths"}) /\ Stays({"trend"}) /\ Stays(Stats!Blocks \cup Stats!Lists)
    <2>1. "rank" \notin {"paths"} /\ "rank" \notin {"trend"}
          /\ "rank" \notin Stats!Blocks \cup Stats!Lists
      BY DEF Stats!Blocks, Stats!Lists
    <2> QED BY <1>1, <1>2, <2>1, TurnStays
  <1>8. StatsTypes'
    <2>1. \A q \in DOMAIN net' : q \in DOMAIN net \/ q = new
      BY <1>5
    <2>2. \A q \in DOMAIN net' : q \in StatsRequests \/ RankRequest(q)
      BY <1>0, <1>2, <2>1 DEF StatsTypes
    <2>3. \A q \in DOMAIN net' : q.kind = "toggle" => Stats!Loaded
      BY <1>0, <1>2, <2>1 DEF StatsTypes
    <2>4. (Stats!Loaded' <=> Stats!Loaded) /\ (Stats!DrillOpen' <=> Stats!DrillOpen)
      BY <1>1 DEF Stats!Loaded, Stats!DrillOpen
    <2> QED BY <1>0, <1>1, <2>2, <2>3, <2>4 DEF StatsTypes
  <1>9. QuestionsFit'
    BY <1>1, <1>7, FitsKeeps DEF StatsInv, QuestionsFit, Questions
  <1>10. CallsAreAsked'
    BY <1>1, <1>5, CallsKeep DEF StatsInv
  <1>11. NoBlocks' <=> NoBlocks
    BY <1>7 DEF NoBlocks, Stays
  <1>12. PanelListed'
    <2>1. \A q \in DOMAIN net' : q.kind \in Stats!Lists => q \in DOMAIN net
      BY <1>7 DEF Stays
    <2> QED BY <1>1, <1>11, <2>1, PanelKeeps DEF StatsInv
  <1>13. RanksAreAlone'
    BY <1>1, <1>3, <1>5, <1>6 DEF RanksAreAlone
  <1>14. MarksFollow'
    <2> SUFFICES ASSUME hist'.synced PROVE MarksFollow'
      BY DEF MarksFollow
    <2>1. MarksFollow /\ hist.synced
      BY <1>1 DEF StatsInv
    <2>2. NoBlocks /\ rows = blockedHosts
      BY <2>1 DEF MarksFollow
    <2>3. \A q \in DOMAIN net' : q.kind \notin Stats!Blocks /\ q.kind # "toggle"
      BY <1>11, <2>2 DEF NoBlocks, Stats!Blocks
    <2> QED BY <1>1, <1>2, <1>5, <1>6, <1>11, <2>2, <2>3 DEF MarksFollow
  <1> QED BY <1>8, <1>9, <1>10, <1>12, <1>13, <1>14 DEF StatsInv

\* A change of the blocklist is one step further, and its request with it.
LEMMA BlockTurned ==
    ASSUME StatsInv, NEW r \in DOMAIN net, r.kind \in Stats!Blocks, NEW new,
           new \in StatsRequests, new.kind = r.kind, new.stage # r.stage,
           net' = Stats!Turn(r, new), UNCHANGED <<view, hist>>, CallsAreAsked',
           hist.synced /\ r.kind = "toggle" /\ Follows(r) => Follows(new)'
    PROVE  StatsInv'
  <1>0. StatsTypes
    BY DEF StatsInv
  <1>1. /\ new \in DOMAIN net'
        /\ \A q \in DOMAIN net' : q \in DOMAIN net \/ q = new
    BY TurnIsTurned DEF Turned
  <1>2. Stays({"paths"}) /\ Stays({"trend"}) /\ Stays({"rank"})
    <2>1. r.kind \notin {"paths"} /\ r.kind \notin {"trend"} /\ r.kind \notin {"rank"}
      BY DEF Stats!Blocks
    <2> QED BY <2>1, TurnStays
  <1>3. ~NoBlocks /\ ~NoBlocks'
    BY <1>1 DEF NoBlocks
  <1>4. StatsTypes'
    <2>1. \A q \in DOMAIN net' : q \in StatsRequests \/ RankRequest(q)
      BY <1>0, <1>1 DEF StatsTypes
    <2>2. \A q \in DOMAIN net' : q.kind = "toggle" => Stats!Loaded
      BY <1>0, <1>1 DEF StatsTypes
    <2>3. (Stats!Loaded' <=> Stats!Loaded) /\ (Stats!DrillOpen' <=> Stats!DrillOpen)
      BY DEF Stats!Loaded, Stats!DrillOpen
    <2> QED BY <1>0, <2>1, <2>2, <2>3 DEF StatsTypes
  <1>5. QuestionsFit'
    BY <1>2, FitsKeeps DEF StatsInv, QuestionsFit, Questions
  <1>6. RanksAreAlone'
    BY <1>2, RanksKeep DEF StatsInv
  <1>7. PanelListed'
    <2>1. new.kind \notin Stats!Lists
      BY DEF Stats!Blocks, Stats!Lists
    <2>2. \A q \in DOMAIN net' : q.kind \in Stats!Lists => q \in DOMAIN net
      BY <1>1, <2>1
    <2> QED BY <1>3, <2>2 DEF StatsInv, PanelListed
  <1>8. MarksFollow'
    <2> SUFFICES ASSUME hist'.synced PROVE MarksFollow'
      BY DEF MarksFollow
    <2>1. hist.synced /\ MarksFollow
      BY DEF StatsInv
    <2>2. /\ r.kind = "toggle" /\ net[r] = 1 /\ Follows(r)
          /\ \A q \in DOMAIN net : q.kind \in Stats!Blocks => q = r
      BY <2>1 DEF MarksFollow
    <2>3. new # r /\ new \notin DOMAIN net
      BY <2>2
    <2>4. /\ r \notin DOMAIN net' /\ net'[new] = 1
          /\ \A q \in DOMAIN net' : q.kind \in Stats!Blocks => q = new
      BY <1>1, <2>2, <2>3, TurnCounts
    <2>5. \A q \in DOMAIN net' : q.kind # "rank"
      <3>1. \A q \in DOMAIN net : q.kind # "rank"
        BY <1>3, <2>1 DEF MarksFollow
      <3>2. new.kind # "rank"
        BY DEF Stats!Blocks
      <3> QED BY <1>1, <3>1, <3>2
    <2>6. Stats!Loaded'
      BY <1>0, <2>2 DEF StatsTypes, Stats!Loaded
    <2>7. \A q \in DOMAIN net' : q.kind = "toggle" => q = new
      BY <2>4 DEF Stats!Blocks
    <2>8. Follows(new)' /\ new.kind = "toggle"
      BY <2>1, <2>2
    <2> QED BY <1>3, <2>4, <2>5, <2>6, <2>7, <2>8 DEF MarksFollow
  <1> QED BY <1>4, <1>5, <1>6, <1>7, <1>8 DEF StatsInv

\* The request of a change.
LEMMA ChangeShapes ==
    ASSUME StatsTypes, NEW r \in DOMAIN net, r.kind \in Stats!Blocks
    PROVE  /\ Stats!Refused(r) \in StatsRequests /\ Stats!Refused(r).kind = r.kind
           /\ Stats!Refused(r).stage = "failed"
           /\ r.stage \in {"sent", "called", "ok"} => r.domain \in Domain /\ r.blocked \in BOOLEAN
           /\ r.stage \in {"called", "ok"} => r.slot \in Admin
  <1>1. r \in StatsRequests \/ RankRequest(r)
    BY DEF StatsTypes
  <1>2. r.mount \in Nat
    BY <1>1, StatsShapes DEF Questions, Stats!Blocks
  <1>3. /\ r.stage = "sent" => r.domain \in Domain /\ r.blocked \in BOOLEAN
        /\ r.stage \in {"called", "ok"} => r.domain \in Domain /\ r.blocked \in BOOLEAN /\ r.slot \in Admin
    BY <1>1, StatsShapes
  <1> QED BY <1>2, <1>3 DEF Stats!Refused, StatsRequests

\* A call that is not of slot a waits for its request as before.
LEMMA OthersWait ==
    ASSUME CallsAreAsked, NEW a \in Admin, NEW r, NEW new, net' = Stats!Turn(r, new),
           r.kind \notin Stats!Blocks \/ r.stage # "called" \/ r.slot = a,
           \A b \in Admin : Busy(b)' => Busy(b) \/ b = a,
           Busy(a)' => new.kind \in Stats!Blocks /\ new.stage = "called" /\ new.slot = a
    PROVE  CallsAreAsked'
  <1>1. new \in DOMAIN net' /\ DOMAIN net \ {r} \subseteq DOMAIN net'
    BY TurnIsTurned DEF Turned
  <1> SUFFICES ASSUME NEW b \in Admin, Busy(b)'
               PROVE  \E q \in DOMAIN net' :
                          q.kind \in Stats!Blocks /\ q.stage = "called" /\ q.slot = b
    BY DEF CallsAreAsked
  <1>2. CASE b = a
    BY <1>1, <1>2
  <1>3. CASE b # a
    <2>1. PICK q \in DOMAIN net : q.kind \in Stats!Blocks /\ q.stage = "called" /\ q.slot = b
      BY <1>3 DEF CallsAreAsked
    <2>2. q # r
      BY <1>3, <2>1
    <2> QED BY <1>1, <2>1, <2>2
  <1> QED BY <1>2, <1>3

\* The answer is lost, or the domain is one that nobody blocks.
LEMMA ChangeRefused ==
    ASSUME StatsInv, NEW r \in DOMAIN net, r.kind \in Stats!Blocks,
           r.stage \in {"sent", "ok"}, net' = Stats!Turn(r, Stats!Refused(r)),
           UNCHANGED <<rows, blockedHosts, call, view, hist>>
    PROVE  StatsInv'
  <1> DEFINE new == Stats!Refused(r)
  <1>1. new \in StatsRequests /\ new.kind = r.kind /\ new.stage = "failed"
    BY ChangeShapes DEF StatsInv
  <1> HIDE DEF new
  <1>2. net' = Stats!Turn(r, new)
    BY DEF new
  <1>3. new \in DOMAIN net' /\ DOMAIN net \ {r} \subseteq DOMAIN net'
    BY <1>2, TurnIsTurned DEF Turned
  <1>4. CallsAreAsked'
    BY <1>3, CallsKeep DEF StatsInv
  <1>5. Follows(new)'
    BY <1>1 DEF Follows
  <1> QED BY <1>1, <1>2, <1>4, <1>5, BlockTurned

LEMMA ChangeStarts ==
    ASSUME StatsInv, BlocklistInv, NEW r \in DOMAIN net, Stats!UpdateDomainBlockStatus(r)
    PROVE  StatsInv'
  <1>1. r.kind \in Stats!Blocks /\ r.stage = "sent" /\ UNCHANGED <<view, hist>>
    BY DEF Stats!UpdateDomainBlockStatus
  <1>2. CASE net' = Stats!Turn(r, Stats!Refused(r)) /\ UNCHANGED <<rows, blockedHosts, call>>
    BY <1>1, <1>2, ChangeRefused
  <1>3. ASSUME NEW a \in Admin, SetBlocked(a, r.domain, r.blocked),
               net' = Stats!Turn(r, [kind |-> r.kind, stage |-> "called", domain |-> r.domain,
                                     blocked |-> r.blocked, mount |-> r.mount, slot |-> a])
        PROVE  StatsInv'
    <2> DEFINE new == [kind |-> r.kind, stage |-> "called", domain |-> r.domain,
                       blocked |-> r.blocked, mount |-> r.mount, slot |-> a]
               others == {b \in Admin : b # a /\ Busy(b)}
               first == [pc |-> "write", domain |-> r.domain, blocked |-> r.blocked,
                         snap |-> {}, alone |-> others = {}]
    <2>1. r \in StatsRequests \/ RankRequest(r)
      BY DEF StatsInv, StatsTypes
    <2>2. r.domain \in Domain /\ r.blocked \in BOOLEAN /\ r.mount \in Nat
      BY <1>1, <2>1, StatsShapes
    <2>3. /\ new \in StatsRequests /\ new.kind = r.kind /\ new.stage = "called"
          /\ new.slot = a /\ new.domain = r.domain /\ new.blocked = r.blocked
      BY <1>1, <2>2 DEF StatsRequests
    <2>4. /\ call' = [b \in Admin |->
                 IF b = a THEN first
                 ELSE IF b \in others THEN [call[b] EXCEPT !.alone = FALSE]
                 ELSE call[b]]
          /\ UNCHANGED <<rows, blockedHosts>>
      BY <1>3 DEF SetBlocked
    <2>5. call'[a] = first
      BY <2>4
    <2>6. call'[a].pc = "write" /\ call'[a].domain = r.domain /\ call'[a].blocked = r.blocked
      BY <2>5
    <2>7. \A b \in Admin : b # a => call'[b].pc = call[b].pc
      BY <2>4 DEF BlocklistInv, BlocklistOK, Call
    <2> HIDE DEF new, first, others
    <2>8. net' = Stats!Turn(r, new)
      BY <1>3 DEF new
    <2>9. CallsAreAsked'
      <3>1. \A b \in Admin : Busy(b)' => Busy(b) \/ b = a
        BY <2>7 DEF Busy
      <3> QED BY <1>1, <2>3, <2>8, <3>1, OthersWait DEF StatsInv
    <2>10. Follows(r) => Follows(new)'
      BY <1>1, <2>3, <2>4, <2>6 DEF Follows
    <2> QED BY <1>1, <2>3, <2>8, <2>9, <2>10, BlockTurned
  <1>4. \/ \E a \in Admin :
              /\ Stats!SetBlocked(a, r.domain, r.blocked)
              /\ net' = Stats!Turn(r, [kind |-> r.kind, stage |-> "called", domain |-> r.domain,
                                       blocked |-> r.blocked, mount |-> r.mount, slot |-> a])
        \/ net' = Stats!Turn(r, Stats!Refused(r)) /\ UNCHANGED <<rows, blockedHosts, call>>
    BY DEF Stats!UpdateDomainBlockStatus
  <1> QED BY <1>2, <1>3, <1>4, SameBlocklist

\* The last step of a call, or its failure.
LEMMA ChangeEnds ==
    ASSUME StatsInv, BlocklistInv, NEW r \in DOMAIN net, Stats!Called(r)
    PROVE  StatsInv'
  <1>1. r.stage = "called" /\ UNCHANGED <<view, hist>>
    BY DEF Stats!Called, Stats!Calls
  <1>2. r \in StatsRequests \/ RankRequest(r)
    BY DEF StatsInv, StatsTypes
  <1>3. /\ r.kind \in Stats!Blocks
        /\ r \in [kind : Stats!Blocks, stage : {"called", "ok"}, domain : Domain,
                  blocked : BOOLEAN, mount : Nat, slot : Admin]
    BY <1>1, <1>2, StatsShapes
  <1>4. r.slot \in Admin
    BY <1>3
  <1> DEFINE ok == [r EXCEPT !.stage = "ok"]
             failed == Stats!Refused(r)
  <1>5. ok = [kind |-> r.kind, stage |-> "ok", domain |-> r.domain, blocked |-> r.blocked,
              mount |-> r.mount, slot |-> r.slot]
    BY <1>3
  <1>6. /\ ok \in StatsRequests /\ ok.kind = r.kind /\ ok.stage = "ok"
        /\ ok.domain = r.domain /\ ok.blocked = r.blocked
    BY <1>3, <1>5 DEF StatsRequests
  <1>7. failed \in StatsRequests /\ failed.kind = r.kind /\ failed.stage = "failed"
    BY <1>3, ChangeShapes DEF StatsInv
  <1>8. \/ Install(r.slot) /\ net' = Stats!Turn(r, ok)
        \/ CallFails(r.slot) /\ net' = Stats!Turn(r, failed)
    BY SameBlocklist DEF Stats!Called, Stats!Succeeded
  <1> HIDE DEF ok, failed
  <1>9. PICK new : /\ new \in {ok, failed} /\ net' = Stats!Turn(r, new)
                   /\ Install(r.slot) \/ CallFails(r.slot)
                   /\ new = ok => Install(r.slot)
    <2>1. ok # failed
      BY <1>6, <1>7
    <2> QED BY <1>8, <2>1
  <1>10. call' = [call EXCEPT ![r.slot] = NoCall] /\ UNCHANGED rows
    BY <1>9 DEF Install, CallFails, Ends
  <1>11. CallsAreAsked'
    <2>1. \A b \in Admin : Busy(b)' => Busy(b) \/ b = r.slot
      BY <1>10 DEF Busy, BlocklistInv, BlocklistOK
    <2>2. ~Busy(r.slot)'
      BY <1>4, <1>10 DEF Busy, BlocklistInv, BlocklistOK, NoCall
    <2> QED BY <1>4, <1>9, <2>1, <2>2, OthersWait DEF StatsInv
  <1>12. Follows(r) => Follows(new)'
    <2>1. CASE new = failed
      BY <1>7, <2>1 DEF Follows
    <2>2. CASE new = ok
      <3>1. Install(r.slot)
        BY <1>9, <2>2
      <3>2. call[r.slot].pc = "install" /\ blockedHosts' = call[r.slot].snap
        BY <3>1 DEF Install
      <3> QED BY <1>1, <1>6, <1>10, <2>2, <3>2 DEF Follows, Patched
    <2> QED BY <1>9, <2>1, <2>2
  <1>13. new \in StatsRequests /\ new.kind = r.kind /\ new.stage # r.stage
    BY <1>1, <1>6, <1>7, <1>9
  <1> QED BY <1>1, <1>3, <1>9, <1>11, <1>12, <1>13, BlockTurned

\* The calls go on, each with its request waiting.
LEMMA CallsGoOn ==
    ASSUME StatsInv, BlocklistInv, Stats!Calling
    PROVE  StatsInv'
  <1>1. PICK a \in Admin : (WriteRow(a) \/ ReadRows(a)) /\ UNCHANGED net
    BY SameBlocklist DEF Stats!Calling
  <1>2. UNCHANGED <<net, view, hist>>
    BY <1>1 DEF Stats!Calling
  <1>3. /\ Busy(a) /\ UNCHANGED blockedHosts
        /\ \A b \in Admin : b # a => call'[b] = call[b]
        /\ call'[a].domain = call[a].domain /\ call'[a].blocked = call[a].blocked
        /\ \/ /\ call[a].pc = "write" /\ call'[a].pc = "read"
              /\ rows' = IF call[a].blocked THEN rows \cup {call[a].domain}
                         ELSE rows \ {call[a].domain}
           \/ /\ call[a].pc = "read" /\ call'[a].pc = "install" /\ call'[a].snap = rows
              /\ UNCHANGED rows
    <2>1. call \in [Admin -> Call]
      BY DEF BlocklistInv, BlocklistOK
    <2>2. CASE WriteRow(a)
      BY <2>1, <2>2 DEF WriteRow, Busy, Call
    <2>3. CASE ReadRows(a)
      <3> DEFINE one == [call[a] EXCEPT !.pc = "install"]
                 new == [one EXCEPT !.snap = rows]
      <3>1. /\ call[a].pc = "read" /\ UNCHANGED <<rows, blockedHosts>>
            /\ call' = [call EXCEPT ![a] = [call[a] EXCEPT !.pc = "install", !.snap = rows]]
        BY <2>1, <2>3 DEF ReadRows
      <3>2. call'[a] = [call[a] EXCEPT !.pc = "install", !.snap = rows]
        BY <2>1, <3>1
      <3>3. call[a] \in Call
        BY <2>1
      <3>4. /\ call'[a].pc = "install" /\ call'[a].snap = rows
            /\ call'[a].domain = call[a].domain /\ call'[a].blocked = call[a].blocked
        BY <3>2, <3>3 DEF Call
      <3>5. \A b \in Admin : b # a => call'[b] = call[b]
        BY <2>1, <3>1
      <3> QED BY <3>1, <3>4, <3>5 DEF Busy
    <2> QED BY <1>1, <2>2, <2>3
  <1>4. PICK r \in DOMAIN net : r.kind \in Stats!Blocks /\ r.stage = "called" /\ r.slot = a
    BY <1>3 DEF StatsInv, CallsAreAsked
  <1>5. ~NoBlocks /\ ~NoBlocks'
    BY <1>2, <1>4 DEF NoBlocks
  <1>6. StatsTypes'
    <2>1. (Stats!Loaded' <=> Stats!Loaded) /\ (Stats!DrillOpen' <=> Stats!DrillOpen)
      BY <1>2 DEF Stats!Loaded, Stats!DrillOpen
    <2> QED BY <1>2, <2>1 DEF StatsInv, StatsTypes
  <1>7. QuestionsFit'
    BY <1>2 DEF StatsInv, QuestionsFit, Fits
  <1>8. CallsAreAsked'
    <2>1. \A b \in Admin : Busy(b)' => Busy(b)
      BY <1>3 DEF Busy
    <2> QED BY <1>2, <2>1 DEF StatsInv, CallsAreAsked
  <1>9. PanelListed'
    BY <1>2, <1>5 DEF StatsInv, PanelListed
  <1>10. RanksAreAlone'
    BY <1>2 DEF StatsInv, RanksAreAlone
  <1>11. MarksFollow'
    <2> SUFFICES ASSUME hist'.synced PROVE MarksFollow'
      BY DEF MarksFollow
    <2>1. hist.synced /\ MarksFollow
      BY <1>2 DEF StatsInv
    <2>2. /\ r.kind = "toggle" /\ Follows(r)
          /\ \A q \in DOMAIN net : q.kind \in Stats!Blocks => q = r
      BY <1>4, <2>1 DEF MarksFollow
    <2>3. \A q \in DOMAIN net : q.kind = "toggle" => q = r
      BY <2>2 DEF Stats!Blocks
    <2>4. Follows(r)'
      BY <1>2, <1>3, <1>4, <2>2 DEF Follows, Patched
    <2>5. Stats!Loaded' <=> Stats!Loaded
      BY <1>2 DEF Stats!Loaded
    <2> HIDE DEF MarksFollow
    <2> QED BY <1>2, <1>3, <1>5, <2>1, <2>3, <2>4, <2>5 DEF MarksFollow
  <1> QED BY <1>6, <1>7, <1>8, <1>9, <1>10, <1>11 DEF StatsInv

\* The process ends with the calls, and the next one has none.
LEMMA ServerGone ==
    ASSUME StatsInv, Stats!ServerRestarts
    PROVE  StatsInv'
  <1>0. StatsTypes
    BY DEF StatsInv
  <1> DEFINE refused == {Stats!Refused(r) : r \in Stats!Calls}
  <1>1. /\ call' = [a \in Admin |-> NoCall] /\ UNCHANGED <<rows, view>>
        /\ hist' = [Stats!Counted(hist) EXCEPT !.synced = FALSE]
        /\ net' = [q \in (Stats!InFlight \ Stats!Calls) \cup refused |->
                      Stats!Cardinality({r \in Stats!Calls : Stats!Refused(r) = q})
                          + IF q \in Stats!InFlight THEN net[q] ELSE 0]
    <2>1. Stats!Restart => call' = [a \in Admin |-> NoCall] /\ UNCHANGED rows
      BY SameBlocklist DEF Restart
    <2>2. /\ Stats!Restart /\ UNCHANGED view
          /\ hist' = [Stats!Counted(hist) EXCEPT !.synced = FALSE]
          /\ net' = [q \in (Stats!InFlight \ Stats!Calls) \cup refused |->
                      Stats!Cardinality({r \in Stats!Calls : Stats!Refused(r) = q})
                          + IF q \in Stats!InFlight THEN net[q] ELSE 0]
      BY DEF Stats!ServerRestarts
    <2> QED BY <2>1, <2>2
  <1>2. \A r \in Stats!Calls : r \in DOMAIN net /\ r.kind \in Stats!Blocks
    <2> SUFFICES ASSUME NEW r \in Stats!Calls
                 PROVE  r \in DOMAIN net /\ r.kind \in Stats!Blocks
      OBVIOUS
    <2>1. r \in DOMAIN net /\ r.stage = "called"
      BY DEF Stats!Calls, Stats!InFlight, Stats!BagToSet
    <2>2. r \in StatsRequests \/ RankRequest(r)
      BY <1>0, <2>1 DEF StatsTypes
    <2> QED BY <2>1, <2>2, StatsShapes
  <1>3. \A q \in refused : q \in StatsRequests /\ q.kind \in Stats!Blocks /\ q.stage = "failed"
    BY <1>0, <1>2, ChangeShapes
  <1> HIDE DEF refused
  <1>4. DOMAIN net' = (DOMAIN net \ Stats!Calls) \cup refused
    BY <1>1 DEF Stats!InFlight, Stats!BagToSet
  <1>5. \A q : q.kind \notin Stats!Blocks => (q \in DOMAIN net' <=> q \in DOMAIN net)
    BY <1>2, <1>3, <1>4
  <1>6. /\ hist' \in StatsHists /\ hist'.loads = hist.loads /\ hist'.shown = hist.shown
        /\ ~hist'.synced
    <2>1. hist \in StatsHists
      BY <1>0 DEF StatsTypes
    <2> DEFINE h == Stats!Counted(hist)
    <2>2. h \in StatsHists /\ h.loads = hist.loads /\ h.shown = hist.shown
      BY <2>1, HistFields
    <2>3. hist' = [h EXCEPT !.synced = FALSE]
      BY <1>1
    <2> HIDE DEF h
    <2> QED BY <2>2, <2>3 DEF StatsHists
  <1>7. StatsTypes'
    <2>1. \A q \in DOMAIN net' : q \in StatsRequests \/ RankRequest(q)
      BY <1>0, <1>3, <1>4 DEF StatsTypes
    <2>2. (Stats!Loaded' <=> Stats!Loaded) /\ (Stats!DrillOpen' <=> Stats!DrillOpen)
      BY <1>1 DEF Stats!Loaded, Stats!DrillOpen
    <2>3. \A q \in DOMAIN net' : q.kind = "toggle" => Stats!Loaded
      <3>1. \A q \in refused : \E r \in DOMAIN net : q.kind = r.kind
        BY <1>2 DEF refused, Stats!Refused
      <3> QED BY <1>0, <1>4, <3>1 DEF StatsTypes
    <2> QED BY <1>0, <1>1, <1>6, <2>1, <2>2, <2>3 DEF StatsTypes
  <1>8. QuestionsFit'
    <2> SUFFICES ASSUME NEW kind \in Questions, Fits(kind) PROVE Fits(kind)'
      BY DEF StatsInv, QuestionsFit, Questions
    <2>1. kind \notin Stats!Blocks
      BY DEF Questions, Stats!Blocks
    <2>2. \A q : q.kind = kind => (q \in DOMAIN net' <=> q \in DOMAIN net)
      BY <1>5, <2>1
    <2> QED BY <1>1, <2>2 DEF Fits
  <1>9. CallsAreAsked'
    BY <1>1 DEF CallsAreAsked, Busy, NoCall
  <1>10. PanelListed'
    <2>1. NoBlocks' => NoBlocks
      <3> SUFFICES ASSUME NEW q \in DOMAIN net, q.kind \in Stats!Blocks PROVE ~NoBlocks'
        BY DEF NoBlocks
      <3>1. CASE q \in Stats!Calls
        <4>1. Stats!Refused(q) \in refused
          BY <3>1 DEF refused
        <4> QED BY <1>3, <1>4, <4>1 DEF NoBlocks
      <3>2. CASE q \notin Stats!Calls
        BY <1>4, <3>2 DEF NoBlocks
      <3> QED BY <3>1, <3>2
    <2>2. \A q : q.kind \in Stats!Lists => q.kind \notin Stats!Blocks
      BY DEF Stats!Lists, Stats!Blocks
    <2>3. \A q \in DOMAIN net' : q.kind \in Stats!Lists => q \in DOMAIN net
      BY <1>5, <2>2
    <2> QED BY <1>1, <1>6, <2>1, <2>3, PanelKeeps DEF StatsInv
  <1>11. RanksAreAlone'
    <2> SUFFICES ASSUME NEW q \in DOMAIN net', q.kind = "rank"
                 PROVE  /\ view'.loading /\ net'[q] = 1
                        /\ \A p \in DOMAIN net' : p.kind = "rank" => p = q
      BY DEF RanksAreAlone
    <2>1. "rank" \notin Stats!Blocks
      BY DEF Stats!Blocks
    <2>2. q \in DOMAIN net /\ \A p \in DOMAIN net' : p.kind = "rank" => p \in DOMAIN net
      BY <1>5, <2>1
    <2>3. view.loading /\ net[q] = 1 /\ \A p \in DOMAIN net : p.kind = "rank" => p = q
      BY <2>2 DEF StatsInv, RanksAreAlone
    <2>4. {r \in Stats!Calls : Stats!Refused(r) = q} = {}
      BY <1>3, <2>1 DEF refused
    <2>5. net'[q] = Stats!Cardinality({r \in Stats!Calls : Stats!Refused(r) = q}) + 1
      BY <1>1, <1>4, <2>2, <2>3 DEF Stats!InFlight, Stats!BagToSet
    <2>6. net'[q] = Stats!Cardinality({}) + 1
      BY <2>4, <2>5
    <2>7. net'[q] = 1
      BY <2>6, FS_EmptySet DEF Stats!Cardinality, Cardinality
    <2> QED BY <1>1, <2>2, <2>3, <2>7
  <1>12. MarksFollow'
    BY <1>6 DEF MarksFollow
  <1> QED BY <1>7, <1>8, <1>9, <1>10, <1>11, <1>12 DEF StatsInv

WithGot(v, kind, q) == [v EXCEPT !.got[kind] = q]

LEMMA GotTypes ==
    ASSUME NEW v \in StatsViews, NEW kind \in Questions, NEW q,
           q \in (IF kind = "paths" THEN PathQuestions ELSE DayQuestions) \cup {Stats!NoQuestion},
           NEW w, w = WithGot(v, kind, q)
    PROVE  /\ w \in StatsViews /\ w.tab = v.tab /\ w.loading = v.loading /\ w.marks = v.marks
           /\ w.blocked = v.blocked /\ w.mount = v.mount /\ w.submitting = v.submitting
           /\ w.asked = v.asked /\ w.n = v.n
           /\ w.got[kind] = q /\ \A other \in Questions \ {kind} : w.got[other] = v.got[other]
  <1>1. v = [tab |-> v.tab, loading |-> v.loading, marks |-> v.marks, blocked |-> v.blocked,
             mount |-> v.mount, submitting |-> v.submitting, asked |-> v.asked,
             got |-> v.got, n |-> v.n, range |-> v.range]
    BY DEF StatsViews
  <1>2. v.got \in Asked /\ v.got = [paths |-> v.got.paths, trend |-> v.got.trend]
    BY DEF StatsViews, Asked
  <1>3. kind = "paths" \/ kind = "trend"
    BY DEF Questions
  <1>4. [v.got EXCEPT ![kind] = q] = [paths |-> IF kind = "paths" THEN q ELSE v.got.paths,
                                      trend |-> IF kind = "trend" THEN q ELSE v.got.trend]
    BY <1>2, <1>3
  <1>5. w = [tab |-> v.tab, loading |-> v.loading, marks |-> v.marks, blocked |-> v.blocked,
             mount |-> v.mount, submitting |-> v.submitting, asked |-> v.asked,
             got |-> [v.got EXCEPT ![kind] = q], n |-> v.n, range |-> v.range]
    BY <1>1 DEF WithGot
  <1>6. [v.got EXCEPT ![kind] = q] \in Asked
    BY <1>2, <1>3, <1>4 DEF Asked
  <1> DEFINE g == [v.got EXCEPT ![kind] = q]
  <1>7. g[kind] = q /\ \A other \in Questions \ {kind} : g[other] = v.got[other]
    BY <1>3, <1>4 DEF Questions
  <1> HIDE DEF g
  <1>8. w = [tab |-> v.tab, loading |-> v.loading, marks |-> v.marks, blocked |-> v.blocked,
             mount |-> v.mount, submitting |-> v.submitting, asked |-> v.asked,
             got |-> g, n |-> v.n, range |-> v.range] /\ g \in Asked
    BY <1>5, <1>6 DEF g
  <1>9. w \in StatsViews
    BY <1>8 DEF StatsViews
  <1>10. /\ w.tab = v.tab /\ w.loading = v.loading /\ w.marks = v.marks
         /\ w.blocked = v.blocked /\ w.mount = v.mount /\ w.submitting = v.submitting
         /\ w.asked = v.asked /\ w.n = v.n /\ w.got = g
    BY <1>8
  <1> QED BY <1>7, <1>9, <1>10

\* Paths and days arrive.
LEMMA QuestionAnswered ==
    ASSUME StatsInv, NEW r \in DOMAIN net, Stats!Answered(r), UNCHANGED blocklistVars
    PROVE  StatsInv'
  <1>0. StatsTypes
    BY DEF StatsInv
  <1> DEFINE kind == r.kind
  <1>1. /\ r.kind \in Questions /\ net' = Stats!Done(r) /\ UNCHANGED hist
        /\ \/ /\ r.n = view.n[r.kind]
              /\ \E answer \in {r.question, Stats!NoQuestion} :
                     view' = [view EXCEPT !.got[r.kind] = answer]
           \/ r.n # view.n[r.kind] /\ UNCHANGED view
    BY DEF Stats!Answered, Questions
  <1>2. r.question \in IF r.kind = "paths" THEN PathQuestions ELSE DayQuestions
    <2>1. r \in StatsRequests \/ RankRequest(r)
      BY <1>0 DEF StatsTypes
    <2> QED BY <1>1, <2>1, StatsShapes DEF Questions
  <1>3. /\ view' \in StatsViews /\ view'.tab = view.tab /\ view'.loading = view.loading
        /\ view'.marks = view.marks /\ view'.blocked = view.blocked /\ view'.mount = view.mount
        /\ view'.submitting = view.submitting /\ view'.asked = view.asked /\ view'.n = view.n
        /\ \A other \in Questions \ {r.kind} : view'.got[other] = view.got[other]
        /\ \/ r.n = view.n[r.kind] /\ view'.got[r.kind] \in {r.question, Stats!NoQuestion}
           \/ r.n # view.n[r.kind] /\ view'.got[r.kind] = view.got[r.kind]
    <2>1. view \in StatsViews
      BY <1>0 DEF StatsTypes
    <2>2. CASE UNCHANGED view /\ r.n # view.n[r.kind]
      BY <2>1, <2>2
    <2>3. ASSUME r.n = view.n[r.kind], NEW answer \in {r.question, Stats!NoQuestion},
                 view' = [view EXCEPT !.got[r.kind] = answer]
          PROVE  <1>3!:
      <3>1. answer \in (IF r.kind = "paths" THEN PathQuestions ELSE DayQuestions)
                           \cup {Stats!NoQuestion}
        BY <1>2, <2>3
      <3>2. /\ view' \in StatsViews /\ view'.tab = view.tab /\ view'.loading = view.loading
            /\ view'.marks = view.marks /\ view'.blocked = view.blocked
            /\ view'.mount = view.mount /\ view'.submitting = view.submitting
            /\ view'.asked = view.asked /\ view'.n = view.n /\ view'.got[r.kind] = answer
            /\ \A other \in Questions \ {r.kind} : view'.got[other] = view.got[other]
        <4>1. view' = WithGot(view, r.kind, answer)
          BY <2>3 DEF WithGot
        <4> QED BY <1>1, <2>1, <3>1, <4>1, GotTypes
      <3> QED BY <2>3, <3>2
    <2> QED BY <1>1, <2>2, <2>3
  <1>4. DOMAIN net' \subseteq DOMAIN net /\ DOMAIN net \ {r} \subseteq DOMAIN net'
    BY <1>1, DoneRemoves
  <1>5. Stays(CoreKinds) /\ \A other \in Questions \ {r.kind} : Stays({other})
    <2>1. r.kind \notin CoreKinds /\ \A other \in Questions \ {r.kind} : r.kind \notin {other}
      BY <1>1 DEF Questions, CoreKinds, Stats!Blocks
    <2> QED BY <1>1, <2>1, DoneStays
  <1>6. StatsTypes'
    <2>1. (Stats!Loaded' <=> Stats!Loaded) /\ (Stats!DrillOpen' <=> Stats!DrillOpen)
      BY <1>3 DEF Stats!Loaded, Stats!DrillOpen
    <2>2. \A q \in DOMAIN net' : /\ q \in StatsRequests \/ RankRequest(q)
                                 /\ q.kind = "toggle" => Stats!Loaded
      BY <1>0, <1>4 DEF StatsTypes
    <2> QED BY <1>0, <1>1, <1>3, <2>1, <2>2 DEF StatsTypes
  <1>7. CallsAreAsked' /\ PanelListed' /\ RanksAreAlone' /\ MarksFollow'
    BY <1>1, <1>3, <1>4, <1>5, OthersStay DEF blocklistVars
  <1>8. \A other \in Questions \ {r.kind} : Fits(other)'
    <2>1. Fits("paths") /\ Fits("trend")
      BY DEF StatsInv, QuestionsFit
    <2> QED BY <1>3, <1>5, <2>1, FitsKeeps DEF Questions
  <1>9. Fits(r.kind)'
    <2>1. Fits(r.kind)
      BY <1>1 DEF StatsInv, QuestionsFit, Questions
    <2>2. \A q \in DOMAIN net' : q.kind = kind =>
              /\ q.n <= view'.n[kind]
              /\ q.n = view'.n[kind] => q.question = view'.asked[kind]
      BY <1>3, <1>4, <2>1 DEF Fits
    <2>3. ASSUME \A q \in DOMAIN net' : q.kind = kind => q.n # view'.n[kind]
          PROVE  \/ view'.asked[kind] = Stats!NoQuestion
                 \/ view'.got[kind] \in {view'.asked[kind], Stats!NoQuestion}
      <3>1. CASE r.n = view.n[kind]
        <4>1. r.question = view.asked[kind]
          BY <2>1, <3>1 DEF Fits
        <4> QED BY <1>3, <3>1, <4>1
      <3>2. CASE r.n # view.n[kind]
        <4>1. \A q \in DOMAIN net : q.kind = kind => q.n # view.n[kind]
          BY <1>3, <1>4, <2>3, <3>2
        <4> QED BY <1>3, <2>1, <3>2, <4>1 DEF Fits
      <3> QED BY <3>1, <3>2
    <2> QED BY <2>2, <2>3 DEF Fits
  <1>10. QuestionsFit'
    BY <1>1, <1>8, <1>9 DEF QuestionsFit, Questions
  <1> QED BY <1>6, <1>7, <1>10 DEF StatsInv

RankedView(v, marks) == [v EXCEPT !.loading = FALSE, !.marks = marks]
NotLoading(v) == [v EXCEPT !.loading = FALSE]

LEMMA RankedTypes ==
    ASSUME NEW v \in StatsViews, NEW marks \in [Rankings -> (SUBSET Domain) \cup {Stats!Unknown}],
           NEW w, w = RankedView(v, marks) \/ (w = NotLoading(v) /\ marks = v.marks)
    PROVE  /\ w \in StatsViews /\ w.tab = v.tab /\ ~w.loading /\ w.marks = marks
           /\ w.blocked = v.blocked /\ w.mount = v.mount /\ w.submitting = v.submitting
           /\ w.asked = v.asked /\ w.n = v.n /\ w.got = v.got
  <1>1. v = [tab |-> v.tab, loading |-> v.loading, marks |-> v.marks, blocked |-> v.blocked,
             mount |-> v.mount, submitting |-> v.submitting, asked |-> v.asked,
             got |-> v.got, n |-> v.n, range |-> v.range]
    BY DEF StatsViews
  <1>0. PICK no : no = FALSE
    OBVIOUS
  <1> DEFINE one == [v EXCEPT !.loading = no]
  <1>2. one = [tab |-> v.tab, loading |-> no, marks |-> v.marks, blocked |-> v.blocked,
               mount |-> v.mount, submitting |-> v.submitting, asked |-> v.asked,
               got |-> v.got, n |-> v.n, range |-> v.range]
    BY <1>1
  <1>3. RankedView(v, marks) = [one EXCEPT !.marks = marks] /\ NotLoading(v) = one
    BY <1>0 DEF RankedView, NotLoading
  <1> HIDE DEF one
  <1>4. w = [tab |-> v.tab, loading |-> no, marks |-> marks, blocked |-> v.blocked,
             mount |-> v.mount, submitting |-> v.submitting, asked |-> v.asked,
             got |-> v.got, n |-> v.n, range |-> v.range]
    BY <1>2, <1>3
  <1>5. w \in StatsViews
    BY <1>0, <1>4 DEF StatsViews
  <1>6. w.tab = v.tab /\ ~w.loading /\ w.marks = marks
    BY <1>0, <1>4
  <1>7. /\ w.blocked = v.blocked /\ w.mount = v.mount /\ w.submitting = v.submitting
        /\ w.asked = v.asked /\ w.n = v.n /\ w.got = v.got
    BY <1>4
  <1> QED BY <1>5, <1>6, <1>7

\* What the end of the request for the rankings leaves of the others.
LEMMA RankingsGone ==
    ASSUME StatsInv, NEW r \in DOMAIN net, r.kind = "rank", net' = Stats!Done(r),
           r.stage # "called"
    PROVE  /\ \A q \in DOMAIN net' : q \in DOMAIN net /\ q.kind # "rank"
           /\ RanksAreAlone'
           /\ Stays({"paths"}) /\ Stays({"trend"}) /\ Stays(Stats!Blocks)
           /\ NoBlocks' <=> NoBlocks
           /\ UNCHANGED call => CallsAreAsked'
  <1>1. net[r] = 1 /\ \A q \in DOMAIN net : q.kind = "rank" => q = r
    BY DEF StatsInv, RanksAreAlone
  <1>2. r \notin DOMAIN net' /\ DOMAIN net' \subseteq DOMAIN net
    BY <1>1, DoneCounts
  <1>3. \A q \in DOMAIN net' : q \in DOMAIN net /\ q.kind # "rank"
    BY <1>1, <1>2
  <1>4. Stays({"paths"}) /\ Stays({"trend"}) /\ Stays(Stats!Blocks)
    <2>1. "rank" \notin {"paths"} /\ "rank" \notin {"trend"} /\ "rank" \notin Stats!Blocks
      BY DEF Stats!Blocks
    <2> QED BY <2>1, DoneStays
  <1>5. NoBlocks' <=> NoBlocks
    BY <1>4 DEF NoBlocks, Stays
  <1>6. UNCHANGED call => CallsAreAsked'
    <2>1. \A q \in DOMAIN net : q.stage = "called" => q \in DOMAIN net'
      BY DoneRemoves
    <2> QED BY <2>1, CallsKeep DEF StatsInv
  <1> QED BY <1>3, <1>4, <1>5, <1>6 DEF RanksAreAlone

LEMMA RankingsArrive ==
    ASSUME StatsInv, NEW r \in DOMAIN net, r.stage = "ok", Stats!Ranked(r),
           UNCHANGED blocklistVars
    PROVE  StatsInv'
  <1>0. StatsTypes
    BY DEF StatsInv
  <1>1. /\ r.kind = "rank" /\ net' = Stats!Done(r) /\ UNCHANGED hist
        /\ view' = RankedView(view, r.marks)
    BY DEF Stats!Ranked, RankedView
  <1>2. r.marks \in [Rankings -> SUBSET Domain]
    <2>1. r \in StatsRequests \/ RankRequest(r)
      BY <1>0 DEF StatsTypes
    <2> QED BY <1>1, <2>1, StatsShapes DEF RankRequest
  <1>3. /\ view' \in StatsViews /\ view'.tab = view.tab /\ view'.marks = r.marks
        /\ view'.blocked = view.blocked /\ view'.mount = view.mount
        /\ view'.submitting = view.submitting
        /\ view'.asked = view.asked /\ view'.n = view.n /\ view'.got = view.got
    <2>1. view \in StatsViews /\ r.marks \in [Rankings -> (SUBSET Domain) \cup {Stats!Unknown}]
      BY <1>0, <1>2 DEF StatsTypes
    <2> QED BY <1>1, <2>1, RankedTypes
  <1>4. /\ \A q \in DOMAIN net' : q \in DOMAIN net /\ q.kind # "rank"
        /\ RanksAreAlone' /\ CallsAreAsked'
        /\ Stays({"paths"}) /\ Stays({"trend"}) /\ Stays(Stats!Blocks)
        /\ NoBlocks' <=> NoBlocks
    BY <1>1, RankingsGone DEF blocklistVars
  <1>5. Stats!Loaded'
    BY <1>2, <1>3, StatsAssumption DEF Stats!Loaded, Stats!Unknown
  <1>6. StatsTypes'
    <2>1. Stats!DrillOpen' <=> Stats!DrillOpen
      BY <1>3 DEF Stats!DrillOpen
    <2>2. \A q \in DOMAIN net' : q \in StatsRequests \/ RankRequest(q)
      BY <1>0, <1>4 DEF StatsTypes
    <2> QED BY <1>0, <1>1, <1>3, <1>5, <2>1, <2>2 DEF StatsTypes
  <1>7. QuestionsFit'
    BY <1>3, <1>4, FitsKeeps DEF StatsInv, QuestionsFit, Questions
  <1>8. PanelListed'
    BY <1>1, <1>3, <1>4, PanelKeeps DEF StatsInv, blocklistVars
  <1>9. MarksFollow'
    <2> SUFFICES ASSUME hist'.synced PROVE MarksFollow'
      BY DEF MarksFollow
    <2>1. hist.synced /\ MarksFollow
      BY <1>1 DEF StatsInv
    <2>2. NoBlocks /\ rows = blockedHosts
      BY <1>1, <2>1 DEF MarksFollow
    <2>3. \A k \in Rankings : view'.marks[k] = blockedHosts
      BY <1>1, <1>2, <1>3, <2>1 DEF MarksFollow
    <2>4. \A q \in DOMAIN net' : q.kind \notin Stats!Blocks /\ q.kind # "toggle"
      BY <1>4, <2>2 DEF NoBlocks, Stats!Blocks
    <2> QED BY <1>4, <1>5, <2>2, <2>3, <2>4 DEF MarksFollow, blocklistVars
  <1> QED BY <1>4, <1>6, <1>7, <1>8, <1>9 DEF StatsInv

LEMMA RankingsMissing ==
    ASSUME StatsInv, NEW r \in DOMAIN net, r.stage = "failed", Stats!Ranked(r),
           UNCHANGED blocklistVars
    PROVE  StatsInv'
  <1>0. StatsTypes /\ view \in StatsViews /\ hist \in StatsHists
    BY DEF StatsInv, StatsTypes
  <1> DEFINE v == IF Stats!Loaded THEN view ELSE Stats!Left(view, "none")
  <1>1. /\ r.kind = "rank" /\ net' = Stats!Done(r) /\ hist' = [hist EXCEPT !.synced = FALSE]
        /\ view' = NotLoading(v)
    BY DEF Stats!Ranked, NotLoading
  <1>2. /\ hist' \in StatsHists /\ hist'.loads = hist.loads /\ hist'.shown = hist.shown
        /\ ~hist'.synced
    BY <1>0, <1>1 DEF StatsHists
  <1>3. v \in StatsViews /\ v.marks = view.marks
    <2>1. CASE Stats!Loaded
      BY <1>0, <2>1
    <2>2. CASE ~Stats!Loaded
      BY <1>0, <2>2, LeftTypes
    <2> QED BY <2>1, <2>2
  <1>4. v.marks \in [Rankings -> (SUBSET Domain) \cup {Stats!Unknown}]
    <2> HIDE DEF v
    <2> QED BY <1>3 DEF StatsViews
  <1> DEFINE Same(w) == /\ w \in StatsViews /\ w.tab = v.tab /\ ~w.loading
                        /\ w.marks = v.marks /\ w.blocked = v.blocked /\ w.mount = v.mount
                        /\ w.submitting = v.submitting /\ w.asked = v.asked /\ w.n = v.n
                        /\ w.got = v.got
  <1>5. Same(view')
    <2> HIDE DEF v
    <2> QED BY <1>1, <1>3, <1>4, RankedTypes
  <1>6. /\ \A q \in DOMAIN net' : q \in DOMAIN net /\ q.kind # "rank"
        /\ RanksAreAlone' /\ CallsAreAsked'
        /\ Stays({"paths"}) /\ Stays({"trend"}) /\ Stays(Stats!Blocks)
        /\ NoBlocks' <=> NoBlocks
    BY <1>1, RankingsGone DEF blocklistVars
  <1>7. MarksFollow'
    BY <1>2 DEF MarksFollow
  <1>8. (Stats!Loaded' <=> Stats!Loaded) /\ UNCHANGED rows
    <2> HIDE DEF v
    <2> QED BY <1>3, <1>5 DEF Stats!Loaded, blocklistVars
  <1>9. \A q \in DOMAIN net' : /\ q \in StatsRequests \/ RankRequest(q)
                               /\ q.kind = "toggle" => Stats!Loaded
    BY <1>0, <1>6 DEF StatsTypes
  <1>10. CASE Stats!Loaded
    <2>1. v = view
      BY <1>10
    <2> HIDE DEF v
    <2>2. StatsTypes'
      <3>1. Stats!DrillOpen' <=> Stats!DrillOpen
        BY <1>5, <2>1 DEF Stats!DrillOpen
      <3> QED BY <1>0, <1>2, <1>5, <1>8, <1>9, <2>1, <3>1 DEF StatsTypes
    <2>3. QuestionsFit'
      BY <1>5, <1>6, <2>1, FitsKeeps DEF StatsInv, QuestionsFit, Questions
    <2>4. PanelListed'
      BY <1>2, <1>5, <1>6, <1>8, <2>1, PanelKeeps DEF StatsInv
    <2> QED BY <1>6, <1>7, <2>2, <2>3, <2>4 DEF StatsInv
  <1>11. CASE ~Stats!Loaded
    <2>1. v = Stats!Left(view, "none")
      BY <1>11
    <2> HIDE DEF v
    <2>2. /\ v.tab = "none" /\ ~v.submitting
          /\ v.mount = (IF view.tab = "blocked" THEN view.mount + 1 ELSE view.mount)
          /\ v.got.paths = view.got.paths /\ v.got.trend = view.got.trend
          /\ v.asked.paths = view.asked.paths /\ v.asked.trend = Stats!NoQuestion
          /\ v.n.paths = view.n.paths
          /\ view.tab = "overview" => v.n.trend = view.n.trend + 1
          /\ view.tab # "overview" => v.n.trend = view.n.trend
      BY <1>0, <2>1, LeftTypes
    <2>3. StatsTypes'
      <3>1. ~Stats!DrillOpen'
        BY <1>0, <1>5, <1>11, <2>2 DEF Stats!DrillOpen, StatsTypes
      <3> QED BY <1>2, <1>5, <1>8, <1>9, <2>2, <3>1 DEF StatsTypes
    <2>4. Fits("paths")'
      BY <1>5, <1>6, <2>2, FitsKeeps DEF StatsInv, QuestionsFit, Questions
    <2>5. Fits("trend")'
      BY <1>5, <1>6, <2>2, ChartLeft
    <2>6. PanelListed'
      <3>1. view.mount \in Nat /\ PanelListed
        BY <1>0, ViewTypes DEF StatsInv
      <3>2. \A q \in DOMAIN net' : q.kind \in Stats!Lists /\ q.stage # "failed" =>
                q \in DOMAIN net /\ q.mount \in Nat
        <4> SUFFICES ASSUME NEW q \in DOMAIN net', q.kind \in Stats!Lists, q.stage # "failed"
                     PROVE  q \in DOMAIN net /\ q.mount \in Nat
          OBVIOUS
        <4> QED BY <1>6, <1>9, StatsShapes
      <3>3. view'.tab = "none" /\ view'.mount = v.mount
        BY <1>5, <2>2
      <3>4. \A q \in DOMAIN net' : q.kind \in Stats!Lists /\ q.stage # "failed" =>
                q.n <= hist'.loads /\ q.mount < view'.mount
        BY <1>2, <2>2, <3>1, <3>2, <3>3 DEF PanelListed
      <3>5. \A q \in DOMAIN net' : q.kind \in Stats!Lists /\ q.stage # "failed" =>
                q.mount <= view'.mount
        <4>1. view'.mount \in Nat
          BY <1>5 DEF StatsViews
        <4> QED BY <3>2, <3>4, <4>1
      <3> QED BY <1>2, <3>1, <3>3, <3>4, <3>5 DEF PanelListed
    <2> QED BY <1>6, <1>7, <2>3, <2>4, <2>5, <2>6 DEF StatsInv, QuestionsFit
  <1> QED BY <1>10, <1>11

PanelView(v, submitting, blocked) == [v EXCEPT !.submitting = submitting, !.blocked = blocked]
Submitting(v, submitting) == [v EXCEPT !.submitting = submitting]
MarksPatched(v, marks) == [v EXCEPT !.marks = marks]

LEMMA PanelTypes ==
    ASSUME NEW v \in StatsViews, NEW submitting \in BOOLEAN,
           NEW blocked \in (SUBSET Domain) \cup {Stats!Unknown},
           NEW w, \/ w = PanelView(v, submitting, blocked)
                  \/ (w = Submitting(v, submitting) /\ blocked = v.blocked)
    PROVE  /\ w \in StatsViews /\ w.tab = v.tab /\ w.loading = v.loading /\ w.marks = v.marks
           /\ w.blocked = blocked /\ w.mount = v.mount /\ w.submitting = submitting
           /\ w.asked = v.asked /\ w.n = v.n /\ w.got = v.got
  <1>1. v = [tab |-> v.tab, loading |-> v.loading, marks |-> v.marks, blocked |-> v.blocked,
             mount |-> v.mount, submitting |-> v.submitting, asked |-> v.asked,
             got |-> v.got, n |-> v.n, range |-> v.range]
    BY DEF StatsViews
  <1> DEFINE one == [v EXCEPT !.submitting = submitting]
  <1>2. one = [tab |-> v.tab, loading |-> v.loading, marks |-> v.marks, blocked |-> v.blocked,
               mount |-> v.mount, submitting |-> submitting, asked |-> v.asked,
               got |-> v.got, n |-> v.n, range |-> v.range]
    BY <1>1
  <1>3. /\ PanelView(v, submitting, blocked) = [one EXCEPT !.blocked = blocked]
        /\ Submitting(v, submitting) = one
    BY DEF PanelView, Submitting
  <1> HIDE DEF one
  <1>4. w = [tab |-> v.tab, loading |-> v.loading, marks |-> v.marks, blocked |-> blocked,
             mount |-> v.mount, submitting |-> submitting, asked |-> v.asked,
             got |-> v.got, n |-> v.n, range |-> v.range]
    BY <1>2, <1>3
  <1>5. w \in StatsViews
    BY <1>4 DEF StatsViews
  <1>6. /\ w.tab = v.tab /\ w.loading = v.loading /\ w.marks = v.marks
        /\ w.blocked = blocked /\ w.mount = v.mount
    BY <1>4
  <1>7. w.submitting = submitting /\ w.asked = v.asked /\ w.n = v.n /\ w.got = v.got
    BY <1>4
  <1> QED BY <1>5, <1>6, <1>7

LEMMA PatchedTypes ==
    ASSUME NEW v \in StatsViews, NEW marks \in [Rankings -> (SUBSET Domain) \cup {Stats!Unknown}],
           NEW w, w = MarksPatched(v, marks)
    PROVE  /\ w \in StatsViews /\ w.tab = v.tab /\ w.loading = v.loading /\ w.marks = marks
           /\ w.blocked = v.blocked /\ w.mount = v.mount /\ w.submitting = v.submitting
           /\ w.asked = v.asked /\ w.n = v.n /\ w.got = v.got
  <1>1. v = [tab |-> v.tab, loading |-> v.loading, marks |-> v.marks, blocked |-> v.blocked,
             mount |-> v.mount, submitting |-> v.submitting, asked |-> v.asked,
             got |-> v.got, n |-> v.n, range |-> v.range]
    BY DEF StatsViews
  <1>2. w = [tab |-> v.tab, loading |-> v.loading, marks |-> marks, blocked |-> v.blocked,
             mount |-> v.mount, submitting |-> v.submitting, asked |-> v.asked,
             got |-> v.got, n |-> v.n, range |-> v.range]
    BY <1>1 DEF MarksPatched
  <1>3. w \in StatsViews
    BY <1>2 DEF StatsViews
  <1> QED BY <1>2, <1>3

\* The rows of the panel arrive, or do not.
LEMMA RowsArrive ==
    ASSUME StatsInv, NEW r \in DOMAIN net, r.stage \in {"ok", "failed"},
           Stats!ListedBlocked(r), UNCHANGED blocklistVars
    PROVE  StatsInv'
  <1>0. StatsTypes /\ view \in StatsViews /\ hist \in StatsHists
    BY DEF StatsInv, StatsTypes
  <1> DEFINE here == Stats!Here(r)
             submitting == view.submitting /\ r.kind # "added"
             blocked == IF r.stage = "ok" THEN r.rows ELSE view.blocked
  <1>1. /\ r.kind \in Stats!Lists /\ net' = Stats!Done(r)
        /\ here => view' = PanelView(view, submitting, blocked)
        /\ ~here => view' = view
        /\ here /\ r.stage = "ok" => hist' = [hist EXCEPT !.shown = r.n]
        /\ ~here \/ r.stage # "ok" => hist' = hist
    BY DEF Stats!ListedBlocked, PanelView
  <1>2. /\ r.stage = "ok" => r.rows \in SUBSET Domain /\ r.n \in Nat
    <2>1. r \in StatsRequests \/ RankRequest(r)
      BY <1>0 DEF StatsTypes
    <2> QED BY <1>1, <2>1, StatsShapes
  <1>3. /\ view' \in StatsViews /\ view'.tab = view.tab /\ view'.loading = view.loading
        /\ view'.marks = view.marks /\ view'.mount = view.mount
        /\ view'.asked = view.asked /\ view'.n = view.n /\ view'.got = view.got
        /\ view'.submitting => view.submitting
        /\ here => view'.blocked = blocked
        /\ ~here => view'.blocked = view.blocked
    <2>1. CASE here
      <3>1. submitting \in BOOLEAN /\ blocked \in (SUBSET Domain) \cup {Stats!Unknown}
        BY <1>0, <1>2 DEF StatsViews
      <3>2. submitting => view.submitting
        OBVIOUS
      <3> HIDE DEF submitting, blocked
      <3> QED BY <1>0, <1>1, <2>1, <3>1, <3>2, PanelTypes
    <2>2. CASE ~here
      BY <1>0, <1>1, <2>2
    <2> QED BY <2>1, <2>2
  <1>4. /\ hist' \in StatsHists /\ hist'.loads = hist.loads /\ hist'.synced = hist.synced
        /\ here /\ r.stage = "ok" => hist'.shown = r.n
        /\ ~here \/ r.stage # "ok" => hist'.shown = hist.shown
    <2> HIDE DEF here
    <2>1. CASE here /\ r.stage = "ok"
      BY <1>0, <1>1, <1>2, <2>1 DEF StatsHists
    <2>2. CASE ~(here /\ r.stage = "ok")
      BY <1>0, <1>1, <2>2
    <2> QED BY <2>1, <2>2
  <1>5. Stays(CoreKinds) /\ Stays({"paths"}) /\ Stays({"trend"})
    <2>1. r.kind \notin CoreKinds /\ r.kind \notin {"paths"} /\ r.kind \notin {"trend"}
      BY <1>1 DEF Stats!Lists, CoreKinds, Stats!Blocks
    <2> QED BY <1>1, <2>1, DoneStays
  <1>6. DOMAIN net' \subseteq DOMAIN net
    BY <1>1, DoneRemoves
  <1>7. StatsTypes'
    <2>1. (Stats!Loaded' <=> Stats!Loaded) /\ (Stats!DrillOpen' <=> Stats!DrillOpen)
      BY <1>3 DEF Stats!Loaded, Stats!DrillOpen
    <2>2. \A q \in DOMAIN net' : /\ q \in StatsRequests \/ RankRequest(q)
                                 /\ q.kind = "toggle" => Stats!Loaded
      BY <1>0, <1>6 DEF StatsTypes
    <2> QED BY <1>0, <1>3, <1>4, <2>1, <2>2 DEF StatsTypes
  <1>8. QuestionsFit'
    BY <1>3, <1>5, FitsKeeps DEF StatsInv, QuestionsFit, Questions
  <1>9. CallsAreAsked' /\ RanksAreAlone' /\ MarksFollow'
    BY <1>3, <1>4, <1>5, CoreKeeps DEF StatsInv, blocklistVars
  <1>10. PanelListed'
    <2>1. NoBlocks' => NoBlocks
      BY <1>5 DEF NoBlocks, Stays, CoreKinds
    <2>2. CASE here /\ r.stage = "ok"
      <3>1. /\ view.tab = "blocked" /\ r.mount = view.mount
            /\ view'.blocked = r.rows /\ hist'.shown = r.n
        BY <1>3, <1>4, <2>2 DEF Stats!Here
      <3> HIDE DEF here, blocked
      <3>2. PanelListed /\ r.n <= hist.loads
        BY <1>1, <2>2 DEF StatsInv, PanelListed
      <3>3. UNCHANGED rows
        BY DEF blocklistVars
      <3> QED BY <1>1, <1>3, <1>4, <1>6, <2>1, <2>2, <3>1, <3>2, <3>3 DEF PanelListed
    <2>3. CASE ~(here /\ r.stage = "ok")
      <3>1. view'.blocked = view.blocked /\ hist'.shown = hist.shown
        BY <1>3, <1>4, <2>3
      <3> HIDE DEF here, blocked
      <3> QED BY <1>3, <1>4, <1>6, <2>1, <3>1, PanelKeeps DEF StatsInv, blocklistVars
    <2> QED BY <2>2, <2>3
  <1> QED BY <1>7, <1>8, <1>9, <1>10 DEF StatsInv

ListAsked(new) == new \in [kind : Stats!Lists, stage : {"sent"}, n : {hist.loads + 1},
                           mount : {view.mount}]

LEMMA ListTypes ==
    ASSUME StatsTypes, NEW new, ListAsked(new)
    PROVE  /\ new \in StatsRequests /\ new.kind \in Stats!Lists /\ new.stage = "sent"
           /\ new.n = hist.loads + 1 /\ new.mount = view.mount
  <1>1. view.mount \in Nat /\ hist.loads + 1 \in Nat
    BY ViewTypes
  <1> QED BY <1>1 DEF ListAsked, StatsRequests

\* A change has its answer, after which the panel may ask for its rows.
LEMMA ChangeAnswered ==
    ASSUME StatsInv, NEW r \in DOMAIN net, r.kind \in Stats!Blocks, r.stage \in {"ok", "failed"},
           UNCHANGED blocklistVars,
           \/ net' = Stats!Done(r)
           \/ \E new : /\ ListAsked(new) /\ net' = Stats!Turn(r, new)
                       /\ view.tab = "blocked" /\ hist'.loads = hist.loads + 1,
           view' \in StatsViews, view'.tab = view.tab, view'.loading = view.loading,
           view'.mount = view.mount, view'.asked = view.asked, view'.n = view.n,
           view'.got = view.got, view'.submitting => view.submitting,
           Stats!Loaded' \/ view'.marks = view.marks,
           hist' \in StatsHists, hist'.shown = hist.shown,
           \/ hist'.loads = hist.loads + 1
           \/ hist'.loads = hist.loads /\ view.tab # "blocked",
           hist'.synced =>
               /\ hist.synced /\ r.kind = "toggle" /\ r.stage = "ok"
               /\ \A k \in Rankings : view'.marks[k] = Patched(view.marks[k], r)
    PROVE  StatsInv'
  <1>0. StatsTypes
    BY DEF StatsInv
  <1>1. /\ DOMAIN net \ {r} \subseteq DOMAIN net'
        /\ \A q \in DOMAIN net' :
               \/ q \in DOMAIN net
               \/ /\ q \in StatsRequests /\ q.kind \in Stats!Lists /\ q.stage = "sent"
                  /\ q.n = hist.loads + 1 /\ q.mount = view.mount
                  /\ view.tab = "blocked" /\ hist'.loads = hist.loads + 1
    <2>1. CASE net' = Stats!Done(r)
      BY <2>1, DoneRemoves
    <2>2. CASE \E new : /\ ListAsked(new) /\ net' = Stats!Turn(r, new)
                        /\ view.tab = "blocked" /\ hist'.loads = hist.loads + 1
      <3>1. PICK new : /\ ListAsked(new) /\ net' = Stats!Turn(r, new)
                       /\ view.tab = "blocked" /\ hist'.loads = hist.loads + 1
        BY <2>2
      <3>2. DOMAIN net \ {r} \subseteq DOMAIN net' /\ DOMAIN net' \subseteq DOMAIN net \cup {new}
        BY <3>1, TurnIsTurned DEF Turned
      <3> QED BY <1>0, <3>1, <3>2, ListTypes
    <2> QED BY <2>1, <2>2
  <1>2. Stays({"paths"}) /\ Stays({"trend"}) /\ Stays({"rank"})
    <2>1. \A kind \in {"paths", "trend", "rank"} :
              r.kind \notin {kind} /\ kind \notin Stats!Lists
      BY DEF Stats!Blocks, Stats!Lists
    <2>2. CASE net' = Stats!Done(r)
      BY <2>1, <2>2, DoneStays
    <2>3. CASE \E new : ListAsked(new) /\ net' = Stats!Turn(r, new)
      <3>1. PICK new : ListAsked(new) /\ net' = Stats!Turn(r, new)
        BY <2>3
      <3>2. new.kind \in Stats!Lists
        BY <1>0, <3>1, ListTypes
      <3>3. new.kind \notin {"paths"} /\ new.kind \notin {"trend"} /\ new.kind \notin {"rank"}
        BY <2>1, <3>2
      <3> QED BY <2>1, <3>1, <3>3, TurnStays
    <2> QED BY <2>2, <2>3
  <1>3. StatsTypes'
    <2>1. \A q \in DOMAIN net' : q \in StatsRequests \/ RankRequest(q)
      BY <1>0, <1>1 DEF StatsTypes
    <2>2. \A q \in DOMAIN net' : q.kind = "toggle" => Stats!Loaded
      BY <1>0, <1>1 DEF StatsTypes, Stats!Lists
    <2>3. Stats!Loaded => Stats!Loaded'
      BY DEF Stats!Loaded
    <2>4. Stats!DrillOpen' <=> Stats!DrillOpen
      BY DEF Stats!DrillOpen
    <2> QED BY <1>0, <2>1, <2>2, <2>3, <2>4 DEF StatsTypes
  <1>4. QuestionsFit'
    BY <1>2, FitsKeeps DEF StatsInv, QuestionsFit, Questions
  <1>5. CallsAreAsked'
    BY <1>1, CallsKeep DEF StatsInv, blocklistVars
  <1>6. RanksAreAlone'
    BY <1>2, RanksKeep DEF StatsInv
  <1>7. PanelListed'
    <2>0. UNCHANGED rows
      BY DEF blocklistVars
    <2>1. CASE hist'.loads = hist.loads + 1
      <3>1. \A q \in DOMAIN net' : q.kind \in Stats!Lists /\ q.stage # "failed" =>
                \/ q \in DOMAIN net
                \/ /\ q.stage = "sent" /\ q.n = hist.loads + 1 /\ q.mount = view.mount
                   /\ view.tab = "blocked"
        BY <1>1
      <3> QED BY <1>0, <2>0, <2>1, <3>1, PanelRefreshes DEF StatsInv
    <2>2. CASE hist'.loads = hist.loads /\ view.tab # "blocked"
      <3>1. \A q \in DOMAIN net' : q \in DOMAIN net
        BY <1>1, <2>2
      <3> QED BY <2>2, <3>1 DEF StatsInv, PanelListed
    <2> QED BY <2>1, <2>2
  <1>8. MarksFollow'
    <2> SUFFICES ASSUME hist'.synced PROVE MarksFollow'
      BY DEF MarksFollow
    <2>1. /\ hist.synced /\ MarksFollow /\ r.kind = "toggle" /\ r.stage = "ok"
          /\ \A k \in Rankings : view'.marks[k] = Patched(view.marks[k], r)
      BY DEF StatsInv
    <2>2. /\ net[r] = 1 /\ Follows(r) /\ ~NoBlocks
          /\ \A q \in DOMAIN net : q.kind \in Stats!Blocks => q = r
      BY <2>1 DEF MarksFollow, NoBlocks
    <2>3. \A q \in DOMAIN net : q.kind # "rank"
      BY <2>1, <2>2 DEF MarksFollow
    <2>4. r \notin DOMAIN net'
      <3>1. CASE net' = Stats!Done(r)
        BY <2>2, <3>1, DoneCounts
      <3>2. CASE \E new : ListAsked(new) /\ net' = Stats!Turn(r, new)
        <4>1. PICK new : ListAsked(new) /\ net' = Stats!Turn(r, new)
          BY <3>2
        <4>2. new # r
          <5>1. new.kind \in Stats!Lists
            BY <1>0, <4>1, ListTypes
          <5> QED BY <5>1 DEF Stats!Lists, Stats!Blocks
        <4> QED BY <2>2, <4>1, <4>2, TurnCounts
      <3> QED BY <3>1, <3>2
    <2>5. \A q \in DOMAIN net' : /\ q.kind \notin Stats!Blocks /\ q.kind # "rank"
                                 /\ q.kind # "toggle"
      <3>1. \A q \in DOMAIN net' : q \in DOMAIN net \/ q.kind \in Stats!Lists
        BY <1>1
      <3> QED BY <2>2, <2>3, <2>4, <3>1 DEF Stats!Lists, Stats!Blocks
    <2>6. Stats!Loaded'
      BY <1>0, <2>1 DEF StatsTypes, Stats!Loaded
    <2>7. NoBlocks' /\ \A k \in Rankings : rows = Patched(view.marks[k], r) /\ blockedHosts = rows
      BY <2>1, <2>2, <2>5 DEF NoBlocks, Follows
    <2>8. \A k \in Rankings : rows' = blockedHosts' /\ view'.marks[k] = blockedHosts'
      BY <2>1, <2>7 DEF blocklistVars
    <2>9. rows' = blockedHosts'
      BY <2>8, StatsAssumption
    <2> QED BY <2>5, <2>6, <2>7, <2>8, <2>9 DEF MarksFollow
  <1> QED BY <1>3, <1>4, <1>5, <1>6, <1>7, <1>8 DEF StatsInv

LEMMA SwitchAnswered ==
    ASSUME StatsInv, NEW r \in DOMAIN net, r.stage \in {"ok", "failed"}, Stats!Switched(r),
           UNCHANGED blocklistVars
    PROVE  StatsInv'
  <1>0. StatsTypes /\ view \in StatsViews /\ hist \in StatsHists /\ hist.loads \in Nat
    BY ViewTypes DEF StatsInv
  <1>1. r.kind = "toggle" /\ r.kind \in Stats!Blocks
    BY DEF Stats!Switched, Stats!Blocks
  <1>2. Stats!Loaded
    BY <1>0, <1>1 DEF StatsTypes
  <1>3. /\ Stats!Fresh(hist) \in StatsHists /\ Stats!Fresh(hist).loads = hist.loads + 1
        /\ Stats!Fresh(hist).shown = hist.shown /\ Stats!Fresh(hist).synced = hist.synced
    BY <1>0, HistFields
  <1>4. CASE r.stage = "ok"
    <2> DEFINE marks == [k \in Rankings |-> IF r.blocked THEN view.marks[k] \cup {r.domain}
                                            ELSE view.marks[k] \ {r.domain}]
    <2>1. view' = MarksPatched(view, marks)
      BY <1>4 DEF Stats!Switched, MarksPatched
    <2>2. r.domain \in Domain
      BY <1>0, <1>1, <1>4, ChangeShapes
    <2>3. \A k \in Rankings : view.marks[k] \in SUBSET Domain
      BY <1>0, <1>2 DEF Stats!Loaded, StatsViews
    <2>4. marks \in [Rankings -> SUBSET Domain]
      BY <2>2, <2>3
    <2>5. \A k \in Rankings : marks[k] = Patched(view.marks[k], r)
      BY DEF Patched
    <2> HIDE DEF marks
    <2>6. /\ view' \in StatsViews /\ view'.tab = view.tab /\ view'.loading = view.loading
          /\ view'.mount = view.mount /\ view'.asked = view.asked /\ view'.n = view.n
          /\ view'.got = view.got /\ view'.submitting = view.submitting
          /\ view'.marks = marks
      <3>1. marks \in [Rankings -> (SUBSET Domain) \cup {Stats!Unknown}]
        BY <2>4
      <3> QED BY <1>0, <2>1, <3>1, PatchedTypes
    <2>7. Stats!Loaded'
      BY <2>4, <2>6, StatsAssumption DEF Stats!Loaded, Stats!Unknown
    <2>8. \/ /\ view.tab = "blocked" /\ hist' = Stats!Fresh(hist)
             /\ net' = Stats!Turn(r, Stats!LoadBlocked("list"))
          \/ view.tab # "blocked" /\ net' = Stats!Done(r) /\ hist' = hist
      BY <1>4 DEF Stats!Switched
    <2>9. ListAsked(Stats!LoadBlocked("list"))
      BY DEF ListAsked, Stats!LoadBlocked, Stats!Lists
    <2>10. /\ hist' \in StatsHists /\ hist'.shown = hist.shown /\ hist'.synced = hist.synced
           /\ \/ hist'.loads = hist.loads + 1
              \/ hist'.loads = hist.loads /\ view.tab # "blocked"
      BY <1>0, <1>3, <2>8
    <2>11. \/ net' = Stats!Done(r)
           \/ \E new : /\ ListAsked(new) /\ net' = Stats!Turn(r, new)
                       /\ view.tab = "blocked" /\ hist'.loads = hist.loads + 1
      BY <1>3, <2>8, <2>9
    <2> QED BY <1>1, <1>4, <2>5, <2>6, <2>7, <2>10, <2>11, ChangeAnswered
  <1>5. CASE r.stage = "failed"
    <2> DEFINE h == Stats!Fresh(hist)
    <2>1. /\ net' = Stats!Done(r) /\ UNCHANGED view
          /\ hist' = [h EXCEPT !.synced = FALSE]
      BY <1>5 DEF Stats!Switched
    <2>2. h \in StatsHists /\ h.loads = hist.loads + 1 /\ h.shown = hist.shown
      BY <1>3
    <2> HIDE DEF h
    <2>3. /\ hist' \in StatsHists /\ hist'.shown = hist.shown /\ ~hist'.synced
          /\ hist'.loads = hist.loads + 1
      BY <2>1, <2>2 DEF StatsHists
    <2> QED BY <1>0, <1>1, <1>5, <2>1, <2>3, ChangeAnswered
  <1> QED BY <1>4, <1>5

LEMMA PanelAnswered ==
    ASSUME StatsInv, NEW r \in DOMAIN net, r.stage \in {"ok", "failed"}, Stats!PanelChanged(r),
           UNCHANGED blocklistVars
    PROVE  StatsInv'
  <1>0. StatsTypes /\ view \in StatsViews /\ hist \in StatsHists /\ hist.loads \in Nat
    BY ViewTypes DEF StatsInv
  <1>1. /\ r.kind \in {"add", "remove"} /\ r.kind \in Stats!Blocks
        /\ hist' = Stats!Fresh(hist)
    BY DEF Stats!PanelChanged, Stats!Blocks
  <1>2. /\ hist' \in StatsHists /\ hist'.loads = hist.loads + 1
        /\ hist'.shown = hist.shown /\ hist'.synced = hist.synced
    BY <1>0, <1>1, HistFields
  <1>3. ~hist'.synced
    BY <1>1, <1>2 DEF StatsInv, MarksFollow
  <1>4. CASE /\ Stats!Here(r) /\ UNCHANGED view
             /\ net' = Stats!Turn(r, Stats!LoadBlocked(IF r.kind = "add" THEN "added" ELSE "list"))
    <2> DEFINE new == Stats!LoadBlocked(IF r.kind = "add" THEN "added" ELSE "list")
    <2>1. ListAsked(new) /\ view.tab = "blocked" /\ net' = Stats!Turn(r, new)
      BY <1>4 DEF ListAsked, Stats!LoadBlocked, Stats!Lists, Stats!Here
    <2> HIDE DEF new
    <2> QED BY <1>0, <1>1, <1>2, <1>3, <1>4, <2>1, ChangeAnswered
  <1>5. CASE /\ net' = Stats!Done(r)
             /\ view' = Submitting(view, view.submitting /\ ~(Stats!Here(r) /\ r.kind = "add"))
    <2> DEFINE submitting == view.submitting /\ ~(Stats!Here(r) /\ r.kind = "add")
    <2>1. submitting \in BOOLEAN /\ (submitting => view.submitting)
      BY <1>0 DEF StatsViews
    <2>2. view' = Submitting(view, submitting)
      BY <1>5
    <2> HIDE DEF submitting
    <2>3. view.blocked \in (SUBSET Domain) \cup {Stats!Unknown}
      BY <1>0 DEF StatsViews
    <2>4. /\ view' \in StatsViews /\ view'.tab = view.tab /\ view'.loading = view.loading
          /\ view'.mount = view.mount /\ view'.asked = view.asked /\ view'.n = view.n
          /\ view'.got = view.got /\ view'.submitting = submitting
          /\ view'.marks = view.marks
      BY <1>0, <2>1, <2>2, <2>3, PanelTypes
    <2> QED BY <1>1, <1>2, <1>3, <1>5, <2>1, <2>4, ChangeAnswered
  <1> QED BY <1>4, <1>5 DEF Stats!PanelChanged, Submitting

\* Every step of the page and its server.
LEMMA StatsNext == StatsInv /\ BlocklistInv /\ Stats!Next => StatsInv'
  <1> SUFFICES ASSUME StatsInv, BlocklistInv, Stats!Next PROVE StatsInv'
    OBVIOUS
  <1>1. BlocklistOK
    BY DEF BlocklistInv
  <1>2. ASSUME NEW r \in DOMAIN net, Stats!Receive(r) PROVE StatsInv'
    <2>1. UNCHANGED blocklistVars
      BY <1>2 DEF Stats!Receive, blocklistVars
    <2>2. CASE r.stage = "sent" /\ Stats!Answered(r)
      BY <2>1, <2>2, QuestionAnswered
    <2>3. CASE r.stage \in {"ok", "failed"} /\ Stats!Ranked(r)
      BY <2>1, <2>3, RankingsArrive, RankingsMissing
    <2>4. CASE r.stage \in {"ok", "failed"} /\ Stats!ListedBlocked(r)
      BY <2>1, <2>4, RowsArrive
    <2>5. CASE r.stage \in {"ok", "failed"} /\ Stats!Switched(r)
      BY <2>1, <2>5, SwitchAnswered
    <2>6. CASE r.stage \in {"ok", "failed"} /\ Stats!PanelChanged(r)
      BY <2>1, <2>6, PanelAnswered
    <2> QED BY <1>2, <2>2, <2>3, <2>4, <2>5, <2>6 DEF Stats!Receive
  <1>3. ASSUME NEW r \in DOMAIN net, Stats!RequestFails(r) PROVE StatsInv'
    <2>1. r \in StatsRequests \/ RankRequest(r)
      BY DEF StatsInv, StatsTypes
    <2>2. r.kind \in Stats!Lists \cup Stats!Blocks \cup {"rank"}
      BY <1>3, <2>1, StatsShapes DEF Stats!RequestFails, Questions
    <2>3. CASE r.kind = "rank"
      BY <1>3, <2>3, RankingsFail
    <2>4. CASE r.kind \in Stats!Lists
      BY <1>1, <1>3, <2>4, PanelServed
    <2>5. CASE r.kind \in Stats!Blocks
      BY <1>3, <2>5, ChangeRefused DEF Stats!RequestFails
    <2> QED BY <2>2, <2>3, <2>4, <2>5
  <1>4. ASSUME NEW r \in DOMAIN net,
               \/ Stats!GetDomainStats(r) \/ Stats!ListBlockedDomains(r)
               \/ Stats!UpdateDomainBlockStatus(r) \/ Stats!Called(r)
        PROVE  StatsInv'
    BY <1>1, <1>4, RankingsRead, PanelServed, ChangeStarts, ChangeEnds
  <1>5. Stats!InFlight = DOMAIN net
    BY DEF Stats!InFlight, Stats!BagToSet
  <1> QED BY <1>2, <1>3, <1>4, <1>5, StatsEdit, CallsGoOn, ServerGone DEF Stats!Next

\* What the invariant says of the page.
LEMMA StatsShown == StatsInv => Stats!TypeOK /\ Stats!PanelIsStored /\ Stats!AnswersFit
  <1> SUFFICES ASSUME StatsInv PROVE Stats!TypeOK /\ Stats!PanelIsStored /\ Stats!AnswersFit
    OBVIOUS
  <1>0. StatsTypes
    BY DEF StatsInv
  <1>1. Stats!InFlight = DOMAIN net
    BY DEF Stats!InFlight, Stats!BagToSet
  <1>2. Stats!TypeOK
    BY <1>0 DEF StatsTypes, StatsViews, Stats!TypeOK
  <1>3. Stats!PanelIsStored
    <2>1. Stats!Quiet => DOMAIN net = {}
      BY <1>1 DEF Stats!Quiet
    <2>2. Stats!Quiet => NoBlocks
      BY <2>1 DEF NoBlocks
    <2>3. Stats!Quiet /\ Stats!UpToDate /\ view.tab = "blocked" => view.blocked = rows
      BY <2>2 DEF StatsInv, PanelListed, Stats!UpToDate
    <2>4. Stats!Quiet /\ hist.synced => \A k \in Rankings : view.marks[k] = blockedHosts
      BY <2>1, <2>2 DEF StatsInv, MarksFollow
    <2> QED BY <2>3, <2>4 DEF Stats!PanelIsStored
  <1>4. Stats!AnswersFit
    <2>1. \A kind \in {"paths", "trend"} : Fits(kind)
      BY DEF StatsInv, QuestionsFit
    <2> QED BY <1>1, <2>1 DEF Fits, Stats!AnswersFit
  <1> QED BY <1>2, <1>3, <1>4
=============================================================================
