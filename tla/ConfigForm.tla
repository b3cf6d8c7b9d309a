------------------------------ MODULE ConfigForm ------------------------------
(***************************************************************************)
(* DataSourceConfigForm: the fields of a data source by its type, and the  *)
(* text, mostly JSON, that they are kept in.  The text belongs to the      *)
(* dialog above (DataSourceManagement); the form has its own copy of every *)
(* field, writes the text at each change, and an effect reads the fields   *)
(* back whenever the text or the type has become another.  React runs the  *)
(* effect before the next event: a handler and its effect are one step.    *)
(*                                                                         *)
(* "plain" stands for the inputs of a type that are written as they are    *)
(* typed.  "rows" are its albums, its headers, its endpoints or its file   *)
(* extensions.  Text that is no JSON is a list of lines; saved, the lines  *)
(* of a manual source become JSON too, the object of its links.            *)
(***************************************************************************)
EXTENDS Requests, FiniteSets, Functions

CONSTANTS
    Text,       \* what may be typed
    Blank,      \* the empty text
    Trim,       \* what a text or a name is without the blanks around it
    Key,        \* names of headers
    Target,     \* endpoints that may be linked to
    MaxRows     \* bound on the rows of a list

vars == <<server, view, net, hist>>

Family == [manual |-> "lines", lankong |-> "lankong", api_get |-> "api",
           api_post |-> "api", endpoint |-> "endpoint", s3 |-> "s3"]
Types == DOMAIN Family
Families == {"lankong", "api", "endpoint", "s3"}

Empty == [of |-> "empty"]
Lines(rows) == [of |-> "lines", rows |-> rows]
Links(rows) == [of |-> "links", rows |-> rows]
IsJSON(config) == config.of \in Families \cup {"links", "quoted"}

\* JSON that was saved as the one link of a manual source, and what it was.
Quoted(config) == IF config.of = "quoted" THEN [config EXCEPT !.times = @ + 1]
                  ELSE [of |-> "quoted", text |-> config, times |-> 1]
Unquoted(config) == IF config.times > 1 THEN [config EXCEPT !.times = @ - 1]
                    ELSE config.text

MethodOf(type) == IF type = "api_post" THEN "POST" ELSE "GET"
\* What the form starts from, and reads where the text has no such field.
Default(family, type) ==
    [plain |-> Blank, method |-> MethodOf(type),
     rows |-> IF family = "lankong" THEN <<Blank>> ELSE <<>>]

NoPair == [key |-> Blank, value |-> Blank]
Complete(pair) == pair.key # Blank /\ pair.value # Blank
AtLeastOne(rows, row) == IF rows = <<>> THEN <<row>> ELSE rows

\* The rows at some places, in their order.
Filter(rows, at) ==
    [n \in 1..Cardinality(at) |->
        rows[CHOOSE i \in at : Cardinality({j \in at : j < i}) = n - 1]]
Without(rows, i) == Filter(rows, DOMAIN rows \ {i})
NonBlank(rows) == Filter(rows, {i \in DOMAIN rows : Trim[rows[i]] # Blank})

\* In an object a name keeps its first place and its last value.
Object(pairs) ==
    LET named(key) == {i \in DOMAIN pairs : Complete(pairs[i]) /\ pairs[i].key = key}
        names == Filter(pairs, {i \in DOMAIN pairs : i \in named(pairs[i].key) /\
                                   \A j \in named(pairs[i].key) : i <= j})
        last(key) == CHOOSE i \in named(key) : \A j \in named(key) : j <= i
    IN  [n \in DOMAIN names |-> pairs[last(names[n].key)]]

\* Headers are an object of the rows without the blanks around their texts.
Tidy(pair) == [key |-> Trim[pair.key], value |-> Trim[pair.value]]
Tidied(pairs) == [i \in DOMAIN pairs |-> Tidy(pairs[i])]
Headers(pairs) == Object(Tidied(pairs))

-----------------------------------------------------------------------------
(* The effect.                                                             *)

\* The fields of the type as the text has them. An empty list of extensions
\* is shared with the inputs, which get a first, blank one.
Read(config, type) ==
    LET family == Family[type]
    IN  IF config.of # family THEN Default(family, type)
        ELSE [plain |-> config.plain, method |-> config.method,
              rows |-> IF family = "s3" THEN AtLeastOne(config.rows, Blank) ELSE config.rows]

ReadBack(v) ==
    LET family == Family[v.type]
        fields == Read(v.config, v.type)
        read == [v EXCEPT !.fields[family] = fields]
    IN  IF ~IsJSON(v.config) \/ v.type = "manual" THEN v
        ELSE IF family = "api" THEN [read EXCEPT !.pairs = AtLeastOne(fields.rows, NoPair)]
        ELSE IF family = "s3" THEN [read EXCEPT !.inputs = AtLeastOne(fields.rows, Blank)]
        ELSE read

\* Mutant: the effect does not depend on the type.
MutAfter(v) == IF v.config = view.config THEN v ELSE ReadBack(v)

After(v) == IF v.config = view.config /\ v.type = view.type THEN v ELSE ReadBack(v)

-----------------------------------------------------------------------------
(* Mounting the form: for a new source, or to edit one.                    *)

NoSource == [type |-> "none", config |-> Empty]

\* The sources there are; tokens are those in localStorage.
Init ==
    /\ server = [tokens |-> {}, sources |->
           {[type |-> "manual", config |-> Links(<<"link">>)],
            [type |-> "api_post", config |->
                [of |-> "api", plain |-> Blank, method |-> "POST",
                 rows |-> <<[key |-> CHOOSE k \in Key : Trim[k] = k,
                             value |-> CHOOSE t \in Text : Trim[t] = t]>>]],
            [type |-> "s3", config |->
                [of |-> "s3", plain |-> Blank, method |-> "GET", rows |-> <<>>]]}]
    /\ view = [mounted |-> FALSE, editing |-> NoSource, type |-> "manual", config |-> Empty,
               fields |-> [f \in Families |-> Default(f, "manual")],
               pairs |-> <<NoPair>>, inputs |-> <<Blank>>, tokens |-> {}, names |-> FALSE]
    /\ hist = [commands |-> 0]
    /\ net = EmptyBag

Step == hist.commands < MaxCommands /\ hist' = Counted(hist) /\ UNCHANGED net

\* A form that is mounted already keeps its fields.
Shown(editing, type, config) ==
    view' = IF view.mounted
            THEN After([mounted |-> TRUE, editing |-> editing, type |-> type,
                        config |-> config, fields |-> view.fields, pairs |-> view.pairs,
                        inputs |-> view.inputs, tokens |-> view.tokens,
                        names |-> view.names])
            ELSE ReadBack([mounted |-> TRUE, editing |-> editing, type |-> type,
                           config |-> config,
                           fields |-> [f \in Families |-> Default(f, type)],
                           pairs |-> <<NoPair>>, inputs |-> <<Blank>>,
                           tokens |-> server.tokens, names |-> FALSE])

OpenNew ==
    /\ Shown(NoSource, "manual", Empty)
    /\ Step /\ UNCHANGED server

\* The links of a manual source are shown as lines; no links are no text. One
\* of another type shows what it has.
TextOf(s) ==
    CASE s.type = "manual" /\ s.config = Links(<<>>) -> Empty
      [] s.type = "manual" /\ s.config.of = "links" /\ s.config # Links(<<>>) ->
             Lines(s.config.rows)
      [] s.type = "manual" /\ s.config.of = "quoted" -> Unquoted(s.config)
      [] OTHER -> s.config

OpenSource(s) ==
    /\ s \in server.sources
    /\ Shown(s, s.type, TextOf(s))
    /\ Step /\ UNCHANGED server

\* The text stays as the other type has left it.
SelectType(type) ==
    /\ view.mounted /\ type # view.type
    /\ view' = After([view EXCEPT !.type = type])
    /\ Step /\ UNCHANGED server

Unmounted ==
    LET closed == [view EXCEPT !.mounted = FALSE] IN [closed EXCEPT !.editing = NoSource]

\* A manual source is saved as its links: comments and blank lines are left out,
\* and the JSON of another type is a line like any other.
Submitted ==
    [type |-> view.type,
     config |-> IF view.type # "manual" THEN view.config
                ELSE IF view.config = Empty THEN Links(<<>>)
                ELSE IF IsJSON(view.config) THEN Quoted(view.config)
                ELSE LET lines == view.config.rows
                     IN  Links(Filter(lines, {i \in DOMAIN lines : lines[i] = "link"}))]

\* The server refuses a new source without a text, and keeps the old text of
\* one that is edited.
Refused == Submitted.config = Empty /\ view.editing = NoSource
Stored ==
    IF Submitted.config # Empty THEN Submitted
    ELSE [type |-> view.type, config |-> view.editing.config]
Store == server' = [server EXCEPT !.sources = (@ \ {view.editing}) \cup {Stored}]

Submit ==
    /\ view.mounted /\ ~Refused
    /\ Store
    /\ view' = Unmounted
    /\ Step

\* Refused, failed or not answered, the form stays as it is; what it edits is
\* what the server has by then.
SubmitFails ==
    /\ view.mounted
    /\ \/ UNCHANGED <<server, view>>
       \/ /\ ~Refused
          /\ Store
          /\ view' = IF view.editing = NoSource THEN view
                     ELSE [view EXCEPT !.editing = Stored]
    /\ Step

Cancel ==
    /\ view.mounted
    /\ view' = Unmounted
    /\ Step /\ UNCHANGED server

-----------------------------------------------------------------------------
(* The fields.                                                             *)

Shows(family) == view.mounted /\ Family[view.type] = family /\ UNCHANGED server /\ Step
Written(v, family, fields) ==
    LET filled == [v EXCEPT !.fields[family] = fields]
    IN  After([filled EXCEPT !.config = [of |-> family, plain |-> fields.plain,
                                         method |-> fields.method, rows |-> fields.rows]])

TypeLines(rows) ==
    /\ Shows("lines")
    /\ view' = After([view EXCEPT !.config = IF rows = <<>> THEN Empty ELSE Lines(rows)])

\* The inputs of a type that are no rows: updateAPIConfig, updateS3Config and
\* the token and base URL of Lankong. (A URL is trimmed: it is another text.)
UpdatePlain(family, text) ==
    /\ Shows(family)
    /\ view' = Written(view, family, [view.fields[family] EXCEPT !.plain = text])

Albums == view.fields["lankong"].rows
WriteAlbums(rows) ==
    view' = Written(view, "lankong", [view.fields["lankong"] EXCEPT !.rows = rows])

AddAlbumId ==
    Shows("lankong") /\ Len(Albums) < MaxRows /\ WriteAlbums(Append(Albums, Blank))
RemoveAlbumId(i) ==
    Shows("lankong") /\ Len(Albums) > 1 /\ WriteAlbums(Without(Albums, i))
UpdateAlbumId(i, text) ==
    Shows("lankong") /\ WriteAlbums([Albums EXCEPT ![i] = text])

\* The tokens of a browser, which every form reads when it is mounted.
KeepTokens(tokens) ==
    /\ view.mounted /\ view.type = "lankong"
    /\ view' = [view EXCEPT !.tokens = tokens]
    /\ server' = [server EXCEPT !.tokens = tokens]
    /\ Step
SaveToken ==
    LET token == view.fields["lankong"].plain
    IN  Trim[token] # Blank /\ KeepTokens(view.tokens \cup {token})
DeleteToken(token) == token \in view.tokens /\ KeepTokens(view.tokens \ {token})
UseToken(token) == token \in view.tokens /\ UpdatePlain("lankong", token)

\* A row of headers is written when it is complete. A blank one changes no
\* text, so that it stays until the next change of the text.
AddHeader ==
    /\ Shows("api") /\ Len(view.pairs) < MaxRows
    /\ view' = [view EXCEPT !.pairs = Append(@, NoPair)]

UpdateAPIHeaders(pairs) ==
    view' = Written([view EXCEPT !.pairs = pairs], "api",
                    [view.fields["api"] EXCEPT !.rows = Headers(pairs)])
\* Mutant: the row after the one that is meant.
MutRemoveHeader(i) ==
    Shows("api") /\ i < Len(view.pairs) /\ UpdateAPIHeaders(Without(view.pairs, i + 1))

RemoveHeader(i) ==
    Shows("api") /\ Len(view.pairs) > 1 /\ UpdateAPIHeaders(Without(view.pairs, i))
UpdateHeader(i, field, text) ==
    Shows("api") /\ UpdateAPIHeaders([view.pairs EXCEPT ![i][field] = text])

\* Mounted for an endpoint, or switched to it, the form asks for the endpoints.
LoadAvailableEndpoints ==
    /\ Shows("endpoint") /\ ~view.names
    /\ view' = [view EXCEPT !.names = TRUE]

ToggleEndpoint(e) ==
    LET ids == view.fields["endpoint"].rows
    IN  /\ Shows("endpoint") /\ view.names
        /\ view' = Written(view, "endpoint", [view.fields["endpoint"] EXCEPT !.rows =
               IF e \in Range(ids) THEN Filter(ids, {i \in DOMAIN ids : ids[i] # e})
               ELSE Append(ids, e)])

\* Extensions are written without the blank ones, which stay as headers do.
AddExtension ==
    /\ Shows("s3") /\ Len(view.inputs) < MaxRows
    /\ view' = [view EXCEPT !.inputs = Append(@, Blank)]

UpdateExtensions(inputs) ==
    view' = Written([view EXCEPT !.inputs = inputs], "s3",
                    [view.fields["s3"] EXCEPT !.rows = NonBlank(inputs)])
\* Mutant: the last one too may be removed.
MutRemoveExtension(i) == Shows("s3") /\ UpdateExtensions(Without(view.inputs, i))

RemoveExtension(i) ==
    Shows("s3") /\ Len(view.inputs) > 1 /\ UpdateExtensions(Without(view.inputs, i))
UpdateExtension(i, text) ==
    Shows("s3") /\ UpdateExtensions([view.inputs EXCEPT ![i] = text])

Next ==
    \/ OpenNew \/ Submit \/ SubmitFails \/ Cancel
    \/ \E s \in server.sources : OpenSource(s)
    \/ \E type \in Types : SelectType(type)
    \/ \E rows \in {<<>>, <<"link">>, <<"link", "comment">>} : TypeLines(rows)
    \/ \E text \in Text \cup {Blank} :
          \/ \E family \in Families \ {"endpoint"} : UpdatePlain(family, text)
          \/ \E i \in DOMAIN Albums : UpdateAlbumId(i, text)
          \/ \E i \in DOMAIN view.pairs : UpdateHeader(i, "value", text)
          \/ \E i \in DOMAIN view.inputs : UpdateExtension(i, text)
    \/ AddAlbumId \/ \E i \in DOMAIN Albums : RemoveAlbumId(i)
    \/ SaveToken \/ \E token \in Text : DeleteToken(token) \/ UseToken(token)
    \/ AddHeader
    \/ \E i \in DOMAIN view.pairs :
          RemoveHeader(i) \/ \E key \in Key \cup {Blank} : UpdateHeader(i, "key", key)
    \/ LoadAvailableEndpoints \/ \E e \in Target : ToggleEndpoint(e)
    \/ AddExtension \/ \E i \in DOMAIN view.inputs : RemoveExtension(i)

Spec == Init /\ [][Next]_vars

-----------------------------------------------------------------------------
(* Properties.                                                             *)

TypeOK ==
    /\ view.type \in Types /\ view.config.of \in Families \cup {"empty", "lines", "links", "quoted"}
    /\ view.pairs # <<>> /\ view.inputs # <<>>

\* The form shows what the text says by the rules of its type, after every way
\* the text, the type and the source may have changed. Rows that are not
\* complete are shown only. (The method has no input: PostSourcesPost.)
FormShowsText ==
    LET family == Family[view.type]
    IN  view.mounted /\ view.type # "manual" /\ IsJSON(view.config) =>
            LET fields == Read(view.config, view.type)
            IN  /\ view.fields[family].plain = fields.plain
                /\ family = "lankong" \/ family = "endpoint" =>
                       view.fields[family].rows = fields.rows
                /\ family = "api" => Headers(view.pairs) = fields.rows
                /\ family = "s3" => NonBlank(view.inputs) = NonBlank(fields.rows)

\* A header that is complete, and whose name no other row has, stays where it
\* is shown, and in the text, while another row is typed in or removed. Blanks
\* around its name and its value are no part of it.
LeavesOtherHeaders ==
    \A i \in DOMAIN view.pairs :
       RemoveHeader(i)
       \/ (\E key \in Key \cup {Blank} : UpdateHeader(i, "key", key))
       \/ (\E text \in Text \cup {Blank} : UpdateHeader(i, "value", text)) =>
           \A j \in DOMAIN view.pairs \ {i} :
               LET rows == Tidied(view.pairs)
                   next == Tidied(view'.pairs)
               IN  Complete(rows[j])
                   /\ (\A l \in DOMAIN rows \ {j} : rows[l].key # rows[j].key)
                   /\ (\A l \in DOMAIN next : next[l].key = rows[j].key => next[l] = rows[j])
                   => rows[j] \in Range(view'.config.rows) \cap Range(next)

\* A source of the type for POST is asked with POST.
PostSourcesPost ==
    \A s \in server.sources :
       s.type = "api_post" /\ s.config.of = "api" => s.config.method = "POST"
=============================================================================
