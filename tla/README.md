# A formal model of random-api-go

`random-api-go` answers a request for a public path with a redirect to a URL
drawn at random from the data sources an administrator has attached to that
path; the administrator works through a web frontend. This directory holds TLA+
modules of the parts of the Go server where goroutines, a database, files and
slow upstreams meet, and of the pages of the frontend, whose requests cross each
other; TLC configurations that check them on small instances; and proofs,
checked by TLAPS, of what holds for instances of any size.

1. [Inventory](#1-inventory) - the parts of the system and what is hard about them
2. [Plan](#2-plan) - the modules in the order they are written
3. [The modules](#3-the-modules) - state and actions against the code
4. [The runs](#4-the-runs) - what each checks, its bounds, the fairness assumed
5. [The proofs](#5-the-proofs) - what is proved, from what, and how
6. [Where code and documentation part](#6-where-code-and-documentation-part)
7. [What is not modelled](#7-what-is-not-modelled)

Paths are relative to `src/`. `PROJECT.json` maps each definition to the lines
it models and lists the hazards and, for each property, a change to the code
that would break it.

## 1. Inventory

The server is one process: an HTTP server, a handful of goroutines that live
as long as the process, one SQLite database reached through a pool of a single
connection (`database/database.go:71`), and a JSON file of call counters.

| Part | State it keeps | Operations |
|---|---|---|
| Data source cache and fetcher (`service/cache_manager.go`, `service/data_source_fetcher.go`) | URL lists by data source id, in memory, no expiry | `FetchURLs(WithOptions)`, `RefreshDataSource`, `PreloadDataSource`, stamping `last_sync` |
| Endpoint service (`service/endpoint_service.go`) | tables `api_endpoints`, `data_sources`, `url_replace_rules` | CRUD, `GetRandomURL` (which recurses into other endpoints), counts |
| Preloader (`service/preloader.go`) | `running`, `paused`, `stopChan`, a loop goroutine | start, stop, pause, resume, preload on save, periodic check |
| Start-up (`initapp/init.go`) | a semaphore of five | preload all sources with the preloader paused |
| Call statistics (`stats/stats.go`) | counters behind a mutex, `isDirty`, `data/stats.json` | count, periodic save, daily reset, shutdown |
| Public handler (`handler/handler.go`) | a goroutine and a one-place channel per request; a five-minute cache of URL counts | `HandleAPIRequest`, `HandleURLStats` |
| Lifecycle (`main.go`) | - | start, `gracefulShutdown` |
| Domain statistics (`service/domain_stats_service.go`) | a map in memory, tables `domain_stats` and `daily_domain_stats` | count, flush every minute, clean up, rankings |
| Domain blocklist (same file) | a set in memory, table `blocked_domains` | block, unblock, reload, ask |
| Fetchers (`service/{lankong,s3,api}_fetcher.go`) | none | page through an upstream, retry |
| Configuration store (`database/database.go`) | a cache with a time to live, table `configs` | get with default, set |
| Schema migration (`database/database.go`) | the schema | rebuild `data_sources` without its CHECK constraint |
| Admin handlers (`handler/admin_handler.go`) | - | the administrator's side of all the above |
| Middleware and router (`middleware/`, `router/`) | a token cache, rate-limit buckets | the chain around every request |
| Metrics, static files, logging | counters for a log line | - |

The frontend is a single-page application (`web/`). Each page keeps its state in
React components and asks the server with `fetch`, through
`authenticatedFetch` for the administrator; a tab shows one page at a time, and
tabs of a browser share their cookies.

| Page | State it keeps | Operations |
|---|---|---|
| Login (`app/admin/layout.tsx`, `components/admin/LoginPage.tsx`, `lib/auth.ts`) | cookies with the token, the OAuth state of a tab, whether it is logged in | log in through the provider, come back, log out, be refused |
| Endpoints (`app/admin/page.tsx`, `EndpointsTab.tsx`) | the table, three dialogs with one form between them | create, edit, delete, drag into another order |
| Data sources (`DataSourceManagement.tsx`) | the endpoint chosen, its rows, a form | create, edit, switch, delete, sync |
| Configuration of a source (`DataSourceConfigForm.tsx`) | the fields of each type, kept beside the JSON text they stand for | type, add and remove rows, change the type |
| Rules (`app/admin/rules/page.tsx`, `URLRulesTab.tsx`) | the table, a form above it | create, edit, switch, delete |
| Domain statistics (`DomainStatsTab.tsx`, `domain-stats/`) | rankings, a panel of blocked domains, a dialog of paths, a chart | block and unblock, choose a domain, a range, days |
| Home page editor (`app/admin/home/page.tsx`, `HomeConfigTab.tsx`) | the text stored and the text typed | type, save, reset |
| Public home page (`app/page.tsx`) | the answers of six requests, a mark on a copied URL | load, copy |

How they interact:

- A request runs `GetRandomURL`, which copies rows from the database and asks
  the fetcher for the URLs of one source; the fetcher looks in the cache, asks
  the upstream, stores the list and stamps `last_sync`. A save by the admin, a
  manual sync, the start-up, the URL counts and the periodic check all run the
  same steps in goroutines of their own, with no lock around more than one map
  access.
- The worker of a request counts the call in the statistics; the middleware
  counts it once more by domain.
- A page sends its requests side by side and patches or reloads its tables as
  the answers come, in whatever order they do; one that fails cannot tell whether
  the server has done what was asked. A 401 clears the cookies of all the tabs.
- `gracefulShutdown` stops the statistics, then the database, then the HTTP
  server, in this order, while requests are still being served.

What is hard about each, and what makes it right:

- **Cache and fetcher.** Goroutines hold copies of a row for as long as an
  upstream takes (minutes), while the admin edits, deletes or re-creates it;
  upstreams fail or return nothing. Right means: a reader sees a whole list its
  own source produced; a failure never takes down a source that is cached; a
  forced refresh brings new content; an API source is never cached; nobody
  overwrites what the admin saved.
- **Preloader and start-up.** A flag and a channel are read and written by
  three goroutines. Right means: no check starts while the start-up preloads,
  checks come back afterwards, Stop stops, permits are neither lost nor exceeded.
- **Call statistics.** A dirty flag, a file write that is not atomic, a
  midnight timer and a shutdown. Right means: a redirect is counted before it
  is sent, clean counters are on disk, an orderly exit keeps what was counted,
  every request gets an answer within its deadline.
- **Domain statistics.** A swap outside the transaction that stores what was
  swapped, and rankings that read both sides. Right means: nothing is counted
  twice or forgotten, two tables agree, a cleanup never cuts into what can be
  asked for.
- **Blocklist.** Write, read back and install without a lock. Right means: the
  memory follows the table.
- **Endpoints and resolver.** Tables that change between the queries of one
  request, links that are followed by path, recursion without a bound. Right
  means: an answer is one that the tables allow, with the rules of each endpoint
  of its chain applied once and in order, and a request whose links lead in no
  circle comes through no endpoint twice.
- **Fetchers.** Paging over an upstream that changes, retry and partial lists.
  Right means: a list lacks only what failed to the last retry or what a change
  shifted away, a bucket listing is complete or an error, and each fetch ends.
- **Configuration, migration, middleware.** Invalidation against a fill in
  flight; crashes between the statements of a migration; a cached token, a
  bucket table that is dropped as a whole. Right means: the cache has the stored
  value once a change is through.
- **Pages.** Lists that overtake one another, answers to a dialog that was
  closed or now shows another row, whole rows sent back by a form that was opened
  on older ones, a sort order written row by row, a form whose fields are kept
  twice, a refusal that logs out whoever has logged in since. Right means: once
  everything is answered a page shows what is stored; a form changes what was
  typed and nothing else; a dialog is the one that was opened; nothing typed is
  overwritten; a login is lost to its own refusal only.

## 2. Plan

The order follows what a failure would cost the users of the server.

| # | Module | Of | Abstract specification | Status |
|---|---|---|---|---|
| 1 | `SourceCache` | cache, fetcher, and everyone who calls them | `PublishedLists` | modelled, checked, proved |
| 2 | `CallStats` | statistics, public handler, shutdown | - | modelled, checked, proved |
| 3 | `DomainCounts` | domain statistics | - (a conservation law) | modelled, checked, proved |
| 4 | `DomainBlocklist` | blocklist | - | modelled, checked through `StatsPage`, proved |
| 5 | `Preloader` | preloader life cycle, start-up | - | modelled, checked, proved |
| 6 | `Endpoints` | endpoint, source and rule tables, soft deletes against unique indexes | - | modelled, checked and proved through `Resolver` |
| 7 | `Resolver` | `GetRandomURL`: choice, recursion into endpoints, replace rules | `AnswersWithin`, the answers the tables allow | modelled, checked, proved |
| 8 | `LankongFetch`, `S3Listing`, `Fetchers` | the fetchers that page | what the upstream holds, in order | modelled, checked, proved |
| 9 | `Requests` | the requests between a page and the server | - | modelled |
| 10 | `EndpointsPage`, `SourceDialog`, `RulesPage` | the three tables and their forms, with the handlers of the server and the sort order | what the server stores | modelled, checked, proved |
| 11 | `ConfigForm` | the fields of a data source and their JSON | the text that is saved | modelled, checked, proved |
| 12 | `StatsPage` | the page of domain statistics over `DomainBlocklist` | `BlocklistSpec` of `DomainBlocklist` | modelled, checked, proved |
| 13 | `HomeEditor` | the home page editor over the configuration store | a register | modelled, checked, proved |
| 14 | `AdminSession` | tabs, cookies, OAuth, the token cache of the middleware | - | modelled, checked, proved |
| 15 | `PublicHome` | the public home page | - | modelled, checked, proved |
| 16 | `TablePages`, `AdminPages` | one page in a tab; the first composes 10 and 12, the second adds 11 and 13 to 15 | - | modelled, checked, proved |
| 17 | `Migration` | `cleanupOldConstraints` with crashes | the same rows, before and after | left, section 7 |

`SourceCache` composes the fetcher, the cache and its callers, because their
interleaving is the point; `Preloader` holds the pause and the life of the loop
whose body (`StartCheck`, `CheckSource`, `EndCheck`) is in `SourceCache`.
`Resolver` extends `Endpoints` and rests on the promise of `PublishedLists` for
the lists it draws from. `Fetchers` puts the two paging fetchers behind the type
of a data source; its outcomes are what `FetchList`, `FetchNothing` and
`FetchFails` of `SourceCache` abstract from. `TablePages` has an
instance of each page that shows a table of the server, and `AdminPages`, which
extends it, one of each other page; one of them all is mounted, on the same four
variables. The two are apart for the sake of the proofs: what is proved of the
tables knows nothing of the other pages.

The theorems, in the order of what they are worth: the invariants of
`SourceCache` and that it implements `PublishedLists`; `CallStats`;
`DomainCounts`; `Resolver`; the pages and the blocklist below them; the pause of
`Preloader`; the lists of `Fetchers` (all done). What is left is liveness, which
stays with TLC. No module uses a RECURSIVE operator: `Select` of `Lists` and the
reference of `Resolver` are recursive functions, that of `LankongFetch` is a
flattened list of pages.

## 3. The modules

Each component has a module, an `MC` module that extends it with model values
and symmetry sets, and one or more configurations. Properties stand at the end
of the component's module, and, after a heading that says so, claims that the
documentation makes and the code does not keep. Next to an action stands, as
`Mut...`, the change to it that shows that a property has teeth; no
specification uses these. Variables commented as "history" record the past for
a property and guard nothing.

### SourceCache, PublishedLists

| Model | Code |
|---|---|
| `dataSources` | table `data_sources`: state of the soft delete, type and config (one value, `TypeOf` gives the type), `is_active`, `last_sync` as never, younger or older than 24 h |
| `memoryCache` | `CacheManager.memoryCache` under the key `datasource_<id>` |
| `upstream` | the host behind a source; content is a generation |
| `job` | goroutines: `Worker` slots for requests and admin calls, a slot named after each source for the goroutine the periodic check starts |
| `check` | `checkAndRefreshExpiredData`: asleep, or with rows still to look at |
| `had` | history: configurations a row has held |

A URL list is the configuration it was fetched under and the generation it
shows. A fetch is five steps (`Lookup`, `FetchList` or `FetchNothing` or
`FetchFails`, `Store`, `Stamp`, for the periodic refresh also `Restamp`), since
nothing in `FetchURLsWithOptions` spans two of them. `kind` says who runs the
fetch: a request, a save, a sync (the one that skips the cache), a count, a
tick. An admin's update is two steps, because the handler saves the whole row it
read before it parsed the request (`ReadForUpdate`, `SaveDataSource`); its Save
of a row that was deleted meanwhile inserts it again, with `is_active` at its
column default, and the model does that too (`Inserted`).

`PublishedLists` is what a reader is promised: for each source nothing or one
whole list that the source produced under a configuration it held, replaced at
once and never withdrawn until the process restarts. `KeepsPromise` is that
`SourceCache` implements it under the mapping of `memoryCache` to `shown`.

### CallStats

`req[r]` holds both goroutines of a request and the channel between them;
`stats`, `dirty`, `writer` (who holds the mutex while writing) and `file` are
the StatsManager and `stats.json`; `saver`, `resetter` and `due` its two
goroutines; `phase` is where `gracefulShutdown` is. `os.WriteFile` truncates and
then writes, so a save is `BeginSave` and `EndSave` and a crash between them
leaves a file that does not parse, from which the next start loads nothing. A
write may fail; the ticker clears `isDirty` all the same, and
`SettlesInTheEnd` says of a write only that it ends with the file written or
with an error. Requests go on being
accepted until `server.Shutdown`, the last of the steps.

### DomainCounts

`memoryStats`, the two tables, and the flush as three steps: `Swap` under the
lock, `DateBatch` where the date is taken, and `Commit` or `FlushFails` for the
transaction, one step for everyone else because the pool has one connection. A
ranking (`query`) reads a table, then the memory, as the code does. The clock
counts half days, so that truncation to a day and the cutoff of a cleanup can be
told from their neighbours. `Restart` loses what is not in the tables, since
`main.go` flushes nothing.

### DomainBlocklist

A `SetBlocked` call is `WriteRow`, `ReadRows`, `Install`; `CallFails` may end it
after each database access; a `Restart` loads the table or, when that fails,
nothing. `Placeholder` are the names that stand for no host.

### Preloader

`Start`, `Stop`, the loop (`BeginCheck`, `EndCheck`, `EndLoop`) and `InitData`
(`InitService`, `Pause`, `ListEndpoints`, `Acquire`, `Release`, `Wait`,
`Resume`). `ListEndpoints` may fail, which returns from `InitData` early. Stop
closes a channel that Start does not make again, as in the code: a loop that is
started afterwards ends after its first check.

### Endpoints, Resolver

`Endpoints` has the three tables and one action per admin call that writes one.
A row's `status` is "none" before it exists and "deleted" after a soft delete;
`Taken` is the unique index on paths, which deleted rows stay in. `held` of a
source collects the configurations it has had, because a cached list may be of
any of them; a configuration is `Plain` or the endpoint it links to.
`DeleteEndpoint` leaves sources and rules alone: gorm deletes selected
associations only when its model has a primary key, and the code passes an empty
one. A create of an endpoint brings no data sources: the frontend sends none.

`Resolver` has one request, `req`, since requests share nothing but the tables.
`path` holds the frames of the recursion. A frame goes through `Find`
(`GetEndpointByURL`), `Pick`, `Fetch` and, for a link, `FollowLink`
(`GetEndpoint` of the id, then its path is asked for), and `Apply` on the way
back, which looks the endpoint up by its path again. Admin calls come between
any two of them. `getRandomURLRealtime` and `getRandomURLWithCache` are the same
code but for a comment and are modelled once. `AnswersWithin` defines, from the
tables alone and with links followed by id, the source and the rules that an
answer may have.

### LankongFetch, S3Listing, Fetchers

`LankongFetch`: `albums` are the images at the host, newest first; `lk` is the
fetch, with the album and page it is at, the retries of the current request and
what it has collected. `FirstAnswers` learns the number of pages, `PageAnswers`
collects a page, `RequestFails` retries or leaves out. `AlbumChanges` adds or
removes an image between requests. `AlbumsTo` is the reference, from what the
albums held when the fetch began and the pages that were missed.

`S3Listing`: the `bucket` holds keys, numbered in their order; `shape` says which
are wanted objects, other objects, or folders that the delimiter rolls up, which
count for a page but are not in its contents. `After` is where the two versions
differ. `BucketChanges` adds or removes a key between requests. Both fetchers keep
the elements of a list that pass a test, in their order: `Select` of `Lists`.

### Requests and the pages

`Requests` has the four variables that every page uses in a shape of its own:
`server`, what the server stores; `view`, the state of the page's components;
`net`, a bag of requests, each with its `stage` from "sent" over "ok" or
"failed" until the page has handled it; `hist`. A handler of the server that
reads and writes in one transaction is one action, one that does not is several
(the steps of a sort order, of `GetConfig` and `SetConfig`, of `SetBlocked`, of
the rankings, and the updates that find a row and save all its columns later:
`FindSource` and `SaveSource`, `FindURLReplaceRule` and `UpdateURLReplaceRule`,
between which the row may be deleted, and comes back). `Fails` loses a request before the server has served it, or the
answer after.

| Module | Model | Code |
|---|---|---|
| `EndpointsPage` | `server[e]` with text, switches and order; `view.list`, `dialog`, `target`, `form` | `EndpointsTab`: the table, the dialog and the row it is about, `formData`; a drag is one request that the server writes row by row |
| `SourceDialog` | `view.selected`, `rows`, `known`, `editing`, `form` | `selectedEndpoint`, its `dataSources`, the rows in the page's list, the form of `DataSourceManagement` |
| `RulesPage` | `view.list`, `names`, `open`, `editing`, `form`; `created` of a row | the table, the endpoints that can be chosen, the form of `URLRulesTab` |
| `ConfigForm` | `view.config`, `type`, `fields`, `pairs`, `inputs` | the text, the type, the copy of each type's fields, header rows, extension rows; `ReadBack` is the effect; `Trim` takes the blanks off a text; `links` and `quoted` are what the lines of a manual source, or JSON saved as one, become |
| `StatsPage` | `view.marks`, `blocked`, `asked`, `got`, `n` | `is_blocked` in the rankings, the panel's rows, the question and the answer of the dialog and of the chart; `n` is the cleanup of an effect |
| `HomeEditor` | `server.row`, `cache`; `view.config`, `content` | row and cache entry of `homepage_content`; what the page takes for stored, the text area |
| `AdminSession` | `view.cookie`, `user`, `tabs`; `server.alive`, `cached` | the two cookies, the state of each tab; tokens the provider knows, those in the cache of `auth.go` |
| `PublicHome` | `view.outcome`, `section`, `mark`, `timers` | the six requests, the sections, the mark of a copied URL |

In `AdminSession` the cookies of token and user are written one after the other
(`CheckURLParams`, then `SaveUser`) and removed likewise (`RemoveUser`), with
steps of other tabs in between; each may expire (`TokenCookieExpires`,
`UserCookieExpires`); and `CheckAuth`, which a load of the page runs, removes a
token that it finds without a user. In `RulesPage` an update saves the row as it
was decoded, so that `created` is lost. In `ConfigForm` a create that the server
refuses (`SubmitFails`) leaves the form as it is.

History tells when a property may be asked for: `loads` and `shown` number the
fetches of a list and the last to arrive, so that `UpToDate` excludes a list that
was overtaken; `fresh` says that a form was opened on a row as stored, `touched`
what was typed in it since, `raced` whose two edits crossed; `synced`, `dropped`,
`chosen`, `calm`, `typed`, `token` are explained where they are declared. What
they exclude is real: the code orders no answers, and of two that cross the last
to arrive stays on the page.

## 4. The runs

All bounds are constants. `Max...` bounds stand in guards and stop counting,
never the rest of the system.

| Run | Properties | What it shows |
|---|---|---|
| `source_cache_races` | `TypeOK`, `RefreshIsNew`, `CachedNeverFails`, `JobsWriteOnlyLastSync` | two goroutines, the check and its goroutine race over one remote source: a refresh brings content no older than itself, a cached source always answers, no goroutine writes an old row back |
| `source_cache_types` | `OnlyGenuineLists`, `ApiIsLive`, `KeepsPromise`, `WorkEnds` | a source is switched between remote, empty manual, endpoint and API while goroutines hold copies and the upstream changes: the cache implements `PublishedLists`, API answers are live; every fetch and every check ends |
| `call_stats` | `EveryRedirectIsCounted`, `CleanMeansSaved`, `GracefulKeepsEarlierCalls`, `TodayIsToday`, `RequestsEnd`, `SettlesInTheEnd` | two requests, a failing disk, a midnight, crashes and restarts; deadlines, abandoned workers, saves and the shutdown all come to an end, a save with the counters in the file or with an error of the disk |
| `domain_counts` | `Conserved`, `TotalsMatchDays`, `RankingsAreRight`, `MemoryIsFlushed` | flushes, failures, restarts, cleanups and rankings over three days |
| `preloader` | `TypeOK`, `NoCheckBeginsDuringInit`, `InitEnds`, `LoopLivesUntilStop` | three sources, two permits, two starts |
| `resolver` | `QuietAnswersAreRight`, `QuietRequestsComeThroughOnce` | a request through links between two endpoints while the admin creates, renames, switches off, deletes and revives rows |
| `fetchers` | `AlbumsAreFound`, `ListingsAreComplete`, `FetchesEnd` | both paging fetchers over an upstream that fails and changes |
| `admin_pages` | `TypeOK`, `TablesAreStored`, `UntouchedFieldsStay`, `DropsStick`, `WindowsAreChosen`, `FormShowsText`, `OtherHeadersStay`, `CacheIsStored`, `TypedTextStays`, `HomeIsComplete`, `LoginIsKept`, `PlaceholdersPass`, `CallsAloneSync` | every page with its handlers on the server, over requests that cross, fail and get lost while the administrator goes on clicking; two admins of the blocklist |
| `preloads_are_stale` | `PreloadsFetch` | a preload that brings the old list: section 6, as are the next three |
| `global_rules_ignored` | `GlobalRulesApply` | a rule without an endpoint changes nothing |
| `rule_switch` | `SwitchWorks` | the switch of a rule is refused |
| `post_sources` | `PostSourcesPost` | a new POST source is asked with GET |

Why the bounds are enough:

- *SourceCache.* Sources do not interact: every cache entry, row and upstream is
  read and written by its own id only, so one source shows every race. Two
  worker slots and the slot of the periodic check give three goroutines at once,
  with a slot free to be an edit between two fetches. One change of upstream
  content tells old from new. `source_cache_types` has one worker and the
  check's goroutine, four configurations and one upstream change, so that a list
  kept from before it is told from a live one: what mixing types does to the cache
  needs two goroutines with different copies. The theorems remove all three bounds
  for the safety properties.
- *CallStats.* Two requests of one endpoint (entries are independent), two
  calls, one midnight. The theorems remove these bounds for the safety
  properties.
- *DomainCounts.* One key (keys are summed apart), two requests, a window and a
  retention of two days, and six half days, so that days leave both the window
  and the retention while rankings are under way. The theorems hold for any
  keys, numbers, windows and clock.
- *DomainBlocklist.* Two slots for calls, which overlap in every order; a host
  and a placeholder. The theorems hold for any.
- *Resolver.* Two endpoints, two paths, two sources and a rule, in five admin
  calls: enough for a chain of two endpoints with a URL at its end and a rule,
  or for a link and a rename onto its path. Chains are cut at three frames
  (`MaxDepth`), one more than there are endpoints, so that a frame too many is
  seen; the code has no such bound, and with links in a circle it recurses until
  it draws something else. The theorems hold for any tables, any number of
  calls and any `MaxDepth`.
- *Fetchers.* Four images in two albums with a page each, so that every change
  shifts an image over a page boundary, one retry and two changes; four keys of
  every shape in pages of two, so that a page of folders alone comes up, at the
  start, between objects and at the end, and two changes. The theorems hold for
  any albums, keys, page sizes, retries and changes.
- *Preloader.* More sources than permits; two starts, so that a loop started
  after Stop is there.
- *AdminPages.* Two requests in flight at once on every page (two more where a
  page is mounted with two), so that answers come in either order, and a command
  that races with another. `Commands` gives each page as many as its properties
  need to fail under a plausible change of the code: two for the tables, which
  are a change and one that crosses it; three for the dialog of sources (open it,
  close it, open another) and the editor (a save, a visitor, a second save); two
  for the session (a call of each of two tabs, or an old and a new one), beside the
  steps that need no command: loads, logins, the cookies; four for the statistics
  (go to a tab, change something, come back); six for a form of configurations,
  where only a change of type, a row and its fields in turn, typed with blanks
  around them, show what the two copies of a field do to each other. Three
  endpoints or rules, of which the last is not there yet; two sources of two
  endpoints; two rows of albums, headers or extensions; two tabs, two logins. The
  theorems remove all of these bounds for every property of the run.

Fairness and why the code justifies it:

- *SourceCache*: weak fairness of the steps of goroutines and of the check. The
  Go scheduler runs every goroutine, and every upstream call has a timeout in
  its HTTP client or context, so a fetch ends with a list, nothing or an error. Weak
  fairness of the fetch as a whole, not of its outcomes: no upstream has to
  succeed. No fairness for the admin, requests, upstream changes or restarts.
- *CallStats*: weak fairness of the steps of a handler, which has a timer, and of
  those of a worker that has its result (`QueryEndpoint` and `FetchURL` may
  hang); of the ticker, the timer and the shutdown sequence, each as a whole.
- *DomainCounts*: weak fairness of the flush.
- *Fetchers*: weak fairness of the Lankong fetch as a whole, whose requests have
  a timeout, of the steps of a listing, and of its failure, since its context
  has a deadline: what goes on for ever is ended by it. No fairness of a success.
- *Preloader*: weak fairness of the loop and of `InitData`; strong fairness of
  `Acquire`, since a Go channel serves its blocked senders in order, and of
  `EndLoop`, since a `select` with two ready cases chooses at random.
- *Pages*: none. No answer has to come, and no property waits for one.

Deadlock is checked in all runs of the server. It is not in those of the pages:
an administrator whose commands are used up, or a form that has been saved,
really may stop there.

## 5. The proofs

Checked by TLAPS with its SMT and Zenon backends and, for temporal steps, LS4.
Nothing is assumed but the named `ASSUME`s on constants in the component's
modules, which TLC evaluates in every run.

**`SourceCacheProofs`**, for any sets of sources, goroutine slots and
configurations and any `MaxGen`:

- `TypeCorrect`: `Spec => []TypeOK`, directly inductive.
- `ListsAreGenuine`, `RefreshesAreNew`, `ApiAnswersAreLive`,
  `CachedSourcesAnswer`: the four state invariants of the runs.
- `CacheKeepsPromise`: `SourceCache` implements `PublishedLists`. `Store` maps
  to `Publish`, a save or a create to `Configure`, `UpstreamChanges` to
  `ContentChanges`, `Restart` to `ForgetAll`, all else to a stutter.
- `JobsLeaveTheRow`: the action property `JobsWriteOnlyLastSync`.

None of the four invariants is inductive, since what is stored and returned is
decided steps earlier, in a goroutine's private copies. `IInv` adds `GoodJob`
for each goroutine: the configuration it copied is one the row has held; the
list it has in hand is of that configuration and no older than the goroutine,
if it skipped the cache or the source is an API; nothing of an API source is on
its way to the store; and a goroutine that found its source cached when it
started still finds it cached at its lookup and so never asks the upstream.
`GoodSource` says that cached lists are genuine and that a row's configuration
is among those recorded. The proof has a lemma per group of actions (`AdminInv`,
`StartInv`, `CheckInv`, `JobInv`, `EnvironmentInv`); `JobsStayGood` carries the
goroutines that do not move through growing history and content.

**`CallStatsProofs`**, for any endpoints, any finite set of requests, any bounds
and a disk that may fail: `RedirectsAreCounted`, `CleanIsSaved` and
`EarlierCallsAreKept`. None is inductive. The first needs `ChannelsAreFilledOnce`
(what is in a channel was put there by a worker that is done, so a result is not
counted twice) and that nobody asks when the process is down; the proof follows
the cardinality of the requests that are counted and not yet answered
(`CountedIsFinite`, `FewerCounted`) through the three steps that change it. The
second needs `SavesAreDirty`: the mutex is held by a save of dirty counters only,
so no count slips in between the write and the clearing of the flag. The third
needs `NoSaveAfterLast` and `EarlierCallsStay`: calls counted before the signal
are in memory until the last save is over and in the file afterwards, and nobody
writes the file any more.

`TodayIsCounted` needs two more invariants. `CallsAreBounded`: in memory and in
the file a counter of today is at most the total, and the total, with the calls
in a worker's hands counted in (`Pending`), within the bound of the model, so
that the cap on the history of the model hides nothing. `TodayFollows`: until
the signal to stop the goroutine that serves midnight runs, and while no
midnight waits for it no counter is more than the calls since and those the
process found in its file.

**`DomainCountsProofs`**, for any keys, windows, retention and clock:

- `RequestsAreConserved`: each counted request is in memory, in the batch in
  flight, in the totals or recorded as lost, exactly once. `BatchInFlight`
  strengthens it: outside a flush the batch is empty.
- `TotalsMatch`: the totals of a key are the sum of its days with those that
  cleanups deleted. Directly inductive once `RowTypes` types the rows.
- `RankingsCount`: the invariant `Reading` follows a ranking from the question
  to the answer. Before it has read its table (`ToRead`) the rows, the memory and
  the batch owe it every request of its range that was recorded and not lost;
  once it has read (`ToMerge`) its own copy and the memory do, unless a flush came
  between. What the rows owe rests on `NothingAhead` (no row has a day to come,
  so that a range that ends today misses none) and on `DaysCover` (from any day
  that no cleanup has reached, rows, memory, batch and losses add up to the
  requests made since).

**`Induction`** has what those sums and the lists below need, and nothing of this
system.
`NatInduct` and `FiniteInduct` are induction over numbers and over finite sets for
a property given as the set of what has it: the installed provers cannot use a
theorem that takes an operator, but a set is a value like any other, and its
least counterexample (`Smallest`) does the rest. From them follows `Recursion`, that
a function of numbers may be defined by its first value and its steps; that
`SumFunctionOnSet`, which the community modules define by a recursive `CHOOSE`,
adds up at all (`SomethingAdds`, `AddsOnce`, `SumAdds`), and from that how sums
split, compare and grow (`SumParts`, `SumLess`, `SumGrows`, ...).

**`ResolverProofs`**, for any endpoints, paths, sources, rules and bounds:
`RequestsComeThroughOnce` and `AnswersAreRight`. Both need that no two rows share
a path, deleted ones included (`UniquePaths`): the code goes from a link to the
row of its id, from there to the path, and from the path back to a row. `Chain`
says what the frames of a request that no admin call interrupted are: the path
asked for next is the first or that of the link just drawn, what was drawn is in
the tables, each frame is the one endpoint of its path, and each frame's endpoint
links to the next one's; an endpoint that comes twice is then one that reaches
itself (`NoCircle`). For the answers, `AnswersAreDefined` shows that the function
`AnswersWithin` is recursive in exists, level by level, `AnswersGrow` that a level
keeps the answers of the one below, and `Answering` that the rules applied on the
way back so far are an answer of the frame they have come to.

**`LoadingProofs`**, about what loads the sources. The preloader, for any finite
set of sources, any number of permits and of starts: `TypeCorrect`, which says of
the semaphore that its tokens are never fewer than none nor more than its
capacity, and `NoCheckIntrudes`. The first needs `TokensAreHeld` (the tokens are
as many as the preloads that run), the second `PausedMeanwhile` and
`PreloadsAreAwaited` (preloads run while `InitData` waits for them, and it has
the preloader paused until then).

The fetchers, for any finite set of images, any albums, keys and page sizes and
any number of retries and changes:

- `ListingsComeWhole`. `ListedBehind` says that what is listed is in ascending
  order and not after the key from which the next page goes on, and that of the
  objects that were there all the time those up to that key are all listed.
  `Pages` shows of a page that it is the first part of what is left, in order, and
  all of it when not truncated; a page whose last entries are folders takes
  version 1 to its last object, after which it has no other.
- `AlbumsComeWhole` has two halves, which need an invariant each.
  `QuietlyCollected`: while the albums stay as they were, a fetch has what the
  reference says up to the album and page it is at. `FewAreLost`: when no page
  was missed, each change has cost at most one image. It counts `Lost`, the
  images that stayed, are at positions the fetch has passed, and were not
  collected, together with `Over`, by how many images the album has outgrown the
  pages that were counted. An image that is added pushes one past the counted
  pages at most (`AddingLoses`); one that is removed lets one at most slip to where
  the fetch has passed (`TakingLoses`); and at the last page those after it go
  from `Over` to `Lost` (`PageLoses`). Without `Over` the invariant is not
  inductive: an image is out of reach when another is added, and lost later.
- `Select` is a recursive function and `FlattenSeq` of the community modules a
  fold. That they have the values their definitions ask for at all is `Recursion`
  of `Induction`; from it follow `FlattenMore` (a flattened list is that of its
  parts but the last, and the last), `SelectImages` and `SelectRises` (what is
  selected, and that it stays in order).

**`TablePagesProofs`** and **`AdminPagesProofs`**, which extends it, for any texts,
hosts, tabs and sizes and any number of requests, commands and logins. The first
has the lemmas of the blocklist and of the four pages of `TablePages`, the second
those of the other pages and the theorems, over the specification of all the
pages. `IInv` has the invariant of the blocklist and of
whichever page is mounted; a bag enters through its domain only (`TurnIsTurned`,
`SendAdds`, `DoneRemoves`).

- *The blocklist.* `PagesKeepToBlocklist` is a refinement: every step of the
  pages is a step of `BlocklistSpec` or leaves its variables alone. About
  `BlocklistSpec`, and so about the pages, `BlocklistTypes`,
  `PlaceholdersAlwaysPass` and `AloneCallsSync`. `HostsOnly` strengthens the
  second: no placeholder is in a call, in a copy of the table or in memory.
  `AloneIsAlone` strengthens the third: a call still marked alone is the only one
  in flight, and if it has read the table the table has not changed.
- *Three tables with forms* (`RulesInv`, `SourcesInv`, `EndsInv`). Each has four
  parts: the types of rows, forms and requests; `...Listed`, a list that was
  asked for after all changes were answered is what is stored, on its way as well
  as on the page; `...Known`, a row that the page knows has been stored, so no
  create can come between; `...Fresh`, what was opened as stored is sent as
  stored but for what was typed, by the only update of its row on its way (in the
  dialog of sources the form stays open, so there may be several, which agree).
  From these `TablesStayStored` and `UntouchedFieldsAreKept`; from `SourcesCalm`,
  that no answer on its way would choose another endpoint, half of
  `WindowsStayChosen`.
- *The order of endpoints* adds `EndsDropped`: while the last drag counts it is the
  only change of rows on its way, and has written the places before its next.
  `DroppedOrderSticks` then needs that a list written from 0 upwards is read back
  as it was. The model reads it by rank, as many endpoints before one as the
  order puts there; `Ranks` shows for any order of a finite set that each rank is
  taken once, `ListingRanks` that the list is one of that kind, and
  `WrittenIsListed` that it is the written one.
- *The form of a source* (`FormInv`): the view shows what its text says, for every
  view, `Showing`. Each input writes the text from a copy of the fields and the
  effect reads the text back, so the proof is that writing and reading back
  change nothing: `NonBlanks` and `HeadersStay` say that dropping blank rows
  twice, and making an object of headers twice, is doing it once. `Filters` and
  `Places` say where the rows that stay go. With `HeaderEdits`, what the rows are
  after one was typed in or removed, follow `FormShowsItsText` and
  `OtherHeadersAreKept`.
- *Domain statistics* (`StatsInv`). `QuestionsFit`: an answer that can still be
  shown is the answer to the question asked last. `PanelListed`, as for the
  tables. `MarksFollow`: while switches come one at a time, the marks are what
  the server has, or will be so when the one switch on its way has been answered
  (`Follows`), at each of its steps on the server. It needs that a call under way
  has its request (`CallsAreAsked`) and that the rankings are asked for by one
  request at a time (`RanksAreAlone`). From these the other halves of
  `WindowsStayChosen` and `TablesStayStored`.
- *The public page* (`PublicInv`): `SectionsCame`, sections are what the answers
  gave, and `MarksHaveTimers`, a card that is marked, or will be, is on the page,
  and each mark has a timer. From these `PublicPageIsComplete`.
- *The editor and the session*: `CacheStaysStored`, `TypedTextIsKept`, `LoginStays`.
  `ReadsAreFresh`: a request that has read the table since the last invalidation
  has read what is there still, unless a change is about to invalidate.
  `TypedIsSent`: text typed while nothing was awaited is the text of every save
  on its way, and no load is on its way. `LoginIsCarried`: the login that is kept
  is in both cookies, nobody has a call on its way with another token, and no
  tab is between removing the token and removing the user.
- *The types* (`PagesKeepTheirTypes`). Two of them take more than the invariants
  above. The default that visitors are shown is never stored, although it may
  come to the editor through the cache: `HomeTexts` says that the text area has
  what was typed or what the editor takes for stored, which it does not send, so
  that a save has typed text or the empty one. A tab that is at the provider has
  begun a login and kept its state (`OwnTabs`).

What the proofs assume of constants stands in the modules under a name: that
sets of texts, names, hosts, keys and rows are not empty, and sets of requests
finite; that bounds are numbers (of commands, of logins, of rows), and those of permits, starts, days and depth
not zero, nor those of albums and page sizes; that the blank text is none of those that are typed or shown
(`BlankAssumption`), and no host is called "not loaded" (`StatsAssumption`), so
that each stands for what is not there; that what is left of a text without the
blanks around it is a text without them, the blank text among these
(`TrimAssumption`); that images are finitely many, and those with a link among them
(`ImageAssumption`); that days are kept for as long as a ranking looks back
(`KeepAssumption`: both are 90 days in the code); that workers
and sources name different slots (`SlotAssumption`).

**Only model-checked**: liveness (`WorkEnds`, `RequestsEnd`, `SettlesInTheEnd`,
`MemoryIsFlushed`, `FetchesEnd`, `InitEnds`, `LoopLivesUntilStop`), which is out
of the prover's reach. Every invariant and action property of the runs is a
theorem, except those of the runs of section 6, which the code violates.

## 6. Where code and documentation part

Four claims are runs that end in a counterexample.

- `PreloadsFetch`. `service/README.md:21` says that creating or updating a data
  source preloads its data, and `preloader.go:301` that Lankong sources are
  refreshed every 24 hours. Both go through `PreloadDataSource`, hence through
  `FetchURLs`, which answers from the cache if the source is cached; nothing
  invalidates the source's entry. After an update of its configuration the old
  list is served until a manual sync or a restart, and the periodic refresh of a
  cached source that is due asks no upstream and sets `last_sync` to now.
- `GlobalRulesApply`. `model/api_endpoint.go:47` says that a rule without an
  endpoint is global, and the admin page offers it as applied to all endpoints
  (`web/components/admin/URLRulesTab.tsx:133`). `applyURLReplaceRules` applies
  the rules loaded with an endpoint, which are those with its id; others change
  no URL.
- `SwitchWorks`. The button of a rule is labelled disable or enable
  (`web/components/admin/URLRulesTab.tsx:265`). It sends a PUT of `is_active`
  alone, which `updateURLReplaceRule` refuses, as it asks for a name and both
  patterns (`handler/admin_handler.go:583`).
- `PostSourcesPost`. `readme.md:13` promises APIs by GET and POST, and the dialog
  offers both types. The form starts as GET and the effect does not run for an
  empty text, so the first field typed writes GET into the text of a new POST
  source; the server goes by the text (`service/api_fetcher.go:96`).

The code departs from other lines of the repository too. The models have what the
code does, and no run is spent on these:

- `service/README.md:25` and `33-36` say that API sources are refreshed every hour
  and prefetched by 100 or 200 calls, without duplicates, fewer when little comes of
  it. The periodic check skips them (`preloader.go:247`); `APIFetcher.FetchURLs`, which
  would prefetch (`api_fetcher.go:29-83`), has no caller; each request asks them once
  and keeps nothing, as the comments at `data_source_fetcher.go:69` and `159` say.
  `ApiIsLive` and `OnlyGenuineLists` state what these comments say, against that
  part of the service's README.
- `service/README.md:29-31` speaks of a memory cache of five minutes over a database
  cache, both cleaned up at intervals. There is one cache, in memory and without
  expiry ("for good, refreshed only when the data change", `cache_manager.go:15`),
  and nothing removes an entry: the list of a deleted source stays as well, since
  `DeleteDataSource` invalidates the key of the endpoint (`endpoint_service.go:374`).
  `PublishedLists` is the promise of that comment, against that part of the
  service's README.
- `service/README.md:24` has Lankong sources refreshed every two hours,
  `preloader.go:301` every 24, which is what the code would do.
- `service/README.md:70-71` shows `Stop` and then `Start`, "started anew". `Stop`
  closes a channel that `Start` does not make again (`preloader.go:55`): the new loop
  checks once and ends, and a second `Stop` panics.
- `initapp/init.go:25` has the refresh paused to avoid conflicts with the start-up,
  but the pause is looked at only where a check begins (`preloader.go:224`), and the
  first begins when the loop starts, before the pause; it runs on.
- `endpoint_service.go:174` says that endpoints with links or APIs use no memory
  cache. `FetchURLsWithOptions` makes an exception for the API types only, and
  answers a source of links from the cache.
- `endpoint_service.go:146` says that the sources and rules of an endpoint are
  deleted with it. The call gives gorm an empty model, which then has no association
  to delete: they stay, and the periodic check goes on refreshing them.
- `web/components/admin/URLRulesTab.tsx:209` and `249` show the time a rule was
  created, by which `admin_handler.go:502` orders the list. `updateURLReplaceRule`
  saves the row it has decoded from the request, every column of it
  (`admin_handler.go:576`, `600-601`); the form does not send this one, so that it
  becomes the zero time (`created` in `RulesPage`). `UntouchedFieldsStay` is about the
  fields of the form.
- `domain_stats_service.go:348` calls a ranking that of 24 hours; its range begins
  at the last UTC midnight.
- `web/components/admin/domain-stats/BlockedDomainsPanel.tsx:11` says that the panel
  shares its data with the switches in the rankings. It has a list of its own, and
  what is changed there leaves the switches as they were until they are loaded again.
- `web/components/admin/domain-stats/DomainTrendChart.tsx:12` says that the chart is
  not fetched again when the tab is changed. It is mounted with its tab
  (`DomainStatsTab.tsx:134`), so that it is, with the default number of days.

Behaviour that is in the models, that none of the lines above speaks of, and that a
maintainer should know of:

- *Preloader, sources.* An `InitData` that cannot list the endpoints returns without
  resuming the preloader (`initapp/init.go:34`), so that no check runs until the
  process restarts. A source that is deleted while its update is under way is
  inserted again, and its old list is there. The name and path of a deleted endpoint
  stay taken. A list from Lankong that lacks pages is cached like a complete one. A
  bucket in which a whole page consists of folders can never be listed with version
  1, which asks for that page until the deadline.
- *Statistics, blocklist.* A failed write of the counters is taken for done by the
  ticker until the next call (`stats.go:65`). Calls counted between the last save and
  the end of the HTTP server are not in the file. Today's counters are taken over from
  the file although a midnight may have passed while the process was down. A ranking
  that overlaps a flush misses the batch in flight, and a transaction that fails loses
  it. Of two overlapping `SetBlocked` calls the one that installs last may have read
  the table first and drops the other's host until the next call (`CallsAloneSync`
  says that this is the only way). A switch that fails after its row is written leaves
  the memory behind the table, and the next one brings the memory more than the
  rankings show.
- *Configuration.* The default of whoever asks first for a key that is missing is
  cached for all; a read that a change overtakes fills the cache with the old value
  until it expires.
- *Pages.* The rows of a list that was overtaken, and a form that was opened on them,
  send old fields back. An answer that opens the dialog of sources may open it again
  after it was closed. Orders that two drags write at once end as a mixture. A logout
  may log in again at once when the URL still has the token of the tab's own login
  (`LoginPage.tsx:53`, `layout.tsx:62`). A failure of the provider to answer is taken
  for a refusal of the token, and a refusal of an old token ends a newer login, also
  one of another tab. JSON that is saved under the type manual is
  taken for a line of the text, and becomes the one link of the source.

## 7. What is not modelled

- The schema migration: statements that run once, on the databases of old
  versions. Its hazard, a crash between two statements, is listed in
  `PROJECT.json` without a property.
- The rate limiter, whose state is a number of tokens that grows with real time;
  the other middleware, the router and the static file handler, which judge one
  request by itself.
- The five-minute cache of the URL counts, the warm-up of caches at the start,
  configuration keys other than the home page, and `DeleteConfig`.
- The API fetcher: one call, whose answer `SourceCache` has as an external fetch
  (`APIFetcher.FetchURLs`, which makes up to 200, is not called); how its JSON is
  searched, how a URL is built from an S3 key, and how long a retry waits are pure
  functions of data that no property tells apart.
- `RefreshEndpoint` and `PreloadEndpointOnSave` of the preloader: no handler
  calls the first, and no caller passes data sources to the second.
- Request parsing, JSON bodies, HTML, log lines, metrics, and of the frontend the
  layout, the toasts, the formatting of numbers and times, the ticking clock, and
  the wrappers in `web/components/ui/`, which keep no state of their own.
- Several pages at once: a page that is left drops its state and hears of no
  answer; tabs share cookies (`AdminSession`) and the server, which the pages
  read again when they are mounted.
- `service/url_counter.go`, `model/url_selector.go`, `utils/http_utils.go`: not
  called.
- Go's memory model: maps are accessed under their mutexes in the code that is
  modelled, and the one unlocked write (`lastErr` in `RefreshEndpoint`) is in a
  function that no handler calls.
