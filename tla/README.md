# A TLA+ model of `zr`, the Zuora CLI

`zr` is a Go program that drives the Zuora billing API from a terminal: about 130
commands, most of which issue one HTTP request, on top of a small core that
decides when a request may be resent, which token it carries, and what the user
is told when it fails.  The core is where orders and payments can be doubled,
tokens lost or a terminal left waiting, and it is what this project models.

Paths are relative to the repository; `retry.go:140` is `internal/api/retry.go`,
`oauth.go` is `internal/auth/oauth.go`, and so on.

## 1. The system

### Components

| component | code | state | operations |
|---|---|---|---|
| API client | `internal/api/client.go`, `retry.go`, `request.go` | per call: the shared attempt budget, `lastErr`, `tokenRefreshed`, `skipBackoff`, the response | `Do` (gate, host check, token, headers, loop over success=false bodies), `doWithRetry` (transport errors, 429, 401, 5xx) |
| request policy | `retry.go`, `client.go:485-584` | none | `isIdempotent`, `carriesIdempotencyKey`, `isRetriableSuccessEnvelope`, `isReadOnlyAllowed`, `isDataQueryWrite`, `extractPath` |
| errors, exit codes | `internal/api/errors.go`, `internal/auth/errors.go`, `cmd/zr/main.go` | none | `parseAPIError`, `successEnvelopeError`, `Error` with the rerun hint, `ExitCode` |
| pagination | `internal/api/pagination.go` | per call: page number, collected data | `DoPaginated` (at most 100 pages) |
| token source | `internal/auth/oauth.go` | `refreshLocks` (one mutex per environment), the token entry in memory and in `tokens.yml` | `TokenContext`, `ForceRefreshContext`, `refresh` |
| credential store | `internal/auth/keyring.go` | two keyring items per environment | `Set`, `Get`, `Delete`; environment variables take its place |
| configuration store | `internal/config` | snapshot of `config.yml`, `environments.yml`, `tokens.yml`; the files | `Load`, setters, `Save` (temp file and rename, three times) |
| alias store, expansion | `pkg/cmd/alias`, `cmd/zr/expand.go` | `aliases.yml` | `Load`, `Set`, `Delete`, `Save`; `expandAlias` before dispatch |
| auth commands | `pkg/cmd/auth` | none of their own | `login`, `logout`, `status`, `token` |
| config commands | `pkg/cmd/config` | none of their own | `get`, `set`, `list`, `env` |
| global flags | `pkg/cmd/globalflags` | wrappers around the factory's closures | precedence of flag, variable and file; read-only; whole-command deadline |
| factory, root, main | `pkg/cmd/factory`, `pkg/cmd/root`, `cmd/zr` | configuration loaded once | wiring, signal context, exit code |
| Data Query jobs | `pkg/cmd/data-query` | per command: job id, status | submit, poll, deadline, download to a file |
| order job watch | `pkg/cmd/order/job-status` | per command: last status | poll until a terminal status or a deadline |
| ZOQL query | `pkg/cmd/query` | per command: records, locator | `query`, `queryMore`, limit, atomic export |
| `zr api` | `pkg/cmd/api` | none | raw request, optional pagination |
| list runner | `pkg/cmdutil/listcmd` | none | request from a flag table, pagination hint |
| detail runner, helpers | `pkg/cmdutil` | none | confirmation, body input, sleep with context |
| resource commands | `pkg/cmd/*`, `signup` included | none | one request each |
| output | `pkg/output`, `pkg/iostreams` | none | JSON, jq, template, CSV, table, pager |
| masking, verbose log | `internal/api/mask.go` | none | redaction |
| completion, version, build | `pkg/cmd/...`, `internal/build` | none | small commands |
| test harness, scripts | `pkg/cmdtest`, `scripts`, `cmd/gen-readonly-doc` | none | development only |

### How they interact

A command asks the factory for a client.  The factory loads the configuration
once per process and gives the client two callbacks into the token source:
`TokenContext` before the first send, `ForceRefreshContext` after a 401.  The
token source reads and writes the token entry of the configuration store, and
`Save` writes all three files.  Global flags wrap the factory's closures: they
set the environment, the read-only gate and the context of the client.  The
program starts no goroutines of its own, but the token source is written and
tested for concurrent callers (`oauth.go:18-21`), and several `zr` processes
run side by side all the time: they share the tenant, the three files,
`aliases.yml` and the keyring.

### What is hard

* Retries: two nested loops share one budget; which method may be resent after
  which failure; what an ambiguous failure may tell the user.
* Concurrency at the tenant: a resent or rerun write meets its own earlier copy,
  still in flight.
* The token: validity is checked, then used; clocks, latency and expiry; a lock
  that ignores the context; an error after the cache has changed.
* Files: snapshots taken at start are written back whole by every process.
* Partial failure: three files, two keyring items, a token and credentials that
  change one after the other.
* Polling loops: deadlines of several kinds, cancellation inside a request, a
  sleep or a download, and words of the tenant that the code may not know.
* Results in pages: when a loop stops, and what the output then claims.

`PROJECT.json` lists the hazards with the line where each bites and the
properties that watch it, or says why none does.

## 2. The modules

| module | what it is |
|---|---|
| `RequestPolicy` | the stateless decisions of the client, over classes of requests |
| `ApiClient` | `Do` and `doWithRetry`, the tenant, the network and Ctrl-C |
| `MutationContract` | what a call of `Do` promises about a write, in four actions |
| `MCApiClient` | instances of `ApiClient` for TLC |
| `ApiClientProofs` | invariants of `ApiClient`, proved |
| `ApiContractProofs` | `ApiClient` implements `MutationContract`, proved |
| `TokenSource` | `TokenContext`, `ForceRefreshContext`, the lock, cache, file, OAuth server and clock |
| `MCTokenSource` | instances of `TokenSource` for TLC |
| `TokenSourceProofs` | invariants of `TokenSource`, proved |
| `ConfigStore` | the files of the configuration directory, aliases included, several processes, crashes and power loss |
| `MCConfigStore` | instances of `ConfigStore` for TLC |
| `SettingsHistory` | what the configuration directory promises a reader, in two actions |
| `ConfigHistory` | `ConfigStore` with a history of each file's contents, and the mapping to `SettingsHistory` |
| `ConfigStoreProofs` | invariants of `ConfigStore`, and that it implements `SettingsHistory`, proved |
| `AuthCommands` | `auth login`, `auth logout`, `auth token` over keyring, `tokens.yml` and OAuth server |
| `MCAuthCommands` | instances of `AuthCommands` for TLC |
| `AuthCommandsProofs` | invariants of `AuthCommands`, proved |
| `JobPolling` | `data-query run` and `order job-status --watch` |
| `JobPollingProofs` | invariants of `JobPolling`, proved |
| `PagedRead` | what a command promises that reads a result in pages |
| `Paging` | `query` with queryMore, and `zr api --paginate` |
| `PagingProofs` | `Paging` implements `PagedRead`, proved |
| `CommandShapes` | what a command is: flags, accepted combinations, request, steps of `RunE`, output |
| `SalesCommands`, `BillingCommands`, `CatalogCommands` | the commands, one definition each |
| `CommandTable` | all of them by name, and `zr api` |
| `ReadOnlyPaths` | the read-only gate on methods and paths |
| `CommandRun` | one run of one command, from the global flags to the exit |
| `MCCommandRun` | instances of `CommandRun` for TLC |
| `CommandRunProofs` | invariants of `CommandRun` and lemmas about the table of commands, proved; its gate is that of `RequestPolicy` |

### `ApiClient`

A *run* is one call of `Do` by one process.  The control state `pc[r]` names the
points of the code where a run can be seen by others: `start` and `authorize`
are the prologue of `Do`; `top`, `backoff`, `send`, `wait`, `response`,
`ratewait` and `refresh` are the loop of `doWithRetry`; `outer` is the backoff of
`Do`'s own loop over success=false bodies.  `budget`, `retrying` (attempt > 0),
`refreshed`, `skip` and `lastErr` are the locals of those loops, and
`EnterRetryLoop` resets exactly those that `doWithRetry` declares.  Each case of
the switch on the status is an action (`RateLimited`, `Unauthorized`,
`ServerErrorRetry`, `ServerErrorGiveUp`), as is each early return.

The tenant and the network are the environment.  A request on the wire may be
refused, answered with success=false, carried out, lost, or carried out long
after a gateway answered 5xx or the client gave up; an answer reaches the send
that waits for it (`n` pairs them) or nobody.  The tenant honours a key once: a
request whose key it has seen is only ever refused (409).  It refuses a PUT that
carries a key.  Responses are classes: `429after` is a 429 with a `Retry-After`
that lies ahead, `429now` one with a `Retry-After` of zero, a negative value or a
past date, which `parseRetryAfter` makes a wait of zero (`retry.go:253-278`), `cut`
a body that cannot be read.  The length of a sleep is left out, and a sleep of zero
is none: after `429now` the run is back at the top of the loop with the backoff
skipped.  The history variable `pause` says whether a pause is due since the last
send, was made, or was waived by the tenant.  A sleep may end although the context
is done, because `select` may prefer the timer.

A request's `header` is the `Idempotency-Key` the caller sets: a key, `NoHeader` if he
sets none, or `NoKey` if he sets an empty one (`zr api -H 'Idempotency-Key:'`), which
overwrites the key `Do` drew (`client.go:340-349`).

Assumed about the tenant, and named where it is used: a refusal (4xx, 429, 401)
did not change anything, success=false did not change anything, a redirecting
server did not process the request, and keys are honoured for as long as the
runs last.

Left out: what `net/http` does below `Client.Do` (it resends a keyed request by
itself when a reused connection is dead, and follows 307/308 within the host),
logging, the construction of the URL, and the case of a client without token
source, which the factory never builds.

### `TokenSource`

A *caller* is one call of `TokenContext` or, with `force`, of
`ForceRefreshContext`.  `idle -> lock -> recheck -> refresh -> posted -> save ->
done` follows the code; `holder` is the mutex of the environment, `cached` the
entry `SetToken` stores, `saved` the entry in `tokens.yml`.  The deferred unlock
of the code is the `Unlock` conjunct of every action that returns from inside
the lock.

Time is explicit because the property of interest is about it.  A token dies at
the tenant `expires_in` after the server issued it, but the client dates its
expiry from the moment it parses the answer (`oauth.go:236`), which is later by
the latency of the answer.  `Tick` lets no token request outlive its timeout
(30 s, `oauth.go:169`), and `IsValid` keeps a margin (60 s, `config.go:59`).
Jumps of the clock and a suspended machine are left out.

`Save` and `SaveFails` cover the token file only, of one process; the three
files, other processes and crashes are `ConfigStore`, and where the credentials
come from is `AuthCommands`.

### `ConfigStore`

A setting (the active environment, an environment's URL, an environment's token,
an alias) is a *key*, a file a *document* that gives values to its keys.  A
process works on the configuration, three files read and written in a fixed
order, or on the aliases, one file: `Orders` is the set of these orders and
`order[p]` the one of `p`, because `alias_store.go` goes through the same
`AtomicWriteFile` as `file_config.go`.  `Read` is one
`readYAML` of `load`: the document decoded over the defaults, so that a key it
leaves out reads as built in (`View`).  `Set` is a setter and the start of
`Save`, with the setter's own check (`Accepts`: `alias delete` wants the alias to
be there); `Refuse` is its error.  For
each file in turn `CreateTemp`, `Write`, `Sync` and `Rename` are the steps of
`AtomicWriteFile`, and `SaveFails` an error at any of them, which leaves the
files already renamed.

`Crash` kills a process between any two steps.  Of the disk the model keeps two
views, what a reader finds and what would survive a power loss: `WriteBack` moves
one to the other in the kernel's own time, because the directory is not synced
(`file_config.go:232-234`).  A file renamed before its data was synced could
survive as a torn one; `fragile` remembers those, and the program has none.
`disturbed[p]` is history: the files somebody else replaced since `p` read or
wrote them.

`ConfigHistory` adds `seen`, the contents each file has had, as a process that
loads would read them, and maps the store to `SettingsHistory`, where a file either
goes back to an earlier content or gets an earlier one with one edit applied.

A hand edit may have left one file unparsable before the processes start; edits
while they run, and stray temp files, are left out.

### `AuthCommands`

The three commands of one environment that touch credentials, each run by a
process that reads the configuration once (`Load`) and then goes from store to
store.  A *login* is a client of the tenant, and its name stands for its id, for
its secret and, in a token, for whom the token acts; so a pair is valid when both
halves are the same name.  `keyring` holds the two items of the environment,
which `keyringStore.Set` writes one after the other (`SetId`, `SetSecret`) and
`Delete` removes one after the other, going on after an error (`DeleteIdFails`).
Flags, variables (both or none, `EnvCredentials`) and the prompt fill in the pair
of a login (`Resolve`); a token command takes the cached token, else the variables,
else the keyring.  A login that cannot reach the keyring warns and ends well, a
logout too: `SetFails`, `Warn`.  Every command may be killed at every step.

`accepted`, `wrote`, `disturbed`, `standing` and `basis` are history.  `standing`
is the login that the last complete login or logout left, or `Unclear` from the
first write of a command until it ends without a warning and without anyone else
having written to the items it wrote; `basis[p]` is what `p` found standing when it
started and forgets once that changes.

Left out: other environments (the items and entries are named by environment),
a forced refresh after a 401, the text of prompts, and `auth status`, which prints.

### `JobPolling`

Both commands are one machine, `submit`/`get -> look -> sleep -> get ...`, and
`data-query run` goes on to `download -> close -> rename`.  There are three
contexts, as in the code: that of the command (`base`), that of the wait (`poll`)
and that of the download, which is derived from the command's and not from the
wait's; `EndedBy` says which deadlines and signals end each, and `ctx[c]` what did
first.  A request is not sent once its context has ended, and what the tenant
serves after that is not heard; when a timer and an ended context are both there,
`select` may take either.  A status is a word of the tenant's: `Meaning` has the
words for the end of a job that the code's comments and tests name, in their
spellings; the words for a job under way (`Waiting`) and those for an end that nobody
foresaw (`Unforeseen`) are constants, and stand in the run for `accepted` and
`in_progress`, which `dqutil.go` lets wait, and for `expired`.  The body of the download comes in two pieces, any of which
may fail, as may closing and renaming the temp file.

The answer a poll gets may be older than the job, so `SaysWhatHappened` compares
the exit with the job and not with the answer.  The file is renamed without being
synced (`run.go`), and nothing is claimed here about a power loss.

### `Paging`

The result at the tenant is the rows 1 to `total`, and a locator, or the address
in `nextPage`, stands for the number of rows before the page it leads to.  `Answer`
cuts the next page anywhere, so that pages may be empty and the last one may or
may not be announced; `loops` is a `nextPage` that leads back to the first page,
`OddAnswer` a JSON document that is no page, whose body `DoPaginated` appends to the
rows (`Odd`), also after a loop.  A limit, `--export` and the forms of output that
have a place for `done` and the locator are `opts`.  `PagedRead` is the abstract
specification: in one step the user gets the first rows, or nothing; or, from `zr
api`, which hands on what it is given, the rows in the order of the pages, and the
body of the odd answer as the last of them.

### `CommandRun` and the command modules

`ApiClient` knows classes of requests; these modules say which requests the
program makes, and what stands before and after each.  A command is a record
built by an operator of `CommandShapes` that corresponds to the helper the code
uses: `Detail` is `cmdutil.RunDetail`, `Removal` ends in `RenderDeleteResult`,
`Listing` is `listcmd.New`, `WithBody` is `--body` resolved before the client,
`DocumentOf` after it, and so on.  The field `steps` is the order of the calls in
`RunE`, because the order is what the properties are about: a refusal before the
request costs nothing, one after it reports a write that landed as a failure.
Of the flags, those are modelled that are required, exclude each other, or enter
the path or the choice of the request; the others of a list are kept, since the
hint of the next page has to repeat them.

`CommandRun` takes a command through its steps.  What the user typed is chosen
where the code first looks at it.  `Apply` is `globalflags.Apply`: read-only mode
and its opt-in from flag and variable, with `mode.asked` for what README.md says
these settings mean, the format conflict and `default_output`.  `Do` stands for
the client: the gate on the real method and path, and then a request that is
turned down, lost, or answered with a 2xx body that is an object, an array, no
JSON, or empty.  The output operators are the renderers of `pkg/output`, by the
class of error they end in.

A path is a sequence of segments, and arguments fill in its placeholders.  A
request is a read, a write, or a Data Query job; which of them a command makes is
its documented purpose, so the gate is checked against it and not against itself.
What a user types after `zr api` may hold a `#`: the gate looks at the path as it was
typed (`extractPath`), and what is sent ends before the `#` (`OnTheWire`); what such a
request is for follows from the path that is sent.

Left out: the values of the other query parameters, columns and cells, and
`--env`.  What `--timeout` ends is in `JobPolling`, `zr api --paginate` and the
rows of `query` are in `Paging`; the table has their first request.

## 3. What TLC checks

All runs finish within three minutes with two workers.

| run | instance | distinct states | shows |
|---|---|---|---|
| `api` | one run with each of 16 shapes of request, or two concurrent runs with one key; `MaxRetries = 3` as in `retry.go` | 263 thousand | every property below |
| `api_rerun` | a second run started on the strength of the hint, `MaxRetries = 1` | (violation) | the hint is wrong when `Do` drew the key |
| `token` | two callers, of one environment or two, 0 to 60 s, fairness | 240 thousand | every property of the token source |
| `config_files` | two processes with one change each, on three files with one built-in environment and one added, or on the aliases | 728 thousand, up to symmetry | every property of the configuration store |
| `config_lost` | one process selects an environment, another refreshes a token | (violation) | the selection is undone |
| `commands` | 131 commands and `zr api`, four arguments and two with a `#`, eight choices of format | 4.2 million | every property of `CommandRun` |
| `list_hint` | three lists | (violation) | the hint of `order list` is not printed |
| `job_wait` | both commands, every set of deadlines, every destination | 45 thousand | every property of `JobPolling` |
| `auth` | a login, a token command and any third command, two clients | 2.3 million, up to symmetry | both safety properties of `AuthCommands` |
| `auth_pair` | one command | (violation) | a keyring that fails half-way is left with a pair of two clients |
| `reads` | up to five rows, three pages, every limit | 7.1 thousand | `Paging` implements `PagedRead` |
| `reads_all` | the same | (violation) | `--paginate` ends well with rows missing |

Properties of `ApiClient`:

* `SendBound`: the two loops together send at most `MaxRetries + 1` requests.
* `AtMostOnce`: no POST, PATCH or PUT is applied twice, however late an earlier
  copy is carried out; two runs under one key are together applied once.
* `SafeHintSound`: the hint quotes the key the request carried, and the tenant knows
  that key if the write landed.  A request without a key draws the hint in one case
  only: its caller emptied the header himself.
* `NoNilResponse`: `return nil, lastErr` (`retry.go:122`) always has an error to
  return.  It depends on the `budget > 0` of the other loop (`client.go:419`).
* `ReadOnlyHarmless`: in read-only mode nothing changes at the tenant but Data
  Query jobs under the opt-in.  Its requests are classes of the path the gate sees;
  where a `#` typed by hand makes another path of it, `ReadOnlyHolds` has the answer.
* `NoHotResend`: every resend waited or carries a new token, but for one that follows
  a 429 with a `Retry-After` of zero, a negative value or a past date: that one goes
  out at once, up to the budget.
* `HintHolds`: when the hint was printed for a key the caller gave, a second run with
  that key, even one beside the first, doubles nothing.
* `Termination`, `CancelWins`: a call returns though the tenant is silent or
  refuses for ever, and one cancelled between attempts reports the cancellation.
* `KeepsContract`: the behaviour of `Do` is a behaviour of `MutationContract`,
  under the mapping from kinds of result to what the user has been told.  A
  definite failure of a write means it did not and will not land; success means
  it landed; a transport error, a 5xx, an unreadable body and a cancellation
  leave it open.

Properties of `TokenSource`:

* `OneRefreshAtATime`, `NoNeedlessPost`: the single flight of `oauth.go:18-21`.
  It holds as "nobody posts while the cache holds a valid token"; a server that
  grants 60 s or less makes every token invalid at once, and then callers
  refresh one after the other (`Lifetimes` holds such a value).
* `CachedTokenAlive`: a token served from the cache is alive at the tenant.
* `ForcedTokenIsNew`: a forced refresh returns a token newer than any that was
  cached when it was asked for.
* `FreshTokenSaved`, `NeverOlder`: a returned fresh token is on disk, and neither
  cache nor file goes back to an older one.
* `EveryCallReturns`: no path keeps the lock.

Properties of `ConfigStore`:

* `KeepsHistory`: every behaviour is one of `SettingsHistory`.  Whatever writers,
  kills and power losses do to each other, a content of a file is an earlier one of
  that file, or an earlier one with one change that a setter was asked for and whose
  precondition some content met; no file becomes unreadable.  Updates may be lost
  (`config_lost`), but there are no mixtures, no torn files and no settings that
  nobody asked for (`file_config.go:203-234`).
* `BrokenKept`: a file nobody could parse is never written over, by whatever
  process and in whatever order the files are read.
* `OwnChangeOnly`: `Save` rewrites every file, yet a process that replaces a file
  nobody else replaced in the meantime changes only the setting its setter was
  asked to change.  A `Save` cut short therefore leaves no mixture; the defaults
  that are written out are those everybody would have used.
* `SavedIsSeen`: a change whose `Save` reported success is visible, until
  somebody else or a power loss replaces the file.  (A built-in environment that
  is removed reads as built in again; no command removes one.)

Properties of `CommandRun`:

* `ReadOnlyHolds`: unless flag or variable clearly said no, read-only mode lets
  only reads out, and Data Query jobs only where someone clearly opted in; for
  every command, and for what a user types after `zr api` as long as it is sent as
  typed.  With a `#` in it, a POST may get out that is a write, under the opt-in a
  DELETE, never a PUT or a PATCH.
* `ReadsStayOpen`: no read of the program's own, many of which are POSTs, is
  refused by the gate, whatever its arguments (an empty one excepted).
* `ConfirmedFirst`: the 24 operations README.md calls destructive send nothing
  without `--confirm`.
* `RefusedSendsNothing`: an error in flags, confirmation or body, a bare `--csv` where
  there is no table, and an error in the configuration come before any request.
* `AppliedIsReported`: a write that landed and was answered with an object or
  with no body is reported as done, in every format.  The exception is an expression
  for `--jq` or `--template` that does not parse, or that fails on the answer it is
  given or on the `{"success": true}` put in its place: both are found only when the
  answer is rendered, also after a write.
* `HintIsComplete`: a table with a next page ends with the command for it.

Properties of `AuthCommands`:

* `InvalidNeverStored`: no store ever holds an id, a secret or a token of a client
  the server has not accepted, and a login that ended in an error has written to
  none (`README.md:177`).
* `LaterCommandsFollow`: once a login or logout has gone through without a warning,
  and until somebody else writes to a store, every command that starts acts for
  that login, or for nobody, whether its token is cached, expired or refreshed;
  variables that name other credentials excepted.
* `StoredPairIsValid` (violated): when no command is in between and none was killed,
  a pair in the keyring is one the server takes.

Properties of `JobPolling`:

* `SaysWhatHappened`: `data-query run` succeeds only when the job did and the
  result is whole where the user wanted it; "job failed" is said only of a job that
  failed; a watch that ends well shows a job that is over.
* `TargetKept`: the file at `--output` is the old one or the whole new one at every
  moment, and a command that fails leaves the old one and no temp file.
* `EndIsExplained`: "gave up", "timed out" and "canceled" are said only when a
  deadline that bounds that phase, or Ctrl-C, struck; the deadline of the wait never
  counts against the download.
* `Returns`: a wait bounded by deadlines ends, Ctrl-C ends it, and so does the end
  of the job under every word but the unforeseen one.  A job that ends as "expired"
  is polled until a deadline, for ever without one (`dqutil.go:166`, `job_status.go:190`).

Properties of `Paging`:

* `KeepsPromise`: every behaviour is one of `PagedRead`.  `query` gives the first
  rows without a gap or a double, in one piece or not at all; `done` is said of a
  complete result only, and a locator goes on behind the last row that was shown.
  `zr api --paginate` claims nothing; it gives the rows in the order of the pages, a
  row twice only where the pages lead in a circle and an odd answer ended the reading,
  and the body of that answer last.
* `AllPagesFetched` (violated): `zr api --paginate` that shows rows and ends well has
  shown all of them.

### Bounds, and why they are enough

`MaxRetries` is the program's own value in `api`.  The requests are one of each
class the policy tells apart, with each combination of read-only and opt-in that a
command can produce.  Runs interact only through the tenant's keys, so a run that
is not alone shares its key with one more; which of the two starts first does not
matter, and Ctrl-C, which ends one of them early, is left to the run alone.

In `token` one unit is 30 s, so the margin is 2 and the timeout 1; a lifetime
of 2, within the margin, lets a token be born invalid and die, one of 4 lets it be
served and become invalid.  Two callers are the holder of the lock and one that waits or comes later,
cached or forced; two environments show that they are free from each other.  A third
caller adds another one that waits; with liveness it does not fit in the time, and
the safety properties are proved for any number.

In `config_files` each process makes one change (`MaxSaves = 1`); a process
that starts after another's change is the second of them, and a second change of
the same process would only start from a snapshot of the kind the first one
leaves.  The changes are one of each setter, of built-in and added environments,
and setting and deleting one of two aliases.

In `commands` the arguments are an ordinary one, two that are last segments of
paths the gate lets through, and the empty one: the patterns of the gate have one
free segment, so nothing else of an argument can matter.  A command is one run
through its steps, and every combination of the flags that are modelled is in it.
For `zr api` the paths are those of the commands, filled in, and those one
segment below, which is how far a pattern without its anchor would reach first; in
the place of an argument there may be a `#` too, alone or behind other text.

`auth` has the writer of credentials, the reader of credentials and one more command
of any kind, with two clients, which is what a pair can be mixed of.  Only the third
command is killed: one that is killed leaves what it has written, and so does one
that never takes its next step.

`job_wait` has two words for a job under way and one nobody foresaw; its other words,
the contexts and the outputs are those of the code, a poll may be repeated any number
of times, and TLC goes through all of it.

`reads` has five rows and limits 0 to 6 against three pages, so that the limit falls
inside a page, on its end, and behind the last row, and the limit of pages (100 in
`pagination.go`) is reached by results and by loops; `PagingProofs` has every bound.

Symmetry is used in `config_files` (processes) and `auth` (clients) only, where the
values are interchangeable and the properties are invariants and action properties.

### Fairness

`ApiClient` assumes weak fairness of the process's own steps (`FairSpec`): sleeps
end, and a send ends at the latest in the transport error of the 120 s client
timeout (`client.go:93-132`).  Neither tenant nor network owes an answer, and
cancellation is never owed.  `TokenSource` assumes it of calls once made, and
strong fairness of taking the lock: `sync.Mutex` hands over to a waiter that has
waited for 1 ms.  The server owes no answer; the timeout ends the request.
`JobPolling` assumes that the process takes its own steps (a request ends in the
client's timeout at the latest), that a clock that was set goes off, and that what
hangs on an ended context is broken off.  It assumes nothing of the tenant and
nothing of the download server: the client of the download has no timeout
(`dqutil.go`), which is why a bounded wait needs `--download-timeout` or `--timeout` when
there is a download.

CHECK_DEADLOCK is FALSE in every run but those of `CommandRun`, because the process
ends and all calls return; `CommandRun` has a step for a command that has ended.

### Mutants

Each property is checked against a bug it should catch: the operators in the
modules marked "Mutant" are such bugs (PUT counted as idempotent, a budget that
is not charged, no second look at the cache after the lock, no 60 s margin, an
early return that keeps the lock, a job status compared as it was spelled, a download
under the context of the wait), and `PROJECT.json` names which property each
must break.

### Findings

`APIError.Error` tells the user of an ambiguous POST or PATCH: "It is safe to
run the command again — it carries an Idempotency-Key, so if the original
request did go through, the retry returns HTTP 409 instead of creating a
duplicate" (`internal/api/errors.go:55-59`).  `Do` draws a new random key in
every call (`client.go:341-342`), so the second command carries another key.
`api_rerun` is the trace: the answer of an applied POST is lost, the hint is
printed, the second command applies it again.  With a key given by the caller
(`data-query run --idempotency-key`) the promise holds: `HintHolds` in `api`.

`Save` writes all three files from the snapshot its process loaded
(`file_config.go:203-219`), also when only a token changed.  A command that
started before `zr config env <name>` and refreshes its token after it writes the
old `active_environment` back, although the README calls the selection persistent
(`README.md:282-285`): `config_lost` is the trace, and what `OwnChangeOnly` says of
undisturbed files is all that holds in general.

`zr order list` has a bool flag, and `printHint` looks every flag that is neither
an int nor repeatable up in the table of string flags (`listcmd.go:339`): with a
next page and a table for people the command dereferences nil after it has shown
the table, whether or not `--pending` was given.  The comment above it promises
"a copy-pasteable next command rebuilt from ... every non-default flag value"
(`listcmd.go:303-305`): `list_hint` is the trace.

`keyringStore.Set` writes the id and then the secret over the pair that was there
(`keyring.go:57`).  When the second write fails, login warns "credentials are not
persisted" and ends well (`login.go:146-150`), and the keyring holds the new id with
the old secret; once the token has expired, every command fails, and the older
login is gone too.  The README says that invalid credentials are never stored
(`README.md:177`): `auth_pair` is the trace.

`zr api` turns the success check off for GET (`api.go:95-98`), and `DoPaginated`
takes an answer that is no page for the last one (`pagination.go:50-71`).  With
`--paginate`, "Fetch all pages automatically" (`api.go:57`), an error in the second
answer is printed as a row of its own (an empty list as none), the rows behind it are
missing, and the command ends well: `reads_all` is the trace.

Seen while modelling, without a run of their own.  The hint that "it carries an
Idempotency-Key" (`errors.go:56`) depends on the method alone (`retry.go:159`, `:224`),
so a caller who sent `Idempotency-Key:` empty gets it for a write without a key;
`SafeHintSound` says that nobody else does.  The README says that read-only mode
"blocks all write operations" (`README.md:137`); for `zr api -X POST
'v1/subscriptions/#/preview'` the gate sees a preview and `POST /v1/subscriptions/` is
sent, which `ReadOnlyHolds` excepts and bounds.  A write that landed is reported as
failed when `--jq` or `--template` fails on its answer; that an expression can fail
there is pinned by `TestPrintJSON_JQ_RuntimeError`, and `AppliedIsReported` says that
nothing else does it.  A 429 with `Retry-After: 0` is resent at once until the budget
is spent (`retry.go:171-182`).  A cached token is used although
`ZR_CLIENT_ID` and `ZR_CLIENT_SECRET` name another client (`oauth.go:65`).  With
`--wait-timeout` set, the error names that flag also when the global `--timeout` ended
the wait (`run.go:193-199`), and in the same way `--download-timeout` is named
(`run.go:175-176`).  Of two `alias set` beside each other the later save drops the
other's alias (`alias_store.go:55`); `OwnChangeOnly` and `SavedIsSeen` hold of files
nobody else replaced in between.

## 4. What is proved

TLAPS checks these for every set of runs, requests, callers, environments,
processes, files and clients and for every value of the bounds, from the named
assumptions of the modules (the sets of keys are disjoint; only GET and HEAD opt out
of the success check; `Timeout <= Buffer`; "no value" is not a value; a word for a job
under way is none for one that is over).

`ApiClientProofs`: `Typing`, `SendsAreBounded`, `NeverNilResponse`,
`HintIsSound`, `WritesAtMostOnce`, `ReadOnlyChangesNothing`, `ResendsArePaced`,
`KeyedHintHolds`, `HintHoldsWithKeys`, `CallsRunOut`.  Types
alone do not bound the sends; the invariant adds that budget and sends sum to at
most `MaxRetries + 1` and that an exhausted budget comes with a remembered
error.  At most once needs to know where the copies of a write are: a write that
must not be doubled is only ever sent again from a clean state, in which nothing
was applied and no copy is in flight; a message on the wire carries the key of
its run; and the tenant knows the key of every keyed request it applied.
`GateInv` says that whoever is past the prologue, and every message on the wire,
went through the read-only gate; `PaceInv` that the backoff is skipped only before
the first send, after a `Retry-After`, and with a new token, and that a pause the
tenant waived comes from a 429 just answered.
That the hint holds for a key the caller gave (`KeyedHintHolds`) follows from at
most once: both runs carry the key (`CarriedKey`), and the tenant honours it once.
`HintHolds` is a theorem when every request has such a key; for the keys `Do` draws
itself `api_rerun` refutes it.

`ApiContractProofs`: `ClientKeepsContract`, the refinement.  Each step of the
client or the tenant maps to one step of `MutationContract` or to none; the
invariant it rests on says what a definite failure and a success imply about the
copies still in flight.

`TokenSourceProofs`: `Typing`, `MutualExclusion`, `SingleFlight`,
`ServedTokensLive`, `ForcedTokensAreNew`, `FreshTokensAreSaved`,
`TokensOnlyGetNewer`, `LockIsGivenBack`, `CallsRunOut`.  The invariant says
that whoever is past the lock holds it, that only the holder has a request or a
reply, that a reply is newer than every token stored, and that a stored token
expires no later than it dies plus the timeout, which with `Timeout <= Buffer`
makes a valid token alive.

`ConfigStoreProofs`: `Typing`, `NoTornFile`, `UnreadableFileKept`,
`NothingElseChanges`, `SavedChangesSeen` and `HistoryKept`, the refinement of
`SettingsHistory`, for any number of processes and files,
any set of orders in which files are read and written, any keys and any changes.  The invariant relates each process's memory to
the files: what a process is past in the loop of `load` was readable and still
is, because whoever could rename over a file had to parse it first; and memory
and file agree on every key of a file nobody else replaced, but for the change
that is being saved.  Around a loop over files `AdvanceLoop` says which files are
behind.  For the refinement, `HistoryInv` says that what the disk holds was seen and
that what a process has in memory of a file was a content of that file, before
(the defaults were there first) and after it was read; only while it saves
is one change on top, in one file, until that file is written.  `NoTornFile` has no run
of its own: a torn file is one that became unreadable, which `KeepsHistory` rules out.

`AuthCommandsProofs`: `Typing`, `NothingInvalidStored`, `LoginsStand`, for any number
of commands and clients.  What is stored was accepted because what a process holds
past `post` was, and a login writes nothing before that.  That later commands follow
needs the most: while a login stands, the keyring and the file agree with it or are
empty, every process that found it standing has gathered nothing else, and a command
whose writes nobody has disturbed finds exactly them in the stores when it ends.

`PagingProofs`: `Typing` and `PromiseKept`, the refinement, for every number of rows
and every limit of pages.  The rows collected follow each other in order and the
locator leads on from the last of them (`Linked`), `done` is said only at the end of
the result, and what was cut off is remembered in `trimmed`; `PageInOrder` says that a
page that starts at the locator leaves neither gap nor double, `InOrderIsPrefix` that
without a circle such rows are the first ones, and `OddComesLast` where the body of an
odd answer stands.  The refinement rests on two lemmas: the steps that get pages
and choose rows are no steps of `PagedRead` (`QuietIsUnseen`), and a failure and the one
step that shows the rows are (`LoudIsPromised`).

`JobPollingProofs`: `Typing`, `Truthful`, `WholeOrOld`, `ReasonsHold`, for any words
the tenant may use for a job that is under way or has ended unforeseen.  What was
heard may be old, so the invariant says that a word for an end, once heard, still is
the status of the job; past the polling it says what has been checked by then, and
how far the temp file and the output have got; and that a context which ended did so
by one of its own events.

`CommandRunProofs`: `Typing`, `ReadOnlyIsReadOnly`, `NoReadIsStopped`,
`AskedBeforeHarm`, `RefusalsAreEarly`, `WritesAreReported`, for arguments of any
name, where TLC has four.  `EveryCommandSound` goes through the table once, command
by command: no check comes after the request, the request is one of those the gate was
proved about, and a command whose answer may fail to render is a read; `DestructiveAsk`
finds the confirmation in every destructive one.  From there on the proofs no longer
look at single commands.  The invariant follows a run through its steps (`InOrder`:
what is left are steps of the command, in order; `SentLast`: once something has been
sent, only steps that look at the answer are left) and keeps what was accepted
(`OptionsAccepted`, `ModeAsFor`, `ToConfirm`, `NoCSV`).  The gate looks at segments of
a path, and an argument can only stand in a place where it is free, so its name
cannot open or close the gate; `zr api`, on a path that is sent as typed, gets through
on the paths of reads alone.

Two theorems tie these modules to `ApiClient`, which knows classes of requests only.
`SameGate`: the gate of `RequestPolicy` blocks what the gate on methods and paths
blocks.  `SameWrites`: of all requests that leave the process without an empty argument
or a `#`, those that `ApiClient` guards as writes are those that change something.  So what is proved of the
client holds of the requests the commands send.

Only model-checked: the four liveness properties (`Termination`, `CancelWins`,
`EveryCallReturns`, `Returns`), which rest on fairness and are out of the prover's
reach.  The half of `Termination` that is about safety is proved: `CallsRunOut` numbers
the steps of a call, at most `10 * MaxRetries + 18`, and what is left to TLC is that a
call that has not ended can take one.  So it is for `EveryCallReturns`: a call has six
steps at most, and a lock that is taken is held by a call still at work
(`CallsRunOut` and `LockIsGivenBack` of `TokenSourceProofs`).  The five properties
that a run refutes are not theorems, of course.

## 5. Not modelled

* How `parseAPIError` finds code and message in the shapes of an error envelope, and
  the table from error class to exit code (`errors.go`): functions on one text or one
  class, without state, that unit tests cover case by case.  Which class a call ends
  in is in `ApiClient` and `CommandRun`.
* `expandAlias` (`cmd/zr/expand.go`): a rewriting of the words of the command line
  before anything runs.  A model would be made of strings put together.
* The arithmetic of `Retry-After`: a cap on one number, tested at its boundaries
  (`TestParseRetryAfter`).  Whether it comes to a wait at all is in `ApiClient`.
* Paths of `zr api` that are absolute URLs, have several leading slashes, dot segments
  or percent-escapes: they are sent as typed, and what a server makes of them is
  its own affair.  `checkHost`, which stops URLs of other hosts, is in `ApiClient` as
  a class of request.
* What `net/http` does below `Client.Do`: it resends a keyed request by itself when a
  reused connection is dead, and follows 307 and 308 within the host.  Its sources
  are not in the repository, and the models end where the code calls it.
* The factory's closures that load the configuration and build the client once: they
  run in one goroutine and have no order to get wrong.
* `--env`, which chooses the environment the other modules start from, and verbosity.
* Formatting, colours and layout of output, the pager, redaction in logs, shell
  completion, `version`: text without state.
* The test harness, the scripts and the documentation generator: not the program.
