# TLA+ models of helm-mcp

helm-mcp exposes the Helm CLI as MCP tools. A Go server (`cmd/`, `internal/`)
runs the tools over stdio or HTTP; a Python package (`python/`) starts that
server as a subprocess and calls it. This directory models the parts of both in
which the order of events matters, checks the models with TLC and proves the
main results with TLAPS for every value of the constants.

Run a check with `tlc -config auth.cfg MCAuth` and a proof with
`tlapm AuthProofs.tla`; PROJECT.json lists every run, the source lines of every
definition, and for every property the mutated definition that breaks it.

## 1. Inventory

| Component | State | Operations | Talks to | What is hard | Module |
|---|---|---|---|---|---|
| HelmClient (`tools.py`) | connection, connected flag, bulkhead permits, breaker | call_tool, connect, close | Go subprocess through fastmcp; `circuitbreaker`, `tenacity` | coroutines share one connection; crash, deadline, two retry layers, cancellation at any await | HelmClient |
| Default client (`tools.py` 1032-1341) | a module global under a lock | get, close, one function per tool | HelmClient | replaced while calls are in flight | DefaultClient |
| FastMCP proxy (`server.py`, `resilience.py`, `client.py`) | middleware list | build | fastmcp | assembly only | not modelled |
| CLI, discovery, download | a binary on disk, temporary files | find, download, verify, rename, exec | GitHub, the file system | processes of several versions race, fail and die half-way | Download |
| Auth middleware (`middleware.go`) | none of its own | one handler | session cache, validator | requests with one token race | Auth |
| Session cache (`session.go`) | map token hash -> claims, last access | Get, Put, purge ticker | middleware | expiry, limit, eviction order | SessionCache |
| OIDC validator (`oidc.go`) | discovered jwks_uri; JWKS cache with age | ValidateToken, GetKeys, RefreshKeys | issuer over HTTP | mutexes held over a fetch, double check, key rotation | JwksCache, Auth |
| Circuit breaker (`circuitbreaker.go`) | state, failure count, time of last failure | Allow, RecordSuccess, RecordFailure | its callers | late and reordered reports | CircuitBreaker |
| Budget, sanitize (`internal/resilience`) | none | TruncateResponse, SanitizeManifest | tool code | boundaries of the limit; a line's fate depends on the lines before it | Manifests |
| Retry, timeout (`internal/resilience`) | none | Do, WithToolTimeout | nobody | | not modelled |
| OBO, audit, secure bytes, hardening, validation | none that several steps share | | | | not modelled |
| Server lifecycle (`main.go`) | context, HTTP server | signal, Shutdown, exit | http.Server | process ends while requests drain | ToolServer |
| Registration, release handlers, progress (`server.go`, `internal/tools`) | none; heartbeat goroutine | one handler per tool | engines | panic, cancellation, a goroutine beside the call | ToolServer, ReleaseTools, Heartbeat |
| Release operations (`v3/release.go`, `v4/release.go`) | release storage (cluster) | install, upgrade, rollback, uninstall, test | Helm SDK | check-then-act, ignored contexts | ReleaseTools |
| Repository file (`v3/repo.go`, `v4/repo.go`) | repositories.yaml, index cache | RepoAdd, RepoRemove, RepoUpdate | Helm SDK, file system | load-modify-store around a download; a write empties the file first | RepoFile |
| Release reads (`get.go`, `status.go`, `history.go`, `list.go`, `release.go`) | none | get_*, status, history, list | Helm SDK, Manifests | the limit and the lines meet in one answer; the release changes meanwhile | ReleaseReads |
| Charts (`chart.go`, `deps.go`, `render.go`) | a chart directory of the user's | create, lint, template, package, pull, push, verify, show, dependency_* | Helm SDK | the dependencies are checked, fetched and read at different times | ChartTools |
| Plugins (`plugin.go`, `exec.go`) | the plugin directory | install, list, uninstall, update, package, verify | the helm CLI and its hooks | children that keep the pipes; a time limit | PluginTools |
| Registries, search, values | none | one call into the SDK each | Helm SDK, Artifact Hub | | not modelled |

The components meet at few places. The Python client and the Go server meet at
the subprocess, which to the client is a connection that answers or is gone. In
HTTP mode each request passes the middleware (session cache, then validator)
before its handler runs; handlers run in parallel and meet again in the
repository file and in the cluster. The Go breaker has no caller in the server
yet; the Python client uses the breaker of the `circuitbreaker` package.

What makes each component correct (section 3 says which of these the code does not
keep, and under which interleaving):

* HelmClient: a mutating call is sent at most once; retries stay within the
  product of their limits; a permit is never lost; a crash is hidden from
  read-only calls; no subprocess is left behind; every call ends.
* Auth: a rotated key is seen and a withdrawn one forgotten in time; a token with
  an unknown key does not hammer the issuer; every request is answered; the cache
  stays within its limit, loses the right entry and only when it must.
* Breaker: state and count agree under any order of reports; nobody is let in
  early; one probe at a time; it recovers.
* Server and release tools: upgrade --install picks the action that fits; a dry run
  changes nothing; no notification follows an answer; only the SDK can hold up a
  call; a shutdown lets the calls in flight end.
* Default client: what was started as the default can be closed; nobody waits for
  ever for the lock.
* Download: only a verified file is put in place; a process runs the binary of its
  own version; nothing but a kill leaves a file behind; the search ends.
* Charts and plugins: nothing is rendered without its dependencies; helm has ended
  when its call has; every call ends.
* Release reads: a manifest loses its noisy fields and nothing else; an answer fits
  the budget, and is cut only if it would not.
* Repository file: an added repository stays; the index cache and the file
  agree; a replacement was asked for.

The hazards behind these are listed with their lines in PROJECT.json.

## 2. Modules

### HelmClient

`HelmClient` models the class of that name. One action is the code between two
awaits, since the event loop switches only there. `pc` names the await a call
is suspended at: `queued` (semaphore), `backoff`, `closing`, `connecting` (the
three awaits of `_reconnect`), `calling` (the tool invocation), `retrying`
(tenacity's sleep). `clients` is every fastmcp client object ever made, so that an
object which nothing refers to any more can still be seen alive. An object on
which `__aexit__` was called is `leaving`: its subprocess ends at some time
(`SubprocessEnds`), or never, and close() forgets it either way, whether `__aexit__`
returned, raised or was cancelled. `sent` and `reconnects` are history. `Kinds` are
the two classes of tools that `is_retry_safe` separates.

External and modelled from their use: the `circuitbreaker` package (any
exception for which `_is_failure` is false counts as a success), `tenacity`,
and the subprocess, whose crash is `Crash`. A call on an object that was left finds its
connection gone or, while the subprocess still runs, may get its reply; a never entered
or closed one may also fail with an exception that is not an OSError (`Unexpected`).

`CallContract` is the abstract specification: a bounded number of active calls,
a bounded number of sends, one send of a mutating call, and nothing after the
end of a call. `HelmClient!ImplementsContract` is the refinement.

### SessionCache, JwksCache, Auth, Clock

`SessionCache` and `JwksCache` are the two caches on their own, with any
callers. Every method of `SessionCache` holds the mutex throughout and is one
action. In `JwksCache`, `refresh` holds the lock over a fetch, so it is several:
the double check, the start of the fetch, the answer of the issuer (what it
publishes at that moment), and the end. `Rotate` is the issuer's.

`Auth` EXTENDS both and adds the requests: look up the session, find the
jwks_uri under its mutex, look at the keys, refresh if the kid is unknown, store
the session. It uses the caches through their own actions, and AuthProofs
proves that it refines each cache's specification, so what holds of a cache
with any callers holds in the server.

Data kept: the kid and exp of a token, the kids of a key set, and the address it came
from: the issuer may move its keys whenever it likes, a request goes on with the address
that was discovered when it began, and keys from another one do not count (`Fresh`). All
other claim checks are the set `Authorised`. `DiscoveryAges` forgets the discovered address
at any time, as discoveryTTL may have passed.

### CircuitBreaker

`internal/resilience/circuitbreaker.go` with the callers around it: between
`Allow` and its report a caller is `working` or `probing` for as long as it
likes. Time is the ticks since the last failure, counted up to the recovery
timeout.

### RepoFile

`RepoFile` models RepoAdd, RepoRemove and RepoUpdate as the code runs them:
load the file, (download,) write the changed copy. The SDK's WriteFile is two steps:
`WriteFileOpens` empties the file and `WriteFile` fills it, or `WriteFails` leaves some
of the entries in it. Every other step may fail too, and an index that was downloaded
stays. `index` holds for each name the URL its cached index came from; an index is never
deleted, since RepoRemove does not. Any number of calls overlap, as the server runs them.
`v3/repo.go` is the same text on the same files, so one model stands for both. A
request holds a set of names: a name given twice to RepoRemove is refused by the code
like an unknown one, and the set with an unknown name stands for it. Left out: of two writes that overlap, the longer text may leave its end
behind the shorter one.

### Heartbeat, ReleaseTools, ToolServer

`Heartbeat` is WithProgress: the goroutine of a call is `waiting` in its select or
`notifying`; the deferred function of the call waits for it.

`ReleaseTools` follows a call on one release from its handler into the engine and
the SDK. `call[c].pc` is `received` (handler), `decide` (upgradeShouldInstall),
`ready` (chart and values), `working` (inside the SDK), `returned` (in the deferred
function). The two engines take the same steps; what v3 refuses in addition is
`EngineFails`. Of the options the model keeps those that decide whether and how the
release changes (install, replace, keep_history, dry_run) and the progress token.
`AllRequests` are the requests that the inputs allow; `Requests` are those a run uses.

The Helm SDK is external, and modelled by what the engines rely on. Of the release's
revisions only the status of the latest one is kept: an action is refused
on the statuses where Helm refuses it, otherwise it first records `pending` or
`uninstalling` and at its end `deployed`, `failed`, `uninstalled` or nothing. `owner`
is the call that wrote the latest status; a call whose revision has been replaced
records nothing any more. Install and Upgrade hand the context of the request to the
SDK, whose RunWithContext is assumed to give up on it; Uninstall, Rollback and Test do
not, nor do the history query of upgrade --install and the search for the chart. Left out:
rollback_on_failure and the other options that only change what the SDK does.

`ToolServer` is main.go in http mode, with the calls of ReleaseTools in flight.
`Receive` and `ClientLeaves` are the clients, `Panics` is recoverHandler (a revision
that the SDK was at work on stays pending or uninstalling, and nobody's). The process
goes from `serving` by `Signal` to `signalled`, by `ShutdownBegins` (the listener is
closed) to `draining`, and by `MainReturns` to `exited`, which ends every goroutine
where it is and leaves the release as it is; `Restarts` begins again. ListenAndServe
returns once the listener is closed and main waits for nothing else, so MainReturns
has no guard on the calls. `drained` counts how long Shutdown has been waiting.

### DefaultClient

The module-level functions of `tools.py`. A task takes `_default_lock`, finds the
default HelmClient connected or closes and replaces it (`GetDefault`, `Replace`,
`DefaultEntered`, `DefaultFails`), and then works with it outside the lock. `helms`
is every HelmClient made with its `_client` and `_connected`, `subs` every subprocess
with the one who started it, `_get_default_client` or a call that reconnects. Of the
HelmClient under it the module keeps the connection and the reconnection loop; its
breaker, its tenacity layer and its deadlines, which `HelmClient` models, only end a
call or leave it where it is. The lock is the set of its holders, so that a mutant can
lose it. A cancellation runs the finally clause of a `close()` under way.

### Download

`discovery.py`, `download.py` and the entry points in `cli.py` and `server.py`. A
process of one version searches (`Locate`: HELM_MCP_BINARY, the bundled binary, PATH),
and downloads into a temporary file of its own what it has not found: `CheckTarget`,
`CreateTemp`, `ReadChunk`, `Verify`, `Install` (the rename). The content of a file is
the version it was released as, "partial", or "other": that is all a checksum tells.
`Kill` ends a process at any step and leaves its temporary file; `Damage` is whoever
else writes to the directory, at any time. `entry` says who searches: the launcher,
which execs what it has found, the proxy, which starts it, or `--setup`.
`Environments` are what a process may find: HELM_MCP_BINARY unset, naming nothing that
can be executed, a native binary or a script, a bundled binary or none, and on PATH
nothing, a native binary, a console script that is_python_script recognises or one that
it does not (`wrapper`). Whatever is found is run; a script is helm-mcp once more and
searches again.

### LocalCalls, PluginTools, ChartTools, LocalTools

`LocalCalls` is a call of a tool: received by its handler, in its engine, answered.
`PluginTools` adds the plugin directory and a helm process for each call: it writes the
directory, its hook may leave a `child` that holds the pipes, it exits or is killed by
its context (`ContextDone`), and `Run` returns when the pipes are free (`RunReturns`)
or after WaitDelay (`WaitDelayEnds`). `ChartTools` adds one chart directory: the
dependencies Chart.yaml declares and those that charts/ holds. helm_template goes
through `loading` (the check), `updating` (the SDK fetches what Chart.yaml declared when
it was read), `reloading`, `rendering` and `rendered`. `disturbed` is history: somebody
else changed the chart while this call was updating it. `LocalTools` composes them; they
meet in the plugin directory, where a v4 post-renderer is looked up. The engines
take the same steps except where an action ends in V3.

### Manifests, ReleaseReads

`Manifests` has `sanitize.go` and `budget.go` as functions over lines; of a line it
keeps the indent and the kinds that the code or YAML tell apart. `WithoutNoise` is the
reference: of the manifest *as it came*, the lines outside the noisy keys and of what YAML
has as their values, by position; it shares no splitting, trimming or indent rule with the
code. Four hypotheses say where the code can be expected to agree with it: `AsHelmWrites`
(each document begins at the margin, as the `---` and `# Source:` lines of Helm's
templates make it), `Undashed` (no text within a document has a line of three dashes),
`Indented` (the list of managedFields is deeper than its key) and `Announced` (a noisy
value of several lines begins with `|` or `>` at the end of its line). Two of them fail
for legal manifests: section 3. The others are the documented input of the tools; a
document that began with an indented key would lose its siblings.
`ReleaseReads` has every tool that reads a release, while other clients upgrade and
uninstall it. helm_status takes two reads, the stored release and its resources;
helm_history answers with every revision. An answer without a manifest is a text of any
size in `OtherTexts`; the tools with an output type send their result a second time as
structured content. `Reserve`, `Notice` and `Window` are the constants of
`TruncateResponse`, in bytes of lines whose size is what the model gives them.

## 3. Runs

| Run | Instance | Shows |
|---|---|---|
| client_concurrent | 3 calls, 2 at a time, 1 reconnection, 2 tenacity attempts, 1 fault; symmetry over the calls | sends and reconnections are bounded, mutating calls are sent once, a turn is lost only to a crash or another call, CallContract is implemented |
| client_single | 3 calls, 1 at a time, one cancellable, 2 faults, fairness | permits, CallEnds |
| session_cache | 3 tokens, 2 entries | limit, eviction order, purge |
| auth | 2 requests with one token, 2 keys, 2 addresses, 1 rotation, time up to 3, a TTL of 2, fairness | bounds on rotation and withdrawal, every request answered |
| breaker | 3 callers, threshold 2, timeout 2 | agreement of state and count, rest before probing, recovery |
| repo | 2 callers at a time, 2 names, 2 URLs, 4 calls; symmetry | no entry without an index, with overlapping calls and failing writes |
| server | 2 calls on one release, 7 requests (all five tools, one dry run, one with a heartbeat), signals and restarts, a drain of 1 | upgrade --install fits, dry runs are dry, no late heartbeat, calls end |
| server_shutdown | the same | violation: the process ends with calls in flight and time left |
| download | 2 processes, 2 versions or one, every environment, a kill, a modification | only verified files in place, own version runs, leftovers only from kills |
| local_tools | any chart or plugin call beside a call that updates the chart or removes the plugin; 2 dependencies, 1 plugin, 1 edit | complete rendering, end of helm, CallEnds |
| responses | every manifest of up to 4 lines, 9 tools, 2 revisions, a budget of 8 | exact sanitizing, the budget |
| default_client | 3 tasks, one cancellable, 1 reconnection, 1 fault | the default can be closed, nobody waits for ever |

Why the bounds suffice. The client's races need two calls inside `_reconnect`
and a third to take a freed permit; one fault already starts both
reconnections, two exhaust `MaxReconnects`. client_single is about what a call does to
itself, cancelled at any await, and to the one that waits for its permit. Two entries and
three tokens are the least for an eviction with a choice. In `auth`, one rotation and any
moves between the start and the end of a fetch, two requests for one mutex and a TTL within
`MaxTime` cover the cases of the double check; the session cache's own limits
are checked in `session_cache`. Two failures with three callers let a report
come from before the breaker opened. In `repo`, two calls under way are the least for a
race, and four let two more come after it, with a second name to lose.
In `server`, the second call is whoever changes the release between the look and the
action of the first, and more calls would only repeat it; seven requests bring the
release into each of its statuses, and a restart brings those that a killed process
leaves behind; a drain of one tick tells a drain that was used up from one that was not.
In `download`, a second process is the least for a race, two versions for a stale file,
one kill for a leftover; `ReadChunk` at a limit of one chunk meets the size limit. In
`local_tools`, the second call and the user's edit are whatever happens to the chart
and the plugin while the first call is between two of its reads. In `responses`, four
lines hold a block, its content, a blank line or separator and what follows; the texts
are empty, of exactly the limit, one byte longer and much longer, so a comparison off by
one shows, with and without a line end in the window. In `default_client`, one task holds
the client while another replaces it and a third closes it.
Symmetry is used only with safety properties over interchangeable calls, names or URLs.

CHECK_DEADLOCK is FALSE in the repo run, because a behaviour ends when its
calls are used up. All other models step for ever or stutter explicitly when done.

### Fairness

* `HelmClient!TimersAndLoop` (WF on the steps of each call): asyncio runs every
  ready task, sleeps end, `asyncio.timeout` ends an invocation, `__aexit__` returns. That
  it has ended the subprocess is not assumed.
* `HelmClient!SubprocessAnswers` (WF on the end of `__aenter__`): this is an
  assumption and not in the code, which gives the handshake no deadline. CallEnds
  depends on it.
* `SessionCache!CacheFairSpec` (WF on Cleanup): the ticker of cleanupLoop.
* `Auth!FairSpec` (SF on the steps of each request): Go's mutex hands over to a
  waiter after a millisecond (starvation mode) and `http.Client.Timeout` ends
  every fetch.
* `CircuitBreaker!FairSpec`: callers report, and time passes.
* `LocalTools!FairSpec` (WF on what the server does for a call): goroutines run, the
  SDK and its downloads return, the time limit of a helm command fires. Nothing is
  assumed of helm, of a hook's child, of the user.
* `DefaultClient!FairSpec` (WF on the steps of each task but its start and its
  cancellation): asyncio runs every ready task, sleeps and deadlines end, and a
  subprocess answers the handshake or dies; `asyncio.Lock` hands itself to its waiters
  in order.
* `ToolServer!FairSpec` (WF on the steps a call takes on its own, WF on the end of a
  notification, SF on the heartbeat's return): goroutines are scheduled; a write to a
  client succeeds or ends with WriteTimeout; select chooses among the ready cases at
  random, so the ticker cannot win against a closed channel for ever. Of the SDK one thing
  is assumed: RunWithContext gives up on a context that is done. The history query, the
  search for the chart and its dependencies and the action itself may take for ever, and
  CallEnds excepts the calls that are there. Nothing is assumed of clients and of signals.

### What the violation says

server_shutdown: ListenAndServe returns as soon as Shutdown has closed the listener,
and main does not wait for the drain (main.go:291), so the process ends with its calls in
flight. PROJECT.json quotes the lines.

More disagreements of a comment, a doc or an answer with the code were met while
modelling. The models do what the code does, so each has these behaviours; no run is spent
on them.

* **One crash, several reconnections.** `_reconnect` holds no lock over its awaits
  (tools.py:304-320). Two calls find the subprocess dead; c1 has entered a new client when
  c2, whose sleep ends later, closes it and makes its own. With `max_reconnects = 1` c1
  fails after one crash, against tools.py:9-10. TurnsLostToOthers says what does hold: each
  lost turn stands for a crash or for another call's reconnection.
* **A subprocess left behind.** By the same race: c1 and c2 both close client 1; c1 goes on
  to make and enter client 2; then c2's close() ends, clears the reference to client 2
  (tools.py:301) and c2 makes client 3. The HelmClient closes 3 at its end, and the
  subprocess of 2 was never asked to end, against tools.py:15-16. An `__aexit__` that
  raises or is cancelled has its reference dropped likewise.
* **An eviction without need.** Put makes room before it looks whether the token has an
  entry (session.go:115), against "oldest evicted on overflow" (README.md:990 of the
  repository). LosesOnlyOldest says what does hold: in a full cache, the oldest.
* **Fetches in spite of minRefresh.** A failed fetch leaves `fetched` alone (oidc.go:420),
  so while fetches fail every token with an unknown kid causes one, against the comment at
  oidc.go:374-375.
* **Several probes.** A half-open breaker lets every caller in (circuitbreaker.go:86),
  against the comment at 85.
* **An added repository is lost.** One call has loaded the file, or loads it while another
  call's write has emptied it, and writes its copy after that call has answered "Repository
  added successfully" (add.go:69). The helm CLI holds a file lock there; v4/repo.go:44 does
  not. A write that fails half-way loses entries too.
* **An entry is replaced without force_update.** Two adds of one name load the file before
  either writes; both pass the check of v4/repo.go:50, whose message says otherwise. Forced
  adds of one name that overlap may leave the index of one and the entry of the other.
* **A search that does not end.** is_python_script looks for `#!` and `python` on the first
  line (discovery.py:49). pip writes `#!/bin/sh` before an interpreter path that is too long
  or has a space, and an .exe on Windows; such a wrapper is taken for the binary, executed,
  and searches again, which the docstring at discovery.py:41-43 says cannot happen. A
  script in HELM_MCP_BINARY does the same, since nothing looks at that one.
* **managedFields that stay.** A block ends at the first line that is not deeper than its
  key (sanitize.go:97-103), so a list at the key's own indent stays, against the comment at
  sanitize.go:18. Helm passes on what the chart's author wrote, so both styles occur.
* **Dashes within a text.** A line of three dashes is a separator wherever it stands
  (sanitize.go:59): one in a block scalar is written back at the margin, and the line after
  it loses its indent (sanitize.go:38), against "without losing meaningful information"
  (README.md:820 of the repository).
* **Structured content.** A result with an output type goes out twice, and only the text
  passes TruncateResponse (common.go:280), against README.md:803 of the repository.
  BudgetKept is about the text.
* A call that took the default client before `close_default_client` may reconnect it
  afterwards (tools.py:391, 304-320), and the subprocess it starts is beyond the reach of
  a second close, against the docstring at tools.py:1054. DefaultIsClosable states what
  does hold: it is about the subprocesses that `_get_default_client` has started.
* helm_status pairs the stored release with resources it looks up later
  (v4/release.go:507-517); an upgrade in between mixes two revisions.
* Uninstall, Rollback and Test do not use their context (v4/release.go:408), so an
  operation whose request was dropped runs on, against README.md:918 of the repository.
* helm_template is listed as "only reads state" (README.md:310 of the repository), but
  with dependency_update it writes charts/ (v4/deps.go:65); the Python client may
  therefore replay it.
* helm_package offers dependency_update and hands it to the SDK's action (v4/chart.go:224),
  which never reads it (the comment at v4/deps.go:44-45): the option has no effect.
* SanitizeManifest says it returns what it cannot parse unchanged (sanitize.go:22-24);
  it parses nothing and works line by line. A noisy annotation whose value goes on below
  without `|` or `>` at the end of its line, as after `|-` or in a folded plain scalar,
  loses its first line only.
* A plugin whose hook leaves a child behind is reported as failed although it is
  installed: Run answers with ErrWaitDelay. The child may still be at work when the call
  has answered; HelmEndsWithItsCall is about helm's own process.
* Deadlines of tool calls count towards the Python breaker, since TimeoutError is an
  OSError (tools.py:124, against the comment at 120), and a read-only call gets its
  deadline anew for every tenacity attempt (tools.py:373).

## 4. Proofs

Each is for any number of calls, requests, tokens, callers or repositories, and
any limits, under the named assumptions of the modules, which TLC evaluates in
the runs.

* **HelmClientProofs.** Type correctness; PermitsAccounted (the count of the calls inside
  the semaphore, with finite-set lemmas); MutationSentOnce, SendsBounded and
  RefusedWasNotSent from one invariant `IInv` that ties `sent` to the place of a
  call, its turn of the loop and its tenacity attempt: neither bound is inductive,
  since a call about to send must not have used its turn yet.
  The refinement: every step maps to a step of CallContract or a stutter; admission
  needs PermitsAccounted, a send the strict form of SendsBounded. ReconnectsBounded:
  `InTurn` relates the reconnections of a call to its turn of the loop, since a call in
  its sleep must not have reconnected in this turn yet. From it, SubprocessesAreBounded:
  every client object but the first stands for a pair of a call and a turn of its loop
  (`Remade`, a finite set), which says what the race of `_reconnect` costs at most, for
  any bulkhead: the subprocesses that are left behind (section 3) are among them.
* **AuthProofs.** The session cache by itself (`CInv`: finitely many entries within
  the limit; LosesOnlyOldest step by step), the JWKS cache by itself (`JInv`: the
  fetch under way is younger than the HTTP timeout, and the answer it has was what
  the issuer published at a time since its start), the refinement of both by Auth, which
  carries these over to the caches behind the middleware (CachesBehindMiddleware),
  and from `MInv` (each mutex held over a fetch has exactly one holder, who is at the
  right place, with the address it fetches from) RotationSeen and WithdrawnKeyForgotten.
* **ResilienceProofs.** The breaker: ClosedBelowThreshold and RestsAfterFailure from
  `BInv`, which adds that a half-open breaker has had no failure for the whole timeout.
  The answers: SanitizeManifestIsExact and TruncatedFits are about the functions of
  `Manifests` and hold for every manifest (under the four hypotheses of section 2), text
  and limit; SanitizedExactly and BudgetKept follow from `ReadsInv`, which says of an
  answer that its text is what `Answered` makes of what the engine returned.
  The functions are folds. A fold of the community modules is a recursive function over
  sets of indices; `LeastNumber`, from the well-foundedness of `<`, gives induction over
  a *set* of numbers (`InductionTo`), which needs no operator as a parameter; `Recursion`
  and `InTurn` use it to show once that such a function exists and goes through the
  indices in order, so that each fold becomes a sequence of states (`SanitizesInTurn`,
  `PicksInTurn` ...), one for each line. Over those, `SanitizeTurn` is an invariant of
  sanitizeDocument's loop: it skips exactly what is still under an earlier noisy key, so
  that one variable is enough for blocks inside blocks (`LoopIsExact`). `SplitRejoins` and
  `TrimSpaceKept` carry this from documents to the manifest as it came: joined again, the
  documents are the manifest, and under `AsHelmWrites` trimming takes only blank lines.
* **RepoFileProofs.** For any overlap of calls and any failures, `RInv` (no call's copy
  lists a repository without an index, and one that is about to write has the index of what
  it adds) gives RepoTypeOK and RegisteredIsIndexed. The other promises of the repository
  tools do not hold when calls overlap (section 3), and are not proved for less.
* **ToolServerProofs.** From `IInv`, which relates the place of a call to its
  options (what ShouldInstall saw is what the options were made for; `seen` is older than
  the action, so the property speaks of a release that has not changed), to the
  heartbeat (there is one only between the handler and the answer) and to `owner` (an
  owner is working, and not on a dry run): ServerTypeOK, UpgradeInstallFits,
  NoLateProgress and DryRunLeavesRelease, for any number of calls and any requests.
* **DownloadProofs.** For any number of processes and versions: type correctness,
  TargetVerified, RunsItsVersion and OnlyKillsLeaveFiles. TargetVerified alone is not
  inductive: `Consistent` adds, for each process, that a file which passed its checksum
  stays what it was until it is renamed (no other process knows its name), and that what
  is installed is the version of the process unless a modification has excused it.
* **DefaultClientProofs.** For any number of tasks and HelmClients: type correctness, the
  lock is held by exactly the task inside, DefaultIsClosable. The invariant says what
  holds at each place under the lock (`Tidy`): the subprocess that is being entered is
  the default client's own, and one that is being closed is not running any more; steps
  outside the lock leave these alone because they only end subprocesses of the default
  or start their own (`Steady`).
* **LocalToolsProofs.** For any calls, requests, dependencies and plugins: type
  correctness, RendersComplete and HelmEndsWithItsCall, from an invariant
  (`Sound`) for each call that says at each place of helm_template what the chart as
  loaded is known to have: after a fetch, charts/ holds what Chart.yaml declared then.

Only model-checked: liveness (CallEnds of three modules, RequestAnswered, Recovers,
ExpiredPurged, TaskEnds), which the prover cannot treat under fairness, and
TurnsLostToOthers, whose sum over the calls needs an induction over sets. Every other safety
property and action property of a passing run is a theorem.

## 5. Not modelled, and the plan

Not modelled for good: output formatting, audit records, argument validation (predicates
over strings; a handler that refuses is one step of the model), process hardening, OBO
exchange, retry.go and timeout.go (nothing in the server calls them), packaging and CI,
the assembly of FastMCP middleware, and what the Helm SDK and the helm CLI do to charts.

What is left, in this order:

1. **Stdio mode** of `main.go` with the release tools, where the end of the process is
   the end of stdin.
2. **Proxy middleware** (`resilience.py`): cache and rate limit in front of fastmcp.
