# trillium-cli in TLA+

A verification project for the `trillium` command line tool (`src/`): TLA+
modules that model the parts of the program with behaviour of their own, TLC
configurations that check them on small instances, and TLAPS proofs of what
matters most for every instance.

`trillium` is a collection of subcommands. Most of them parse options and hand
over to handlers of the trillium crates. The one with a life of its own is
`trillium dev-server`: it watches sources, runs cargo, starts and retires app
processes, moves a proxy from one to the next, and keeps browsers informed over
websockets. It runs five kinds of threads and an unknown number of processes,
and its tests reach none of that. It is the core of this project.

## Inventory

| part | state | operations | interacts with |
|---|---|---|---|
| **Supervisor** (`dev_server.rs`, `Supervisor`) | `exe`, `child`, the sticky `status`, the table of open targets, the proxy's port | `run`, `build`, `spawn`, `stop`, `hot_swap`, `broadcast`, `publish_targets` | receives triggers; starts apps; moves the proxy; broadcasts |
| **reap_child** | how many signals an app was sent | signal, wait 12 s, signal, wait 100 ms, SIGKILL, wait | owns an app's handle, on a thread of its own or inside `stop` |
| **app processes** | running, listening, draining, exited, collected | external: bind, drain, exit | signals, the proxy |
| **file watcher** (`watch_loop`, `record_changed`) | the burst being coalesced and whether it is relevant | collect, be quiet, trigger | notify, the trigger channel |
| **SIGHUP thread** | none | trigger | the trigger channel |
| **event channel** | last 16 events, one position per receiver | broadcast with overflow, receive | supervisor, websocket handlers |
| **live_reload** | a receiver per connection | subscribe, replay the status, forward events, answer clicks | channel, status, target table, browser |
| **page script** (`dev_server.js`) | pill, overlay, websocket | message, close, click, reconnect | live_reload |
| **dev-server proxy** | the upstream port | forward, or the "starting up" page | apps, browsers |
| **watch scope** (`resolve_watch_dirs`, `workspace_crates`, `resolve_ignore_dirs`) | the directories under watch, the ignored prefixes | choose seeds, walk cargo's dependency graph, resolve paths | cargo metadata, the file system, the file watcher |
| **dev-server command line** | none | split shell words, start an editor, add build flags | |
| **bench** (`bench.rs`) | request budget, counters, histograms, in-flight count | closed loop, open loop, execute_request, report | the server under test |
| **gateway** (`gateway/`) | the configuration, one server per binding, the shared swansong | load, validate, bind, announce, wait for a signal, drain; route by host, choose a certificate by SNI | trillium servers |
| **serve live reload** (`serve/live.rs`, `live.js`) | the tick channel, a receiver and a websocket per page | watch, coalesce, broadcast, forward, reload, reconnect | notify, browsers |
| **serve** (`serve.rs`, `serve/render.rs`) and **gateway routes** (`gateway/build.rs`) | the conn of each request | put handlers one after the other, render what was asked for, put back what was not | files, upstreams, browsers |
| **directory listing** (`directory_listing.rs`) | the entries read so far | open, read, sort, link | the file system, the routes above it, browsers |
| **client** (`client.rs`) | the body on its way, the answer on its way out | probe stdin, send, send again, print, save, stream events | servers, the processes at both ends of its pipes |
| **proxy, cache, rate limit, TLS, DNS, gRPC, assets** | none that outlives a request | options to handlers | other crates |

What is hard in this code, and what makes it correct:

* *Processes and failure.* Starting an app can fail, an app can crash at any
  point, ignore its signals, or never listen. No process may be lost, two may
  never fight for a fixed port, the proxy must be elsewhere before an app is
  retired, and a pid must not be signalled after its exit was collected.
* *Interleaving of builds and edits.* Edits, SIGHUPs and crashes fall into
  builds and swaps. Every edit must be compiled in the end; ignored files must
  not start a build.
* *A broadcast is not atomic.* The sticky status and the channel are updated one
  after the other while tabs connect, overflow, reload and lose connections. A
  tab that has caught up must show the current status.
* *Counting under concurrency.* Bench workers share a budget; an open loop caps
  the requests in flight; warmup is to leave no trace in the report.
* *Feedback and loss.* `serve --render` reloads pages when files change, and a
  reload reads files: that must not go round in a loop, and no interleaving of
  changes, bursts, a full channel and reloads may forget a page.
* *Routing and shutdown.* The gateway chooses a host four times (handler,
  before_send, upgrade, certificate), and the four must agree. Its bindings come
  up one after another and serve meanwhile; when one fails, or a signal comes,
  nothing may be cut off.
* *Handlers that undo each other.* Whether an answer is a file, a listing or a
  page is decided by several handlers that see only the conn: a directory must
  not be rendered, a page must not keep the file's validators, a link must lead
  where it says below any mount, and the directory may change between any two.
* *Pipes.* The client's body may come from a pipe that is read once, its output
  may go to a pipe whose reader leaves, and attempts may be made again. What was
  given must arrive whole, and what was cut off must not pass for an answer.
* *A graph and a file system nobody controls.* The watch scope is computed from
  dependency graphs with cycles and from paths that may not exist yet; a crate
  too few and edits are missed, a path too many and builds trigger themselves.

`PROJECT.json` lists every hazard with its line.

## Modules

| module | what it is |
|---|---|
| `BuildEvents` | abstract specification: in which order build events are broadcast, what the sticky status is, when the proxy has a new app |
| `Supervisor` | the supervisor thread, the processes it starts, and `reap_child` |
| `SupervisorProofs` | theorems about `Supervisor`, that it implements `BuildEvents`, and about `DevServer` |
| `LiveReload` | channel, websocket handlers, page script, driven by `BuildEvents` |
| `Watcher` | the debounce of the file watcher |
| `DevServer` | `Supervisor` and `Watcher` around the trigger channel |
| `WatchScope` | what the dev server watches and ignores, from cargo's metadata and the command line |
| `WatchScopeProofs` | the walk finds exactly the needed members; ignored paths stay quiet; every other edit triggers |
| `Bench` | the load generator: workers, launcher, requests, counters, the report |
| `BenchProofs` | theorems about `Bench` |
| `VirtualHosts` | pure: patterns, choice of a host block, choice of a certificate |
| `Gateway` | the gateway's main thread, its servers and their requests, around `VirtualHosts` |
| `GatewayProofs` | theorems about both |
| `ServeLive` | live reload of `serve --render`: watcher, tick channel, handlers, pages |
| `ServeLiveProofs` | theorems about `ServeLive` |
| `LiveReloadProofs` | what a caught-up tab shows, and what a click there opens |
| `Listing` | pure: the order of a listing, its queries and its links |
| `Render` | pure: which format is asked for, and what `?render` makes of a file |
| `Files` | requests through the handlers of `serve` or of a gateway route, a browser that follows the links, a directory that changes |
| `FilesProofs` | an answer with a file's validators has the file's bytes; no text is lost but the lines that cannot be highlighted; `?render` rows show pages; every link of a listing leads where it says; a click on a header turns the rows over |
| `Client` | one run of `trillium client` between stdin, the server and stdout |
| `ClientProofs` | requests are repeated only when they may be, and as often as asked; each attempt carries the whole body; what is piped on is the answer, whole when the client says so |
| `MC...` | the instances TLC checks, one for each module with runs |

`LiveReload` needs nothing of the supervisor but `BuildEvents`; `Supervisor` is
shown to implement `BuildEvents` under the mapping of its definitions `Phase`,
`Step` and `Up`, by TLC on an instance and by proof for all. So what LiveReload's
runs show for its tabs holds below the real supervisor, without exploring the
product of the two.

### Supervisor

The thread is sequential; `pc` names the places where it waits or where another
thread can see what it has done so far. One action is one stretch between them:

| code | actions |
|---|---|
| `run`: `recv_timeout` gives a trigger / times out and `try_wait` finds an exit | `Trigger` / `ReapCrashed` |
| `build`: cannot run cargo, or no binary / failure / success | `BuildWithoutEvent` / `BuildFails` / `BuildSucceeds` |
| `broadcast`: the locked block / the channel | `BroadcastStatus` / `BroadcastSend` |
| `hot_swap` up to `spawn`; `stop` | `BeginSwap` (in `BroadcastSend`), `StopReturns` |
| `spawn`: the process is started / is not | `SpawnStarts` / `SpawnErr` |
| `wait_until_listening` and `set_port` | `AppIsListening`, `ListenTimesOut` |
| the rest of `hot_swap` | `HandOff` |
| `reap_child`: each signal / the exit is collected | `ReapSignal` / `ReapExited` |
| the apps | `AppListens`, `AppDrains`, `AppExits` |

A timeout of `recv_timeout` that finds nothing changes nothing and is a stutter.
The three places that start an app (first build, hot swap, restart after a crash)
share the actions from `spawn` on: with `old = None` the code after `spawn` is the
same in all of them. `Disconnected` cannot happen, because the SIGHUP thread
keeps a sender for the life of the program.

Versions stand for contents: `sources` counts the relevant edits, a build takes
the version it starts from, the executable keeps it, a process remembers which
executable it runs. A build reads the sources at its start; an edit while cargo
runs may or may not be seen by cargo, and the model takes the worse case.

### BuildEvents and LiveReload

Each tab has a connection (`sock`), a receiver (`rx`, `lost`), messages under way
(`wire`), a click under way, and what it shows (`view`). `rx[t]` holds the events
of the channel that the receiver has not taken; the receiver that
`DevServer::run` keeps for good makes the channel hold the last `Capacity` events
always, so a receiver is overtaken exactly when it lags by that many. Handler
steps are split where it awaits: making the receiver, reading and sending the
status, forwarding one event. `Load` is a page load through the proxy: it gets
the app's page or the "starting up" page, and ends the old page's connection.

### Watcher and DevServer

`Collect` receives one notify event, the first of a burst or a further one;
`StayQuiet` and `SendTrigger` are the two ends of a burst. `relevant` is the local
of the loop; `unanswered` is a history variable: something relevant was notified
and no trigger was sent since. `DevServer` adds the trigger channel between
watcher, SIGHUP thread and supervisor. `record_changed` looks at the paths of an
event and never at its kind, so `NothingNew` lets relevant events come that bring
nothing new: rustc or an editor opens a source, its metadata change, or a save
delivers several events.

### WatchScope

`ChooseSeeds`, `Walk` and `Resolve` are the parts of `resolve_watch_dirs` and
`workspace_crates`; `StartWatching` is the beginning of `watch_loop`, and
`Change` is one event with one path on its way through `record_changed`. The
stack of the walk is a set, because neither order nor repetition matters to
`closure_ids.insert`. Directories may appear at any time (`Appear`), between
resolving and watching too. Paths are sequences of components with `..`, which
`canonicalize` resolves and `join` does not; symbolic links are left out.

### Bench

Each worker of a closed loop, and each launched request of an open loop, is a
task with its place in the code. A load of the budget and the compare-and-swap
are two actions, as are the launcher's look at `in_flight` and its count of the
new request. `Stats::record` is one action although it is several atomic
additions: nothing reads two counters together before every task has ended. A
histogram ends at three minutes and `record` fails for what is longer; the code
ignores that, so such a success is in none of the report's percentiles
(`Fitting`, and the history variable `overlong`).
`Closed` and `HasDeadline` tell the modes apart. The flag `stop` is only ever
read in the code, so it is not modelled; a rate of 0 or less, which the
arithmetic of the launcher does not survive, neither.

### Gateway

`pc` is the place of the main thread. A request moves from `accepted` through `routed`
and `sent`, and perhaps `upgraded`, back to `none`; the servers, TLS, the routers and
the swansong are external, and modelled by what the gateway is told of them.
`NormalizedHost` is set exactly when the `HostRouter` selected a router, so `Remembered`
is derived; `Returns` is what `before_send`, `has_upgrade` and `upgrade` make of it. A
binding without `host` blocks has its router in the place of the `HostRouter`, and that
one asks nothing first (`build.rs:270`): it finds its route again for every response,
also for the rate limiter's. What can be wrong with a binding that is not noticed on
load (a certificate, a size, an address) is the field `sound`; whether an address is in
use is decided by the address alone.

### ServeLive

`Collect`, `Tick` and `StayQuiet` are the loop of `watch`, `burst` its
`relevant`; `Forward`, `Overflowed` and `Disconnect` are the outcomes of the race
in `reload`. Ticks are alike, so a receiver holds a number of them; `kept` is the
length of the channel's queue, which only grows, because `_keepalive` never takes
a tick. `Load` is a page load: it reads the file (`seen`), which notify reports
as an event of its own. `Stop` and `Start` are a restart of the server. `since`
is a history variable: the version from which on a page can expect to be told.

### Listing, Render and Files

`Files` has one conn, because handlers keep nothing between requests: `stage` is
"run" while the handlers are asked one after the other (`at`), "list" while
`DirectoryListing` reads its entries, and "send" when one has halted or none did;
`Send` runs `before_send`, which is where `Render` acts (`RenderSends`), and after it
the assets' `Etag` (`EtagSends`), which gives a page without a validator one of its own.
A listing may fail while it is read (`ReadFails`). A configuration is the
stack of handlers that `StaticCli::run` builds from its flags (`ServeConfig`) or
`route_stack` from a route's directives (`RouteConfig`), with the mount that the
router cuts off. The files handler is external: it sends a file or an index,
partly or not at all when asked so, and leaves a directory to the next handler.

A path is a sequence of separators and segments, and a segment carries how often
its name was percent-encoded: that is what `raw_href`, the rows and the decoding
disagree or agree about. Each segment of a path that is typed may be encoded or not;
the file handler decodes what is encoded once (`Decodes`), whatever of it was. The
assets decode nothing, and answer before the files do: an entry at their path
is shadowed by them (`IsAsset`, `assets.rs:16`), also when the listing has a row for it.
The listing's links go into the page as they are; a browser reads an `&` in them as a
character reference when it begins one (`Read`, `Mangled`), and a link encodes it only
where the listing itself wrote it. A line on which the highlighter gives up (`Hard`) is
a `Gap` of the page. A file is a content; a content that is text has markdown
events, over which `markdown_to_html` is a fold. `Edit` changes the directory
between any two steps, so an entry may be gone when its metadata are read, and a
row's file may be another one when it is clicked.

### Client

`pc` is the place in `run`. `build` reads the probed byte of stdin and chains it
to the rest; an attempt is `StartAttempt`, the upload, and its end by an answer,
a failure or `--timeout` (`AttemptOver`), which `RetryHandler` either repeats or
passes on. The `-v` logger prints per attempt. `output_body` copies parts of the
answer through `Unblock`, whose thread (`WriteOut`) writes on its own and fails
when the reader of stdout has gone; `response_json` buffers; `stream_sse` writes
and flushes each event. The end of an answer arrives after its last part
(`AnswerEnds`), or never. `-v` and `-q` set the log level: `Verbose`, and what
`Report` lets through. `exit` tells apart the code 0, the code of an error and
a panic, which the code uses for most failures after the head.

## Runs

| run | instance | shows |
|---|---|---|
| `supervisor_pinned` | 3 processes, 3 versions, 1 queued trigger, one fixed port, fairness | exclusion on the port; `Restarted` comes with the newest executable behind the proxy, which has come up unless the wait gave up; no signal after the collection; `Supervisor` implements `BuildEvents`; apps go, crashes are noticed |
| `live_reload` | 1 tab, 2 error lists, channel of 2, socket of 1, fairness | tabs agree with the status; a click opens what the overlay shows; `Restarted` reloads; tabs catch up after an overflow |
| `dev_server` | 2 processes, 2 versions, a port per process, 2 triggers, 1 notify event, a watched and an ignored path, fairness | safety of hot swaps: no process is lost, the proxy leaves an app before it is retired; a burst triggers when something relevant came and only then; every edit reaches a build |
| `watch_scope` | 6 command lines, 5 packages | exactly the needed crates are watched; every edit triggers; ignored paths are quiet |
| `watch_scope_late_ignore` | the same | **violated**: an ignored `../dist` that a build creates is not ignored |
| `bench` | 3 tasks, a budget of 2, cap 2, 3 sends, 4 tickets, fairness | the budget is given out once, the cap holds, the report adds up and is made |
| `serve_live` | 2 tabs, 3 changes, channel of 1, 1 notify event, fairness | no reload is lost; serving files causes no reload loop |
| `gateway` | 7 configurations with up to 2 bindings, 6 kinds of request, 2 at a time, fairness | nothing is cut off by a drain; the banner is true; stages and certificate agree; shutdown ends |
| `files` | 7 stacks of handlers, 8 paths below the root, 4 contents, 2 lines that cannot be highlighted, 1 change, typed and followed links | links lead where they say; clicks on headers turn the order over; `?render` agrees with the listing; no text is lost, but for those lines; validators fit the body |
| `files_raw_link` | the same | **violated**: the raw link of a page whose name is encoded leads elsewhere |
| `client` | 17 command lines, 6 answers, bodies of 2 and 3 bytes, 2 retries, fairness | attempts carry the body whole; retries as asked; clean and whole output; the end in time |
| `client_dry_run` | the same | **violated**: `--dry-run` with `--file` and `--body` shows the body that is not sent |

*Bounds.* In `supervisor_pinned` three processes are the app that serves, the one that
replaces it, and the successor of that one after a crash; a fourth repeats the first.
When processes run out, `SpawnStarts` is disabled and only `SpawnErr` remains, which is
what the code does when the system refuses. `MaxVersion` 3 lets an edit fall before,
into and after a build. `MaxQueue` 1 loses no behaviour of the supervisor, which looks
at one trigger at a time; it delays edits, and the `dev_server` run, with 2, has both
senders at once. That run has two processes, two versions and build errors without
locations: one app and the one it is swapped for, which serve side by side for a while.
That what it shows of swaps holds for longer chains of them, with an app being reaped,
an `old` and a `child` at once, is what the proofs are for. One tab is enough because
tabs share nothing but what the supervisor writes. `Capacity` 2 stands for 16: the
properties speak of being overtaken, not of how far. `CHECK_DEADLOCK FALSE` is set where
the bounds on edits let everything come to rest.

In `watch_scope` five packages give a cycle, a nested member, a chain of two
dependencies and a way out of the workspace and back; the properties are about
each file alone, so one change at a time is enough. In `bench` three workers
race for a budget of two, and three tasks are one more than the cap. In `gateway`
two bindings are one that is up while the other is not; two requests, one that ends
while the other stays. In `serve_live` a channel of 1 stands for 8: three changes fill
the websocket, the receiver, and overtake it. Two tabs are there because the
reload of one is an event for the watcher, which the other must not notice.

In `files` one directory has a name with a space, and two names that differ in case
only; another a name that reads as a character reference, and a file on the assets'
path. Paths are typed with such names encoded, not encoded, and with a name encoded that
need not be. There is a text with code blocks with and without a known
language, one that only its first line identifies and one that is not text; the
highlighter gives up on a line of a block and on one of a file.
One change is enough to come between any two steps of a request; the directory
is two levels deep, so the parent link goes to the top and the top has none. In
`client` two retries tell attempts from retries, and a stdin of three bytes has
one that is probed, one that is chained and one that may come late.

*Fairness.* Threads are scheduled, cargo terminates, the timed waits of
`wait_until_listening`, `wait_for_exit` and `recv_timeout` end, and a process that was
sent SIGKILL dies. Nothing is assumed of apps (they need not listen, heed a SIGTERM or
crash), of people (no edit, click or reload has to happen) or of connections. Bench's
requests are answered or cut off only with `--timeout` (`limited`), which bounds the
wait for the head of an answer; nothing bounds its body, so nothing is assumed of
bodies. In the gateway a request that was accepted gets its response, while an upgraded
connection may stay. In `LiveReload` a quiet supervisor may stay quiet. In `ServeLive`
the server need not be started again, nor a file change. The client's own steps and its
timer run, and who reads its stdout reads on or goes; a server need neither answer nor
end an answer it began, and nobody has to write to stdin. `Files` and `WatchScope` are
checked for safety only, without fairness.

*Conditional liveness.* `CrashNoticed` assumes that triggers let up, because the
code looks for a crash only when `recv_timeout` times out; `EditReachesBuild` and
`ChangeReloads` assume that notify events let up, because each one restarts the quiet
that ends a burst; `TabsSettle` speaks of a supervisor that has come to rest;
`ReportIsMade` excepts a run with a request that hangs for good, in its body or,
without `--timeout`, before its answer: the main task waits for it past any
`--duration`;
`ShutdownCompletes` excepts upgraded connections, which hold the swansong;
`EndsInTime` assumes `--timeout` and that a stdin which has to be probed says
something or is closed, and it excepts an answer that has begun and never ends
(`Awaiting`), an event stream for one: `--timeout` only bounds the wait for the
head.

## Disagreements with the documentation

Three runs are expected to be violated; each checks a sentence of the
documentation or of a comment, and its counterexample is a behaviour of the code.

1. `watch_scope_late_ignore`: the comment on `resolve_ignore_dirs` says that a
   path that does not exist yet still matches once it appears. With `..` in it,
   it does not: the joined form keeps the `..`, the paths of events have none,
   and the build output meant to be ignored starts the next build.
2. `files_raw_link`: the comment on `raw_href` says that the raw link resolves
   back to the file. For a name that was encoded in the request's path it
   encodes the encoded name once more.
3. `client_dry_run`: the guide says that `--dry-run` shows exactly what would go
   over the wire. `build` prefers the file, `print_request` the `--body`.

More that the models show or that reading them against the source did, without a
run of their own:

* Dev server: the guide has `rebuilding…` shown while cargo runs, but when cargo cannot
  be run, or gives no binary, nothing follows `Rebuild`. The "starting up" page says
  that it reloads, but if its websocket has its receiver only after `Restarted` was
  broadcast, it waits for the next build. The guide (`docs/guide/dev-server.md`, "The
  browser overlay") says that a page reloads when the app is listening again, and the
  comment on `spawn` that the previous app serves until the new one is ready; but after
  ten seconds `spawn` warns on the terminal, moves the proxy all the same, `hot_swap`
  retires the app that served, and browsers are told to reload. `RestartedMeansNewest`
  therefore says that the app has come up *unless* the wait gave up (`heard`). Sources
  that a build reads, or a save that takes longer than a burst, count as changes: a
  build may be followed by one with nothing new, and by a swap. The ids of the overlay
  are positions in a table that the next failed build replaces, so a click under way
  then opens the new build's location. A member reached only through a patched registry
  crate is not watched.
* Bench: the guide says that warmup discards statistics; bytes sent and the errors
  of broken-off bodies are counted all the same. Its percentiles are those of the
  successes that took less than three minutes; the others are counted as successes
  and left out without a word. `--timeout`, "per-request timeout" in the guide, does
  not bound the body, and `--duration` no request that is under way.
* Serve: the help of `--forward` and the README say that files are looked for
  first and the rest is forwarded; the code and the guide ask the upstream first.
  The comment before `Render`'s `before_send` speaks of files, but it renders
  bodies of the upstream and of the assets too. A comment in `spans` has "emit the line
  un-tagged and carry on" for a line that fails to highlight (`render.rs:205`), but the
  error is all that is dropped there: the highlighter returns it before it has written
  anything of the line, so the page goes on without the line. `NothingLost` promises
  the other lines, each in its place. The comment on the name as a tie
  break says that a descending sort fully reverses the list: directories stay in
  front, and names that differ in case only keep the order they were read in.
  `live.js` says that a page reloads once the server is back, but its `close`
  listener only connects again, so what changed meanwhile (or between the answer
  to a page and its websocket's receiver, or when a receiver was overtaken) stays
  unseen until the next change.
* Listing: a path with doubled slashes is served like the one without, but the links
  of its page are not the same. For `//` the base of the links is not `/`, so
  the page of the top has a parent link, and its rows' links `//name` are for a browser
  another host. `LinksLead` therefore speaks of paths without doubled slashes. Nor
  does it of a path with an `&` that begins a character reference and was not encoded
  in the request, as in `/x&copy/`: `render` writes the path into its links as
  it was typed, without escaping it. Every other mixture of encoded and unencoded names is
  covered. A file `_css/base.css` (one segment in the model, `Css`) has a row, but what the
  row leads to is the embedded asset, as the comment in `assets.rs` says of its paths.
* Gateway: `normalize` takes the last colon of an IPv6 host for that of a port;
  `print_startup` announces `http` for a binding whose certificates are in its
  host blocks. The rate limiter's 429 passes the directives of a binding without
  host blocks, which act in `before_send` (its `headers`, say), and not those of a
  host block; and `host.rs:8` says nothing is stashed in conn state, though the
  normalized host is. A wildcard captures without the slash at its end, so a proxied
  request loses its trailing slash, which the guide's examples do not tell.
* Client: the guide says that a URL without a scheme is taken for `http://`;
  `parse_url` takes `httpbin.org/json` for one that has a scheme, and fails. A
  request that fails and an event stream that breaks off exit with code 0 and an
  error in the log, and with `-q` without that, too: then the exit tells nothing
  from an empty answer, or from a stream that the server closed. A stdout that
  cannot be written for another reason, a full disk, ends a copy like a reader that
  has gone; `reader` stands for both.

## Proofs

`SupervisorProofs` proves for any set of processes, either port policy, any
bounds and any set of diagnostics, from the assumptions of `Supervisor` (no
process is `None`, the fixed port is none of the processes, `NoEvent` is no
event):

* `TypeCorrect`, `OrphanFree`, `PinnedExclusion`, `HandoverFirst`,
  `RestartedTruthful`: the safety invariants of the runs;
* `SignalsReachOwnApp`: the action property of `reap_child`;
* `Refinement`: `Supervisor` implements `BuildEvents`.

None of the invariants is inductive alone. `NoOrphan` says that every live
process has an owner, but not that an owner holds at most one process or when it
may let go of it. `Ownership` adds that: at which points of `pc` there is a
`child` and an `old`, that they differ, that nobody collects a process but its
owner, and that with a fixed port a process is reaped only while `stop` waits for
it. `Broadcasting` ties the event being broadcast to `pc` and says what the
proxy and the new app are between `spawn` and the broadcast of `Restarted`; that
the listener which ended the wait is the new app, also on a fixed port, follows
from `NoOrphan` and `Ownership`.
`IInv` is their conjunction with the properties; each conjunct has a lemma with
one step per action, `Invariance` puts them together, and `PinnedExclusive`
follows from `NoOrphan` and `Ownership`. The refinement proof has one step per
action of the supervisor, mapped to an action of `BuildEvents` or to a stutter.

The same module then proves about `DevServer`, where an edit reaches the
supervisor only through notify, a burst and the channel: `DevSteps` says that each
step of it is one of `Supervisor`, or changes the sources or the queue alone, so
`IInv` stays invariant (`DevInvariance`, `DevSwapsAreSafe`). `TriggersAlwaysAnswer`
proves `TriggersAnswer` from `Unanswered`: what is relevant and came since the last
trigger is in the burst or still in the inbox, which is empty when a burst ends.

`WatchScopeProofs` proves, for any workspace, that the walk finds the least set
of members with the seeds in it that is closed under dependencies
(`WalkIsExact`). `Walking` is the invariant of the worklist: the seeds, and what
a visited crate depends on, are visited or waiting, and nothing else is.
Induction is not needed there, because `Required` is defined as an intersection.
`IgnoredStaysQuiet` needs `Ignoring`: directories only come, so a path that could
be resolved at the start is resolved. `EditsReach` proves `EditsTrigger`, the
other half: an edit of what matters that is not ignored triggers. `Watching` says
that each directory that matters is about to be watched under some spelling and
then is watched under its own, and that every ignored prefix was asked for;
`Rooted`, that no directory is there without those above it, so what an ignored
prefix is a prefix of lies below a directory. How paths resolve is a fold;
`RealOfPlain` (a path without `..` is its own canonical form) is proved by
induction over its length. `DirAssumption` says what `canonicalize` gives:
directories without `..`, each below others that are there; `IgnoreAssumption`
leaves out an `--ignore` of the root or of a single file, because in the model
only directories can be there or not. `Wanted` names the `--watch` directories
that were there at the start; the code warns about the others.

`BenchProofs` proves, for any number of workers, requests and any cap:
`TypeCorrect` (no counter wraps round), `CapHolds`, `CountersAlwaysExact`,
`ReportAlwaysAddsUp`, and `RequestsReported`, which needs that there is at least one
worker. The sets of tasks in each state are counted with lemmas about what a task
that enters or leaves does to a cardinality (`Enters`, `Leaves`, `Stays`);
`Stages` ties the counters to those sets, and `CapRespected` says what the
launcher knows between its look at `in_flight` and its count. `ReportAddsUp`
speaks of the end; `Reporting` is what it is before: a body that broke off is an
error already and completed only later, a success is in every histogram it fits in
(`HistogramsFit`), and a ticket is with the launcher or with a task until it is
completed or dropped.

`GatewayProofs` shows first, for any binding and name, that routing and SNI choose
alike (`RoutingAgreesWithSni`, from `Least`: `Min` of a set of naturals is its
least element), then that `IInv` is an invariant: `Progress` says which bindings
are up at each place of the main thread, `Resolved` what a request has left
behind at each stage. From it follow `TypeCorrect`, `GracefulEnd`,
`BannerIsWhole`, `StagesAlwaysAgree` and `CertificatesFit`, for any
configurations whose blocks are numbered from 1.

`ServeLiveProofs` proves `TypeCorrect` and `NoReloadLost`, for any tabs, changes
and capacity. `ReloadUnderWay` is inductive once the types are known: each step
passes what lies ahead of a page on, from the queue of events to the burst, the
receiver, the socket, or ends the page's connection.

`LiveReloadProofs` proves `TypeCorrect`, `OverlayAlwaysCurrent` and
`ClickAlwaysOpensShown`, for any number of tabs, any capacity of channel and
sockets and any lists of errors whose locations are numbered, from the
assumption that `NoEvent` is no event. `OverlayIsCurrent` speaks of tabs with
nothing under way. Its inductive form `Current` speaks of the newest event under
way: in the receiver, else in the socket, else shown; unless the page is about to
reload or its receiver was overtaken, that event is the sticky status.
`Announced` covers the moment between `SetStatus` and the broadcast, `Fresh` the
time before the status is read, and `TableFits` ties the table of open targets to
the status or to the errors that are about to be announced. Because `Supervisor`
implements `BuildEvents`, the theorems hold below the real supervisor.

`FilesProofs` proves `TypeCorrect` and `ValidatorsAlwaysFit` for any stacks of
handlers, any directory and any links. `ConnFits` is the invariant between the
handler that answers and `before_send`: a whole answer with an etag has that
content. The proof of `SendFits` is about the one place that may break it, the
three ways `Render` ends, and what `Etag` does with each (`Sent`).

`NothingIsLost` proves `NothingLost` for any markdown and any lines on which the
highlighter gives up. Its heart is `MarkdownKeepsText`: the blocks that
`markdown_to_html` makes of the events match the text of the source, line by line.
`Keeps` is the invariant of the fold (what has been written, then the block that is
open, is the text so far), and the conn's `ConnHolds` says that a whole answer with a
source has that source as its body until `before_send`. `EventsAssumption` is what
pulldown-cmark promises and the code relies on: a code block ends before another begins
and before the input does. Without it the text of an unfinished block would be lost.

`RenderLinksRender` proves `RenderLinkRenders`. `Linked` follows a `?render` row
from the listing that has it, over the browser and the request, to the answer:
every path is a sequence that starts with a separator (`IsPath`), the lemmas about
trimming, cutting and appending keep it so, and a row's last segment has a
renderable name, encoded as the row has it, so that `before_send` finds its extension
and the browser reads the link as it was written. `RowRenders` then joins the three
places that have to agree.
`ConfigAssumption` ties a configuration's `renderable` to its stack the way
`StaticCli::run` does (a listing knows of `?render` only when `Render` is there,
and then there is no router), and `TypedAssumption` says that a request's path
starts with `/`.

`LinksAlwaysLead` proves `LinksLead` for any mounts and any names. It rests on lemmas
about paths that grow by one piece: what `Segments` keeps (`SegmentsAppend`), what
trimming takes away (`TrimEndIs`, `TrimStartIs`), when a path is below the mount
(`RestIs`, `BelowTheMount`). From these, `PrefixIsMount` shows that the prefix which the
listing infers by comparing the whole path with the one the router passed on is the
route's mount; `RowLeads`, `ParentLeads` and `StyleLeads` that the three kinds of links,
built from that prefix, are resolved to what they were built for: each piece of the
page's path that is read as it is written (`Legible`) stays so in its links, and each
that can be decoded (`Coded`) can be. `AssetIs` shows that the assets stand in front of
one entry at most. `Led` carries this from the request to the page: what is resolved is
what the path names, entries read so far are entries, and a listing under way has links
that lead. A mount has no slash at its end and only a router mounts (`ConfigAssumption`:
it is what is before `/*`), and the stylesheet's name is not the separator and needs no
encoding (`PathAssumption`).

`ClicksTurnOver` proves `ClickTurnsOver` for any entries. `Compare` is reduced to
three integers (`CompareIs`), so that what precedes what, with the position as the
last tie break, is a strict total order (`PrecedesIsOrder`). A row's place is the
number of rows before it; places are all taken once (`PlacesAreTaken`, by counting),
so a sort is a permutation in order (`SortIs`) and the only one (`SortedOnly`).
`TurnedOver` and `TurnedBack` compare the two arrangements; rows that tie keep
their order both times, which is what brings the page back as it was. `Listed` is
the conjunction of all invariants of this module.

`ClientProofs` proves `RetriesAlwaysAsAsked` for any command lines, any number
of retries and any answers. `Room` says that an attempt that is followed by
another left one to spare. `BodiesAreWhole` proves `BodyWhole` for bodies of any
length and any pace of stdin: `Carried` says where the body comes from (`Source`),
that what is at hand goes on where the last attempt's bytes end (`GoesOn`), and
that an attempt is marked whole only when stdin is closed. It needs `Room`: a
stream, which could not start again at its first byte, is never sent twice.

`PipedOutputIsClean` and `PipedOutputIsWhole` prove `OutputClean` and
`OutputWhole` for answers of any length. `Printing` has a part for each way the
output takes: collecting JSON, copying through the thread of `Unblock`, where
stdout, the thread's buffer and what has yet to come make up the answer
(`Behind`), events that are flushed one by one (`Streaming`), and a file
(`Saved`). `Nothing` says that all of it is empty when an attempt may still be
made again, and `Over` what the exit may claim: with `-q`, where errors are silent,
that what came out is whole, nothing, or the beginning of an event stream
(`Hushed`), never that of a body. They assume what clap enforces
(`conflicts_with` between `--sse` and `--output`) and that an answer has parts.

Folds and induction. The provers have neither, and the library's theorems about
them take an operator. `Induction` states induction over the naturals for a set
instead, and is proved from `WFMin`; `FoldExists` gets from it the function of a
fold's intermediate results (`IsFold`), over which the folds of `WatchScope` and
`Render` are reasoned about step by step.

Only model-checked: the liveness properties, which are out of reach of the prover
(`RetiredGone`, `CrashNoticed`, `RestartReloads`, `TabsSettle`, `EditReachesBuild`,
`ReportIsMade`, `ShutdownCompletes`, `ChangeReloads`, `ReloadsLetUp`, `EndsInTime`).
Every invariant and every action property of the passing runs is proved.

## Not modelled

* Time. Timeouts are choices; durations do not matter to the properties.
* `free_port` finding a port that another process takes before the app does: a
  rotating port is named by its process. Foreign processes on the fixed port.
* The contents of diagnostics, beyond their locations; terminal output.
* More than one connection per page; the browser ends a page's connection with
  the page.
* In `Files`: paths with `.` or `..`, with encoded slashes or with backslashes; names with
  a `%` of their own, and those that are no Unicode, which `to_string_lossy` changes;
  redirecting `/dir` to `/dir/`, symbolic links, HEAD, the script that
  live reload adds to pages, routes without a wildcard, and the rewriting of
  headers and HTML. Compression and conditional requests are trillium's; a
  conditional request is one of three kinds.
* In `Client`: redirects, the encoding of bodies, and the output file that is
  truncated before the answer's body has come. A `--retry` of 2^32 - 1 overflows.
* The parts marked `not_modelled` in `PROJECT.json`, with their reasons there.

## Plan

What is left, in this order:

1. Gateway upstreams: the paths that are joined, with the slashes at both ends of
   a base, a capture and an exact route.
2. Pure operators: rates of the rate limiter, the tiers of the cache.
